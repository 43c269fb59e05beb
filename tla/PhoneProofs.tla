---------------------------- MODULE PhoneProofs ----------------------------
(***************************************************************************)
(* Theorems about three parts of the phone, for all values of the          *)
(* constants.                                                              *)
(*                                                                         *)
(* Of ExpenseSplit: the shares that are stored are fair and add up         *)
(* (EveryShareIsFair), they are those of the last summary                  *)
(* (WhatWasSeenIsStored), and a form becomes neither two expenses nor none *)
(* (NoneTooManyNoneTooFew).  SplitInv is their inductive invariant.        *)
(*                                                                         *)
(* Of ChainSearch: no block is skipped, for all sizes of windows, margins  *)
(* and lags (NothingIsMissed); and what is said of the operation is so,    *)
(* for all transactions it may be in (VerdictsAreTrue).                    *)
(*                                                                         *)
(* Of PhoneSession: whoever signs out stays out (SignedOutForGood), and    *)
(* the screens show the data of the session shown (ScreensAreOfShown).     *)
(* SessionInv is their inductive invariant: it follows what is still       *)
(* wanted through refs, attempts and the queue of writes to storage.       *)
(***************************************************************************)
EXTENDS ExpenseSplit, ChainSearch, PhoneSession, SumTheorems

-----------------------------------------------------------------------------
(* ExpenseSplit: shares add up.                                            *)

LEMMA SumFunctionIsSum == \A f : SumFunction(f) = SumOver(f, DOMAIN f)
BY DEF SumFunction, SumFunctionOnSet, FoldFunctionOnSet, SumOver, MapThenSumSet

\* Of finitely many numbers one is the least.
LEMMA LeastExists ==
    ASSUME NEW S \in SUBSET Nat, IsFiniteSet(S), S # {}
    PROVE  \E m \in S : \A i \in S : m <= i
<1> DEFINE Bad == {T \in SUBSET S : T # {} /\ ~\E m \in T : \A i \in T : m <= i}
<1> SUFFICES ASSUME Bad # {} PROVE FALSE
  OBVIOUS
<1>1. PICK T \in Bad : \A U \in SUBSET T : U # T => U \notin Bad
  <2>1. Bad \in SUBSET SUBSET S
    OBVIOUS
  <2> HIDE DEF Bad
  <2> QED
    BY <2>1, SmallestSubset
<1>2. PICK x \in T : TRUE
  BY <1>1
<1>3. CASE T \ {x} = {}
  <2>1. x \in Nat /\ \A i \in T : i = x
    BY <1>1, <1>2, <1>3
  <2> QED
    BY <1>1, <2>1
<1>4. CASE T \ {x} # {}
  <2>1. PICK m \in T \ {x} : \A i \in T \ {x} : m <= i
    BY <1>1, <1>2, <1>4
  <2>2. T \in SUBSET Nat
    BY <1>1
  <2>3. CASE x <= m
    <3>1. \A i \in T : x <= i
      BY <2>1, <2>2, <2>3, <1>2
    <3> QED
      BY <3>1, <1>1, <1>2
  <2>4. CASE ~(x <= m)
    <3>1. \A i \in T : m <= i
      BY <2>1, <2>2, <2>4, <1>2
    <3> QED
      BY <3>1, <2>1, <1>1
  <2> QED
    BY <2>3, <2>4
<1> QED
  BY <1>3, <1>4

LEMMA PlaceType ==
    ASSUME NEW S \in SUBSET Nat, IsFiniteSet(S), NEW i
    PROVE  Place(i, S) \in Nat
<1>1. IsFiniteSet({j \in S : j < i})
  BY FS_Subset
<1> QED
  BY <1>1, FS_CardinalityType DEF Place

\* Who is in the first k places of S.
Firsts(k, S) == [i \in S |-> IF Place(i, S) < k THEN 1 ELSE 0]

\* Without the first of all, everyone else moves up.
LEMMA MovesUp ==
    ASSUME NEW S \in SUBSET Nat, IsFiniteSet(S), NEW m \in S, \A i \in S : m <= i
    PROVE  /\ Place(m, S) = 0
           /\ \A i \in S \ {m} : Place(i, S) = Place(i, S \ {m}) + 1
<1>1. {j \in S : j < m} = {}
  <2>1. \A j \in S : ~(j < m)
    OBVIOUS
  <2> QED
    BY <2>1
<1>2. Place(m, S) = 0
  BY <1>1, FS_EmptySet DEF Place
<1>3. ASSUME NEW i \in S \ {m} PROVE Place(i, S) = Place(i, S \ {m}) + 1
  <2> DEFINE B == {j \in S \ {m} : j < i}
  <2>1. {j \in S : j < i} = B \union {m} /\ m \notin B
    <3>1. m < i
      OBVIOUS
    <3> QED
      BY <3>1
  <2>2. IsFiniteSet(B)
    BY FS_Subset
  <2>3. Cardinality(B \union {m}) = Cardinality(B) + 1
    BY <2>1, <2>2, FS_AddElement
  <2> QED
    BY <2>1, <2>3 DEF Place
<1> QED
  BY <1>2, <1>3

\* There are k people in the first k places.
LEMMA FirstsAdd ==
    ASSUME NEW S \in SUBSET Nat, IsFiniteSet(S), NEW k \in Nat, k <= Cardinality(S)
    PROVE  SumOver(Firsts(k, S), S) = k
<1> DEFINE Bad == {T \in SUBSET S : \E n \in Nat : n <= Cardinality(T) /\ SumOver(Firsts(n, T), T) # n}
<1> SUFFICES ASSUME Bad # {} PROVE FALSE
  OBVIOUS
<1>1. PICK T \in Bad : \A U \in SUBSET T : U # T => U \notin Bad
  <2>1. Bad \in SUBSET SUBSET S
    OBVIOUS
  <2> HIDE DEF Bad
  <2> QED
    BY <2>1, SmallestSubset
<1>2. PICK n \in Nat : n <= Cardinality(T) /\ SumOver(Firsts(n, T), T) # n
  BY <1>1
<1>3. T \in SUBSET Nat /\ IsFiniteSet(T)
  BY <1>1, FS_Subset
<1>4. CASE n = 0
  <2>1. \A i \in T : Firsts(n, T)[i] = 0
    BY <1>3, <1>4, PlaceType DEF Firsts
  <2> QED
    BY <1>2, <1>3, <1>4, <2>1, SumZero
<1>5. CASE n # 0
  <2>1. T # {}
    BY <1>2, <1>5, FS_EmptySet
  <2>2. PICK m \in T : \A i \in T : m <= i
    BY <1>3, <2>1, LeastExists
  <2> DEFINE R == T \ {m}
  <2>3. IsFiniteSet(R) /\ Cardinality(R) = Cardinality(T) - 1 /\ Cardinality(T) \in Nat
    BY <1>3, FS_RemoveElement, FS_CardinalityType
  <2>4. SumOver(Firsts(n - 1, R), R) = n - 1
    <3>1. R \in SUBSET T /\ R # T /\ R \in SUBSET S
      BY <1>1
    <3>2. n - 1 \in Nat /\ n - 1 <= Cardinality(R)
      BY <1>2, <1>5, <2>3
    <3> QED
      BY <1>1, <3>1, <3>2
  <2>5. /\ Place(m, T) = 0
        /\ \A i \in R : Place(i, T) = Place(i, R) + 1
    BY <1>3, <2>2, MovesUp
  <2>6. \A i \in R : Firsts(n, T)[i] = Firsts(n - 1, R)[i]
    <3>1. ASSUME NEW i \in R PROVE Firsts(n, T)[i] = Firsts(n - 1, R)[i]
      <4>1. Place(i, R) \in Nat
        BY <1>3, <2>3, PlaceType
      <4>2. Place(i, T) < n <=> Place(i, R) < n - 1
        BY <2>5, <4>1
      <4> QED
        BY <4>2 DEF Firsts
    <3> QED
      BY <3>1
  <2>7. Firsts(n, T)[m] = 1
    BY <1>5, <2>5 DEF Firsts
  <2>8. \A i \in T : Firsts(n, T)[i] \in Int
    BY DEF Firsts
  <2>9. SumOver(Firsts(n, T), T) = Firsts(n, T)[m] + SumOver(Firsts(n, T), R)
    <3> DEFINE f == Firsts(n, T)
    <3>1. \A i \in T : f[i] \in Int
      BY <2>8
    <3>2. m \in T /\ IsFiniteSet(T)
      BY <1>3
    <3> HIDE DEF f, R, Bad
    <3>3. SumOver(f, T) = f[m] + SumOver(f, T \ {m})
      BY <3>1, <3>2, SumWithout
    <3> QED
      BY <3>3 DEF f, R
  <2>10. SumOver(Firsts(n, T), R) = SumOver(Firsts(n - 1, R), R)
    <3> HIDE DEF R
    <3> QED
      BY <2>3, <2>6, SumSame
  <2> QED
    BY <1>2, <2>4, <2>7, <2>9, <2>10
<1> QED
  BY <1>4, <1>5

LEMMA DivMod ==
    ASSUME NEW a \in Nat, NEW n \in Nat \ {0}
    PROVE  /\ a \div n \in Nat /\ a % n \in Nat /\ a % n < n
           /\ \A q, r \in Nat : q = a \div n /\ r = a % n => a = n * q + r
OBVIOUS

\* Equal shares add up to the total and are a cent apart at most.
LEMMA EqualSharesAdd ==
    ASSUME NEW total \in Nat, NEW S \in SUBSET Nat, IsFiniteSet(S), S # {}
    PROVE  /\ equalShares(total, S) \in [S -> Nat]
           /\ SumFunction(equalShares(total, S)) = total
           /\ \A i, j \in S : equalShares(total, S)[i] <= equalShares(total, S)[j] + 1
<1> DEFINE n == Cardinality(S)
           q == total \div n
           r == total % n
           even == [i \in S |-> q]
           e == equalShares(total, S)
           one == Firsts(r, S)
<1>1. n \in Nat \ {0}
  BY FS_EmptySet, FS_CardinalityType
<1>2. q \in Nat /\ r \in Nat /\ total = n * q + r /\ r < n
  <2> HIDE DEF n
  <2>1. q \in Nat /\ r \in Nat /\ r < n /\ q = total \div n /\ r = total % n
    BY <1>1, DivMod
  <2>2. \A x, y \in Nat : x = total \div n /\ y = total % n => total = n * x + y
    BY <1>1, DivMod
  <2> HIDE DEF q, r
  <2> QED
    BY <2>1, <2>2
<1>3. \A i \in S : e[i] = even[i] + one[i] /\ even[i] = q /\ one[i] \in {0, 1}
  BY DEF equalShares, Firsts
<1>4. e \in [S -> Nat]
  <2>1. \A i \in S : e[i] \in Nat
    BY <1>2, <1>3
  <2>2. e = [i \in S |-> e[i]]
    BY DEF equalShares
  <2> HIDE DEF e
  <2> QED
    BY <2>1, <2>2
<1>5. SumOver(even, S) = q * n
  <2>1. \A i \in S : even[i] = q
    OBVIOUS
  <2>2. q \in Int
    BY <1>2
  <2> HIDE DEF even, q
  <2> QED
    BY <2>1, <2>2, SumEqual
<1>6. SumOver(one, S) = r
  <2> HIDE DEF r, n
  <2>1. r \in Nat /\ r <= n
    BY <1>1, <1>2
  <2> QED
    BY <2>1, FirstsAdd DEF n
<1>7. SumOver(e, S) = SumOver(even, S) + SumOver(one, S)
  <2>1. AreAdded(even, one, e, S)
    BY <1>2, <1>3 DEF AreAdded
  <2> HIDE DEF e, even, one, n, q, r
  <2> QED
    BY <2>1, SumPlus
<1>8. SumFunction(e) = SumOver(e, S)
  <2>1. DOMAIN e = S
    BY DEF equalShares
  <2> HIDE DEF e
  <2> QED
    BY <2>1, SumFunctionIsSum
<1>9. q * n + r = total
  <2> HIDE DEF q, r, n
  <2> QED
    BY <1>1, <1>2
<1>10. SumFunction(e) = total
  <2> HIDE DEF q, r, n, e, even, one
  <2> QED
    BY <1>5, <1>6, <1>7, <1>8, <1>9
<1>11. \A i, j \in S : e[i] <= e[j] + 1
  <2> HIDE DEF q, e, even, one
  <2> QED
    BY <1>2, <1>3
<1> QED
  BY <1>4, <1>10, <1>11

LEMMA RestIsZero ==
    ASSUME NEW f, NEW S, IsFiniteSet(S), NEW T \in SUBSET S, \A x \in S : f[x] \in Int,
           \A x \in S \ T : f[x] = 0
    PROVE  SumOver(f, S) = SumOver(f, T)
<1> DEFINE R == S \ T
<1>1. IsFiniteSet(T) /\ IsFiniteSet(R)
  BY FS_Subset
<1>2. SumOver(f, R) = 0
  <2>1. \A x \in R : f[x] = 0
    OBVIOUS
  <2> HIDE DEF R
  <2> QED
    BY <1>1, <2>1, SumZero
<1>3. T \union R = S /\ T \intersect R = {}
  OBVIOUS
<1>4. SumOver(f, T \union R) = SumOver(f, T) + SumOver(f, R)
  <2>1. \A x \in T \union R : f[x] \in Int
    BY <1>3
  <2> HIDE DEF R
  <2> QED
    BY <1>1, <1>3, <2>1, SumOfTwo
<1>5. SumOver(f, T) \in Int
  <2>1. \A x \in T : f[x] \in Int
    OBVIOUS
  <2> QED
    BY <1>1, <2>1, SumType
<1>6. SumOver(f, T \union R) = SumOver(f, S)
  BY <1>3
<1> HIDE DEF R
<1>7. SumOver(f, T) + 0 = SumOver(f, T)
  BY <1>5
<1> QED
  BY <1>2, <1>4, <1>6, <1>7

\* What a factor says of a product.
LEMMA Quotient ==
    ASSUME NEW w \in Nat \ {0}, NEW x \in Int, NEW r \in Nat, NEW n \in Nat, w * x = r, r <= w * n
    PROVE  x \in Nat /\ x <= n
<1>1. CASE x < 0
  <2>1. w * x <= w * (-1)
    BY <1>1
  <2> QED
    BY <2>1
<1>2. CASE x > n
  <2>1. w * x >= w * (n + 1)
    BY <1>2
  <2>2. w * (n + 1) = w * n + w
    OBVIOUS
  <2> QED
    BY <2>1, <2>2
<1> QED
  BY <1>1, <1>2

\* Shares by percentage add up to the total, nobody pays a cent less than the percentage
\* or more than a cent above it, and whoever has no percentage pays nothing.
LEMMA PercentSharesAdd ==
    ASSUME NEW total \in Nat, NEW S \in SUBSET Nat, IsFiniteSet(S),
           NEW basis \in [S -> Nat], SumFunction(basis) = Whole
    PROVE  /\ percentShares(total, basis) \in [S -> Nat]
           /\ SumFunction(percentShares(total, basis)) = total
           /\ \A i \in S :
                /\ -Whole < percentShares(total, basis)[i] * Whole - total * basis[i]
                /\ percentShares(total, basis)[i] * Whole - total * basis[i] <= Whole
                /\ basis[i] = 0 => percentShares(total, basis)[i] = 0
<1> DEFINE floor == [i \in S |-> (total * basis[i]) \div Whole]
           left == total - SumFunction(floor)
           sharing == {i \in S : basis[i] > 0}
           prod == [i \in S |-> total * basis[i]]
           scaled == [i \in S |-> Whole * floor[i]]
           rem == [i \in S |-> (total * basis[i]) % Whole]
           one == [i \in S |-> IF i \in sharing /\ Place(i, sharing) < left THEN 1 ELSE 0]
           p == percentShares(total, basis)
           F == SumOver(floor, S)
           R == SumOver(rem, S)
<1>1. Whole \in Nat \ {0}
  BY SplitAssumption
<1>2. ASSUME NEW i \in S
      PROVE  /\ floor[i] \in Nat /\ rem[i] \in Nat /\ rem[i] < Whole
             /\ prod[i] = scaled[i] + rem[i] /\ prod[i] \in Nat /\ scaled[i] \in Nat
             /\ prod[i] = total * basis[i] /\ scaled[i] = Whole * floor[i]
             /\ basis[i] = 0 => floor[i] = 0 /\ rem[i] = 0
  <2> DEFINE b == basis[i]
             a == total * b
             q == a \div Whole
             r == a % Whole
  <2>1. b \in Nat
    OBVIOUS
  <2>2. a \in Nat /\ (b = 0 => a = 0)
    <3> HIDE DEF b
    <3> QED
      BY <2>1
  <2>3. q \in Nat /\ r \in Nat /\ r < Whole /\ a = Whole * q + r
    <3> HIDE DEF a
    <3>1. q \in Nat /\ r \in Nat /\ r < Whole /\ q = a \div Whole /\ r = a % Whole
      BY <1>1, <2>2, DivMod
    <3>2. \A x, y \in Nat : x = a \div Whole /\ y = a % Whole => a = Whole * x + y
      BY <1>1, <2>2, DivMod
    <3> HIDE DEF q, r
    <3> QED
      BY <3>1, <3>2
  <2>4. Whole * q \in Nat
    <3> HIDE DEF q
    <3> QED
      BY <1>1, <2>3
  <2>5. b = 0 => q = 0 /\ r = 0
    <3> HIDE DEF b, a
    <3> QED
      BY <1>1, <2>2
  <2>6. /\ floor[i] = q /\ rem[i] = r /\ prod[i] = a /\ scaled[i] = Whole * q
    OBVIOUS
  <2>7. prod[i] = total * basis[i] /\ scaled[i] = Whole * floor[i] /\ b = basis[i]
    OBVIOUS
  <2> HIDE DEF floor, rem, prod, scaled, a, b, q, r
  <2> QED
    BY <2>2, <2>3, <2>4, <2>5, <2>6, <2>7
<1>3. SumOver(prod, S) = total * Whole
  <2>1. SumFunction(basis) = SumOver(basis, S)
    BY SumFunctionIsSum
  <2>2. AreTimes(basis, prod, total, S)
    BY <1>2 DEF AreTimes
  <2> HIDE DEF prod
  <2>3. SumOver(prod, S) = total * SumOver(basis, S)
    BY <2>2, SumTimes
  <2> QED
    BY <2>1, <2>3
<1>4. SumOver(scaled, S) = Whole * F
  <2>1. AreTimes(floor, scaled, Whole, S)
    BY <1>2 DEF AreTimes
  <2> HIDE DEF scaled, floor
  <2> QED
    BY <1>1, <2>1, SumTimes
<1>5. SumOver(prod, S) = SumOver(scaled, S) + R
  <2>1. AreAdded(scaled, rem, prod, S)
    <3> HIDE DEF scaled, rem, prod, floor
    <3> QED
      BY <1>2 DEF AreAdded
  <2> HIDE DEF scaled, rem, prod, floor
  <2> QED
    BY <2>1, SumPlus
<1>6. sharing \in SUBSET S /\ sharing \in SUBSET Nat /\ IsFiniteSet(sharing) /\ Cardinality(sharing) \in Nat
  BY FS_Subset, FS_CardinalityType
<1>7. R \in Nat /\ R <= Whole * Cardinality(sharing)
  <2>1. \A i \in S : rem[i] \in Nat
    BY <1>2
  <2>2. \A i \in S \ sharing : rem[i] = 0
    <3>1. \A i \in S \ sharing : basis[i] = 0
      OBVIOUS
    <3> HIDE DEF rem, sharing, floor, prod, scaled
    <3> QED
      BY <1>2, <3>1
  <2>3. \A i \in S : rem[i] \in Int /\ rem[i] <= Whole
    <3> HIDE DEF rem, floor, prod, scaled
    <3> QED
      BY <1>1, <1>2
  <2>4. AreAtMost(rem, Whole, sharing)
    BY <1>6, <2>3 DEF AreAtMost
  <2> HIDE DEF rem, sharing
  <2>5. R \in Nat
    BY <2>1, SumNat
  <2>6. R = SumOver(rem, sharing)
    BY <1>6, <2>2, <2>3, RestIsZero
  <2>7. SumOver(rem, sharing) <= Whole * Cardinality(sharing)
    BY <1>1, <1>6, <2>4, SumBounded
  <2> QED
    BY <2>5, <2>6, <2>7
<1>8. F \in Nat /\ left = total - F
  <2>1. \A i \in S : floor[i] \in Nat
    BY <1>2
  <2>2. DOMAIN floor = S
    OBVIOUS
  <2>3. SumFunction(floor) = F
    <3> HIDE DEF floor
    <3> QED
      BY <2>2, SumFunctionIsSum
  <2>4. F \in Nat
    <3> HIDE DEF floor
    <3> QED
      BY <2>1, SumNat
  <2> HIDE DEF floor, F
  <2> QED
    BY <2>3, <2>4
<1>9. left \in Nat /\ left <= Cardinality(sharing)
  <2> HIDE DEF F, R, left, sharing, prod, scaled
  <2>1. left \in Int /\ Whole * left = total * Whole - Whole * F
    BY <1>1, <1>8
  <2>2. total * Whole = Whole * F + R
    BY <1>3, <1>4, <1>5
  <2>3. Whole * left = R
    BY <1>1, <1>7, <1>8, <2>1, <2>2
  <2> QED
    BY <1>1, <1>6, <1>7, <2>1, <2>3, Quotient
<1>10. SumOver(one, S) = left
  <2>1. \A i \in S : one[i] \in Int
    OBVIOUS
  <2>2. \A i \in S \ sharing : one[i] = 0
    OBVIOUS
  <2>3. \A i \in sharing : one[i] = Firsts(left, sharing)[i]
    BY DEF Firsts
  <2> HIDE DEF one, sharing, left
  <2>4. SumOver(one, S) = SumOver(one, sharing)
    BY <1>6, <2>1, <2>2, RestIsZero
  <2>5. SumOver(one, sharing) = SumOver(Firsts(left, sharing), sharing)
    BY <1>6, <2>3, SumSame
  <2>6. SumOver(Firsts(left, sharing), sharing) = left
    BY <1>6, <1>9, FirstsAdd
  <2> QED
    BY <2>4, <2>5, <2>6
<1>11. /\ p = [i \in S |-> p[i]]
       /\ \A i \in S : p[i] = floor[i] + one[i] /\ one[i] \in {0, 1} /\ (basis[i] = 0 => one[i] = 0)
  <2>1. DOMAIN basis = S
    OBVIOUS
  <2>2. p = [i \in S |-> floor[i] + (IF i \in sharing /\ Place(i, sharing) < left THEN 1 ELSE 0)]
    BY <2>1 DEF percentShares
  <2>3. \A i \in S : p[i] = floor[i] + one[i] /\ one[i] \in {0, 1}
    <3> HIDE DEF p, floor, left, sharing
    <3> QED
      BY <2>2
  <2>4. \A i \in S : basis[i] = 0 => one[i] = 0
    <3>1. \A i \in S : basis[i] = 0 => i \notin sharing
      OBVIOUS
    <3> HIDE DEF sharing, left
    <3> QED
      BY <3>1
  <2> HIDE DEF p, floor, left, sharing, one
  <2> QED
    BY <2>2, <2>3, <2>4
<1> HIDE DEF p, floor, left, sharing, one, prod, scaled, rem, F, R
<1>12. \A i \in S : p[i] \in Nat
  BY <1>2, <1>11
<1>13. SumOver(p, S) = total
  <2>1. AreAdded(floor, one, p, S)
    BY <1>2, <1>11 DEF AreAdded
  <2>2. SumOver(p, S) = F + left
    BY <2>1, <1>10, SumPlus DEF F
  <2> QED
    BY <1>8, <2>2
<1>14. p \in [S -> Nat] /\ SumFunction(p) = total
  <2>1. p \in [S -> Nat]
    BY <1>11, <1>12
  <2> QED
    BY <2>1, <1>13, SumFunctionIsSum
<1>15. ASSUME NEW i \in S
       PROVE  /\ -Whole < p[i] * Whole - total * basis[i] /\ p[i] * Whole - total * basis[i] <= Whole
              /\ basis[i] = 0 => p[i] = 0
  <2>1. p[i] * Whole = Whole * floor[i] + Whole * one[i]
    <3>1. floor[i] \in Nat /\ one[i] \in Nat /\ p[i] = floor[i] + one[i]
      BY <1>2, <1>11
    <3> QED
      BY <1>1, <3>1
  <2>2. Whole * one[i] = 0 \/ Whole * one[i] = Whole
    BY <1>1, <1>11
  <2> DEFINE x == Whole * floor[i]
             y == total * basis[i]
             z == Whole * one[i]
  <2>3. y = x + rem[i] /\ x \in Nat /\ rem[i] \in Nat /\ rem[i] < Whole
    BY <1>2
  <2>4. p[i] * Whole = x + z /\ (z = 0 \/ z = Whole)
    BY <2>1, <2>2
  <2>5. basis[i] = 0 => p[i] = 0
    <3>1. basis[i] = 0 => floor[i] = 0
      BY <1>2
    <3>2. basis[i] = 0 => one[i] = 0
      BY <1>11
    <3>3. p[i] = floor[i] + one[i]
      BY <1>11
    <3> QED
      BY <3>1, <3>2, <3>3
  <2> HIDE DEF x, y, z
  <2>6. -Whole < (x + z) - y /\ (x + z) - y <= Whole
    BY <1>1, <2>3, <2>4
  <2> QED
    BY <2>4, <2>5, <2>6 DEF y
<1> QED
  BY <1>14, <1>15 DEF p

-----------------------------------------------------------------------------
(* What the screen makes of a form.                                        *)

\* The shares "s" of the form f are fair.
Fair(f, s) ==
    /\ SumFunction(s) = f.total
    /\ f.mode = "equal" => \A i, j \in DOMAIN s : s[i] <= s[j] + 1
    /\ f.mode = "percent" => \A i \in DOMAIN s :
         /\ -Whole < s[i] * Whole - f.total * f.typed[i]
         /\ s[i] * Whole - f.total * f.typed[i] <= Whole
         /\ f.typed[i] = 0 => s[i] = 0

LEMMA SplitIsFair ==
    ASSUME NEW f \in Forms, NEW S \in SUBSET Members, Payer \in S, computeSplit(f, S) # None
    PROVE  computeSplit(f, S) \in [S -> Nat] /\ Fair(f, computeSplit(f, S))
<1>1. /\ f.total \in Nat /\ f.mode \in {"equal", "custom", "percent"}
      /\ f.typed \in [Members -> Nat \union {Wrong}]
  BY SplitAssumption
<1>2. S \in SUBSET Nat /\ IsFiniteSet(S) /\ S # {}
  BY SplitAssumption, FS_Subset
<1> DEFINE typed == Restrict(f.typed, S)
<1>3. DOMAIN typed = S /\ \A i \in S : typed[i] = f.typed[i]
  BY DEF Restrict
<1>4. ASSUME Wrong \notin Range(typed)
      PROVE  typed \in [S -> Nat]
  <2>1. \A i \in S : typed[i] \in Range(typed)
    BY <1>3 DEF Range
  <2>2. \A i \in S : typed[i] \in Nat
    <3>1. \A i \in S : f.typed[i] \in Nat \union {Wrong}
      BY <1>1
    <3> HIDE DEF typed
    <3> QED
      BY <1>3, <1>4, <2>1, <3>1
  <2>3. typed = [i \in S |-> typed[i]]
    BY DEF Restrict
  <2> HIDE DEF typed
  <2> QED
    BY <2>2, <2>3
<1>5. CASE f.mode = "equal"
  <2>1. computeSplit(f, S) = equalShares(f.total, S)
    BY <1>5 DEF computeSplit
  <2> DEFINE s == equalShares(f.total, S)
  <2>2. s \in [S -> Nat] /\ SumFunction(s) = f.total /\ \A i, j \in S : s[i] <= s[j] + 1
    BY <1>1, <1>2, EqualSharesAdd
  <2>3. DOMAIN s = S
    BY <2>2
  <2> HIDE DEF s
  <2>4. Fair(f, s)
    BY <1>5, <2>2, <2>3 DEF Fair
  <2> QED
    BY <2>1, <2>2, <2>4 DEF s
<1>6. CASE f.mode = "custom"
  <2>1. /\ computeSplit(f, S) = typed
        /\ Wrong \notin Range(typed) /\ SumFunction(typed) = f.total
    BY <1>6 DEF computeSplit
  <2>2. Fair(f, typed)
    <3> HIDE DEF typed
    <3> QED
      BY <1>6, <2>1 DEF Fair
  <2> HIDE DEF typed
  <2> QED
    BY <1>4, <2>1, <2>2
<1>7. CASE f.mode = "percent"
  <2>1. /\ computeSplit(f, S) = percentShares(f.total, typed)
        /\ Wrong \notin Range(typed) /\ SumFunction(typed) = Whole
    BY <1>7 DEF computeSplit
  <2> DEFINE s == percentShares(f.total, typed)
  <2> HIDE DEF typed
  <2>2. /\ s \in [S -> Nat] /\ SumFunction(s) = f.total
        /\ \A i \in S : /\ -Whole < s[i] * Whole - f.total * typed[i]
                        /\ s[i] * Whole - f.total * typed[i] <= Whole
                        /\ typed[i] = 0 => s[i] = 0
    BY <1>1, <1>2, <1>4, <2>1, PercentSharesAdd
  <2>3. DOMAIN s = S
    BY <2>2
  <2> HIDE DEF s
  <2>4. Fair(f, s)
    BY <1>3, <1>7, <2>2, <2>3 DEF Fair
  <2> QED
    BY <2>1, <2>2, <2>4 DEF s
<1> QED
  BY <1>1, <1>5, <1>6, <1>7

\* The split depends on what is sent of the form.
LEMMA SplitIsOfInputs ==
    ASSUME NEW f, NEW g, NEW S, f.total = g.total, f.mode = g.mode, TypedIn(f) = TypedIn(g)
    PROVE  computeSplit(f, S) = computeSplit(g, S)
<1>1. CASE f.mode = "equal"
  BY <1>1 DEF computeSplit
<1>2. CASE f.mode # "equal"
  <2>1. f.typed = g.typed
    BY <1>2 DEF TypedIn
  <2> QED
    BY <1>2, <2>1 DEF computeSplit
<1> QED
  BY <1>1, <1>2

-----------------------------------------------------------------------------
(* The invariant of the form.                                              *)

SplitTypes ==
    /\ active \in SUBSET Members /\ known \in SUBSET Members
    /\ tries \in 0 .. MaxTries /\ filling \in Nat
    /\ form \in Forms \union {None}
    /\ stored \in [1 .. MaxTries -> Expense \union {None}]
    /\ reviewed \in [1 .. MaxTries -> Review \union {None}]
    /\ unconfirmed \in Try \union {None}
    /\ call \in Call \union {None}
    /\ stray \in SUBSET Try

\* A summary shows how the form is divided among the payer and others.
Divides(r) ==
    /\ Payer \in DOMAIN r.shares
    /\ r.shares = computeSplit(r.form, DOMAIN r.shares)

SummariesInv ==
    \A id \in 1 .. MaxTries : reviewed[id] # None =>
        /\ id <= tries /\ reviewed[id].filling <= filling
        /\ Divides(reviewed[id])

\* What was sent is what the last summary under its key showed.
InputsOf(r) == <<r.form.total, r.form.mode, DOMAIN r.shares, TypedIn(r.form)>>

AttemptFor(r, id) ==
    [inputs |-> InputsOf(r), id |-> id, with |-> DOMAIN r.shares, total |-> r.form.total,
     custom |-> IF r.form.mode = "equal" THEN None ELSE r.shares]

Sent(a) == reviewed[a.id] # None /\ a = AttemptFor(reviewed[a.id], a.id)

SentInv ==
    /\ unconfirmed # None => Sent(unconfirmed)
    /\ call # None => Sent(call.attempt)
    /\ \A a \in stray : Sent(a)

StoredInv ==
    /\ \A id \in Stored : reviewed[id] # None /\ stored[id].shares = reviewed[id].shares
    /\ call # None /\ call.answer = "added" => call.attempt.id \in Stored

\* The attempt that counts is the last one, of the form that is filled in; when there is
\* none, the last one was refused or its form is emptied.
IsLast(id) == reviewed[id] # None /\ \A k \in id + 1 .. MaxTries : reviewed[k] = None

Counts(id) == IsLast(id) /\ reviewed[id].filling = filling

LastInv ==
    /\ call # None => Counts(call.attempt.id)
    /\ call = None /\ unconfirmed # None => Counts(unconfirmed.id)
    /\ call = None /\ unconfirmed = None =>
         \A id \in 1 .. MaxTries :
            IsLast(id) => reviewed[id].refused \/ reviewed[id].filling < filling

\* Two summaries that follow one another differ, unless the first was refused.
KeysInv ==
    \A i, j \in 1 .. MaxTries :
        /\ i < j /\ reviewed[i] # None /\ reviewed[j] # None
        /\ \A k \in i + 1 .. j - 1 : reviewed[k] = None
        => \/ reviewed[i].refused
           \/ reviewed[i].filling < reviewed[j].filling
           \/ InputsOf(reviewed[i]) # InputsOf(reviewed[j])

SplitInv == /\ SplitTypes /\ SummariesInv /\ SentInv /\ StoredInv /\ LastInv /\ KeysInv
            /\ EachFormIsAdded

LEMMA SplitStart == Init => SplitInv
<1> SUFFICES ASSUME Init PROVE SplitInv
  OBVIOUS
<1>1. SplitTypes
  BY SplitAssumption DEF Init, SplitTypes
<1>2. SummariesInv /\ SentInv /\ StoredInv /\ LastInv /\ KeysInv
  BY DEF Init, SummariesInv, SentInv, StoredInv, LastInv, KeysInv, Stored, IsLast
<1>3. EachFormIsAdded
  BY DEF Init, EachFormIsAdded
<1> QED
  BY <1>1, <1>2, <1>3 DEF SplitInv

LEMMA InvSuffices == SplitInv => SharesAreFair /\ StoredAsReviewed /\ FormsBecomeExpenses
<1> SUFFICES ASSUME SplitInv PROVE SharesAreFair /\ StoredAsReviewed /\ FormsBecomeExpenses
  OBVIOUS
<1>1. ASSUME NEW id \in 1 .. MaxTries, reviewed[id] # None
      PROVE  /\ reviewed[id].form \in Forms /\ Fair(reviewed[id].form, reviewed[id].shares)
             /\ reviewed[id].shares # None
  <2> DEFINE r == reviewed[id]
             S == DOMAIN r.shares
  <2>1. r \in Review
    BY <1>1 DEF SplitInv, SplitTypes
  <2>2. r.form \in Forms /\ S \in SUBSET Members /\ r.shares # None
    <3>1. PICK T \in SUBSET Members : r.shares \in [T -> Nat]
      BY <2>1 DEF Review, Split
    <3>2. r.form \in Forms
      BY <2>1 DEF Review
    <3> HIDE DEF r
    <3> QED
      BY <3>1, <3>2, RecordAssumption
  <2>3. Payer \in S /\ r.shares = computeSplit(r.form, S)
    BY <1>1 DEF SplitInv, SummariesInv, Divides
  <2> HIDE DEF r, S
  <2>4. Fair(r.form, r.shares)
    BY <2>2, <2>3, SplitIsFair
  <2> QED
    BY <2>2, <2>4 DEF r
<1>2. SharesAreFair
  <2> SUFFICES ASSUME NEW id \in Stored
               PROVE  LET f == reviewed[id].form
                          shares == stored[id].shares
                      IN /\ SumFunction(shares) = f.total
                         /\ f.mode = "equal" => \A i, j \in DOMAIN shares : shares[i] <= shares[j] + 1
                         /\ f.mode = "percent" => \A i \in DOMAIN shares :
                              LET over == shares[i] * Whole - f.total * f.typed[i]
                              IN -Whole < over /\ over <= Whole /\ (f.typed[i] = 0 => shares[i] = 0)
    BY DEF SharesAreFair
  <2>1. id \in 1 .. MaxTries /\ reviewed[id] # None /\ stored[id].shares = reviewed[id].shares
    BY DEF SplitInv, StoredInv, Stored
  <2>2. Fair(reviewed[id].form, stored[id].shares)
    BY <1>1, <2>1
  <2> DEFINE f == reviewed[id].form
             s == stored[id].shares
  <2> HIDE DEF f, s
  <2>3. Fair(f, s)
    BY <2>2 DEF f, s
  <2> QED
    BY <2>3 DEF Fair, f, s
<1>3. StoredAsReviewed
  <2>1. ASSUME call # None PROVE Adds(call.attempt)
    <3> DEFINE a == call.attempt
               r == reviewed[a.id]
    <3>1. a.id \in 1 .. MaxTries /\ r # None /\ a = AttemptFor(r, a.id)
      BY <2>1 DEF SplitInv, SplitTypes, SentInv, Sent, Call, Try
    <3>2. Fair(r.form, r.shares)
      BY <1>1, <3>1
    <3> HIDE DEF a, r
    <3>3. a.with = DOMAIN r.shares /\ a.total = r.form.total /\ (a.custom # None => a.custom = r.shares)
      BY <3>1 DEF AttemptFor
    <3> QED
      BY <3>2, <3>3 DEF Adds, Fair, a
  <2> QED
    BY <2>1 DEF StoredAsReviewed, SplitInv, StoredInv
<1>4. OneExpensePerSummary
  <2> SUFFICES ASSUME NEW i \in Stored, NEW j \in Stored, SameSummary(i, j), i < j,
                      \A k \in i + 1 .. j - 1 : reviewed[k] = None
               PROVE  reviewed[i].refused
    BY DEF OneExpensePerSummary
  <2>1. /\ i \in 1 .. MaxTries /\ j \in 1 .. MaxTries
        /\ reviewed[i] # None /\ reviewed[j] # None
    BY DEF SplitInv, StoredInv, Stored
  <2>2. InputsOf(reviewed[i]) = InputsOf(reviewed[j])
    BY DEF SameSummary, InputsOf
  <2>3. reviewed[i].filling = reviewed[j].filling /\ reviewed[i].filling \in Nat
    BY <2>1 DEF SameSummary, SplitInv, SplitTypes, Review
  <2>4. \/ reviewed[i].refused
        \/ reviewed[i].filling < reviewed[j].filling
        \/ InputsOf(reviewed[i]) # InputsOf(reviewed[j])
    BY <2>1 DEF SplitInv, KeysInv
  <2> QED
    BY <2>2, <2>3, <2>4
<1> QED
  BY <1>2, <1>3, <1>4 DEF SplitInv, FormsBecomeExpenses

\* What others do, and filling in the form, leaves what was sent and stored alone.
LEMMA OthersKeep ==
    ASSUME SplitInv, UNCHANGED <<tries, filling, stored, reviewed, unconfirmed, call, stray>>,
           active' \in SUBSET Members, known' \in SUBSET Members, form' \in Forms \union {None}
    PROVE  SplitInv'
<1>1. SplitTypes'
  BY DEF SplitInv, SplitTypes
<1>2. SummariesInv' /\ SentInv'
  BY DEF SplitInv, SummariesInv, SentInv, Sent, Divides
<1>3. StoredInv' /\ LastInv' /\ KeysInv'
  BY DEF SplitInv, StoredInv, Stored, LastInv, Counts, IsLast, KeysInv
<1>4. EachFormIsAdded'
  BY DEF SplitInv, EachFormIsAdded, Stored
<1> QED
  BY <1>1, <1>2, <1>3, <1>4 DEF SplitInv

\* What the server answers: it stores what the summary showed, once.
LEMMA ServeStores ==
    ASSUME SplitInv, NEW a \in Try, Sent(a), NEW reply, Serve(a, reply)
    PROVE  /\ stored' \in [1 .. MaxTries -> Expense \union {None}]
           /\ \A id \in Stored : stored'[id] = stored[id]
           /\ \A id \in 1 .. MaxTries : stored'[id] # None =>
                reviewed[id] # None /\ stored'[id].shares = reviewed[id].shares
           /\ reply = "added" => stored'[a.id] # None
<1>1. /\ stored \in [1 .. MaxTries -> Expense \union {None}]
      /\ \A id \in 1 .. MaxTries : stored[id] # None =>
           reviewed[id] # None /\ stored[id].shares = reviewed[id].shares
  BY DEF SplitInv, SplitTypes, StoredInv, Stored
<1>2. CASE UNCHANGED stored /\ (reply = "added" => stored[a.id] # None)
  BY <1>1, <1>2 DEF Stored
<1>3. CASE /\ stored[a.id] = None
           /\ stored' = [stored EXCEPT ![a.id] = [total |-> a.total, shares |-> splitExpense(a)]]
  <2> DEFINE r == reviewed[a.id]
             e == [total |-> a.total, shares |-> splitExpense(a)]
  <2>1. a.id \in 1 .. MaxTries /\ a.total \in Nat /\ r # None /\ a = AttemptFor(r, a.id)
    BY DEF Try, Sent
  <2>2. r \in Review /\ Divides(r)
    BY <2>1 DEF SplitInv, SplitTypes, SummariesInv
  <2>3. r.form \in Forms /\ r.shares \in Split /\ r.shares # None
    <3>1. PICK T \in SUBSET Members : r.shares \in [T -> Nat]
      BY <2>2 DEF Review, Split
    <3>2. r.form \in Forms /\ r.shares \in Split
      BY <2>2 DEF Review
    <3> HIDE DEF r
    <3> QED
      BY <3>1, <3>2, RecordAssumption
  <2>4. splitExpense(a) = r.shares
    <3> HIDE DEF r
    <3>1. /\ a.total = r.form.total /\ a.with = DOMAIN r.shares
          /\ a.custom = IF r.form.mode = "equal" THEN None ELSE r.shares
      BY <2>1 DEF AttemptFor
    <3>2. CASE r.form.mode = "equal"
      <4>1. r.shares = equalShares(r.form.total, DOMAIN r.shares)
        BY <2>2, <3>2 DEF Divides, computeSplit
      <4> QED
        BY <3>1, <3>2, <4>1 DEF splitExpense
    <3>3. CASE r.form.mode # "equal"
      BY <2>3, <3>1, <3>3 DEF splitExpense
    <3> QED
      BY <3>2, <3>3
  <2>5. e \in Expense
    BY <2>1, <2>3, <2>4 DEF Expense
  <2>6. e # None /\ e.shares = r.shares
    BY <2>4, <2>5, RecordAssumption
  <2> HIDE DEF e
  <2>7. stored' = [stored EXCEPT ![a.id] = e]
    BY <1>3 DEF e
  <2> QED
    BY <1>1, <1>3, <2>1, <2>5, <2>6, <2>7 DEF Stored
<1> QED
  <2>1. \/ UNCHANGED stored /\ (reply = "added" => stored[a.id] # None)
        \/ /\ stored[a.id] = None
           /\ stored' = [stored EXCEPT ![a.id] = [total |-> a.total, shares |-> splitExpense(a)]]
    BY DEF Serve
  <2> QED
    BY <1>2, <1>3, <2>1

\* Once stored, an expense stays, and its summary does too.
LEMMA StaysAdded ==
    ASSUME SplitInv, stored' \in [1 .. MaxTries -> Expense \union {None}],
           \A id \in Stored : stored'[id] = stored[id], UNCHANGED <<filling, reviewed>>
    PROVE  EachFormIsAdded'
BY DEF SplitInv, EachFormIsAdded, Stored

LEMMA ServeCallKeeps ==
    ASSUME SplitInv, ServeCall
    PROVE  SplitInv'
<1>1. PICK reply \in {"added", "refused", "failed"} :
         Serve(call.attempt, reply) /\ call' = [call EXCEPT !.answer = reply]
  BY DEF ServeCall
<1>2. /\ call # None
      /\ UNCHANGED <<active, apart, known, form, filling, unconfirmed, stray, tries, reviewed>>
  BY DEF ServeCall
<1>3. call \in Call /\ call.attempt \in Try /\ Sent(call.attempt) /\ call.attempt.id \in 1 .. MaxTries
  BY <1>2 DEF SplitInv, SplitTypes, SentInv, Call, Try
<1>4. call' \in Call /\ call' # None /\ call'.attempt = call.attempt /\ call'.answer = reply
  BY <1>1, <1>3, RecordAssumption DEF Call
<1>5. /\ stored' \in [1 .. MaxTries -> Expense \union {None}]
      /\ \A id \in Stored : stored'[id] = stored[id]
      /\ \A id \in 1 .. MaxTries : stored'[id] # None =>
           reviewed[id] # None /\ stored'[id].shares = reviewed[id].shares
      /\ reply = "added" => stored'[call.attempt.id] # None
  BY <1>1, <1>3, ServeStores
<1>6. SplitTypes'
  BY <1>2, <1>4, <1>5 DEF SplitInv, SplitTypes
<1>7. SummariesInv' /\ SentInv'
  BY <1>2, <1>4 DEF SplitInv, SummariesInv, SentInv, Sent, Divides
<1>8. StoredInv'
  BY <1>2, <1>3, <1>4, <1>5 DEF StoredInv, Stored
<1>9. LastInv' /\ KeysInv'
  BY <1>2, <1>4 DEF SplitInv, LastInv, Counts, IsLast, KeysInv
<1>10. EachFormIsAdded'
  BY <1>2, <1>5, StaysAdded
<1> QED
  BY <1>6, <1>7, <1>8, <1>9, <1>10 DEF SplitInv

LEMMA ServeStrayKeeps ==
    ASSUME SplitInv, NEW a \in stray, ServeStray(a)
    PROVE  SplitInv'
<1>1. PICK reply \in {"added", "refused", "failed"} : Serve(a, reply)
  BY DEF ServeStray
<1>2. /\ stray' = stray \ {a}
      /\ UNCHANGED <<active, apart, known, form, filling, unconfirmed, call, tries, reviewed>>
  BY DEF ServeStray
<1>3. a \in Try /\ Sent(a)
  BY DEF SplitInv, SplitTypes, SentInv
<1>4. /\ stored' \in [1 .. MaxTries -> Expense \union {None}]
      /\ \A id \in Stored : stored'[id] = stored[id]
      /\ \A id \in 1 .. MaxTries : stored'[id] # None =>
           reviewed[id] # None /\ stored'[id].shares = reviewed[id].shares
  BY <1>1, <1>3, ServeStores
<1>5. SplitTypes'
  BY <1>2, <1>4 DEF SplitInv, SplitTypes
<1>6. SummariesInv' /\ SentInv'
  BY <1>2 DEF SplitInv, SummariesInv, SentInv, Sent, Divides
<1>7. StoredInv'
  <2>1. \A id \in Stored : id \in 1 .. MaxTries /\ stored[id] # None
    BY DEF Stored
  <2>2. call # None /\ call.answer = "added" => call.attempt.id \in Stored
    BY DEF SplitInv, StoredInv
  <2> QED
    BY <1>2, <1>4, <2>1, <2>2 DEF StoredInv, Stored
<1>8. LastInv' /\ KeysInv'
  BY <1>2 DEF SplitInv, LastInv, Counts, IsLast, KeysInv
<1>9. EachFormIsAdded'
  BY <1>2, <1>4, StaysAdded
<1> QED
  BY <1>5, <1>6, <1>7, <1>8, <1>9 DEF SplitInv

LEMMA HearAddedKeeps ==
    ASSUME SplitInv, HearAdded
    PROVE  SplitInv'
<1>1. /\ call # None /\ call.answer = "added"
      /\ unconfirmed' = None /\ form' = None /\ filling' = filling + 1 /\ call' = None
      /\ known' \in {known, active}
      /\ UNCHANGED <<active, apart, stored, stray, tries, reviewed>>
  BY DEF HearAdded, server
<1>2. SplitTypes'
  BY <1>1 DEF SplitInv, SplitTypes
<1>3. \A id \in 1 .. MaxTries : reviewed[id] # None =>
         reviewed[id].filling \in Nat /\ reviewed[id].filling <= filling /\ filling \in Nat
  BY DEF SplitInv, SplitTypes, SummariesInv, Review
<1>4. SummariesInv' /\ SentInv'
  BY <1>1, <1>3 DEF SplitInv, SummariesInv, SentInv, Sent, Divides
<1>5. StoredInv' /\ KeysInv'
  BY <1>1 DEF SplitInv, StoredInv, Stored, KeysInv
<1>6. LastInv'
  <2>1. \A id \in 1 .. MaxTries : reviewed[id] # None => reviewed[id].filling < filling + 1
    BY <1>3
  <2> QED
    BY <1>1, <2>1 DEF LastInv, IsLast
<1>7. EachFormIsAdded'
  <2>1. call.attempt.id \in Stored /\ reviewed[call.attempt.id].filling = filling
    BY <1>1 DEF SplitInv, StoredInv, LastInv, Counts
  <2>2. ASSUME NEW n \in 0 .. filling' - 1 PROVE \E id \in Stored : reviewed[id].filling = n
    <3>1. filling \in Nat
      BY DEF SplitInv, SplitTypes
    <3>2. CASE n = filling
      BY <2>1, <3>2
    <3>3. CASE n # filling
      <4>1. n \in 0 .. filling - 1
        BY <1>1, <3>1, <3>3
      <4> QED
        BY <4>1 DEF SplitInv, EachFormIsAdded
    <3> QED
      BY <3>2, <3>3
  <2> QED
    BY <1>1, <2>2 DEF EachFormIsAdded, Stored
<1> QED
  BY <1>2, <1>4, <1>5, <1>6, <1>7 DEF SplitInv

\* A summary that says no less of its expense: the same shares, inputs and form.
Alike(r, n) ==
    /\ n.shares = r.shares /\ n.filling = r.filling
    /\ InputsOf(n) = InputsOf(r)

LEMMA AlikeAttempts ==
    ASSUME NEW r, NEW n, Alike(r, n), NEW id
    PROVE  AttemptFor(n, id) = AttemptFor(r, id)
<1>1. InputsOf(n)[1] = InputsOf(r)[1] /\ InputsOf(n)[2] = InputsOf(r)[2]
  BY DEF Alike
<1>2. n.form.total = r.form.total /\ n.form.mode = r.form.mode
  BY <1>1 DEF InputsOf
<1>3. n.shares = r.shares /\ InputsOf(n) = InputsOf(r)
  BY DEF Alike
<1> QED
  BY <1>2, <1>3 DEF AttemptFor

\* The last summary is shown again, or refused.
LEMMA ReviewAgain ==
    ASSUME SplitInv, NEW id \in 1 .. MaxTries, IsLast(id),
           NEW n \in Review, Divides(n), Alike(reviewed[id], n),
           reviewed' = [reviewed EXCEPT ![id] = n],
           UNCHANGED <<filling, stored>>, tries' \in tries .. MaxTries
    PROVE  /\ reviewed' \in [1 .. MaxTries -> Review \union {None}]
           /\ SummariesInv' /\ KeysInv' /\ EachFormIsAdded'
           /\ \A i \in 1 .. MaxTries : (reviewed[i] # None) = (reviewed'[i] # None)
           /\ \A i \in 1 .. MaxTries : reviewed'[i].shares = reviewed[i].shares
           /\ \A i \in 1 .. MaxTries : reviewed'[i].filling = reviewed[i].filling
           /\ \A a \in Try : Sent(a) => Sent(a)'
<1>1. reviewed \in [1 .. MaxTries -> Review \union {None}] /\ reviewed[id] # None /\ n # None
  BY RecordAssumption DEF SplitInv, SplitTypes, IsLast
<1>2. reviewed'[id] = n /\ \A i \in 1 .. MaxTries : i # id => reviewed'[i] = reviewed[i]
  BY <1>1
<1>3. reviewed' \in [1 .. MaxTries -> Review \union {None}]
  BY <1>1
<1>4. /\ n.shares = reviewed[id].shares /\ n.filling = reviewed[id].filling
      /\ InputsOf(n) = InputsOf(reviewed[id])
  BY DEF Alike
<1>5. \A i \in 1 .. MaxTries :
         /\ (reviewed[i] # None) = (reviewed'[i] # None)
         /\ reviewed'[i].shares = reviewed[i].shares
         /\ reviewed'[i].filling = reviewed[i].filling
         /\ InputsOf(reviewed'[i]) = InputsOf(reviewed[i])
         /\ i # id => reviewed'[i] = reviewed[i]
  BY <1>1, <1>2, <1>4
<1>6. SummariesInv'
  <2>1. tries \in Nat /\ tries' \in Nat /\ tries <= tries'
    BY SplitAssumption DEF SplitInv, SplitTypes
  <2>2. ASSUME NEW i \in 1 .. MaxTries, reviewed'[i] # None
        PROVE  i <= tries' /\ reviewed'[i].filling <= filling' /\ Divides(reviewed'[i])
    <3>1. reviewed[i] # None
      BY <1>5, <2>2
    <3>2. i <= tries /\ reviewed[i].filling <= filling /\ Divides(reviewed[i])
      BY <3>1 DEF SplitInv, SummariesInv
    <3>3. Divides(reviewed'[i])
      BY <1>2, <3>2
    <3> QED
      BY <1>5, <2>1, <3>2, <3>3
  <2> QED
    BY <2>2 DEF SummariesInv, Divides
<1>7. KeysInv'
  <2>1. ASSUME NEW i \in 1 .. MaxTries, NEW j \in 1 .. MaxTries,
               i < j, reviewed'[i] # None, reviewed'[j] # None,
               \A k \in i + 1 .. j - 1 : reviewed'[k] = None
        PROVE  \/ reviewed'[i].refused
               \/ reviewed'[i].filling < reviewed'[j].filling
               \/ InputsOf(reviewed'[i]) # InputsOf(reviewed'[j])
    <3>1. i # id
      <4>1. \A k \in id + 1 .. MaxTries : reviewed[k] = None
        BY DEF IsLast
      <4>2. reviewed[j] # None
        BY <1>5, <2>1
      <4> QED
        BY <2>1, <4>1, <4>2
    <3>2. \A k \in i + 1 .. j - 1 : k \in 1 .. MaxTries
      BY SplitAssumption
    <3>3. \A k \in i + 1 .. j - 1 : reviewed[k] = None
      BY <1>5, <2>1, <3>2
    <3>4. reviewed[i] # None /\ reviewed[j] # None
      BY <1>5, <2>1
    <3>5. \/ reviewed[i].refused
          \/ reviewed[i].filling < reviewed[j].filling
          \/ InputsOf(reviewed[i]) # InputsOf(reviewed[j])
      BY <2>1, <3>3, <3>4 DEF SplitInv, KeysInv
    <3> QED
      BY <1>5, <3>1, <3>5
  <2> QED
    BY <2>1 DEF KeysInv, InputsOf
<1>8. EachFormIsAdded'
  <2>1. Stored \subseteq 1 .. MaxTries
    BY DEF Stored
  <2> QED
    BY <1>5, <2>1 DEF SplitInv, EachFormIsAdded, Stored
<1>9. ASSUME NEW a \in Try, Sent(a) PROVE Sent(a)'
  <2>1. a.id \in 1 .. MaxTries /\ reviewed[a.id] # None /\ a = AttemptFor(reviewed[a.id], a.id)
    BY <1>9 DEF Try, Sent
  <2>2. AttemptFor(reviewed'[a.id], a.id) = AttemptFor(reviewed[a.id], a.id)
    BY <1>2, <2>1, AlikeAttempts
  <2>3. reviewed'[a.id] # None
    BY <1>5, <2>1
  <2>4. a = AttemptFor(reviewed'[a.id], a.id)
    BY <2>1, <2>2
  <2> QED
    BY <2>3, <2>4 DEF Sent, AttemptFor, InputsOf
<1> QED
  BY <1>3, <1>5, <1>6, <1>7, <1>8, <1>9

LEMMA HearErrorKeeps ==
    ASSUME SplitInv, HearError
    PROVE  SplitInv'
<1> DEFINE a == call.attempt
           id == a.id
           r == reviewed[id]
           n == [r EXCEPT !.refused = TRUE]
<1>1. /\ call # None /\ call.answer \in {"refused", "failed"}
      /\ unconfirmed' = IF call.answer = "failed" THEN call.attempt ELSE None
      /\ reviewed' = IF call.answer = "failed" THEN reviewed
                     ELSE [reviewed EXCEPT ![call.attempt.id].refused = TRUE]
      /\ call' = None
      /\ UNCHANGED <<active, apart, stored, known, form, filling, stray, tries>>
  BY DEF HearError, server
<1>2. a \in Try /\ Sent(a) /\ id \in 1 .. MaxTries /\ Counts(id) /\ IsLast(id) /\ r # None /\ a # None
  BY <1>1, RecordAssumption DEF SplitInv, SplitTypes, SentInv, Call, Try, LastInv, Counts, IsLast
<1>3. CASE call.answer = "failed"
  <2>1. unconfirmed' = a /\ UNCHANGED reviewed
    BY <1>1, <1>3
  <2>2. SplitTypes'
    BY <1>1, <1>2, <2>1 DEF SplitInv, SplitTypes
  <2>3. SummariesInv' /\ SentInv'
    BY <1>1, <1>2, <2>1 DEF SplitInv, SummariesInv, SentInv, Sent, Divides
  <2>4. StoredInv' /\ KeysInv'
    <3>1. StoredInv'
      BY <1>1, <2>1 DEF SplitInv, StoredInv, Stored
    <3>2. KeysInv'
      BY <2>1 DEF SplitInv, KeysInv
    <3> QED
      BY <3>1, <3>2
  <2>5. LastInv'
    BY <1>1, <1>2, <2>1 DEF LastInv, Counts, IsLast
  <2>6. EachFormIsAdded'
    BY <1>1, <2>1 DEF SplitInv, EachFormIsAdded, Stored
  <2> QED
    BY <2>2, <2>3, <2>4, <2>5, <2>6 DEF SplitInv
<1>4. CASE call.answer # "failed"
  <2>1. /\ unconfirmed' = None
        /\ reviewed' = [reviewed EXCEPT ![id] = n]
    BY <1>1, <1>4
  <2>2. r \in Review /\ Divides(r)
    BY <1>2 DEF SplitInv, SplitTypes, SummariesInv
  <2>3. n \in Review /\ n.shares = r.shares /\ n.form = r.form /\ n.filling = r.filling /\ n.refused
    <3> HIDE DEF r
    <3> QED
      BY <2>2 DEF Review
  <2>4. Divides(n) /\ Alike(r, n)
    <3> HIDE DEF r, n
    <3> QED
      BY <2>2, <2>3 DEF Divides, Alike, InputsOf
  <2>5. tries' \in tries .. MaxTries
    BY <1>1, SplitAssumption DEF SplitInv, SplitTypes
  <2> HIDE DEF a, id, r, n
  <2>6. /\ reviewed' \in [1 .. MaxTries -> Review \union {None}]
        /\ SummariesInv' /\ KeysInv' /\ EachFormIsAdded'
        /\ \A i \in 1 .. MaxTries : (reviewed[i] # None) = (reviewed'[i] # None)
        /\ \A i \in 1 .. MaxTries : reviewed'[i].shares = reviewed[i].shares
        /\ \A i \in 1 .. MaxTries : reviewed'[i].filling = reviewed[i].filling
        /\ \A t \in Try : Sent(t) => Sent(t)'
    BY <1>1, <1>2, <2>1, <2>3, <2>4, <2>5, ReviewAgain DEF r
  <2>7. SplitTypes'
    BY <1>1, <2>1, <2>6 DEF SplitInv, SplitTypes
  <2>8. SentInv'
    <3>1. stray \in SUBSET Try /\ \A t \in stray : Sent(t)
      BY DEF SplitInv, SplitTypes, SentInv
    <3> QED
      BY <1>1, <2>1, <2>6, <3>1 DEF SentInv
  <2>9. StoredInv'
    BY <1>1, <2>6 DEF SplitInv, StoredInv, Stored
  <2>10. LastInv'
    <3>1. reviewed'[id] = n
      BY <1>2, <2>1 DEF SplitInv, SplitTypes
    <3>2. ASSUME NEW i \in 1 .. MaxTries, reviewed'[i] # None,
                 \A k \in i + 1 .. MaxTries : reviewed'[k] = None
          PROVE  i = id
      <4>1. reviewed[i] # None /\ reviewed'[id] # None
        BY <1>2, <2>6, <3>2 DEF r
      <4>2. \A k \in id + 1 .. MaxTries : reviewed[k] = None
        BY <1>2 DEF IsLast
      <4> QED
        BY <1>2, <3>2, <4>1, <4>2
    <3> QED
      BY <1>1, <2>1, <2>3, <3>1, <3>2 DEF LastInv, IsLast
  <2> QED
    BY <2>6, <2>7, <2>8, <2>9, <2>10 DEF SplitInv
<1> QED
  BY <1>3, <1>4

LEMMA GiveUpKeeps ==
    ASSUME SplitInv, GiveUp
    PROVE  SplitInv'
<1>1. /\ call # None /\ unconfirmed' = call.attempt /\ call' = None
      /\ stray' \in {stray, stray \union {call.attempt}}
      /\ UNCHANGED <<active, apart, stored, known, form, filling, tries, reviewed>>
  BY DEF GiveUp, server
<1>2. /\ call.attempt \in Try /\ Sent(call.attempt) /\ Counts(call.attempt.id) /\ call.attempt # None
  BY <1>1, RecordAssumption DEF SplitInv, SplitTypes, SentInv, Call, LastInv
<1>3. SplitTypes'
  BY <1>1, <1>2 DEF SplitInv, SplitTypes
<1>4. SummariesInv' /\ SentInv'
  BY <1>1, <1>2 DEF SplitInv, SummariesInv, SentInv, Sent, Divides
<1>5. StoredInv' /\ KeysInv'
  BY <1>1 DEF SplitInv, StoredInv, Stored, KeysInv
<1>6. LastInv'
  BY <1>1, <1>2 DEF LastInv, Counts, IsLast
<1>7. EachFormIsAdded'
  BY <1>1 DEF SplitInv, EachFormIsAdded, Stored
<1> QED
  BY <1>3, <1>4, <1>5, <1>6, <1>7 DEF SplitInv

\* A new key has no summary yet, and differs from the last one that counts.
LEMMA NewKey ==
    ASSUME SplitInv, tries < MaxTries, UNCHANGED <<filling, stored>>, tries' = tries + 1,
           NEW n \in Review, Divides(n), n.filling = filling,
           \A i \in 1 .. MaxTries : IsLast(i) =>
              \/ reviewed[i].refused
              \/ reviewed[i].filling < filling
              \/ InputsOf(reviewed[i]) # InputsOf(n),
           reviewed' = [reviewed EXCEPT ![tries + 1] = n]
    PROVE  /\ reviewed' \in [1 .. MaxTries -> Review \union {None}]
           /\ SummariesInv' /\ KeysInv' /\ EachFormIsAdded'
           /\ \A i \in 1 .. MaxTries : reviewed[i] # None => reviewed'[i] = reviewed[i]
           /\ reviewed'[tries + 1] = n /\ reviewed[tries + 1] = None
           /\ \A k \in tries + 2 .. MaxTries : reviewed'[k] = None
<1> DEFINE id == tries + 1
<1>1. /\ reviewed \in [1 .. MaxTries -> Review \union {None}] /\ n # None
      /\ tries \in Nat /\ id \in 1 .. MaxTries /\ MaxTries \in Nat
  BY RecordAssumption, SplitAssumption DEF SplitInv, SplitTypes
<1>2. \A i \in 1 .. MaxTries : i > tries => reviewed[i] = None
  BY <1>1 DEF SplitInv, SummariesInv
<1>3. reviewed' = [reviewed EXCEPT ![id] = n]
  OBVIOUS
<1>4. id > tries /\ tries' = id
  BY <1>1
<1> HIDE DEF id
<1>5. reviewed'[id] = n /\ \A i \in 1 .. MaxTries : i # id => reviewed'[i] = reviewed[i]
  BY <1>1, <1>3
<1>6. reviewed[id] = None /\ \A i \in 1 .. MaxTries : reviewed[i] # None => reviewed'[i] = reviewed[i]
  BY <1>1, <1>2, <1>4, <1>5
<1>7. reviewed' \in [1 .. MaxTries -> Review \union {None}]
  BY <1>1, <1>3
<1>8. SummariesInv'
  <2>1. ASSUME NEW i \in 1 .. MaxTries, reviewed'[i] # None
        PROVE  i <= tries' /\ reviewed'[i].filling <= filling' /\ Divides(reviewed'[i])
    <3>1. CASE i = id
      <4>1. filling \in Nat
        BY DEF SplitInv, SplitTypes
      <4> QED
        BY <1>1, <1>4, <1>5, <3>1, <4>1
    <3>2. CASE i # id
      <4>1. reviewed[i] # None /\ reviewed'[i] = reviewed[i]
        BY <1>5, <2>1, <3>2
      <4>2. i <= tries /\ reviewed[i].filling <= filling /\ Divides(reviewed[i])
        BY <4>1 DEF SplitInv, SummariesInv
      <4> QED
        BY <1>1, <4>1, <4>2
    <3> QED
      BY <3>1, <3>2
  <2> QED
    BY <2>1 DEF SummariesInv, Divides
<1>9. KeysInv'
  <2>1. ASSUME NEW i \in 1 .. MaxTries, NEW j \in 1 .. MaxTries,
               i < j, reviewed'[i] # None, reviewed'[j] # None,
               \A k \in i + 1 .. j - 1 : reviewed'[k] = None
        PROVE  \/ reviewed'[i].refused
               \/ reviewed'[i].filling < reviewed'[j].filling
               \/ InputsOf(reviewed'[i]) # InputsOf(reviewed'[j])
    <3>1. i # id
      <4>1. i # id \/ reviewed[j] # None
        BY <1>5, <2>1
      <4>2. i = id => reviewed[j] = None
        BY <1>1, <1>2, <1>4, <2>1
      <4> QED
        BY <4>1, <4>2
    <3>2. reviewed'[i] = reviewed[i] /\ reviewed[i] # None
      BY <1>5, <2>1, <3>1
    <3>3. CASE j = id
      <4>1. ASSUME NEW k \in i + 1 .. MaxTries PROVE reviewed[k] = None
        <5>1. k \in 1 .. MaxTries
          BY <1>1
        <5>2. CASE k > tries
          BY <1>2, <5>1, <5>2
        <5>3. CASE ~(k > tries)
          <6>1. k \in i + 1 .. j - 1 /\ k # id
            BY <1>1, <1>4, <3>3, <5>1, <5>3 DEF id
          <6> QED
            BY <1>5, <2>1, <5>1, <6>1
        <5> QED
          BY <5>2, <5>3
      <4>2. IsLast(i)
        BY <3>2, <4>1 DEF IsLast
      <4> QED
        BY <1>5, <3>2, <3>3, <4>2
    <3>4. CASE j # id
      <4>1. reviewed'[j] = reviewed[j] /\ reviewed[j] # None
        BY <1>5, <2>1, <3>4
      <4>2. \A k \in i + 1 .. j - 1 : reviewed[k] = None
        <5>1. \A k \in i + 1 .. j - 1 : k \in 1 .. MaxTries
          BY <1>1
        <5> QED
          BY <1>6, <2>1, <5>1
      <4> QED
        BY <2>1, <3>2, <4>1, <4>2 DEF SplitInv, KeysInv
    <3> QED
      BY <3>3, <3>4
  <2> QED
    BY <2>1 DEF KeysInv, InputsOf
<1>10. EachFormIsAdded'
  <2>1. \A i \in Stored : i \in 1 .. MaxTries /\ reviewed[i] # None
    BY DEF SplitInv, StoredInv, Stored
  <2> QED
    BY <1>6, <2>1 DEF SplitInv, EachFormIsAdded, Stored
<1>11. \A k \in tries + 2 .. MaxTries : reviewed'[k] = None
  <2>1. \A k \in tries + 2 .. MaxTries : k \in 1 .. MaxTries /\ k > tries /\ k # id
    BY <1>1 DEF id
  <2> QED
    BY <1>2, <1>5, <2>1
<1> QED
  BY <1>5, <1>6, <1>7, <1>8, <1>9, <1>10, <1>11 DEF id

\* What is sent, and the summary that goes with it.
LEMMA SubmitSends ==
    ASSUME SplitInv, Submit
    PROVE  \E n \in Review :
             /\ Divides(n) /\ n.form = form /\ n.filling = filling /\ InputsOf(n) = Inputs
             /\ Attempt.id \in 1 .. MaxTries
             /\ Attempt = AttemptFor(n, Attempt.id) /\ Attempt \in Try
             /\ reviewed' = [reviewed EXCEPT ![Attempt.id] = n]
             /\ \/ unconfirmed # None /\ Attempt = unconfirmed /\ Alike(reviewed[Attempt.id], n)
                \/ Attempt.id = tries + 1 /\ (unconfirmed # None => unconfirmed.inputs # Inputs)
<1> DEFINE S == sharingIds
           s == computeSplit(form, S)
           n == [shares |-> s, form |-> form, filling |-> filling, refused |-> FALSE]
           a == Attempt
<1>1. /\ form # None /\ tries < MaxTries /\ s # None
      /\ reviewed' = [reviewed EXCEPT ![a.id] = n]
  BY DEF Submit
<1>2. /\ form \in Forms /\ filling \in Nat /\ tries \in Nat /\ tries + 1 \in 1 .. MaxTries
      /\ reviewed \in [1 .. MaxTries -> Review \union {None}]
  BY <1>1, SplitAssumption DEF SplitInv, SplitTypes
<1>3. S \in SUBSET Members /\ Payer \in S
  BY SplitAssumption DEF SplitInv, SplitTypes, sharingIds
<1>4. s \in [S -> Nat] /\ DOMAIN s = S /\ s \in Split
  <2> HIDE DEF S
  <2>1. s \in [S -> Nat]
    BY <1>1, <1>2, <1>3, SplitIsFair
  <2> HIDE DEF s
  <2> QED
    BY <1>3, <2>1 DEF Split
<1>5. /\ n \in Review /\ Divides(n) /\ InputsOf(n) = Inputs
      /\ n.form = form /\ n.filling = filling /\ n.shares = s
  <2>1. n.shares = s /\ n.form = form /\ n.filling = filling /\ n.refused = FALSE
    OBVIOUS
  <2>2. s = computeSplit(form, S) /\ S = sharingIds
    OBVIOUS
  <2>3. n \in Review
    <3> HIDE DEF s
    <3> QED
      BY <1>2, <1>4 DEF Review
  <2> HIDE DEF n, s, S
  <2> QED
    BY <1>3, <1>4, <2>1, <2>2, <2>3 DEF Divides, InputsOf, Inputs
<1>6. CASE unconfirmed # None /\ unconfirmed.inputs = Inputs
  <2>1. a = unconfirmed
    BY <1>6 DEF Attempt
  <2> DEFINE r == reviewed[a.id]
  <2>2. /\ a \in Try /\ a.id \in 1 .. MaxTries /\ r # None /\ a = AttemptFor(r, a.id)
        /\ Counts(a.id)
    <3>1. call = None
      BY DEF Submit
    <3> HIDE DEF a
    <3> QED
      BY <1>6, <2>1, <3>1 DEF SplitInv, SplitTypes, SentInv, Sent, Try, LastInv
  <2>3. r \in Review /\ Divides(r) /\ r.filling = filling
    BY <2>2 DEF SplitInv, SplitTypes, SummariesInv, Counts
  <2>4. InputsOf(r) = Inputs
    <3>1. a.inputs = Inputs
      BY <1>6, <2>1
    <3> HIDE DEF a, r
    <3>2. a.inputs = InputsOf(r)
      BY <2>2 DEF AttemptFor
    <3> QED
      BY <3>1, <3>2
  <2> HIDE DEF n, s, S, a, r
  <2>5. /\ r.form.total = form.total /\ r.form.mode = form.mode /\ DOMAIN r.shares = S
        /\ TypedIn(r.form) = TypedIn(form)
    <3>1. \A k \in 1 .. 4 : InputsOf(r)[k] = Inputs[k]
      BY <2>4
    <3>2. InputsOf(r)[1] = Inputs[1] /\ InputsOf(r)[2] = Inputs[2]
          /\ InputsOf(r)[3] = Inputs[3] /\ InputsOf(r)[4] = Inputs[4]
      BY <3>1
    <3> QED
      BY <3>2 DEF InputsOf, Inputs, S
  <2>6. r.shares = s
    <3>1. computeSplit(r.form, S) = computeSplit(form, S)
      BY <2>5, SplitIsOfInputs
    <3> QED
      BY <2>3, <2>5, <3>1 DEF Divides, s
  <2>7. Alike(r, n)
    BY <1>5, <2>3, <2>4, <2>6 DEF Alike
  <2>8. AttemptFor(n, a.id) = AttemptFor(r, a.id)
    BY <2>7, AlikeAttempts
  <2> QED
    BY <1>1, <1>5, <1>6, <2>1, <2>2, <2>7, <2>8 DEF a, r
<1>7. CASE ~(unconfirmed # None /\ unconfirmed.inputs = Inputs)
  <2>1. a = [inputs |-> Inputs, id |-> tries + 1, with |-> S, total |-> form.total,
             custom |-> IF form.mode = "equal" THEN None ELSE s]
    BY <1>7 DEF Attempt
  <2>2. a.id = tries + 1
    BY <2>1
  <2> HIDE DEF n, s, S, a
  <2>3. a = AttemptFor(n, tries + 1)
    BY <1>4, <1>5, <2>1 DEF AttemptFor
  <2>4. a \in Try
    <3>1. Inputs \in {<<f.total, f.mode, T, TypedIn(f)>> : f \in Forms, T \in SUBSET Members}
      BY <1>2, <1>3 DEF Inputs, S
    <3>2. form.total \in Nat
      BY <1>2, SplitAssumption
    <3> QED
      BY <1>2, <1>3, <1>4, <2>1, <3>1, <3>2 DEF Try
  <2> QED
    BY <1>1, <1>2, <1>5, <1>7, <2>2, <2>3, <2>4 DEF a
<1> QED
  BY <1>6, <1>7

LEMMA SubmitKeeps ==
    ASSUME SplitInv, Submit
    PROVE  SplitInv'
<1> DEFINE a == Attempt
           id == a.id
<1>1. PICK n \in Review :
        /\ Divides(n) /\ n.form = form /\ n.filling = filling /\ InputsOf(n) = Inputs
        /\ id \in 1 .. MaxTries
        /\ a = AttemptFor(n, id) /\ a \in Try
        /\ reviewed' = [reviewed EXCEPT ![id] = n]
        /\ \/ unconfirmed # None /\ a = unconfirmed /\ Alike(reviewed[id], n)
           \/ id = tries + 1 /\ (unconfirmed # None => unconfirmed.inputs # Inputs)
  BY SubmitSends
<1>2. /\ call = None /\ tries < MaxTries /\ tries' = tries + 1
      /\ call' = [attempt |-> a, answer |-> None]
      /\ UNCHANGED <<active, apart, stored, known, form, filling, unconfirmed, stray>>
  BY DEF Submit, server
<1> HIDE DEF a
<1>3. /\ call' \in Call /\ call' # None /\ call'.attempt = a /\ call'.answer = None
      /\ tries \in Nat /\ tries' \in tries .. MaxTries /\ tries' \in 0 .. MaxTries
  BY <1>1, <1>2, RecordAssumption, SplitAssumption DEF Call, SplitInv, SplitTypes
<1>4. reviewed \in [1 .. MaxTries -> Review \union {None}] /\ n # None
  BY RecordAssumption DEF SplitInv, SplitTypes
<1> HIDE DEF id
<1>5. /\ reviewed' \in [1 .. MaxTries -> Review \union {None}]
      /\ SummariesInv' /\ KeysInv' /\ EachFormIsAdded'
      /\ \A i \in Stored : reviewed'[i].shares = reviewed[i].shares /\ reviewed'[i] # None
      /\ \A t \in Try : Sent(t) => Sent(t)'
      /\ \A k \in id + 1 .. MaxTries : reviewed'[k] = None
  <2>1. \A i \in Stored : i \in 1 .. MaxTries /\ reviewed[i] # None
    BY DEF SplitInv, StoredInv, Stored
  <2>2. CASE unconfirmed # None /\ a = unconfirmed /\ Alike(reviewed[id], n)
    <3>1. IsLast(id)
      BY <1>2, <2>2 DEF SplitInv, LastInv, Counts, id
    <3>2. /\ reviewed' \in [1 .. MaxTries -> Review \union {None}]
          /\ SummariesInv' /\ KeysInv' /\ EachFormIsAdded'
          /\ \A i \in 1 .. MaxTries : (reviewed[i] # None) = (reviewed'[i] # None)
          /\ \A i \in 1 .. MaxTries : reviewed'[i].shares = reviewed[i].shares
          /\ \A i \in 1 .. MaxTries : reviewed'[i].filling = reviewed[i].filling
          /\ \A t \in Try : Sent(t) => Sent(t)'
      BY <1>1, <1>2, <1>3, <2>2, <3>1, ReviewAgain
    <3>3. \A k \in id + 1 .. MaxTries : reviewed'[k] = None
      <4>1. \A k \in id + 1 .. MaxTries : k \in 1 .. MaxTries /\ k # id
        BY <1>1
      <4> QED
        BY <1>1, <1>4, <3>1, <4>1 DEF IsLast
    <3> QED
      BY <2>1, <3>2, <3>3
  <2>3. CASE id = tries + 1 /\ (unconfirmed # None => unconfirmed.inputs # Inputs)
    <3>1. ASSUME NEW i \in 1 .. MaxTries, IsLast(i)
          PROVE  \/ reviewed[i].refused
                 \/ reviewed[i].filling < filling
                 \/ InputsOf(reviewed[i]) # InputsOf(n)
      <4>1. CASE unconfirmed = None
        BY <1>2, <3>1, <4>1 DEF SplitInv, LastInv
      <4>2. CASE unconfirmed # None
        <5> DEFINE j == unconfirmed.id
        <5>1. /\ j \in 1 .. MaxTries /\ IsLast(j) /\ unconfirmed = AttemptFor(reviewed[j], j)
          BY <1>2, <4>2 DEF SplitInv, SplitTypes, Try, LastInv, Counts, SentInv, Sent
        <5>2. i = j
          <6>1. reviewed[i] # None /\ reviewed[j] # None
            BY <3>1, <5>1 DEF IsLast
          <6>2. \A k \in i + 1 .. MaxTries : reviewed[k] = None
            BY <3>1 DEF IsLast
          <6>3. \A k \in j + 1 .. MaxTries : reviewed[k] = None
            BY <5>1 DEF IsLast
          <6> HIDE DEF j
          <6> QED
            BY <5>1, <6>1, <6>2, <6>3
        <5>3. unconfirmed.inputs = InputsOf(reviewed[i])
          <6> HIDE DEF j
          <6> QED
            BY <5>1, <5>2 DEF AttemptFor
        <5> QED
          BY <1>1, <2>3, <4>2, <5>3
      <4> QED
        BY <4>1, <4>2
    <3>2. reviewed' = [reviewed EXCEPT ![tries + 1] = n]
      BY <1>1, <2>3
    <3>3. /\ reviewed' \in [1 .. MaxTries -> Review \union {None}]
          /\ SummariesInv' /\ KeysInv' /\ EachFormIsAdded'
          /\ \A i \in 1 .. MaxTries : reviewed[i] # None => reviewed'[i] = reviewed[i]
          /\ reviewed'[tries + 1] = n /\ reviewed[tries + 1] = None
          /\ \A k \in tries + 2 .. MaxTries : reviewed'[k] = None
      BY <1>1, <1>2, <3>1, <3>2, NewKey
    <3>4. ASSUME NEW t \in Try, Sent(t) PROVE Sent(t)'
      <4>1. t.id \in 1 .. MaxTries /\ reviewed[t.id] # None
        BY <3>4 DEF Try, Sent
      <4>2. reviewed'[t.id] = reviewed[t.id]
        BY <3>3, <4>1
      <4> QED
        BY <3>4, <4>2 DEF Sent
    <3>5. \A k \in id + 1 .. MaxTries : reviewed'[k] = None
      BY <1>3, <2>3, <3>3
    <3>6. \A i \in Stored : reviewed'[i].shares = reviewed[i].shares /\ reviewed'[i] # None
      BY <2>1, <3>3
    <3> QED
      BY <3>3, <3>4, <3>5, <3>6
  <2> QED
    BY <1>1, <2>2, <2>3
<1>6. reviewed'[id] = n
  BY <1>1, <1>4
<1>7. a.id = id
  BY DEF id
<1>8. SplitTypes'
  BY <1>2, <1>3, <1>5 DEF SplitInv, SplitTypes
<1>9. SentInv'
  <2>1. /\ stray \in SUBSET Try /\ \A t \in stray : Sent(t)
        /\ unconfirmed # None => unconfirmed \in Try /\ Sent(unconfirmed)
    BY DEF SplitInv, SplitTypes, SentInv
  <2>2. Sent(call.attempt)'
    BY <1>1, <1>3, <1>4, <1>6, <1>7 DEF Sent
  <2>3. \A t \in stray' : Sent(t)'
    BY <1>2, <1>5, <2>1
  <2>4. unconfirmed' # None => Sent(unconfirmed)'
    <3>1. ASSUME unconfirmed # None PROVE Sent(unconfirmed)'
      <4>1. unconfirmed \in Try /\ Sent(unconfirmed)
        BY <2>1, <3>1
      <4>2. reviewed'[unconfirmed.id] # None /\ unconfirmed = AttemptFor(reviewed'[unconfirmed.id], unconfirmed.id)
        BY <1>5, <4>1 DEF Sent
      <4> QED
        BY <1>2, <4>2 DEF Sent
    <3> QED
      BY <1>2, <3>1
  <2> QED
    BY <2>2, <2>3, <2>4 DEF SentInv, Sent
<1>10. StoredInv'
  <2>1. None # "added"
    BY RecordAssumption
  <2> QED
    BY <1>2, <1>3, <1>5, <2>1 DEF SplitInv, StoredInv, Stored
<1>11. LastInv'
  BY <1>1, <1>2, <1>3, <1>4, <1>5, <1>6, <1>7 DEF LastInv, Counts, IsLast
<1> QED
  BY <1>5, <1>8, <1>9, <1>10, <1>11 DEF SplitInv

THEOREM SplitInvHolds == Spec => []SplitInv
<1>1. SplitInv /\ [Next]_vars => SplitInv'
  <2> SUFFICES ASSUME SplitInv, [Next]_vars PROVE SplitInv'
    OBVIOUS
  <2>1. /\ active \in SUBSET Members /\ known \in SUBSET Members /\ form \in Forms \union {None}
    BY DEF SplitInv, SplitTypes
  <2>2. ASSUME NEW u \in Joiners, Join(u) PROVE SplitInv'
    BY <2>1, <2>2, SplitAssumption, OthersKeep DEF Join, phone
  <2>3. ASSUME NEW pair \in Quarrels, Quarrel(pair) PROVE SplitInv'
    BY <2>1, <2>3, OthersKeep DEF Quarrel, phone
  <2>4. CASE Refresh
    BY <2>1, <2>4, OthersKeep DEF Refresh, server
  <2>5. ASSUME NEW f \in Forms, Fill(f) PROVE SplitInv'
    BY <2>1, <2>5, OthersKeep DEF Fill, server
  <2>6. CASE UNCHANGED vars
    BY <2>1, <2>6, OthersKeep DEF vars, server, phone
  <2>7. ASSUME NEW f \in IF tries = 0 THEN Forms ELSE LaterForms PROVE f \in Forms
    BY SplitAssumption
  <2> QED
    BY <2>2, <2>3, <2>4, <2>5, <2>6, <2>7, SubmitKeeps, ServeCallKeeps, ServeStrayKeeps,
       HearAddedKeeps, HearErrorKeeps, GiveUpKeeps DEF Next
<1> QED
  BY SplitStart, <1>1, PTL DEF Spec

\* The shares of every expense that the server stores add up to it and are fair, for any
\* group, totals, percentages and number of tries (splitExpense, computeSplit).
THEOREM EveryShareIsFair == Spec => []SharesAreFair
BY SplitInvHolds, InvSuffices, PTL

\* What the server stores under a key is what the last summary under that key showed, and
\* it turns no split down that the screen lets through (Attempt, splitExpense).
THEOREM WhatWasSeenIsStored == Spec => []StoredAsReviewed
BY SplitInvHolds, InvSuffices, PTL

\* However answers are lost and requests late, what was seen in one summary is added once,
\* and a form that was reported as added was (Attempt, addExpense).
THEOREM NoneTooManyNoneTooFew == Spec => []FormsBecomeExpenses
BY SplitInvHolds, InvSuffices, PTL

-----------------------------------------------------------------------------
(* ChainSearch: how far back a search goes.                                *)

LEMMA SpanReaches ==
    ASSUME NEW age \in Ages
    PROVE  /\ span(age) \in Nat /\ span(age) <= MaxLookback
           /\ age # Nil /\ span(age) < MaxLookback => age \in Nat /\ age + Margin <= span(age)
<1>1. age \in Nat \/ age = Nil
  BY SearchAssumption
<1>2. CASE age = Nil
  BY <1>2, SearchAssumption DEF span
<1>3. CASE age # Nil
  <2>1. age \in Nat
    BY <1>1, <1>3
  <2> DEFINE far == age + Margin
  <2>2. far \in Nat /\ MaxLookback \in Nat
    BY <2>1, SearchAssumption
  <2> HIDE DEF far
  <2>3. (102 * far + 99) \div 100 \in Nat /\ (102 * far + 99) \div 100 >= far
    BY <2>2
  <2>4. span(age) = IF (102 * far + 99) \div 100 < MaxLookback THEN (102 * far + 99) \div 100 ELSE MaxLookback
    BY <1>3 DEF span, far
  <2>5. span(age) \in Nat /\ span(age) <= MaxLookback /\ (span(age) < MaxLookback => far <= span(age))
    BY <2>2, <2>3, <2>4
  <2> QED
    BY <2>1, <2>5 DEF far
<1> QED
  BY <1>2, <1>3

-----------------------------------------------------------------------------
(* The invariant of the search.  "w" bounds the window after so many       *)
(* refusals, while nothing was read (RequestsOutlast).                     *)

ChainInv ==
    /\ head \in Nat /\ sent \in Nat /\ sent <= head
    /\ mined # Nil => mined \in Nat /\ sent < mined /\ mined <= head
    /\ latest \in Nat /\ latest <= head /\ lowest \in Nat /\ lowest <= latest

NotFoundYet == answer # Nil /\ answer.status = "not-found"

\* The lowest block is that of the age that was asked for.
LowestInv ==
    searching \/ NotFoundYet =>
        asked.age \in Ages /\ (lowest = 0 \/ latest - lowest = span(asked.age))

LoopInv(w) ==
    searching =>
        /\ to \in Nat /\ lowest <= to /\ to <= latest
        /\ size \in Nat /\ size > 0
        /\ requests \in 0 .. MaxRequests - 1
        /\ scannedFrom = to + 1
        /\ Outside(scannedFrom, latest)
        /\ scannedFrom <= latest \/ size <= Floor \/ size <= w[requests]
        /\ answer = Nil

AnswerInv ==
    answer # Nil /\ answer.status # "found" /\ answer.from # Nil =>
        /\ answer.from \in Nat /\ answer.to = latest
        /\ Outside(answer.from, latest)
        /\ answer.status = "not-found" /\ answer.complete => answer.from <= lowest

SearchInv(w) == ChainInv /\ LowestInv /\ LoopInv(w) /\ AnswerInv

Halving(w) ==
    w \in [0 .. MaxRequests - 1 -> 0 .. MaxLookback + 1] /\ RequestsOutlast(w)

LEMMA InvariantSuffices ==
    ASSUME NEW w, SearchInv(w)
    PROVE  NothingIsSkipped
<1> SUFFICES ASSUME answer # Nil, answer.status # "found", answer.from # Nil
             PROVE  /\ Outside(answer.from, answer.to)
                    /\ answer.status = "not-found" /\ answer.complete /\ ClockIsRight => Outside(0, latest)
  BY DEF NothingIsSkipped
<1>1. /\ answer.from \in Nat /\ answer.to = latest
      /\ Outside(answer.from, latest)
      /\ answer.status = "not-found" /\ answer.complete => answer.from <= lowest
  BY DEF SearchInv, AnswerInv
<1>2. ASSUME answer.status = "not-found", answer.complete, ClockIsRight
      PROVE  Outside(0, latest)
  <2>1. asked.age \in Ages /\ (lowest = 0 \/ latest - lowest = span(asked.age))
    BY <1>2 DEF SearchInv, LowestInv, NotFoundYet
  <2>2. lowest <= sent
    <3>1. asked.age \in Nat /\ span(asked.age) \in Nat /\ asked.age + Margin <= span(asked.age)
      BY <1>2, <2>1, SpanReaches DEF ClockIsRight
    <3>2. latest <= sent + asked.age + Margin
      BY <1>2 DEF ClockIsRight
    <3> QED
      BY <2>1, <3>1, <3>2, SearchAssumption DEF SearchInv, ChainInv
  <2>3. mined # Nil => mined \in Nat /\ answer.from <= mined
    BY <1>1, <1>2, <2>2 DEF SearchInv, ChainInv
  <2> QED
    BY <1>1, <2>3, SearchAssumption DEF Outside, SearchInv, ChainInv
<1> QED
  BY <1>1, <1>2

-----------------------------------------------------------------------------
(* The steps keep it.                                                      *)

LEMMA GrowKeeps ==
    ASSUME NEW w, SearchInv(w), Grow
    PROVE  SearchInv(w)'
<1> USE SearchAssumption DEF Grow, search, loop
<1>1. ChainInv'
  BY DEF SearchInv, ChainInv
<1>2. LowestInv'
  BY DEF SearchInv, LowestInv, NotFoundYet, span
<1>3. ASSUME NEW first \in Nat, Outside(first, latest)
      PROVE  Outside(first, latest)'
  BY <1>3 DEF SearchInv, ChainInv, Outside
<1>4. LoopInv(w)'
  <2> SUFFICES ASSUME searching
               PROVE  LoopInv(w)'
    BY DEF LoopInv
  <2>1. scannedFrom \in Nat /\ Outside(scannedFrom, latest)
    BY DEF SearchInv, LoopInv
  <2>2. Outside(scannedFrom, latest)'
    BY <1>3, <2>1 DEF Outside
  <2> QED
    BY <2>2 DEF SearchInv, LoopInv
<1>5. AnswerInv'
  <2> SUFFICES ASSUME answer # Nil, answer.status # "found", answer.from # Nil
               PROVE  AnswerInv'
    BY DEF AnswerInv
  <2>1. answer.from \in Nat /\ Outside(answer.from, latest)
    BY DEF SearchInv, AnswerInv
  <2>2. Outside(answer.from, latest)'
    BY <1>3, <2>1 DEF Outside
  <2> QED
    BY <2>2 DEF SearchInv, AnswerInv
<1> QED
  BY <1>1, <1>2, <1>4, <1>5 DEF SearchInv

LEMMA BeginKeeps ==
    ASSUME NEW w, Halving(w), SearchInv(w), NEW age \in Ages, NEW payment, Begin(age, payment)
    PROVE  SearchInv(w)'
<1>1. span(age) \in Nat /\ span(age) <= MaxLookback
  BY SpanReaches
<1>2. latest' \in Nat /\ latest' <= head /\ head' = head /\ sent' = sent /\ mined' = mined
  BY SearchAssumption DEF Begin, chain, SearchInv, ChainInv
<1>3. lowest' \in Nat /\ lowest' <= latest' /\ (lowest' = 0 \/ latest' - lowest' = span(age))
      /\ latest' - lowest' <= span(age)
  BY <1>1, <1>2 DEF Begin
<1>4. ChainInv'
  BY <1>2, <1>3 DEF SearchInv, ChainInv
<1>5. LowestInv'
  <2>1. asked'.age = age
    BY DEF Begin
  <2>2. span(asked'.age) = span(age)
    BY <2>1
  <2> QED
    BY <1>3, <2>1, <2>2 DEF LowestInv, span
<1>6. LoopInv(w)'
  <2>1. size' = latest' - lowest' + 1 /\ to' = latest' /\ scannedFrom' = latest' + 1 /\ requests' = 0
        /\ answer' = Nil
    BY DEF Begin
  <2>2. size' \in Nat /\ size' > 0 /\ size' <= w[0]
    <3>1. w[0] = MaxLookback + 1 /\ MaxLookback \in Nat
      BY SearchAssumption DEF Halving, RequestsOutlast
    <3>2. size' \in Nat /\ size' > 0 /\ size' <= span(age) + 1
      <4>1. ASSUME NEW low \in Nat, NEW high \in Nat, NEW far \in Nat, low <= high, high - low <= far
            PROVE  high - low + 1 \in Nat /\ high - low + 1 > 0 /\ high - low + 1 <= far + 1
        BY <4>1
      <4> QED
        BY <1>1, <1>2, <1>3, <2>1, <4>1
    <3>3. size' <= MaxLookback + 1
      BY <1>1, <3>1, <3>2
    <3> QED
      BY <3>1, <3>2, <3>3
  <2>3. Outside(scannedFrom, latest)'
    BY <1>2, <2>1, SearchAssumption, <1>4 DEF Outside, ChainInv
  <2>4. requests' \in 0 .. MaxRequests - 1 /\ (size <= w[requests])'
    BY <2>1, <2>2, SearchAssumption
  <2>5. to' \in Nat /\ lowest' <= to' /\ to' <= latest' /\ scannedFrom' = to' + 1
    BY <1>2, <1>3, <2>1
  <2> QED
    BY <2>1, <2>2, <2>3, <2>4, <2>5 DEF LoopInv
<1>7. AnswerInv'
  BY DEF Begin, AnswerInv
<1> QED
  BY <1>4, <1>5, <1>6, <1>7 DEF SearchInv

LEMMA StayKeeps ==
    ASSUME NEW w, SearchInv(w), UNCHANGED <<chain, search>>, ~searching',
           answer'.status # "not-found" \/ searching,
           AnswerInv'
    PROVE  SearchInv(w)'
<1>1. ChainInv'
  BY DEF SearchInv, ChainInv, chain, search
<1>2. LowestInv'
  BY DEF SearchInv, LowestInv, NotFoundYet, chain, search, span
<1> QED
  BY <1>1, <1>2 DEF SearchInv, LoopInv

LEMMA BeginFailsKeeps ==
    ASSUME NEW w, SearchInv(w), BeginFails
    PROVE  SearchInv(w)'
<1>1. answer'.status = "unreadable" /\ answer'.from = Nil
  BY DEF BeginFails, Unreadable
<1>2. AnswerInv'
  BY <1>1 DEF AnswerInv
<1> QED
  BY <1>1, <1>2, StayKeeps DEF BeginFails

\* A search that goes on, with the blocks from scannedFrom' behind it.
LEMMA EndKeeps ==
    ASSUME NEW w, SearchInv(w), searching, UNCHANGED <<chain, search>>, ~searching',
           NEW first \in Nat, first <= latest, Outside(first, latest), answer' = NotFound(first)
    PROVE  SearchInv(w)'
<1>1. /\ answer'.status = "not-found" /\ answer'.to = latest
      /\ answer'.from = first /\ answer'.complete = (first <= lowest)
  BY DEF NotFound, SearchInv, ChainInv
<1>2. AnswerInv'
  BY <1>1 DEF AnswerInv, Outside, chain, search
<1> QED
  BY <1>2, StayKeeps

LEMMA RefusedKeeps ==
    ASSUME NEW w, Halving(w), SearchInv(w), WindowRefused
    PROVE  SearchInv(w)'
<1>1. /\ searching /\ size > Floor
      /\ requests' = requests + 1
      /\ size' = IF size \div 2 > Floor THEN size \div 2 ELSE Floor
      /\ UNCHANGED <<head, sent, mined, asked, latest, lowest, to, scannedFrom>>
      /\ UNCHANGED <<chain, search>>
  BY DEF WindowRefused, chain, search
<1>2. /\ to \in Nat /\ lowest <= to /\ to <= latest
      /\ size \in Nat /\ size > 0
      /\ requests \in 0 .. MaxRequests - 1
      /\ scannedFrom = to + 1
      /\ Outside(scannedFrom, latest)
      /\ scannedFrom <= latest \/ size <= Floor \/ size <= w[requests]
      /\ answer = Nil
  BY <1>1 DEF SearchInv, LoopInv
<1>3. size' \in Nat /\ size' > 0
  BY <1>1, <1>2, SearchAssumption
<1>4. scannedFrom > latest => requests + 1 < MaxRequests /\ (size' <= Floor \/ size' <= w[requests + 1])
  <2> SUFFICES ASSUME scannedFrom > latest
               PROVE  requests + 1 < MaxRequests /\ (size' <= Floor \/ size' <= w[requests + 1])
    OBVIOUS
  <2>1. size <= w[requests] /\ w[requests] \in Nat /\ latest \in Nat
    BY <1>1, <1>2, SearchAssumption DEF Halving, SearchInv, ChainInv
  <2>2. requests # MaxRequests - 1
    <3>1. w[MaxRequests - 1] <= Floor
      BY DEF Halving, RequestsOutlast
    <3>2. Floor \in Nat /\ ~(size <= Floor)
      BY <1>1, <1>2, SearchAssumption
    <3> QED
      BY <1>2, <2>1, <3>1, <3>2
  <2>3. requests \in 0 .. MaxRequests - 2
    BY <1>2, <2>2, SearchAssumption
  <2>4. w[requests + 1] = w[requests] \div 2
    BY <2>3 DEF Halving, RequestsOutlast
  <2>5. size \div 2 <= w[requests] \div 2
    BY <1>2, <2>1
  <2> QED
    BY <1>1, <1>2, <2>3, <2>4, <2>5, SearchAssumption
<1>5. CASE requests' = MaxRequests
  <2>1. ~searching' /\ answer' = NotFound(scannedFrom)
    BY <1>5 DEF WindowRefused, Ends
  <2>2. scannedFrom \in Nat /\ scannedFrom <= latest
    BY <1>1, <1>2, <1>4, <1>5, SearchAssumption DEF SearchInv, ChainInv
  <2> QED
    BY <1>1, <1>2, <2>1, <2>2, EndKeeps
<1>6. CASE requests' # MaxRequests
  <2>1. searching' /\ answer' = answer
    BY <1>6 DEF WindowRefused, GoesOn
  <2>2. requests' \in 0 .. MaxRequests - 1
    BY <1>1, <1>2, <1>6, SearchAssumption
  <2>3. Outside(scannedFrom, latest)'
    BY <1>1, <1>2 DEF Outside
  <2>4. (scannedFrom <= latest \/ size <= Floor \/ size <= w[requests])'
    BY <1>1, <1>2, <1>4 DEF SearchInv, ChainInv
  <2>5. LoopInv(w)'
    BY <1>1, <1>2, <1>3, <2>1, <2>2, <2>3, <2>4 DEF LoopInv
  <2>6. ChainInv' /\ LowestInv' /\ AnswerInv'
    BY <1>1, <1>2, <2>1 DEF SearchInv, ChainInv, LowestInv, AnswerInv, NotFoundYet, span
  <2> QED
    BY <2>5, <2>6 DEF SearchInv
<1> QED
  BY <1>5, <1>6

LEMMA NodeFailsKeeps ==
    ASSUME NEW w, SearchInv(w), NodeFails
    PROVE  SearchInv(w)'
<1>1. searching /\ ~searching' /\ UNCHANGED <<chain, search>>
  BY DEF NodeFails, Ends
<1>2. scannedFrom \in Nat /\ Outside(scannedFrom, latest)
  BY <1>1 DEF SearchInv, LoopInv
<1>3. /\ answer'.status = "unreadable" /\ answer'.to = latest
      /\ answer'.from # Nil => answer'.from = scannedFrom
  BY DEF NodeFails, Ends, Unreadable
<1>4. AnswerInv'
  BY <1>1, <1>2, <1>3 DEF AnswerInv, Outside, chain, search
<1> QED
  BY <1>1, <1>4, StayKeeps

LEMMA HasItKeeps ==
    ASSUME NEW w, SearchInv(w), WindowHasIt
    PROVE  SearchInv(w)'
<1>1. searching /\ ~searching' /\ UNCHANGED <<chain, search>>
  BY DEF WindowHasIt, Ends
<1>2. answer'.status = "found" \/ answer'.from = Nil
  BY DEF WindowHasIt, Ends, describeHit, Unreadable, Found
<1>3. AnswerInv'
  BY <1>2 DEF AnswerInv
<1> QED
  BY <1>1, <1>3, StayKeeps

LEMMA EmptyKeeps ==
    ASSUME NEW w, SearchInv(w), WindowIsEmpty
    PROVE  SearchInv(w)'
<1>1. /\ searching /\ ~Has(Behind)
      /\ requests' = requests + 1
      /\ scannedFrom' = from
      /\ to' = IF from = lowest THEN to ELSE from - 1
      /\ UNCHANGED <<chain, search>>
      /\ UNCHANGED <<head, sent, mined, asked, latest, lowest, size>>
  BY DEF WindowIsEmpty, chain, search
<1>2. /\ to \in Nat /\ lowest <= to /\ to <= latest
      /\ size \in Nat /\ size > 0
      /\ requests \in 0 .. MaxRequests - 1
      /\ scannedFrom = to + 1
      /\ Outside(scannedFrom, latest)
      /\ answer = Nil
  BY <1>1 DEF SearchInv, LoopInv
<1>3. from \in Nat /\ lowest <= from /\ from <= to /\ from <= latest
  BY <1>2 DEF from, SearchInv, ChainInv
<1>4. Outside(from, latest)
  BY <1>1, <1>2, <1>3, SearchAssumption DEF Outside, Has, SearchInv, ChainInv
<1>5. CASE from = lowest \/ requests' = MaxRequests
  <2>1. ~searching' /\ answer' = NotFound(from)
    BY <1>5 DEF WindowIsEmpty, Ends
  <2> QED
    BY <1>1, <1>3, <1>4, <2>1, EndKeeps
<1>6. CASE ~(from = lowest \/ requests' = MaxRequests)
  <2>1. searching' /\ answer' = answer /\ to' = from - 1
    BY <1>1, <1>6 DEF WindowIsEmpty, GoesOn
  <2>2. requests' \in 0 .. MaxRequests - 1
    BY <1>1, <1>2, <1>6, SearchAssumption
  <2>3. to' \in Nat /\ lowest <= to' /\ to' <= latest /\ scannedFrom' = to' + 1 /\ scannedFrom' <= latest
    BY <1>1, <1>2, <1>3, <1>6, <2>1 DEF SearchInv, ChainInv
  <2>4. Outside(scannedFrom, latest)'
    BY <1>1, <1>4 DEF Outside
  <2>5. LoopInv(w)'
    BY <1>1, <1>2, <2>1, <2>2, <2>3, <2>4 DEF LoopInv
  <2>6. ChainInv' /\ LowestInv' /\ AnswerInv'
    BY <1>1, <1>2, <2>1 DEF SearchInv, ChainInv, LowestInv, AnswerInv, NotFoundYet, span
  <2> QED
    BY <2>5, <2>6 DEF SearchInv
<1> QED
  BY <1>5, <1>6

\* An operation that was not found is not in the blocks the answer says were searched, for
\* every width at which the nodes refuse, every margin and every lag (findUserOperation).
THEOREM NothingIsMissed == SearchSpec => []NothingIsSkipped
<1>1. PICK w : Halving(w)
  BY SearchAssumption DEF Halving
<1>2. SearchInit => SearchInv(w)
  BY SearchAssumption DEF SearchInit, SearchInv, ChainInv, LowestInv, NotFoundYet, LoopInv, AnswerInv
<1>3. SearchInv(w) /\ [SearchNext]_searchVars => SearchInv(w)'
  <2> SUFFICES ASSUME SearchInv(w), [SearchNext]_searchVars
               PROVE  SearchInv(w)'
    OBVIOUS
  <2>1. CASE Grow
    BY <2>1, GrowKeeps
  <2>2. CASE \E age \in Ages, payment \in Payments \union {Native, Unread} : Begin(age, payment)
    BY <1>1, <2>2, BeginKeeps
  <2>3. CASE BeginFails
    BY <2>3, BeginFailsKeeps
  <2>4. CASE WindowRefused
    BY <1>1, <2>4, RefusedKeeps
  <2>5. CASE NodeFails
    BY <2>5, NodeFailsKeeps
  <2>6. CASE WindowHasIt
    BY <2>6, HasItKeeps
  <2>7. CASE WindowIsEmpty
    BY <2>7, EmptyKeeps
  <2>8. CASE UNCHANGED searchVars
    BY <2>8 DEF searchVars, chain, search, loop, SearchInv, ChainInv, LowestInv, NotFoundYet, LoopInv, AnswerInv,
                Outside, span
  <2> QED
    BY <2>1, <2>2, <2>3, <2>4, <2>5, <2>6, <2>7, <2>8 DEF SearchNext
<1>4. SearchInv(w) => NothingIsSkipped
  BY InvariantSuffices
<1> QED
  BY <1>2, <1>3, <1>4, PTL DEF SearchSpec

-----------------------------------------------------------------------------
(* The operation's own transfers.                                          *)

\* The account's transfers that the operation made, in a receipt.
Own(r) == {j \in Transfers(r, DOMAIN r) : r[j].by = Ours}

\* Those that pay "pays".
OwnOf(r, pays) == {j \in Own(r) : r[j].pays = pays}

\* The logs between two events are those of one operation.
LEMMA OperationsAreToldApart ==
    ASSUME NEW r \in Receipts, NEW i \in DOMAIN r, IsEvent(r[i], Ours)
    PROVE  Transfers(r, Between(r, i)) = Own(r)
<1>1. /\ DOMAIN r = 1 .. Len(r) /\ Len(r) \in Nat
      /\ \A n \in DOMAIN r : \E j \in n .. Len(r) :
            /\ IsEvent(r[j], r[n].by)
            /\ \A k \in n .. j : r[k].by = r[n].by
      /\ \A n, j \in DOMAIN r : n < j /\ r[n].kind = "event" => r[j].by # r[n].by
  BY ReceiptAssumption
<1>2. ASSUME NEW j \in Between(r, i)
      PROVE  j \in DOMAIN r /\ r[j].by = Ours
  <2>1. j \in 1 .. i - 1 /\ \A k \in j .. i - 1 : r[k].kind # "event"
    BY DEF Between
  <2>2. j \in DOMAIN r
    BY <1>1, <2>1
  <2>3. PICK e \in j .. Len(r) : IsEvent(r[e], r[j].by) /\ \A k \in j .. e : r[k].by = r[j].by
    BY <1>1, <2>2
  <2>4. e >= i
    BY <1>1, <2>1, <2>3 DEF IsEvent
  <2> QED
    BY <1>1, <2>1, <2>2, <2>3, <2>4 DEF IsEvent
<1>3. ASSUME NEW j \in DOMAIN r, r[j].by = Ours, r[j].kind = "transfer"
      PROVE  j \in Between(r, i)
  <2>1. j # i
    BY <1>3 DEF IsEvent
  <2>2. ~(i < j)
    BY <1>1, <1>3 DEF IsEvent
  <2>3. j \in 1 .. i - 1
    BY <1>1, <2>1, <2>2
  <2>4. PICK e \in j .. Len(r) : IsEvent(r[e], r[j].by) /\ \A k \in j .. e : r[k].by = r[j].by
    BY <1>1
  <2>5. e >= i
    <3>1. e \in DOMAIN r /\ r[e].kind = "event" /\ r[e].by = Ours /\ r[i].by = Ours
      BY <1>1, <1>3, <2>4 DEF IsEvent
    <3> QED
      BY <1>1, <3>1
  <2>6. ASSUME NEW k \in j .. i - 1
        PROVE  r[k].kind # "event"
    <3>1. k \in DOMAIN r /\ k < i /\ r[k].by = Ours /\ r[i].by = Ours
      BY <1>1, <1>3, <2>3, <2>4, <2>5 DEF IsEvent
    <3> QED
      BY <1>1, <3>1
  <2> QED
    BY <2>3, <2>6 DEF Between
<1> QED
  BY <1>2, <1>3 DEF Transfers, Own

\* What is said of a transfer is so in the operation's own.
LEMMA CheckIsTrue ==
    ASSUME NEW r \in Receipts, NEW i \in DOMAIN r, IsEvent(r[i], Ours), NEW payment,
           NEW check, check = checkTransfer(r, i, payment)
    PROVE  /\ check.kind = "matched" => /\ Cardinality(OwnOf(r, check.pays)) = 1
                                       /\ payment \in {check.pays, Unread}
           /\ check.kind = "missing" => OwnOf(r, payment) = {}
           /\ check.kind = "ambiguous" => Cardinality(OwnOf(r, payment)) > 1
<1> DEFINE matching == {j \in Own(r) : payment = Unread \/ r[j].pays = payment}
<1>1. Transfers(r, Between(r, i)) = Own(r)
  BY OperationsAreToldApart
<1>2. IsFiniteSet(matching)
  <2>1. DOMAIN r = 1 .. Len(r) /\ Len(r) \in Nat
    BY ReceiptAssumption
  <2>2. IsFiniteSet(1 .. Len(r))
    BY <2>1, FS_Interval
  <2> QED
    BY <2>1, <2>2, FS_Subset DEF Own, Transfers
<1>3. Cardinality({}) = 0
  BY FS_EmptySet
<1>4. check = TransferCheck(r, matching, payment)
  BY <1>1 DEF checkTransfer
<1>5. payment \in Payments => matching = OwnOf(r, payment)
  BY SearchAssumption DEF OwnOf
<1>6. CASE payment # Native /\ Cardinality(matching) = 1
  <2>1. PICK t : matching = {t}
    BY <1>2, <1>6, FS_Singleton
  <2>2. (CHOOSE j \in matching : TRUE) = t
    BY <2>1
  <2>3. check = Check("matched", r[t].pays)
    <3> HIDE DEF matching
    <3>1. ~(payment \in Payments /\ matching = {}) /\ ~(Cardinality(matching) > 1)
      BY <1>3, <1>6
    <3>2. check = Check("matched", r[CHOOSE j \in matching : TRUE].pays)
      BY <1>4, <1>6, <3>1 DEF TransferCheck
    <3> QED
      BY <2>2, <3>2
  <2>4. check.kind = "matched" /\ check.pays = r[t].pays
    BY <2>3 DEF Check
  <2>5. OwnOf(r, check.pays) = {t}
    BY <2>1, <2>4 DEF OwnOf
  <2>6. Cardinality({t}) = 1
    BY FS_Singleton
  <2>7. payment \in {check.pays, Unread}
    BY <2>1, <2>4
  <2> QED
    BY <2>4, <2>5, <2>6, <2>7
<1>7. CASE ~(payment # Native /\ Cardinality(matching) = 1)
  <2> HIDE DEF matching
  <2>1. CASE payment \in Payments /\ matching = {}
    <3>1. check = Check("missing", Nil)
      BY <1>3, <1>7, <1>4, <2>1 DEF TransferCheck
    <3>2. check.kind = "missing"
      BY <3>1 DEF Check
    <3> QED
      BY <1>5, <2>1, <3>2
  <2>2. CASE payment \in Payments /\ Cardinality(matching) > 1 /\ matching # {}
    <3>1. check = Check("ambiguous", Nil)
      BY <1>7, <1>4, <2>2 DEF TransferCheck
    <3>2. check.kind = "ambiguous"
      BY <3>1 DEF Check
    <3> QED
      BY <1>5, <2>2, <3>2
  <2>3. CASE ~(payment \in Payments /\ (matching = {} \/ Cardinality(matching) > 1))
    <3>1. check = Check("not-applicable", Nil)
      BY <1>7, <1>4, <2>3 DEF TransferCheck
    <3>2. check.kind = "not-applicable"
      BY <3>1 DEF Check
    <3> QED
      BY <3>2
  <2> QED
    BY <2>1, <2>2, <2>3
<1> QED
  BY <1>6, <1>7

-----------------------------------------------------------------------------
(* The verdict.                                                            *)

ReceiptInv == mined # Nil => receipt \in Receipts

FoundInv == answer # Nil /\ answer.status = "found" => mined # Nil

VerdictInv == ReceiptInv /\ FoundInv /\ VerdictIsTrue

LEMMA HitKeeps ==
    ASSUME VerdictInv, WindowHasIt
    PROVE  VerdictInv'
<1>1. PICK i \in DOMAIN receipt : IsEvent(receipt[i], Ours) /\ answer' \in describeHit(i)
  BY DEF WindowHasIt, Ends
<1>2. mined # Nil /\ receipt \in Receipts /\ UNCHANGED <<mined, receipt, asked>>
  BY DEF WindowHasIt, VerdictInv, ReceiptInv, chain, search, Has
<1>3. CASE receipt[i].sender # Account
  <2>1. answer'.status = "unreadable"
    BY <1>1, <1>3 DEF describeHit, Unreadable
  <2> QED
    BY <1>2, <2>1 DEF VerdictInv, ReceiptInv, FoundInv, VerdictIsTrue
<1>4. CASE receipt[i].sender = Account
  <2>1. receipt[i].ok \in BOOLEAN
    BY <1>1, <1>2, ReceiptAssumption DEF Logs, IsEvent
  <2> DEFINE said == answer'.transfer
  <2>2. /\ answer'.status = "found" /\ answer'.success = receipt[i].ok
        /\ \/ said = Check("not-applicable", Nil)
           \/ said = checkTransfer(receipt, i, asked.payment)
    <3>1. CASE receipt[i].ok = FALSE
      <4>1. answer' = Found(FALSE, Check("not-applicable", Nil))
        BY <1>1, <1>4, <3>1 DEF describeHit
      <4>2. answer'.status = "found" /\ answer'.success = FALSE /\ said = Check("not-applicable", Nil)
        BY <4>1 DEF Found
      <4> QED
        BY <3>1, <4>2
    <3>2. CASE receipt[i].ok = TRUE
      <4>1. \/ answer' = Found(TRUE, Check("not-applicable", Nil))
            \/ answer' = Found(TRUE, checkTransfer(receipt, i, asked.payment))
        BY <1>1, <1>4, <3>2 DEF describeHit
      <4>2. answer'.status = "found" /\ answer'.success = TRUE
        BY <4>1 DEF Found
      <4>3. said = Check("not-applicable", Nil) \/ said = checkTransfer(receipt, i, asked.payment)
        BY <4>1 DEF Found
      <4> QED
        BY <3>2, <4>2, <4>3
    <3> QED
      BY <2>1, <3>1, <3>2
  <2>3. ASSUME NEW ok, receipt[i].ok = ok
        PROVE  Ran(ok)'
    BY <1>1, <1>2, <1>4, <2>3 DEF Ran
  <2>4. /\ Verdict' = "confirmed" => receipt[i].ok = TRUE
        /\ Verdict' = "failed" => receipt[i].ok = FALSE
    BY <2>1, <2>2 DEF Verdict
  <2>5. /\ said.kind = "matched" => /\ Cardinality(OwnOf(receipt, said.pays)) = 1
                                   /\ asked.payment \in {said.pays, Unread}
        /\ said.kind = "missing" => OwnOf(receipt, asked.payment) = {}
        /\ said.kind = "ambiguous" => Cardinality(OwnOf(receipt, asked.payment)) > 1
    <3> HIDE DEF said
    <3>1. CASE said = Check("not-applicable", Nil)
      <4>1. said.kind = "not-applicable"
        BY <3>1 DEF Check
      <4> QED
        BY <4>1
    <3>2. CASE said = checkTransfer(receipt, i, asked.payment)
      BY <1>1, <1>2, <3>2, CheckIsTrue
    <3> QED
      BY <2>2, <3>1, <3>2
  <2>6. ASSUME NEW p
        PROVE  Made(p)' = OwnOf(receipt, p)
    BY <1>2 DEF Made, OwnOf, Own, Transfers
  <2>7. VerdictIsTrue'
    <3>1. Verdict' = "confirmed" => Ran(TRUE)'
      BY <2>3, <2>4
    <3>2. Verdict' = "failed" => Ran(FALSE)'
      BY <2>3, <2>4
    <3> QED
      BY <1>2, <2>5, <2>6, <3>1, <3>2 DEF VerdictIsTrue
  <2> QED
    BY <1>2, <2>7 DEF VerdictInv, ReceiptInv, FoundInv
<1> QED
  BY <1>3, <1>4

\* What is concluded about a payment is so, for every transaction it may be in (describeHit,
\* checkTransfer, reconcile).
THEOREM VerdictsAreTrue == SearchSpec => []VerdictIsTrue
<1>1. SearchInit => VerdictInv
  BY DEF SearchInit, VerdictInv, ReceiptInv, FoundInv, VerdictIsTrue
<1>2. VerdictInv /\ [SearchNext]_searchVars => VerdictInv'
  <2> SUFFICES ASSUME VerdictInv, [SearchNext]_searchVars
               PROVE  VerdictInv'
    OBVIOUS
  <2>1. ASSUME answer' = Nil \/ answer'.status # "found", UNCHANGED chain
        PROVE  VerdictInv'
    BY <2>1 DEF VerdictInv, ReceiptInv, FoundInv, VerdictIsTrue, chain
  <2>2. ASSUME UNCHANGED <<answer, asked>>, UNCHANGED <<mined, receipt>>
        PROVE  VerdictInv'
    BY <2>2 DEF VerdictInv, ReceiptInv, FoundInv, VerdictIsTrue, Verdict, Ran, Made, Transfers
  <2>3. CASE Grow
    <3>1. CASE UNCHANGED <<mined, receipt>>
      BY <2>2, <2>3, <3>1 DEF Grow, search
    <3>2. CASE mined = Nil /\ mined' = head' /\ receipt' \in Receipts
      <4>1. ~(answer' # Nil /\ answer'.status = "found")
        BY <2>3, <3>2 DEF Grow, VerdictInv, FoundInv
      <4> QED
        BY <3>2, <4>1 DEF VerdictInv, ReceiptInv, FoundInv, VerdictIsTrue
    <3> QED
      BY <2>3, <3>1, <3>2 DEF Grow
  <2>4. CASE \E age \in Ages, payment \in Payments \union {Native, Unread} : Begin(age, payment)
    BY <2>1, <2>4 DEF Begin
  <2>5. CASE BeginFails
    BY <2>1, <2>5 DEF BeginFails, Unreadable
  <2>6. CASE WindowRefused
    <3>1. answer' = NotFound(scannedFrom) \/ UNCHANGED answer
      BY <2>6 DEF WindowRefused, Ends, GoesOn
    <3> QED
      BY <2>1, <2>2, <2>6, <3>1 DEF WindowRefused, NotFound, chain, search
  <2>7. CASE NodeFails
    BY <2>1, <2>7 DEF NodeFails, Ends, Unreadable
  <2>8. CASE WindowHasIt
    BY <2>8, HitKeeps
  <2>9. CASE WindowIsEmpty
    <3>1. answer' = NotFound(from) \/ UNCHANGED answer
      BY <2>9 DEF WindowIsEmpty, Ends, GoesOn
    <3> QED
      BY <2>1, <2>2, <2>9, <3>1 DEF WindowIsEmpty, NotFound, chain, search
  <2>10. CASE UNCHANGED searchVars
    BY <2>2, <2>10 DEF searchVars, chain, search
  <2> QED
    BY <2>3, <2>4, <2>5, <2>6, <2>7, <2>8, <2>9, <2>10 DEF SearchNext
<1>3. VerdictInv => VerdictIsTrue
  BY DEF VerdictInv
<1> QED
  BY <1>1, <1>2, <1>3, PTL DEF SearchSpec

\* Whatever the phone is told of its operation is so: that it ran or reverted, what it paid,
\* and where it was not found.
THEOREM AnswersAreTrue == SearchSpec => []AnswerIsTrue
<1>1. VerdictIsTrue /\ NothingIsSkipped => AnswerIsTrue
  BY DEF AnswerIsTrue
<1> QED
  BY <1>1, VerdictsAreTrue, NothingIsMissed, PTL

-----------------------------------------------------------------------------
(* PhoneSession: the invariant.                                            *)

\* A sign-in or registration whose answer is still wanted.
Live(a) == attempt[a] # Absent /\ ~attempt[a].aborted

\* A write that shows or hides an account.
Turns(i) == queue[i].kind \in {"open", "close"}

\* What is wanted is the automatic sign-in or the registration that the refs hold.
MineInv == \A a \in Attempts : Live(a) => a = auto \/ a = reg

\* After a sign-out nothing that was under way is wanted, and nothing new begins.
GoneInv ==
    signedOut =>
        /\ shown = Absent /\ justLoggedOut /\ step = "gate"
        /\ entry # Absent => entry.stale
        /\ \A a \in Attempts : ~Live(a)
        /\ \A i \in DOMAIN queue : queue[i].kind \in {"open", "unblock"} => ~queue[i].current

\* A session to be saved is that of the attempt that waits for it, and no other's.
QueueInv ==
    /\ \A i \in DOMAIN queue : queue[i].kind = "open" =>
         /\ queue[i].by \in Attempts
         /\ attempt[queue[i].by] # Absent /\ attempt[queue[i].by].at = "saving"
         /\ queue[i].token \in 1 .. Len(owner)
         /\ owner[queue[i].token] = attempt[queue[i].by].who
         /\ queue[i].done > 0 => i = 1 /\ disk.token = queue[i].token
    /\ \A i, j \in DOMAIN queue :
         queue[i].kind = "open" /\ queue[j].kind = "open" /\ queue[i].by = queue[j].by => i = j
    /\ \A i \in DOMAIN queue : queue[i].kind = "close" => queue[i].by \in Exits

\* Of the writes that show or hide an account the last one counts; once an account is to
\* be hidden none is shown.
LastWriteInv ==
    /\ \A i, j \in DOMAIN queue :
         Turns(i) /\ Turns(j) /\ queue[i].current /\ queue[j].current => i = j
    /\ \A i \in DOMAIN queue : queue[i].kind = "close" /\ queue[i].current => shown = Absent

\* Whatever is wanted is for one person, who is the one shown, if one is.
OnePersonInv ==
    /\ \A a, b \in Attempts : Live(a) /\ Live(b) => attempt[a].who = attempt[b].who
    /\ \A a \in Attempts : Live(a) /\ shown # Absent => attempt[a].who = owner[shown.token]
    /\ \A a \in Attempts : Live(a) /\ attempt[a].kind = "auto" => privy \in {attempt[a].who, Absent}

\* While somebody signs in with the provider no automatic sign-in is wanted.
EntryInv ==
    entry # Absent =>
        /\ \A a \in Attempts : Live(a) => attempt[a].kind = "register"
        /\ entry.at = "closing" => starting
        /\ entry.at # "closing" => privy = Absent

\* A press that waits for the flag of the last sign-out to be erased has asked for that once.
PressInv ==
    /\ \A i \in DOMAIN queue : queue[i].kind = "unblock" => entry # Absent /\ entry.at = "unblocking"
    /\ \A i, j \in DOMAIN queue : queue[i].kind = "unblock" /\ queue[j].kind = "unblock" => i = j

\* Storage, the request that is listened to and the lists are of the person shown.
ShownInv ==
    /\ shown # Absent /\ disk.token # Absent => owner[disk.token] = owner[shown.token]
    /\ fetch # Absent /\ fetch.fresh =>
         /\ shown # Absent
         /\ fetch.sent /\ fetch.token # Absent => owner[fetch.token] = owner[shown.token]
    /\ fetch # Absent /\ fetch.token # Absent => fetch.token <= Len(owner)
    /\ ListIsOfShown

SessionInv ==
    /\ TypeOK /\ MineInv /\ GoneInv /\ QueueInv /\ LastWriteInv /\ OnePersonInv
    /\ EntryInv /\ PressInv /\ ShownInv

\* The writes that wait.
LEMMA QueueType ==
    ASSUME TypeOK
    PROVE  /\ queue \in Seq(Write) /\ Len(queue) \in Nat /\ DOMAIN queue = 1 .. Len(queue)
           /\ \A i \in 1 .. Len(queue) : queue[i] \in Write
BY DEF TypeOK

LEMMA Dequeued ==
    ASSUME TypeOK, queue # <<>>, Dequeue
    PROVE  /\ queue' \in Seq(Write) /\ 1 \in DOMAIN queue
           /\ \A i \in DOMAIN queue' : i \in Nat /\ i # 0 /\ i + 1 \in DOMAIN queue /\ queue'[i] = queue[i + 1]
<1>1. queue \in Seq(Write) /\ queue' = Tail(queue)
  BY DEF TypeOK, Dequeue
<1> QED
  BY <1>1

LEMMA WriteGoesOn ==
    ASSUME TypeOK, queue # <<>>, queue[1].done < 3, Written
    PROVE  /\ queue' \in Seq(Write) /\ 1 \in DOMAIN queue /\ DOMAIN queue' = DOMAIN queue
           /\ queue'[1].kind = queue[1].kind /\ queue'[1].by = queue[1].by
           /\ queue'[1].token = queue[1].token /\ queue'[1].current = queue[1].current
           /\ \A i \in DOMAIN queue : i # 1 => queue'[i] = queue[i]
<1> DEFINE t == [queue[1] EXCEPT !.done = @ + 1]
<1>1. /\ queue \in Seq(Write) /\ Len(queue) \in Nat /\ Len(queue) # 0 /\ queue[1] \in Write
      /\ queue' = [queue EXCEPT ![1] = t]
  <2>1. queue \in Seq(Write) /\ queue # <<>>
    BY DEF TypeOK
  <2>2. queue' = [queue EXCEPT ![1] = t]
    BY DEF Written
  <2> HIDE DEF t
  <2> QED
    BY <2>1, <2>2
<1>2. /\ t \in Write /\ t.kind = queue[1].kind /\ t.by = queue[1].by
      /\ t.token = queue[1].token /\ t.current = queue[1].current
  <2>1. queue[1] \in Write /\ queue[1].done < 3
    BY <1>1
  <2>2. queue[1].done + 1 \in 0 .. 3
    BY <2>1 DEF Write
  <2> QED
    BY <2>1, <2>2 DEF Write
<1> HIDE DEF t
<1> QED
  BY <1>1, <1>2

\* A write that puts out of date what was asked for before.
Queued(t) ==
    /\ queue' \in Seq(Write) /\ DOMAIN queue' = 1 .. Len(queue) + 1
    /\ queue'[Len(queue) + 1] = t
    /\ \A i \in 1 .. Len(queue) :
         /\ queue'[i].kind = queue[i].kind /\ queue'[i].by = queue[i].by
         /\ queue'[i].token = queue[i].token /\ queue'[i].done = queue[i].done
         /\ ~queue'[i].current

LEMMA QueuedLast ==
    ASSUME TypeOK, NEW t \in Write, queue' = Append(Outdated, t)
    PROVE  Queued(t)
<1> DEFINE old == Outdated
<1>1. /\ queue \in Seq(Write) /\ Len(queue) \in Nat /\ DOMAIN queue = 1 .. Len(queue)
      /\ \A i \in 1 .. Len(queue) : queue[i] \in Write
  BY QueueType
<1>2. old = [i \in 1 .. Len(queue) |-> [queue[i] EXCEPT !.current = FALSE]]
  BY <1>1 DEF Outdated
<1>3. ASSUME NEW i \in 1 .. Len(queue)
      PROVE  /\ old[i] \in Write
             /\ old[i].kind = queue[i].kind /\ old[i].by = queue[i].by
             /\ old[i].token = queue[i].token /\ old[i].done = queue[i].done
             /\ ~old[i].current
  <2>1. old[i] = [queue[i] EXCEPT !.current = FALSE] /\ queue[i] \in Write
    BY <1>1, <1>2
  <2> HIDE DEF old
  <2> QED
    BY <2>1 DEF Write
<1>4. old \in Seq(Write) /\ Len(old) = Len(queue)
  <2>1. old = [i \in 1 .. Len(queue) |-> old[i]]
    BY <1>2
  <2> HIDE DEF old
  <2>2. old \in [1 .. Len(queue) -> Write]
    BY <1>3, <2>1
  <2> QED
    BY <1>1, <2>2
<1>5. queue' = Append(old, t)
  OBVIOUS
<1> HIDE DEF old
<1>6. /\ queue' \in Seq(Write) /\ Len(queue') = Len(queue) + 1
      /\ queue'[Len(queue) + 1] = t
      /\ \A i \in 1 .. Len(queue) : queue'[i] = old[i]
  BY <1>1, <1>4, <1>5
<1>7. DOMAIN queue' = 1 .. Len(queue) + 1
  BY <1>6
<1> QED
  BY <1>3, <1>6, <1>7 DEF Queued

\* What is known of a write of a session that is under way.
LEMMA HeadOpen ==
    ASSUME SessionInv, First("open")
    PROVE  /\ queue # <<>> /\ 1 \in DOMAIN queue /\ queue[1] \in Write /\ queue[1].kind = "open"
           /\ queue[1].by \in Attempts
           /\ attempt[queue[1].by] \in SignIn /\ attempt[queue[1].by].at = "saving"
           /\ queue[1].token \in 1 .. Len(owner) /\ Len(owner) \in Nat /\ Len(owner) <= MaxTokens
           /\ owner[queue[1].token] \in People
           /\ owner[queue[1].token] = attempt[queue[1].by].who
           /\ queue[1].done > 0 => disk.token = queue[1].token
<1>1. TypeOK /\ QueueInv /\ queue # <<>> /\ queue[1].kind = "open"
  BY DEF SessionInv, First
<1>2. 1 \in DOMAIN queue /\ queue[1] \in Write
  BY <1>1, QueueType
<1>3. /\ queue[1].by \in Attempts
      /\ attempt[queue[1].by] # Absent /\ attempt[queue[1].by].at = "saving"
      /\ queue[1].token \in 1 .. Len(owner)
      /\ owner[queue[1].token] = attempt[queue[1].by].who
      /\ queue[1].done > 0 => disk.token = queue[1].token
  BY <1>1, <1>2 DEF QueueInv
<1>4. attempt[queue[1].by] \in SignIn /\ owner \in Seq(People) /\ Len(owner) <= MaxTokens
  BY <1>1, <1>3 DEF TypeOK
<1> QED
  BY <1>1, <1>2, <1>3, <1>4

LEMMA SaveSessionKeeps ==
    ASSUME SessionAssumption, SessionRecordAssumption, SessionInv, SaveSession
    PROVE  SessionInv'
<1> USE SessionAssumption, SessionRecordAssumption
<1>1. TypeOK /\ MineInv /\ GoneInv /\ QueueInv /\ LastWriteInv /\ OnePersonInv /\ EntryInv
      /\ PressInv /\ ShownInv
  BY DEF SessionInv
<1>2. /\ First("open") /\ queue # <<>> /\ queue[1].current /\ queue[1].done < 3 /\ Written
      /\ ~attempt[queue[1].by].aborted
      /\ UNCHANGED <<shown, justLoggedOut, attempt, autoKey, auto, reg, checking, starting, step, entry,
                     ignored, exit, fetch, list, accounts, owner, privy, cleanup, signedOut>>
  BY DEF SaveSession, First, StillWanted, session, attempts, gate, screens, service, provider, history
<1>3. /\ 1 \in DOMAIN queue /\ queue[1] \in Write /\ queue[1].kind = "open"
      /\ queue[1].by \in Attempts
      /\ attempt[queue[1].by] \in SignIn /\ attempt[queue[1].by].at = "saving"
      /\ queue[1].token \in 1 .. Len(owner) /\ Len(owner) \in Nat /\ Len(owner) <= MaxTokens
      /\ owner[queue[1].token] \in People
      /\ owner[queue[1].token] = attempt[queue[1].by].who
      /\ queue[1].done > 0 => disk.token = queue[1].token
  BY <1>2, HeadOpen
<1>4. /\ queue' \in Seq(Write) /\ DOMAIN queue' = DOMAIN queue
      /\ queue'[1].kind = queue[1].kind /\ queue'[1].by = queue[1].by
      /\ queue'[1].token = queue[1].token /\ queue'[1].current = queue[1].current
      /\ \A i \in DOMAIN queue : i # 1 => queue'[i] = queue[i]
  BY <1>1, <1>2, WriteGoesOn
<1>5. /\ disk' \in [token : Token \union {Absent}, profile : People \union {Absent}, out : BOOLEAN]
      /\ disk'.token = queue[1].token
  <2>1. /\ disk \in [token : Token \union {Absent}, profile : People \union {Absent}, out : BOOLEAN]
        /\ queue[1].token \in Token /\ queue[1].done \in 0 .. 3
    BY <1>1, <1>3 DEF TypeOK, Token, Write
  <2>2. CASE queue[1].done = 0
    <3>1. disk' = [disk EXCEPT !.token = queue[1].token]
      BY <2>2 DEF SaveSession
    <3> QED
      BY <2>1, <3>1
  <2>3. CASE queue[1].done = 1
    <3>1. disk' = [disk EXCEPT !.profile = owner[queue[1].token]]
      BY <2>3 DEF SaveSession
    <3> QED
      BY <2>1, <2>3, <3>1, <1>3
  <2>4. CASE queue[1].done = 2
    <3>1. disk' = [disk EXCEPT !.out = FALSE]
      BY <2>4 DEF SaveSession
    <3>2. disk.token = queue[1].token
      BY <2>4, <1>3
    <3> QED
      BY <2>1, <3>1, <3>2
  <2> QED
    BY <1>2, <2>1, <2>2, <2>3, <2>4
<1>6. TypeOK'
  BY <1>1, <1>2, <1>3, <1>4, <1>5 DEF TypeOK
<1>7. MineInv' /\ EntryInv' /\ OnePersonInv'
  BY <1>1, <1>2 DEF MineInv, EntryInv, OnePersonInv, Live
<1>8. GoneInv'
  BY <1>1, <1>2, <1>4 DEF GoneInv, Live
<1>9. QueueInv'
  <2>1. \A i \in DOMAIN queue' :
          /\ i \in DOMAIN queue /\ queue'[i].kind = queue[i].kind /\ queue'[i].by = queue[i].by
          /\ queue'[i].token = queue[i].token /\ (i # 1 => queue'[i].done = queue[i].done)
    BY <1>4
  <2>2. disk'.token = queue[1].token
    BY <1>5
  <2> QED
    BY <1>1, <1>2, <2>1, <2>2 DEF QueueInv
<1>10. LastWriteInv' /\ PressInv'
  <2>1. \A i \in DOMAIN queue' :
          i \in DOMAIN queue /\ queue'[i].kind = queue[i].kind /\ queue'[i].current = queue[i].current
    BY <1>4
  <2> QED
    BY <1>1, <1>2, <2>1 DEF LastWriteInv, Turns, PressInv
<1>11. ShownInv'
  <2>1. Live(queue[1].by)
    BY <1>2, <1>3 DEF Live
  <2>2. shown # Absent => owner[disk'.token] = owner[shown.token]
    BY <1>1, <1>3, <1>5, <2>1 DEF OnePersonInv
  <2> QED
    BY <1>1, <1>2, <2>2 DEF ShownInv, ListIsOfShown
<1> QED
  BY <1>6, <1>7, <1>8, <1>9, <1>10, <1>11 DEF SessionInv

\* The writes that are left when the first is done or dropped.
LEMMA RestKeeps ==
    ASSUME TypeOK, QueueInv, queue # <<>>, Dequeue, owner' = owner,
           \A i \in DOMAIN queue : i # 1 /\ queue[i].kind = "open"
             => attempt'[queue[i].by] = attempt[queue[i].by]
    PROVE  QueueInv'
<1>1. /\ 1 \in DOMAIN queue
      /\ \A i \in DOMAIN queue' : i \in Nat /\ i # 0 /\ i + 1 \in DOMAIN queue /\ queue'[i] = queue[i + 1]
  BY Dequeued
<1>2. \A i \in DOMAIN queue : i # 1 /\ queue[i].kind = "open" => ~(queue[i].done > 0)
  BY DEF QueueInv
<1>3. ASSUME NEW i \in DOMAIN queue', queue'[i].kind = "open"
      PROVE  /\ queue'[i].by \in Attempts
             /\ attempt'[queue'[i].by] # Absent /\ attempt'[queue'[i].by].at = "saving"
             /\ queue'[i].token \in 1 .. Len(owner')
             /\ owner'[queue'[i].token] = attempt'[queue'[i].by].who
             /\ queue'[i].done > 0 => i = 1 /\ disk'.token = queue'[i].token
  <2>1. PICK k \in DOMAIN queue : k = i + 1 /\ k # 1 /\ queue'[i] = queue[k]
    BY <1>1
  <2>2. attempt'[queue[k].by] = attempt[queue[k].by] /\ ~(queue[k].done > 0)
    BY <1>2, <1>3, <2>1
  <2> QED
    BY <1>3, <2>1, <2>2 DEF QueueInv
<1>4. ASSUME NEW i \in DOMAIN queue', NEW j \in DOMAIN queue',
             queue'[i].kind = "open", queue'[j].kind = "open", queue'[i].by = queue'[j].by
      PROVE  i = j
  <2>1. i \in Nat /\ j \in Nat /\ i + 1 = j + 1
    BY <1>1, <1>4 DEF QueueInv
  <2> QED
    BY <2>1
<1>5. \A i \in DOMAIN queue' : queue'[i].kind = "close" => queue'[i].by \in Exits
  BY <1>1 DEF QueueInv
<1> QED
  BY <1>3, <1>4, <1>5 DEF QueueInv

LEMMA RestIsAsBefore ==
    ASSUME TypeOK, LastWriteInv, queue # <<>>, Dequeue, shown' = shown
    PROVE  LastWriteInv'
<1>1. \A i \in DOMAIN queue' : i \in Nat /\ i # 0 /\ i + 1 \in DOMAIN queue /\ queue'[i] = queue[i + 1]
  BY Dequeued
<1>2. ASSUME NEW i \in DOMAIN queue', NEW j \in DOMAIN queue',
             Turns(i)', Turns(j)', queue'[i].current, queue'[j].current
      PROVE  i = j
  <2>1. i \in Nat /\ j \in Nat /\ i + 1 = j + 1
    BY <1>1, <1>2 DEF LastWriteInv, Turns
  <2> QED
    BY <2>1
<1>3. \A i \in DOMAIN queue' : queue'[i].kind = "close" /\ queue'[i].current => shown' = Absent
  BY <1>1 DEF LastWriteInv
<1> QED
  BY <1>2, <1>3 DEF LastWriteInv

LEMMA OtherPress ==
    ASSUME TypeOK, PressInv, queue # <<>>, Dequeue, queue[1].kind # "unblock" => entry' = entry
    PROVE  PressInv'
<1>1. /\ 1 \in DOMAIN queue
      /\ \A i \in DOMAIN queue' : i \in Nat /\ i # 0 /\ i + 1 \in DOMAIN queue /\ queue'[i] = queue[i + 1]
  BY Dequeued
<1>2. \A i \in DOMAIN queue' : queue'[i].kind = "unblock" => queue[1].kind # "unblock" /\ entry' = entry
  BY <1>1 DEF PressInv
<1>3. \A i \in DOMAIN queue' : queue'[i].kind = "unblock" => entry' # Absent /\ entry'.at = "unblocking"
  BY <1>1, <1>2 DEF PressInv
<1>4. ASSUME NEW i \in DOMAIN queue', NEW j \in DOMAIN queue',
             queue'[i].kind = "unblock", queue'[j].kind = "unblock"
      PROVE  i = j
  <2>1. i \in Nat /\ j \in Nat /\ i + 1 = j + 1
    BY <1>1, <1>4 DEF PressInv
  <2> QED
    BY <2>1
<1> QED
  BY <1>3, <1>4 DEF PressInv

LEMMA StillGone ==
    ASSUME TypeOK, GoneInv, queue # <<>>, Dequeue, signedOut' = signedOut,
           signedOut => /\ shown' = Absent /\ justLoggedOut' /\ step' = "gate"
                        /\ entry' # Absent => entry'.stale,
           \A a \in Attempts : Live(a)' => Live(a)
    PROVE  GoneInv'
<1>1. \A i \in DOMAIN queue' : i + 1 \in DOMAIN queue /\ queue'[i] = queue[i + 1]
  BY Dequeued
<1> QED
  BY <1>1 DEF GoneInv

\* The end of an attempt: nothing else is wanted than before.
LEMMA FinishEnds ==
    ASSUME SessionRecordAssumption, TypeOK, MineInv, NEW a \in Attempts, attempt[a] \in SignIn, Finish(a)
    PROVE  /\ attempt' \in [Attempts -> SignIn \union {Absent}]
           /\ autoKey' \in People \union {Absent} /\ auto' \in Attempts \union {Absent}
           /\ reg' \in Attempts \union {Absent}
           /\ auto' # Absent => attempt'[auto'] # Absent /\ attempt'[auto'].kind = "auto"
           /\ reg' # Absent => attempt'[reg'] # Absent /\ attempt'[reg'].kind = "register"
           /\ attempt'[a] = Absent /\ \A b \in Attempts : b # a => attempt'[b] = attempt[b]
           /\ \A b \in Attempts : Live(b)' => Live(b) /\ b # a
           /\ MineInv'
<1>1. /\ attempt' = [attempt EXCEPT ![a] = Absent]
      /\ auto' = IF auto = a THEN Absent ELSE auto
      /\ reg' = IF reg = a THEN Absent ELSE reg
      /\ autoKey' \in {Absent, autoKey}
  BY DEF Finish
<1>2. attempt \in [Attempts -> SignIn \union {Absent}]
  BY DEF TypeOK
<1>3. /\ attempt' \in [Attempts -> SignIn \union {Absent}]
      /\ attempt'[a] = Absent /\ \A b \in Attempts : b # a => attempt'[b] = attempt[b]
  BY <1>1, <1>2
<1>4. /\ autoKey' \in People \union {Absent} /\ auto' \in Attempts \union {Absent}
      /\ reg' \in Attempts \union {Absent}
  BY <1>1 DEF TypeOK
<1>5. /\ auto' # Absent => attempt'[auto'] # Absent /\ attempt'[auto'].kind = "auto"
      /\ reg' # Absent => attempt'[reg'] # Absent /\ attempt'[reg'].kind = "register"
  BY <1>1, <1>3 DEF TypeOK
<1>6. \A b \in Attempts : Live(b)' => Live(b) /\ b # a
  BY <1>3 DEF Live
<1>7. MineInv'
  BY <1>1, <1>6 DEF MineInv
<1> QED
  BY <1>3, <1>4, <1>5, <1>6, <1>7

LEMMA ShowSessionKeeps ==
    ASSUME SessionAssumption, SessionRecordAssumption, SessionInv, ShowSession
    PROVE  SessionInv'
<1> USE SessionAssumption, SessionRecordAssumption
<1>1. TypeOK /\ MineInv /\ GoneInv /\ QueueInv /\ LastWriteInv /\ OnePersonInv /\ EntryInv
      /\ PressInv /\ ShownInv
  BY DEF SessionInv
<1> DEFINE a == queue[1].by
<1>2. /\ First("open") /\ queue # <<>> /\ queue[1].current /\ queue[1].done = 3 /\ Dequeue
      /\ Finish(a) /\ ~attempt[a].aborted
      /\ UNCHANGED <<disk, starting, step, entry, ignored, exit, accounts, owner, privy, cleanup,
                     crashes, signedOut>>
  BY DEF ShowSession, First, StillWanted, gate, service, provider, history
<1>3. /\ 1 \in DOMAIN queue /\ queue[1] \in Write /\ queue[1].kind = "open"
      /\ a \in Attempts /\ attempt[a] \in SignIn
      /\ queue[1].token \in 1 .. Len(owner) /\ Len(owner) \in Nat /\ Len(owner) <= MaxTokens
      /\ owner[queue[1].token] \in People /\ owner[queue[1].token] = attempt[a].who
      /\ disk.token = queue[1].token
  BY <1>2, HeadOpen
<1>4. Live(a) /\ signedOut = FALSE
  BY <1>1, <1>2, <1>3 DEF Live, GoneInv, TypeOK
<1>5. /\ queue' \in Seq(Write)
      /\ \A i \in DOMAIN queue' : i \in Nat /\ i # 0 /\ i + 1 \in DOMAIN queue /\ queue'[i] = queue[i + 1]
  BY <1>1, <1>2, Dequeued
<1>6. /\ attempt' \in [Attempts -> SignIn \union {Absent}]
      /\ autoKey' \in People \union {Absent} /\ auto' \in Attempts \union {Absent}
      /\ reg' \in Attempts \union {Absent}
      /\ auto' # Absent => attempt'[auto'] # Absent /\ attempt'[auto'].kind = "auto"
      /\ reg' # Absent => attempt'[reg'] # Absent /\ attempt'[reg'].kind = "register"
      /\ \A b \in Attempts : b # a => attempt'[b] = attempt[b]
      /\ \A b \in Attempts : Live(b)' => Live(b) /\ b # a
      /\ MineInv'
  BY <1>1, <1>2, <1>3, FinishEnds
<1>7. /\ shown' = [token |-> queue[1].token, who |-> owner[queue[1].token]]
      /\ \/ list' = Absent /\ fetch' = IF fetch = Absent THEN Absent ELSE [fetch EXCEPT !.fresh = FALSE]
         \/ shown # Absent /\ UNCHANGED <<list, fetch>>
      /\ justLoggedOut' = FALSE
  BY DEF ShowSession, ResetAccountScope, screens
<1> HIDE DEF a
<1>8. /\ shown' \in Shown /\ shown' # Absent /\ shown'.token = queue[1].token
      /\ fetch' \in Request \union {Absent} /\ list' \in People \union {Absent}
  <2>1. shown' \in Shown /\ shown'.token = queue[1].token
    BY <1>3, <1>7 DEF Shown, Token
  <2>2. fetch \in Request \union {Absent} /\ list \in People \union {Absent}
    BY <1>1 DEF TypeOK
  <2> QED
    BY <1>7, <2>1, <2>2 DEF Request
<1>9. TypeOK'
  <2>1. justLoggedOut' \in BOOLEAN
    BY <1>7
  <2>2. shown' # Absent => shown'.token <= Len(owner)
    BY <1>3, <1>8
  <2> QED
    BY <1>1, <1>2, <1>5, <1>6, <1>8, <2>1, <2>2 DEF TypeOK
<1>10. GoneInv'
  BY <1>2, <1>4 DEF GoneInv
<1>11. QueueInv'
  <2>1. \A i \in DOMAIN queue : i # 1 /\ queue[i].kind = "open"
          => attempt'[queue[i].by] = attempt[queue[i].by]
    BY <1>1, <1>3, <1>6 DEF QueueInv, a
  <2> QED
    BY <1>1, <1>2, <2>1, RestKeeps
<1>12. LastWriteInv'
  <2>1. \A i \in DOMAIN queue' : ~(Turns(i)' /\ queue'[i].current)
    BY <1>1, <1>2, <1>3, <1>5 DEF LastWriteInv, Turns
  <2> QED
    BY <2>1 DEF LastWriteInv, Turns
<1>16. PressInv'
  BY <1>1, <1>2, <1>3, OtherPress
<1>13. OnePersonInv'
  BY <1>1, <1>2, <1>3, <1>4, <1>6, <1>8 DEF OnePersonInv
<1>14. EntryInv'
  BY <1>1, <1>2, <1>6 DEF EntryInv
<1>15. ShownInv'
  <2>1. shown # Absent => owner[shown.token] = owner[shown'.token]
    BY <1>1, <1>3, <1>4, <1>8 DEF OnePersonInv
  <2>2. CASE shown # Absent /\ UNCHANGED <<list, fetch>>
    BY <1>1, <1>2, <1>3, <1>8, <2>1, <2>2 DEF ShownInv, ListIsOfShown
  <2>3. CASE list' = Absent /\ fetch' = IF fetch = Absent THEN Absent ELSE [fetch EXCEPT !.fresh = FALSE]
    <3>1. fetch' # Absent => /\ fetch # Absent /\ ~fetch'.fresh
                             /\ fetch'.token = fetch.token
      BY <1>1, <2>3 DEF TypeOK, Request
    <3> QED
      BY <1>1, <1>2, <1>3, <1>8, <2>3, <3>1 DEF ShownInv, ListIsOfShown
  <2> QED
    BY <1>7, <2>2, <2>3
<1> QED
  BY <1>6, <1>9, <1>10, <1>11, <1>12, <1>13, <1>14, <1>15, <1>16 DEF SessionInv

LEMMA DropSessionKeeps ==
    ASSUME SessionAssumption, SessionRecordAssumption, SessionInv, DropSession
    PROVE  SessionInv'
<1> USE SessionAssumption, SessionRecordAssumption
<1>1. TypeOK /\ MineInv /\ GoneInv /\ QueueInv /\ LastWriteInv /\ OnePersonInv /\ EntryInv
      /\ PressInv /\ ShownInv
  BY DEF SessionInv
<1> DEFINE a == queue[1].by
<1>2. /\ First("open") /\ queue # <<>> /\ Dequeue /\ Finish(a)
      /\ UNCHANGED <<disk, shown, justLoggedOut, starting, step, entry, ignored, exit, fetch, list,
                     accounts, owner, privy, cleanup, crashes, signedOut>>
  BY DEF DropSession, First, session, gate, screens, service, provider, history
<1>3. 1 \in DOMAIN queue /\ queue[1].kind = "open" /\ a \in Attempts /\ attempt[a] \in SignIn
  BY <1>2, HeadOpen
<1>5. queue' \in Seq(Write)
  BY <1>1, <1>2, Dequeued
<1>6. /\ attempt' \in [Attempts -> SignIn \union {Absent}]
      /\ autoKey' \in People \union {Absent} /\ auto' \in Attempts \union {Absent}
      /\ reg' \in Attempts \union {Absent}
      /\ auto' # Absent => attempt'[auto'] # Absent /\ attempt'[auto'].kind = "auto"
      /\ reg' # Absent => attempt'[reg'] # Absent /\ attempt'[reg'].kind = "register"
      /\ \A b \in Attempts : b # a => attempt'[b] = attempt[b]
      /\ \A b \in Attempts : Live(b)' => Live(b) /\ b # a
      /\ MineInv'
  BY <1>1, <1>2, <1>3, FinishEnds
<1> HIDE DEF a
<1>9. TypeOK'
  BY <1>1, <1>2, <1>5, <1>6 DEF TypeOK
<1>10. GoneInv'
  <2>1. signedOut => /\ shown' = Absent /\ justLoggedOut' /\ step' = "gate"
                     /\ entry' # Absent => entry'.stale
    BY <1>1, <1>2 DEF GoneInv
  <2> QED
    BY <1>1, <1>2, <1>6, <2>1, StillGone
<1>11. QueueInv'
  <2>1. \A i \in DOMAIN queue : i # 1 /\ queue[i].kind = "open"
          => attempt'[queue[i].by] = attempt[queue[i].by]
    BY <1>1, <1>3, <1>6 DEF QueueInv, a
  <2> QED
    BY <1>1, <1>2, <2>1, RestKeeps
<1>12. LastWriteInv'
  BY <1>1, <1>2, RestIsAsBefore
<1>16. PressInv'
  BY <1>1, <1>2, <1>3, OtherPress
<1>13. OnePersonInv'
  BY <1>1, <1>2, <1>6 DEF OnePersonInv
<1>14. EntryInv' /\ ShownInv'
  BY <1>1, <1>2, <1>6 DEF EntryInv, ShownInv, ListIsOfShown
<1> QED
  BY <1>6, <1>9, <1>10, <1>11, <1>12, <1>13, <1>14, <1>16 DEF SessionInv

DiskType == [token : Token \union {Absent}, profile : People \union {Absent}, out : BOOLEAN]

\* A step of a write that erases something.
LEMMA ErasingKeeps ==
    ASSUME SessionAssumption, SessionRecordAssumption, SessionInv,
           queue # <<>>, queue[1].kind # "open", queue[1].done < 3, Written,
           disk' \in DiskType, disk'.token \in {disk.token, Absent},
           UNCHANGED <<session, attempts, gate, exit, screens, service, provider, history>>
    PROVE  SessionInv'
<1> USE SessionAssumption, SessionRecordAssumption
<1>1. TypeOK /\ MineInv /\ GoneInv /\ QueueInv /\ LastWriteInv /\ OnePersonInv /\ EntryInv
      /\ PressInv /\ ShownInv
  BY DEF SessionInv
<1>2. UNCHANGED <<shown, justLoggedOut, attempt, autoKey, auto, reg, checking, starting, step, entry,
                  ignored, exit, fetch, list, accounts, owner, privy, cleanup, signedOut>>
  BY DEF session, attempts, gate, screens, service, provider, history
<1>3. queue' \in Seq(Write)
  BY <1>1, WriteGoesOn
<1>4. \A i \in DOMAIN queue' :
        /\ i \in DOMAIN queue /\ queue'[i].kind = queue[i].kind /\ queue'[i].by = queue[i].by
        /\ queue'[i].token = queue[i].token /\ queue'[i].current = queue[i].current
        /\ (i # 1 => queue'[i].done = queue[i].done)
        /\ queue'[1].kind # "open"
  BY <1>1, WriteGoesOn
<1>5. disk'.token # Absent => disk'.token = disk.token
  OBVIOUS
<1>6. TypeOK'
  BY <1>1, <1>2, <1>3, <1>5 DEF TypeOK, DiskType
<1>7. MineInv' /\ EntryInv' /\ OnePersonInv'
  BY <1>1, <1>2 DEF MineInv, EntryInv, OnePersonInv, Live
<1>8. GoneInv'
  BY <1>1, <1>2, <1>4 DEF GoneInv, Live
<1>9. QueueInv'
  BY <1>1, <1>2, <1>4 DEF QueueInv
<1>10. LastWriteInv' /\ PressInv'
  BY <1>1, <1>2, <1>4 DEF LastWriteInv, Turns, PressInv
<1>11. ShownInv'
  BY <1>1, <1>2, <1>5 DEF ShownInv, ListIsOfShown
<1> QED
  BY <1>6, <1>7, <1>8, <1>9, <1>10, <1>11 DEF SessionInv

\* A write that ends, or is dropped, and shows nobody.
LEMMA ErasedKeeps ==
    ASSUME SessionAssumption, SessionRecordAssumption, SessionInv,
           queue # <<>>, queue[1].kind \notin {"open", "unblock"}, Dequeue,
           disk' \in DiskType, disk'.token \in {disk.token, Absent},
           exit' \in [Exits -> {Absent, "saving", "closing"}],
           UNCHANGED <<session, attempts, gate, screens, service, provider, history>>
    PROVE  SessionInv'
<1> USE SessionAssumption, SessionRecordAssumption
<1>1. TypeOK /\ MineInv /\ GoneInv /\ QueueInv /\ LastWriteInv /\ OnePersonInv /\ EntryInv
      /\ PressInv /\ ShownInv
  BY DEF SessionInv
<1>2. UNCHANGED <<shown, justLoggedOut, attempt, autoKey, auto, reg, checking, starting, step, entry,
                  ignored, fetch, list, accounts, owner, privy, cleanup, signedOut>>
  BY DEF session, attempts, gate, screens, service, provider, history
<1>3. queue' \in Seq(Write)
  BY <1>1, Dequeued
<1>4. disk'.token # Absent => disk'.token = disk.token
  OBVIOUS
<1>5. TypeOK'
  BY <1>1, <1>2, <1>3, <1>4 DEF TypeOK, DiskType
<1>6. MineInv' /\ EntryInv' /\ OnePersonInv'
  BY <1>1, <1>2 DEF MineInv, EntryInv, OnePersonInv, Live
<1>7. GoneInv'
  <2>1. \A a \in Attempts : Live(a)' => Live(a)
    BY <1>2 DEF Live
  <2>2. signedOut => /\ shown' = Absent /\ justLoggedOut' /\ step' = "gate"
                     /\ entry' # Absent => entry'.stale
    BY <1>1, <1>2 DEF GoneInv
  <2> QED
    BY <1>1, <1>2, <2>1, <2>2, StillGone
<1>8. QueueInv'
  BY <1>1, <1>2, RestKeeps
<1>9. LastWriteInv'
  BY <1>1, <1>2, RestIsAsBefore
<1>10. PressInv'
  BY <1>1, <1>2, OtherPress
<1>11. ShownInv'
  BY <1>1, <1>2, <1>4 DEF ShownInv, ListIsOfShown
<1> QED
  BY <1>5, <1>6, <1>7, <1>8, <1>9, <1>10, <1>11 DEF SessionInv

LEMMA SaveExitKeeps ==
    ASSUME SessionAssumption, SessionRecordAssumption, SessionInv, SaveExit
    PROVE  SessionInv'
<1>1. /\ queue # <<>> /\ queue[1].kind = "close" /\ queue[1].done < 2 /\ Written
      /\ UNCHANGED <<session, attempts, gate, exit, screens, service, provider, history>>
      /\ disk' = [disk EXCEPT !.token = Absent] \/ disk' = [disk EXCEPT !.profile = Absent]
  BY DEF SaveExit, First
<1>2. TypeOK
  BY DEF SessionInv
<1>3. disk \in DiskType
  BY <1>2 DEF TypeOK, DiskType
<1>4. disk' \in DiskType /\ disk'.token \in {disk.token, Absent}
  BY <1>1, <1>3 DEF DiskType
<1>5. queue[1] \in Write
  BY <1>1, <1>2, QueueType
<1>6. queue[1].done < 3
  BY <1>1, <1>5 DEF Write
<1> QED
  BY <1>1, <1>4, <1>6, ErasingKeeps

LEMMA ExitFailsKeeps ==
    ASSUME SessionAssumption, SessionRecordAssumption, SessionInv, ExitFails
    PROVE  SessionInv'
<1>1. /\ queue # <<>> /\ queue[1].kind = "close" /\ Dequeue
      /\ exit' = [exit EXCEPT ![queue[1].by] = Absent]
      /\ UNCHANGED <<disk, session, attempts, gate, screens, service, provider, history>>
  BY DEF ExitFails, First
<1>2. TypeOK
  BY DEF SessionInv
<1>3. disk' \in DiskType /\ disk'.token = disk.token
  BY <1>1, <1>2 DEF TypeOK, DiskType
<1>4. exit' \in [Exits -> {Absent, "saving", "closing"}]
  BY <1>1, <1>2 DEF TypeOK
<1> QED
  BY <1>1, <1>3, <1>4, ErasedKeeps

LEMMA ExpireKeeps ==
    ASSUME SessionAssumption, SessionRecordAssumption, SessionInv, Expire
    PROVE  SessionInv'
<1>1. /\ queue # <<>> /\ queue[1].kind = "expire"
      /\ UNCHANGED <<session, attempts, gate, exit, screens, service, provider, history>>
      /\ \/ Dequeue /\ UNCHANGED disk
         \/ queue[1].done = 0 /\ disk' = [disk EXCEPT !.token = Absent] /\ Written
         \/ disk' = [disk EXCEPT !.profile = Absent] /\ Dequeue
  BY DEF Expire, First
<1>2. TypeOK
  BY DEF SessionInv
<1>3. disk \in DiskType /\ exit \in [Exits -> {Absent, "saving", "closing"}]
  BY <1>2 DEF TypeOK, DiskType
<1>4. exit' \in [Exits -> {Absent, "saving", "closing"}]
  BY <1>1, <1>3
<1>5. disk' \in DiskType /\ disk'.token \in {disk.token, Absent}
  BY <1>1, <1>3 DEF DiskType
<1>6. CASE Dequeue
  BY <1>1, <1>4, <1>5, <1>6, ErasedKeeps
<1>7. CASE queue[1].done = 0 /\ Written
  BY <1>1, <1>5, <1>7, ErasingKeeps
<1> QED
  BY <1>1, <1>6, <1>7

LEMMA ExitSavedKeeps ==
    ASSUME SessionAssumption, SessionRecordAssumption, SessionInv, ExitSaved
    PROVE  SessionInv'
<1> USE SessionAssumption, SessionRecordAssumption
<1>1. TypeOK /\ MineInv /\ GoneInv /\ QueueInv /\ LastWriteInv /\ OnePersonInv /\ EntryInv
      /\ PressInv /\ ShownInv
  BY DEF SessionInv
<1>2. /\ queue # <<>> /\ queue[1].kind = "close" /\ Dequeue
      /\ disk' = [disk EXCEPT !.out = TRUE] /\ starting' = TRUE
      /\ exit' = [exit EXCEPT ![queue[1].by] = "closing"]
      /\ UNCHANGED <<attempt, autoKey, auto, reg, checking, step, entry,
                     ignored, fetch, list, accounts, owner, privy, signedOut>>
  BY DEF ExitSaved, First, attempts, screens, service, history
<1>3. \/ queue[1].current /\ shown' = Absent /\ justLoggedOut' = TRUE
      \/ UNCHANGED <<shown, justLoggedOut>>
  BY DEF ExitSaved, session
<1>4. queue' \in Seq(Write) /\ 1 \in DOMAIN queue
  BY <1>1, <1>2, Dequeued
<1>5. shown' = shown /\ justLoggedOut' \in BOOLEAN
  BY <1>1, <1>2, <1>3, <1>4 DEF LastWriteInv, TypeOK
<1>13. justLoggedOut => justLoggedOut'
  BY <1>3
<1>6. TypeOK'
  <2>1. disk' \in DiskType /\ disk'.token = disk.token
    BY <1>1, <1>2 DEF TypeOK, DiskType
  <2>2. exit' \in [Exits -> {Absent, "saving", "closing"}]
    BY <1>1, <1>2 DEF TypeOK
  <2> QED
    BY <1>1, <1>2, <1>4, <1>5, <2>1, <2>2 DEF TypeOK, DiskType
<1>7. MineInv' /\ EntryInv' /\ OnePersonInv'
  BY <1>1, <1>2, <1>5 DEF MineInv, EntryInv, OnePersonInv, Live
<1>8. GoneInv'
  <2>1. \A a \in Attempts : Live(a)' => Live(a)
    BY <1>2 DEF Live
  <2>2. signedOut => /\ shown' = Absent /\ justLoggedOut' /\ step' = "gate"
                     /\ entry' # Absent => entry'.stale
    BY <1>1, <1>2, <1>5, <1>13 DEF GoneInv
  <2> QED
    BY <1>1, <1>2, <2>1, <2>2, StillGone
<1>9. QueueInv'
  BY <1>1, <1>2, RestKeeps
<1>10. LastWriteInv'
  BY <1>1, <1>2, <1>5, RestIsAsBefore
<1>11. PressInv'
  BY <1>1, <1>2, OtherPress
<1>12. ShownInv'
  <2>1. disk'.token = disk.token
    BY <1>1, <1>2 DEF TypeOK
  <2> QED
    BY <1>1, <1>2, <1>5, <2>1 DEF ShownInv, ListIsOfShown
<1> QED
  BY <1>6, <1>7, <1>8, <1>9, <1>10, <1>11, <1>12 DEF SessionInv

LEMMA UnblockKeeps ==
    ASSUME SessionAssumption, SessionRecordAssumption, SessionInv, Unblock
    PROVE  SessionInv'
<1> USE SessionAssumption, SessionRecordAssumption
<1>1. TypeOK /\ MineInv /\ GoneInv /\ QueueInv /\ LastWriteInv /\ OnePersonInv /\ EntryInv
      /\ PressInv /\ ShownInv
  BY DEF SessionInv
<1>2. queue # <<>> /\ queue[1].kind = "unblock" /\ queue[1].current
  BY DEF Unblock, First, StillWanted
<1>3. 1 \in DOMAIN queue /\ queue[1] \in Write
  BY <1>1, <1>2, QueueType
<1>4. signedOut = FALSE /\ entry \in Entry /\ entry # Absent /\ entry.at = "unblocking"
  BY <1>1, <1>2, <1>3 DEF GoneInv, TypeOK, PressInv
<1>5. CASE queue[1].done = 0
  <2>1. /\ Written /\ disk' = [disk EXCEPT !.out = FALSE]
        /\ UNCHANGED <<session, attempts, gate, exit, screens, service, provider, history>>
    BY <1>5 DEF Unblock, session, gate
  <2>2. disk' \in DiskType /\ disk'.token = disk.token
    BY <1>1, <2>1 DEF TypeOK, DiskType
  <2> QED
    BY <1>2, <1>5, <2>1, <2>2, ErasingKeeps
<1>6. CASE queue[1].done = 1
  <2>1. /\ Dequeue /\ justLoggedOut' = FALSE /\ ignored' = Absent
        /\ UNCHANGED <<disk, shown, attempt, autoKey, auto, reg, checking, starting, step, exit, fetch,
                       list, accounts, owner, privy, signedOut>>
        /\ entry' = [entry EXCEPT !.at = "asking"]
    BY <1>6 DEF Unblock, attempts, screens, service, provider, history
  <2>2. entry' \in Entry /\ entry' # Absent /\ entry'.at = "asking"
    BY <1>4, <2>1 DEF Entry
  <2>3. queue' \in Seq(Write)
    BY <1>1, <1>2, <2>1, Dequeued
  <2>4. TypeOK'
    <3>1. justLoggedOut' \in BOOLEAN /\ TypeOK
      BY <1>1, <2>1
    <3> QED
      BY <2>1, <2>2, <2>3, <3>1 DEF TypeOK
  <2>5. MineInv' /\ OnePersonInv' /\ EntryInv'
    BY <1>1, <1>4, <2>1, <2>2 DEF MineInv, OnePersonInv, EntryInv, Live
  <2>6. GoneInv'
    BY <1>4, <2>1 DEF GoneInv
  <2>7. QueueInv'
    BY <1>1, <1>2, <2>1, RestKeeps
  <2>8. LastWriteInv' /\ PressInv'
    BY <1>1, <1>2, <2>1, RestIsAsBefore, OtherPress
  <2>9. ShownInv'
    BY <1>1, <2>1 DEF ShownInv, ListIsOfShown
  <2> QED
    BY <2>4, <2>5, <2>6, <2>7, <2>8, <2>9 DEF SessionInv
<1> QED
  BY <1>5, <1>6 DEF Unblock

LEMMA UnblockRefusedKeeps ==
    ASSUME SessionAssumption, SessionRecordAssumption, SessionInv, UnblockRefused
    PROVE  SessionInv'
<1> USE SessionAssumption, SessionRecordAssumption
<1>1. TypeOK /\ MineInv /\ GoneInv /\ QueueInv /\ LastWriteInv /\ OnePersonInv /\ EntryInv
      /\ PressInv /\ ShownInv
  BY DEF SessionInv
<1>2. /\ queue # <<>> /\ queue[1].kind = "unblock" /\ Dequeue
      /\ entry' = Absent /\ starting' = FALSE
      /\ UNCHANGED <<disk, shown, justLoggedOut, attempt, autoKey, auto, reg, checking, step, exit, fetch,
                     list, accounts, owner, privy, signedOut>>
  BY DEF UnblockRefused, First, session, attempts, screens, service, provider, history
<1>3. queue' \in Seq(Write)
  BY <1>1, <1>2, Dequeued
<1>4. TypeOK'
  <2>1. starting' \in BOOLEAN /\ TypeOK
    BY <1>1, <1>2
  <2> QED
    BY <1>2, <1>3, <2>1 DEF TypeOK
<1>5. MineInv' /\ OnePersonInv' /\ EntryInv'
  BY <1>1, <1>2 DEF MineInv, OnePersonInv, EntryInv, Live
<1>6. GoneInv'
  <2>1. \A a \in Attempts : Live(a)' => Live(a)
    BY <1>2 DEF Live
  <2>2. signedOut => /\ shown' = Absent /\ justLoggedOut' /\ step' = "gate"
                     /\ entry' # Absent => entry'.stale
    BY <1>1, <1>2 DEF GoneInv
  <2> QED
    BY <1>1, <1>2, <2>1, <2>2, StillGone
<1>7. QueueInv'
  BY <1>1, <1>2, RestKeeps
<1>8. LastWriteInv' /\ PressInv'
  BY <1>1, <1>2, RestIsAsBefore, OtherPress
<1>9. ShownInv'
  BY <1>1, <1>2 DEF ShownInv, ListIsOfShown
<1> QED
  BY <1>4, <1>5, <1>6, <1>7, <1>8, <1>9 DEF SessionInv

\* Attempts whose answer is not wanted any more are otherwise as they were.
LEMMA AbortEnds ==
    ASSUME SessionRecordAssumption, TypeOK, NEW S, NEW off, off = Abort(S)
    PROVE  /\ off \in [Attempts -> SignIn \union {Absent}]
           /\ \A a \in Attempts :
                /\ off[a] = Absent <=> attempt[a] = Absent
                /\ off[a] # Absent => /\ off[a].who = attempt[a].who /\ off[a].kind = attempt[a].kind
                                      /\ off[a].at = attempt[a].at
                                      /\ a \notin S => off[a] = attempt[a]
                                      /\ a \in S => off[a].aborted
<1>1. ASSUME NEW a \in Attempts
      PROVE  /\ off[a] \in SignIn \union {Absent}
             /\ off[a] = Absent <=> attempt[a] = Absent
             /\ off[a] # Absent => /\ off[a].who = attempt[a].who /\ off[a].kind = attempt[a].kind
                                   /\ off[a].at = attempt[a].at
                                   /\ a \notin S => off[a] = attempt[a]
                                   /\ a \in S => off[a].aborted
  <2>1. attempt[a] \in SignIn \union {Absent}
    BY DEF TypeOK
  <2>2. off[a] = IF a \in S /\ attempt[a] # Absent
                 THEN [attempt[a] EXCEPT !.aborted = TRUE] ELSE attempt[a]
    BY DEF Abort
  <2>3. Absent \notin SignIn
    BY DEF SessionRecordAssumption
  <2> QED
    BY <2>1, <2>2, <2>3 DEF SignIn
<1>2. off = [a \in Attempts |-> off[a]]
  BY DEF Abort
<1> QED
  BY <1>1, <1>2

LEMMA ScopeReset ==
    ASSUME SessionRecordAssumption, TypeOK, ResetAccountScope
    PROVE  /\ list' = Absent /\ fetch' \in Request \union {Absent}
           /\ fetch' # Absent => fetch # Absent /\ ~fetch'.fresh /\ fetch'.token = fetch.token
<1>1. /\ list' = Absent
      /\ fetch' = IF fetch = Absent THEN Absent ELSE [fetch EXCEPT !.fresh = FALSE]
      /\ fetch \in Request \union {Absent}
  BY DEF ResetAccountScope, TypeOK
<1> QED
  BY <1>1 DEF Request

LEMMA LeaveKeeps ==
    ASSUME SessionAssumption, SessionRecordAssumption, SessionInv, NEW x \in Exits, Leave(x)
    PROVE  SessionInv'
<1> USE SessionAssumption, SessionRecordAssumption
<1>1. TypeOK /\ MineInv /\ GoneInv /\ QueueInv /\ LastWriteInv /\ OnePersonInv /\ EntryInv
      /\ PressInv /\ ShownInv
  BY DEF SessionInv
<1> DEFINE t == Task("close", Absent, x)
<1>2. /\ exit' = [exit EXCEPT ![x] = "saving"]
      /\ reg' = Absent /\ auto' = Absent /\ autoKey' = Absent /\ step' = "gate"
      /\ shown' = Absent /\ justLoggedOut' = TRUE /\ signedOut' = TRUE
      /\ UNCHANGED <<disk, starting, accounts, owner, privy>>
  BY DEF Leave, service, provider
<1>3. attempt' = Abort({reg, auto}) /\ queue' = Append(Outdated, t) /\ ResetAccountScope
  BY DEF Leave
<1>4. entry' = IF entry = Absent THEN Absent ELSE [entry EXCEPT !.stale = TRUE]
  BY DEF Leave
<1>5. t \in Write /\ t.kind = "close" /\ t.by = x
  BY DEF Task, Write
<1>6. Queued(t)
  BY <1>1, <1>3, <1>5, QueuedLast
<1>7. Len(queue) \in Nat /\ DOMAIN queue = 1 .. Len(queue)
  BY <1>1, QueueType
<1> HIDE DEF t
<1>8. /\ queue' \in Seq(Write)
      /\ \A i \in DOMAIN queue' :
           \/ /\ i \in DOMAIN queue /\ queue'[i].kind = queue[i].kind /\ queue'[i].by = queue[i].by
              /\ queue'[i].token = queue[i].token /\ queue'[i].done = queue[i].done
              /\ ~queue'[i].current
           \/ i = Len(queue) + 1 /\ queue'[i].kind = "close" /\ queue'[i].by = x
  <2>1. queue'[Len(queue) + 1].kind = "close" /\ queue'[Len(queue) + 1].by = x
    BY <1>5, <1>6 DEF Queued
  <2> QED
    BY <1>6, <1>7, <2>1 DEF Queued
<1>9. /\ attempt' \in [Attempts -> SignIn \union {Absent}]
      /\ \A a \in Attempts :
           /\ attempt'[a] = Absent <=> attempt[a] = Absent
           /\ attempt'[a] # Absent => /\ attempt'[a].who = attempt[a].who
                                      /\ attempt'[a].at = attempt[a].at
                                      /\ a \notin {reg, auto} => attempt'[a] = attempt[a]
                                      /\ a \in {reg, auto} => attempt'[a].aborted
  BY <1>1, <1>3, AbortEnds
<1>10. \A a \in Attempts : ~Live(a)'
  BY <1>1, <1>9 DEF MineInv, Live
<1>11. /\ list' = Absent /\ fetch' \in Request \union {Absent}
       /\ fetch' # Absent => fetch # Absent /\ ~fetch'.fresh /\ fetch'.token = fetch.token
  BY <1>1, <1>3, ScopeReset
<1>12. /\ entry' \in Entry \union {Absent}
       /\ entry' # Absent <=> entry # Absent
       /\ entry' # Absent => entry'.stale /\ entry'.at = entry.at
  <2>1. entry \in Entry \union {Absent} /\ Absent \notin Entry
    BY <1>1 DEF TypeOK, SessionRecordAssumption
  <2> QED
    BY <1>4, <2>1 DEF Entry
<1>13. TypeOK'
  <2>1. exit' \in [Exits -> {Absent, "saving", "closing"}]
    BY <1>1, <1>2 DEF TypeOK
  <2> QED
    BY <1>1, <1>2, <1>8, <1>9, <1>11, <1>12, <2>1 DEF TypeOK
<1>14. MineInv' /\ OnePersonInv'
  BY <1>10 DEF MineInv, OnePersonInv
<1>15. GoneInv'
  <2>1. \A i \in DOMAIN queue' : queue'[i].kind \in {"open", "unblock"} => ~queue'[i].current
    BY <1>8
  <2> QED
    BY <1>2, <1>10, <1>12, <2>1 DEF GoneInv
<1>16. QueueInv'
  <2>1. ASSUME NEW i \in DOMAIN queue', queue'[i].kind = "open"
        PROVE  /\ queue'[i].by \in Attempts
               /\ attempt'[queue'[i].by] # Absent /\ attempt'[queue'[i].by].at = "saving"
               /\ queue'[i].token \in 1 .. Len(owner')
               /\ owner'[queue'[i].token] = attempt'[queue'[i].by].who
               /\ queue'[i].done > 0 => i = 1 /\ disk'.token = queue'[i].token
    <3>1. /\ i \in DOMAIN queue /\ queue[i].kind = "open" /\ queue'[i].by = queue[i].by
          /\ queue'[i].token = queue[i].token /\ queue'[i].done = queue[i].done
      BY <1>8, <2>1
    <3> QED
      BY <1>1, <1>2, <1>9, <3>1 DEF QueueInv
  <2>2. \A i, j \in DOMAIN queue' :
          queue'[i].kind = "open" /\ queue'[j].kind = "open" /\ queue'[i].by = queue'[j].by => i = j
    BY <1>1, <1>8 DEF QueueInv
  <2>3. \A i \in DOMAIN queue' : queue'[i].kind = "close" => queue'[i].by \in Exits
    BY <1>1, <1>8 DEF QueueInv
  <2> QED
    BY <2>1, <2>2, <2>3 DEF QueueInv
<1>17. LastWriteInv'
  BY <1>2, <1>8 DEF LastWriteInv, Turns
<1>18. EntryInv'
  BY <1>1, <1>2, <1>10, <1>12 DEF EntryInv
<1>19. PressInv'
  BY <1>1, <1>8, <1>12 DEF PressInv
<1>20. ShownInv'
  BY <1>1, <1>2, <1>11 DEF ShownInv, ListIsOfShown
<1> QED
  BY <1>13, <1>14, <1>15, <1>16, <1>17, <1>18, <1>19, <1>20 DEF SessionInv

LEMMA LogoutKeeps ==
    ASSUME SessionAssumption, SessionRecordAssumption, SessionInv, NEW x \in Exits, Logout(x)
    PROVE  SessionInv'
BY LeaveKeeps DEF Logout

\* A step that leaves the attempts and the writes alone.
LEMMA QuietKeeps ==
    ASSUME SessionInv, UNCHANGED <<queue, disk, owner, attempt, auto, reg, shown>>
    PROVE  /\ MineInv' /\ QueueInv' /\ LastWriteInv'
           /\ \A a \in Attempts : Live(a)' <=> Live(a)
<1>1. MineInv /\ QueueInv /\ LastWriteInv
  BY DEF SessionInv
<1> QED
  BY <1>1 DEF MineInv, QueueInv, LastWriteInv, Turns, Live

LEMMA UnauthorizedKeeps ==
    ASSUME SessionAssumption, SessionRecordAssumption, SessionInv, Unauthorized
    PROVE  SessionInv'
<1> USE SessionAssumption, SessionRecordAssumption
<1>1. CASE \E x \in Exits : Leave(x)
  BY <1>1, LeaveKeeps
<1>2. CASE /\ fetch' = Absent
           /\ UNCHANGED <<disk, queue, session, attempts, gate, exit, list, service, provider, history>>
  <2>1. /\ fetch' = Absent
        /\ UNCHANGED <<disk, queue, shown, justLoggedOut, attempt, autoKey, auto, reg, checking, starting,
                       step, entry, ignored, exit, list, accounts, owner, privy, signedOut>>
    BY <1>2 DEF session, attempts, gate, service, provider, history
  <2>2. TypeOK /\ GoneInv /\ OnePersonInv /\ EntryInv /\ PressInv /\ ShownInv
    BY DEF SessionInv
  <2>3. TypeOK'
    BY <2>1, <2>2 DEF TypeOK
  <2>4. MineInv' /\ QueueInv' /\ LastWriteInv'
    BY <2>1, QuietKeeps
  <2>5. GoneInv' /\ OnePersonInv' /\ EntryInv' /\ PressInv'
    BY <2>1, <2>2 DEF GoneInv, OnePersonInv, EntryInv, PressInv, Live
  <2>6. ShownInv'
    BY <2>1, <2>2 DEF ShownInv, ListIsOfShown
  <2> QED
    BY <2>3, <2>4, <2>5, <2>6 DEF SessionInv
<1> QED
  BY <1>1, <1>2 DEF Unauthorized

LEMMA FetchKeeps ==
    ASSUME SessionAssumption, SessionRecordAssumption, SessionInv, Fetch
    PROVE  SessionInv'
<1> USE SessionAssumption, SessionRecordAssumption
<1>1. /\ shown # Absent /\ fetch' = [fresh |-> TRUE, sent |-> FALSE, token |-> Absent]
      /\ UNCHANGED <<disk, queue, shown, justLoggedOut, attempt, autoKey, auto, reg, checking, starting,
                     step, entry, ignored, exit, list, accounts, owner, privy, signedOut>>
  BY DEF Fetch, session, attempts, gate, service, provider, history
<1>2. TypeOK /\ GoneInv /\ OnePersonInv /\ EntryInv /\ PressInv /\ ShownInv
  BY DEF SessionInv
<1>3. fetch' \in Request /\ fetch'.fresh /\ ~fetch'.sent /\ fetch'.token = Absent
  BY <1>1 DEF Request
<1>4. TypeOK'
  BY <1>1, <1>2, <1>3 DEF TypeOK
<1>5. MineInv' /\ QueueInv' /\ LastWriteInv'
  BY <1>1, QuietKeeps
<1>6. GoneInv' /\ OnePersonInv' /\ EntryInv' /\ PressInv'
  BY <1>1, <1>2 DEF GoneInv, OnePersonInv, EntryInv, PressInv, Live
<1>7. ShownInv'
  BY <1>1, <1>2, <1>3 DEF ShownInv, ListIsOfShown
<1> QED
  BY <1>4, <1>5, <1>6, <1>7 DEF SessionInv

LEMMA SendKeeps ==
    ASSUME SessionAssumption, SessionRecordAssumption, SessionInv, Send
    PROVE  SessionInv'
<1> USE SessionAssumption, SessionRecordAssumption
<1>1. /\ fetch # Absent /\ fetch' = [fetch EXCEPT !.sent = TRUE, !.token = disk.token]
      /\ UNCHANGED <<disk, queue, shown, justLoggedOut, attempt, autoKey, auto, reg, checking, starting,
                     step, entry, ignored, exit, list, accounts, owner, privy, signedOut>>
  BY DEF Send, session, attempts, gate, service, provider, history
<1>2. TypeOK /\ GoneInv /\ OnePersonInv /\ EntryInv /\ PressInv /\ ShownInv
  BY DEF SessionInv
<1>3. fetch \in Request /\ disk \in DiskType
  BY <1>1, <1>2 DEF TypeOK, DiskType
<1>4. /\ fetch' \in Request /\ (fetch'.fresh <=> fetch.fresh) /\ fetch'.token = disk.token
      /\ disk.token \in Token \union {Absent}
  BY <1>1, <1>3 DEF Request, DiskType
<1>5. TypeOK'
  BY <1>1, <1>2, <1>4 DEF TypeOK
<1>6. MineInv' /\ QueueInv' /\ LastWriteInv'
  BY <1>1, QuietKeeps
<1>7. GoneInv' /\ OnePersonInv' /\ EntryInv' /\ PressInv'
  BY <1>1, <1>2 DEF GoneInv, OnePersonInv, EntryInv, PressInv, Live
<1>8. ShownInv'
  BY <1>1, <1>2, <1>4 DEF ShownInv, ListIsOfShown, TypeOK
<1> QED
  BY <1>5, <1>6, <1>7, <1>8 DEF SessionInv

LEMMA AnsweredKeeps ==
    ASSUME SessionAssumption, SessionRecordAssumption, SessionInv, Answered
    PROVE  SessionInv'
<1> USE SessionAssumption, SessionRecordAssumption
<1>1. /\ fetch # Absent /\ fetch.sent /\ fetch' = Absent
      /\ list' = IF fetch.fresh /\ fetch.token # Absent THEN owner[fetch.token] ELSE list
      /\ UNCHANGED <<disk, queue, shown, justLoggedOut, attempt, autoKey, auto, reg, checking, starting,
                     step, entry, ignored, exit, accounts, owner, privy, signedOut>>
  BY DEF Answered, session, attempts, gate, service, provider, history
<1>2. TypeOK /\ GoneInv /\ OnePersonInv /\ EntryInv /\ PressInv /\ ShownInv
  BY DEF SessionInv
<1>3. fetch.fresh /\ fetch.token # Absent
        => /\ owner[fetch.token] \in People
           /\ shown # Absent /\ owner[fetch.token] = owner[shown.token]
  <2>1. fetch \in Request /\ owner \in Seq(People)
    BY <1>1, <1>2 DEF TypeOK
  <2>2. fetch.token # Absent => fetch.token \in 1 .. Len(owner)
    BY <1>1, <1>2, <2>1 DEF ShownInv, Request, Token
  <2> QED
    BY <1>1, <1>2, <2>1, <2>2 DEF ShownInv
<1>4. TypeOK'
  BY <1>1, <1>2, <1>3 DEF TypeOK
<1>5. MineInv' /\ QueueInv' /\ LastWriteInv'
  BY <1>1, QuietKeeps
<1>6. GoneInv' /\ OnePersonInv' /\ EntryInv' /\ PressInv'
  BY <1>1, <1>2 DEF GoneInv, OnePersonInv, EntryInv, PressInv, Live
<1>7. ShownInv'
  BY <1>1, <1>2, <1>3 DEF ShownInv, ListIsOfShown
<1> QED
  BY <1>4, <1>5, <1>6, <1>7 DEF SessionInv

LEMMA RestartKeeps ==
    ASSUME SessionAssumption, SessionRecordAssumption, SessionInv, Restart
    PROVE  SessionInv'
<1> USE SessionAssumption, SessionRecordAssumption
<1>1. TypeOK
  BY DEF SessionInv
<1>2. /\ attempt' = [a \in Attempts |-> Absent] /\ exit' = [x \in Exits |-> Absent]
      /\ autoKey' = Absent /\ auto' = Absent /\ reg' = Absent
      /\ starting' = FALSE /\ step' = "gate" /\ entry' = Absent
      /\ fetch' = Absent /\ list' = Absent /\ privy' \in {privy, Absent}
      /\ justLoggedOut' = disk.out /\ signedOut' = disk.out
      /\ UNCHANGED <<disk, accounts, owner>>
  BY DEF Restart, service
<1>3. \/ /\ ~disk.out /\ disk.token # Absent /\ disk.profile # Absent
         /\ shown' = [token |-> disk.token, who |-> disk.profile] /\ queue' = <<>>
      \/ shown' = Absent /\ queue' \in {<<>>, <<Task("expire", Absent, Absent)>>}
  BY DEF Restart
<1>4. disk \in DiskType
  BY <1>1 DEF TypeOK, DiskType
<1>5. \/ ~disk.out /\ shown' \in Shown /\ shown' # Absent /\ shown'.token = disk.token
         /\ disk.token # Absent
      \/ shown' = Absent
  BY <1>3, <1>4 DEF DiskType, Shown
<1>6. queue' \in Seq(Write) /\ \A i \in DOMAIN queue' : queue'[i].kind = "expire"
  <2> DEFINE t == Task("expire", Absent, Absent)
  <2>1. t \in Write /\ t.kind = "expire"
    BY DEF Task, Write
  <2> HIDE DEF t
  <2>2. queue' \in {<<>>, <<t>>}
    BY <1>3 DEF t
  <2>3. CASE queue' = <<>>
    BY <2>3
  <2>4. CASE queue' = <<t>>
    <3>1. Len(<<t>>) = 1 /\ <<t>>[1] = t /\ <<t>> \in Seq(Write) /\ DOMAIN <<t>> = 1 .. 1
      BY <2>1
    <3> QED
      BY <2>1, <2>4, <3>1
  <2> QED
    BY <2>2, <2>3, <2>4
<1>7. TypeOK'
  <2>1. justLoggedOut' \in BOOLEAN /\ signedOut' \in BOOLEAN /\ privy' \in People \union {Absent}
    BY <1>1, <1>2, <1>4 DEF DiskType, TypeOK
  <2>2. shown' \in Shown \union {Absent} /\ (shown' # Absent => shown'.token <= Len(owner))
    BY <1>1, <1>5 DEF TypeOK
  <2> QED
    BY <1>1, <1>2, <1>6, <2>1, <2>2 DEF TypeOK
<1>8. \A a \in Attempts : ~Live(a)'
  BY <1>2 DEF Live
<1>9. MineInv' /\ OnePersonInv' /\ EntryInv'
  BY <1>2, <1>8 DEF MineInv, OnePersonInv, EntryInv
<1>10. GoneInv'
  BY <1>2, <1>5, <1>6, <1>8 DEF GoneInv
<1>11. QueueInv' /\ LastWriteInv' /\ PressInv'
  BY <1>6 DEF QueueInv, LastWriteInv, Turns, PressInv
<1>12. ShownInv'
  BY <1>2, <1>5 DEF ShownInv, ListIsOfShown
<1> QED
  BY <1>7, <1>9, <1>10, <1>11, <1>12 DEF SessionInv

LEMMA QueuedNext ==
    ASSUME TypeOK, NEW t \in Write, queue' = Append(queue, t)
    PROVE  /\ queue' \in Seq(Write)
           /\ \A i \in DOMAIN queue' :
                \/ i \in DOMAIN queue /\ queue'[i] = queue[i]
                \/ i = Len(queue) + 1 /\ queue'[i] = t
<1>1. queue \in Seq(Write) /\ Len(queue) \in Nat /\ DOMAIN queue = 1 .. Len(queue)
  BY QueueType
<1> QED
  BY <1>1

\* Whoever waited for the provider goes on: nothing begins that a sign-out called off.
LEMMA WaitersGoOn ==
    ASSUME SessionRecordAssumption, SessionInv, ExitEnds,
           UNCHANGED <<disk, shown, justLoggedOut, attempt, auto, reg, fetch, list, accounts, owner, signedOut>>,
           privy' \in {privy, Absent}, starting' \in BOOLEAN,
           queue' \in Seq(Write),
           \A i \in DOMAIN queue' :
             \/ i \in DOMAIN queue /\ queue'[i] = queue[i]
             \/ /\ i = Len(queue) + 1 /\ queue'[i].kind = "unblock"
                /\ entry # Absent /\ entry.at = "closing" /\ ~entry.stale
                /\ entry' # Absent /\ entry'.at = "unblocking",
           entry' \in Entry \union {Absent},
           entry' # Absent => /\ entry # Absent /\ entry'.stale = entry.stale
                              /\ entry'.at = entry.at \/ (entry.at = "closing" /\ privy' = Absent)
                              /\ entry'.at # "closing",
           entry # Absent /\ entry.at = "unblocking" => entry' = entry
    PROVE  SessionInv'
<1>1. TypeOK /\ MineInv /\ GoneInv /\ QueueInv /\ LastWriteInv /\ OnePersonInv /\ EntryInv
      /\ PressInv /\ ShownInv
  BY DEF SessionInv
<1>2. /\ exit' = [x \in Exits |-> IF exit[x] = "closing" THEN Absent ELSE exit[x]]
      /\ step' \in {step, "gate"} /\ autoKey' \in {autoKey, Absent}
  BY DEF ExitEnds
<1>3. TypeOK'
  <2>1. exit' \in [Exits -> {Absent, "saving", "closing"}]
    BY <1>1, <1>2 DEF TypeOK
  <2>2. /\ step' \in {"gate", "identity"} /\ autoKey' \in People \union {Absent}
        /\ privy' \in People \union {Absent}
    BY <1>1, <1>2 DEF TypeOK
  <2> QED
    BY <1>1, <2>1, <2>2 DEF TypeOK
<1>4. MineInv' /\ OnePersonInv'
  BY <1>1 DEF MineInv, OnePersonInv, Live
<1>5. GoneInv'
  <2>1. signedOut => \A i \in DOMAIN queue' : queue'[i].kind \in {"open", "unblock"} => ~queue'[i].current
    BY <1>1 DEF GoneInv
  <2> QED
    BY <1>1, <1>2, <2>1 DEF GoneInv, Live
<1>6. QueueInv'
  BY <1>1 DEF QueueInv
<1>7. LastWriteInv'
  BY <1>1 DEF LastWriteInv, Turns
<1>8. EntryInv'
  BY <1>1 DEF EntryInv, Live
<1>9. PressInv'
  <2>1. \A i \in DOMAIN queue' : queue'[i].kind = "unblock" => entry' # Absent /\ entry'.at = "unblocking"
    BY <1>1 DEF PressInv
  <2>2. \A i, j \in DOMAIN queue' : queue'[i].kind = "unblock" /\ queue'[j].kind = "unblock" => i = j
    BY <1>1 DEF PressInv
  <2> QED
    BY <2>1, <2>2 DEF PressInv
<1>10. ShownInv'
  BY <1>1 DEF ShownInv, ListIsOfShown
<1> QED
  BY <1>3, <1>4, <1>5, <1>6, <1>7, <1>8, <1>9, <1>10 DEF SessionInv

LEMMA CleanupEndsKeeps ==
    ASSUME SessionAssumption, SessionRecordAssumption, SessionInv, CleanupEnds
    PROVE  SessionInv'
<1> USE SessionRecordAssumption
<1>1. TypeOK
  BY DEF SessionInv
<1>2. /\ ExitEnds /\ privy' = Absent
      /\ UNCHANGED <<disk, shown, justLoggedOut, attempt, auto, reg, fetch, list, accounts, owner, signedOut>>
  BY DEF CleanupEnds, session, screens, service, history
<1>3. entry \in Entry \union {Absent} /\ Absent \notin Entry
  BY <1>1 DEF TypeOK, SessionRecordAssumption
<1>4. CASE entry # Absent /\ entry.at = "closing" /\ ~entry.stale
  <2> DEFINE t == Task("unblock", Absent, Absent)
  <2>1. /\ entry' = [entry EXCEPT !.at = "unblocking"] /\ queue' = Append(queue, t)
        /\ starting' = (starting /\ exit' = exit)
    BY <1>4 DEF CleanupEnds
  <2>2. t \in Write /\ t.kind = "unblock"
    BY DEF Task, Write
  <2> HIDE DEF t
  <2>3. /\ queue' \in Seq(Write)
        /\ \A i \in DOMAIN queue' :
             \/ i \in DOMAIN queue /\ queue'[i] = queue[i]
             \/ i = Len(queue) + 1 /\ queue'[i].kind = "unblock"
    BY <1>1, <2>1, <2>2, QueuedNext
  <2>4. starting' \in BOOLEAN
    BY <2>1
  <2>5. /\ entry' \in Entry /\ entry' # Absent /\ entry'.at = "unblocking" /\ entry'.stale = entry.stale
    BY <1>3, <1>4, <2>1 DEF Entry
  <2> QED
    BY <1>2, <1>4, <2>3, <2>4, <2>5, WaitersGoOn
<1>5. CASE ~(entry # Absent /\ entry.at = "closing" /\ ~entry.stale)
  <2>1. /\ entry' = IF entry # Absent /\ entry.at = "closing" THEN Absent ELSE entry
        /\ starting' = (starting /\ exit' = exit /\ entry' = entry)
        /\ queue' = queue
    BY <1>5 DEF CleanupEnds
  <2>2. starting' \in BOOLEAN /\ queue' \in Seq(Write)
    BY <1>1, <2>1 DEF TypeOK
  <2>3. \A i \in DOMAIN queue' : i \in DOMAIN queue /\ queue'[i] = queue[i]
    BY <2>1
  <2>4. entry' \in {entry, Absent} /\ (entry' # Absent => entry' = entry /\ entry.at # "closing")
        /\ (entry # Absent /\ entry.at = "unblocking" => entry' = entry)
    BY <2>1
  <2> QED
    BY <1>2, <1>3, <2>2, <2>3, <2>4, WaitersGoOn
<1> QED
  BY <1>4, <1>5

LEMMA UnwaitKeeps ==
    ASSUME SessionAssumption, SessionRecordAssumption, SessionInv, Unwait
    PROVE  SessionInv'
<1> USE SessionRecordAssumption
<1>1. TypeOK
  BY DEF SessionInv
<1>2. /\ ExitEnds /\ privy' = privy /\ queue' = queue
      /\ UNCHANGED <<disk, shown, justLoggedOut, attempt, auto, reg, fetch, list, accounts, owner, signedOut>>
      /\ entry' = IF entry # Absent /\ entry.at = "closing" THEN Absent ELSE entry
      /\ starting' = (starting /\ exit' = exit /\ entry' = entry)
  BY DEF Unwait, session, screens, service, history
<1>3. entry \in Entry \union {Absent}
  BY <1>1 DEF TypeOK
<1>4. starting' \in BOOLEAN /\ queue' \in Seq(Write)
  BY <1>1, <1>2 DEF TypeOK
<1>5. \A i \in DOMAIN queue' : i \in DOMAIN queue /\ queue'[i] = queue[i]
  BY <1>2
<1>6. entry' \in {entry, Absent} /\ (entry' # Absent => entry' = entry /\ entry.at # "closing")
      /\ (entry # Absent /\ entry.at = "unblocking" => entry' = entry)
  BY <1>2
<1> QED
  BY <1>2, <1>3, <1>4, <1>5, <1>6, WaitersGoOn

LEMMA PressKeeps ==
    ASSUME SessionAssumption, SessionRecordAssumption, SessionInv, Press
    PROVE  SessionInv'
<1> USE SessionAssumption, SessionRecordAssumption
<1>1. TypeOK /\ MineInv /\ GoneInv /\ QueueInv /\ LastWriteInv /\ OnePersonInv /\ EntryInv
      /\ PressInv /\ ShownInv
  BY DEF SessionInv
<1>2. /\ shown = Absent /\ entry = Absent /\ starting' = TRUE
      /\ entry' = [at |-> "closing", stale |-> FALSE]
      /\ autoKey' = Absent /\ ignored' = privy /\ signedOut' = FALSE
      /\ UNCHANGED <<disk, queue, shown, justLoggedOut, auto, reg, checking, step, exit, fetch, list,
                     accounts, owner, privy>>
  BY DEF Press, session, screens, service
<1>3. attempt' = Abort({auto})
  BY DEF Press
<1>4. /\ attempt' \in [Attempts -> SignIn \union {Absent}]
      /\ \A a \in Attempts :
           /\ attempt'[a] = Absent <=> attempt[a] = Absent
           /\ attempt'[a] # Absent => /\ attempt'[a].who = attempt[a].who
                                      /\ attempt'[a].kind = attempt[a].kind
                                      /\ attempt'[a].at = attempt[a].at
                                      /\ a \notin {auto} => attempt'[a] = attempt[a]
                                      /\ a \in {auto} => attempt'[a].aborted
  BY <1>1, <1>3, AbortEnds
<1>5. \A a \in Attempts : Live(a)' => Live(a) /\ a = reg /\ attempt'[a].kind = "register"
  BY <1>1, <1>4 DEF Live, MineInv, TypeOK
<1>6. entry' \in Entry /\ entry' # Absent /\ entry'.at = "closing"
  <2>1. entry' \in Entry /\ entry'.at = "closing"
    BY <1>2 DEF Entry
  <2> QED
    BY <2>1 DEF SessionRecordAssumption
<1>7. TypeOK'
  BY <1>1, <1>2, <1>4, <1>6 DEF TypeOK
<1>8. MineInv' /\ EntryInv'
  BY <1>2, <1>5, <1>6 DEF MineInv, EntryInv
<1>9. GoneInv'
  BY <1>2 DEF GoneInv
<1>10. QueueInv'
  BY <1>1, <1>2, <1>4 DEF QueueInv
<1>11. LastWriteInv' /\ PressInv'
  BY <1>1, <1>2 DEF LastWriteInv, Turns, PressInv
<1>12. OnePersonInv'
  BY <1>1, <1>2, <1>4, <1>5 DEF OnePersonInv
<1>13. ShownInv'
  BY <1>1, <1>2 DEF ShownInv, ListIsOfShown
<1> QED
  BY <1>7, <1>8, <1>9, <1>10, <1>11, <1>12, <1>13 DEF SessionInv

LEMMA ProviderAnswersKeeps ==
    ASSUME SessionAssumption, SessionRecordAssumption, SessionInv, ProviderAnswers
    PROVE  SessionInv'
<1> USE SessionAssumption, SessionRecordAssumption
<1>1. TypeOK /\ MineInv /\ GoneInv /\ QueueInv /\ LastWriteInv /\ OnePersonInv /\ EntryInv
      /\ PressInv /\ ShownInv
  BY DEF SessionInv
<1>2. /\ entry # Absent /\ entry.at = "asking" /\ entry' = Absent /\ starting' = FALSE
      /\ UNCHANGED <<disk, queue, shown, justLoggedOut, attempt, autoKey, auto, reg, checking, step,
                     exit, fetch, list, accounts, owner, signedOut>>
  BY DEF ProviderAnswers, session, attempts, screens, service, history
<1>3. privy' \in People \union {Absent}
  BY <1>1 DEF ProviderAnswers, TypeOK
<1>4. TypeOK'
  <2>1. starting' \in BOOLEAN
    BY <1>2
  <2> QED
    BY <1>1, <1>2, <1>3, <2>1 DEF TypeOK
<1>5. MineInv' /\ QueueInv' /\ LastWriteInv'
  BY <1>2, QuietKeeps
<1>6. GoneInv' /\ EntryInv' /\ PressInv'
  BY <1>1, <1>2 DEF GoneInv, EntryInv, PressInv, Live
<1>7. OnePersonInv'
  <2>1. \A a \in Attempts : Live(a) => attempt[a].kind # "auto"
    BY <1>1, <1>2 DEF EntryInv
  <2> QED
    BY <1>1, <1>2, <2>1 DEF OnePersonInv, Live
<1>8. ShownInv'
  BY <1>1, <1>2 DEF ShownInv, ListIsOfShown
<1> QED
  BY <1>4, <1>5, <1>6, <1>7, <1>8 DEF SessionInv

LEMMA LookKeeps ==
    ASSUME SessionAssumption, SessionRecordAssumption, SessionInv, Look
    PROVE  SessionInv'
<1> USE SessionAssumption, SessionRecordAssumption
<1>1. TypeOK /\ MineInv /\ GoneInv /\ QueueInv /\ LastWriteInv /\ OnePersonInv /\ EntryInv
      /\ PressInv /\ ShownInv
  BY DEF SessionInv
<1> DEFINE off == Abort({auto})
<1>2. /\ off \in [Attempts -> SignIn \union {Absent}]
      /\ \A a \in Attempts :
           /\ off[a] = Absent <=> attempt[a] = Absent
           /\ off[a] # Absent => /\ off[a].who = attempt[a].who
                                 /\ off[a].kind = attempt[a].kind
                                 /\ off[a].at = attempt[a].at
                                 /\ a \notin {auto} => off[a] = attempt[a]
                                 /\ a \in {auto} => off[a].aborted
  BY <1>1, AbortEnds
<1>3. UNCHANGED <<disk, queue, shown, justLoggedOut, reg, starting, entry, exit, fetch, list,
                  accounts, owner, privy, signedOut>>
  BY DEF Look, session, screens, service, provider, history
<1>4. \/ /\ MaySignIn /\ autoKey' = privy
         /\ \E a \in Attempts :
              /\ attempt[a] = Absent
              /\ attempt' = [off EXCEPT ![a] = [kind |-> "auto", who |-> privy,
                                                aborted |-> FALSE, at |-> "asking"]]
              /\ auto' = a /\ step' = step
      \/ /\ MaySignIn /\ step' = "identity" /\ attempt' = off /\ auto' = Absent
         /\ autoKey' \in {autoKey, Absent}
      \/ /\ attempt' = off /\ auto' = Absent /\ step' = step
         /\ autoKey' \in {autoKey, Absent}
  BY DEF Look
<1> HIDE DEF off
<1>5. MaySignIn => /\ reg = Absent /\ privy # Absent /\ ~justLoggedOut /\ shown = Absent
                   /\ entry = Absent /\ signedOut = FALSE
  BY <1>1 DEF MaySignIn, EntryInv, GoneInv, TypeOK
<1>6. \A a \in Attempts : off[a] # Absent /\ ~off[a].aborted => Live(a) /\ a = reg /\ off[a] = attempt[a]
  BY <1>1, <1>2 DEF Live, MineInv
<1>7. ShownInv' /\ LastWriteInv' /\ PressInv'
  BY <1>1, <1>3 DEF ShownInv, ListIsOfShown, LastWriteInv, Turns, PressInv
<1>8. CASE MaySignIn /\ \E a \in Attempts :
              /\ attempt[a] = Absent
              /\ attempt' = [off EXCEPT ![a] = [kind |-> "auto", who |-> privy,
                                                aborted |-> FALSE, at |-> "asking"]]
              /\ auto' = a /\ step' = step /\ autoKey' = privy
  <2> DEFINE new == [kind |-> "auto", who |-> privy, aborted |-> FALSE, at |-> "asking"]
  <2>1. PICK a \in Attempts : /\ attempt[a] = Absent /\ attempt' = [off EXCEPT ![a] = new]
                              /\ auto' = a /\ step' = step /\ autoKey' = privy
    BY <1>8
  <2>2. /\ privy \in People /\ reg = Absent /\ shown = Absent /\ entry = Absent /\ signedOut = FALSE
    BY <1>1, <1>5, <1>8 DEF TypeOK
  <2>3. new \in SignIn /\ new.kind = "auto" /\ new.who = privy /\ ~new.aborted /\ new # Absent
    <3>1. new \in SignIn /\ new.kind = "auto" /\ new.who = privy /\ ~new.aborted
      BY <2>2 DEF SignIn
    <3> QED
      BY <3>1 DEF SessionRecordAssumption
  <2> HIDE DEF new
  <2>4. /\ attempt' \in [Attempts -> SignIn \union {Absent}] /\ attempt'[a] = new
        /\ \A b \in Attempts : b # a => attempt'[b] = off[b]
    BY <1>2, <2>1, <2>3
  <2>5. \A b \in Attempts : Live(b)' => b = a
    BY <1>6, <2>2, <2>4 DEF Live, SessionAssumption
  <2>6. TypeOK'
    <3>1. /\ autoKey' \in People \union {Absent} /\ auto' \in Attempts
          /\ attempt'[auto'] # Absent /\ attempt'[auto'].kind = "auto"
          /\ reg' = Absent
      BY <1>3, <2>1, <2>2, <2>3, <2>4
    <3> QED
      BY <1>1, <1>3, <2>1, <2>4, <3>1 DEF TypeOK
  <2>7. MineInv' /\ GoneInv' /\ EntryInv'
    BY <1>3, <2>1, <2>2, <2>5 DEF MineInv, GoneInv, EntryInv
  <2>8. QueueInv'
    BY <1>1, <1>2, <1>3, <2>1, <2>4 DEF QueueInv
  <2>9. OnePersonInv'
    BY <1>3, <2>2, <2>3, <2>4, <2>5 DEF OnePersonInv
  <2> QED
    BY <1>7, <2>6, <2>7, <2>8, <2>9 DEF SessionInv
<1>9. CASE /\ attempt' = off /\ auto' = Absent /\ autoKey' \in {autoKey, Absent}
           /\ step' = step \/ (MaySignIn /\ step' = "identity")
  <2>1. \A b \in Attempts : Live(b)' => Live(b) /\ b = reg /\ attempt'[b] = attempt[b]
    BY <1>6, <1>9 DEF Live
  <2>2. TypeOK'
    <3>1. /\ reg' # Absent => attempt'[reg'] # Absent /\ attempt'[reg'].kind = "register"
          /\ step' \in {"gate", "identity"} /\ autoKey' \in People \union {Absent}
      BY <1>1, <1>2, <1>3, <1>9 DEF TypeOK
    <3> QED
      BY <1>1, <1>2, <1>3, <1>9, <3>1 DEF TypeOK
  <2>3. MineInv' /\ EntryInv'
    BY <1>1, <1>3, <2>1 DEF MineInv, EntryInv
  <2>4. GoneInv'
    BY <1>1, <1>3, <1>5, <1>9, <2>1 DEF GoneInv
  <2>5. QueueInv'
    BY <1>1, <1>2, <1>3, <1>9 DEF QueueInv
  <2>6. OnePersonInv'
    BY <1>1, <1>3, <2>1 DEF OnePersonInv
  <2> QED
    BY <1>7, <2>2, <2>3, <2>4, <2>5, <2>6 DEF SessionInv
<1> QED
  BY <1>4, <1>8, <1>9

LEMMA RegisterKeeps ==
    ASSUME SessionAssumption, SessionRecordAssumption, SessionInv, NEW a \in Attempts, Register(a)
    PROVE  SessionInv'
<1> USE SessionAssumption, SessionRecordAssumption
<1>1. TypeOK /\ MineInv /\ GoneInv /\ QueueInv /\ LastWriteInv /\ OnePersonInv /\ EntryInv
      /\ PressInv /\ ShownInv
  BY DEF SessionInv
<1> DEFINE new == [kind |-> "register", who |-> privy, aborted |-> FALSE, at |-> "asking"]
<1>2. /\ shown = Absent /\ step = "identity" /\ reg = Absent /\ privy # Absent /\ attempt[a] = Absent
      /\ attempt' = [attempt EXCEPT ![a] = new] /\ reg' = a
      /\ UNCHANGED <<disk, queue, shown, justLoggedOut, autoKey, auto, starting, step, entry, exit,
                     fetch, list, accounts, owner, privy, signedOut>>
  BY DEF Register, session, gate, screens, service, provider, history
<1>3. signedOut = FALSE /\ privy \in People
  BY <1>1, <1>2 DEF GoneInv, TypeOK
<1>4. new \in SignIn /\ new.kind = "register" /\ new.who = privy /\ new # Absent
  <2>1. new \in SignIn /\ new.kind = "register" /\ new.who = privy
    BY <1>3 DEF SignIn
  <2> QED
    BY <2>1 DEF SessionRecordAssumption
<1> HIDE DEF new
<1>5. /\ attempt' \in [Attempts -> SignIn \union {Absent}] /\ attempt'[a] = new
      /\ \A b \in Attempts : b # a => attempt'[b] = attempt[b]
  BY <1>1, <1>2, <1>4 DEF TypeOK
<1>6. \A b \in Attempts : Live(b)' => b = a \/ (Live(b) /\ b # a /\ b = auto /\ attempt[b].kind = "auto")
  BY <1>1, <1>2, <1>5 DEF Live, MineInv, TypeOK, SessionAssumption
<1>7. TypeOK'
  <2>1. /\ auto # Absent => attempt'[auto] # Absent /\ attempt'[auto].kind = "auto"
        /\ attempt'[a] # Absent /\ attempt'[a].kind = "register"
    BY <1>1, <1>2, <1>4, <1>5 DEF TypeOK
  <2> QED
    BY <1>1, <1>2, <1>5, <2>1 DEF TypeOK
<1>8. MineInv' /\ GoneInv'
  BY <1>2, <1>3, <1>6 DEF MineInv, GoneInv
<1>9. QueueInv'
  BY <1>1, <1>2, <1>5 DEF QueueInv
<1>10. LastWriteInv' /\ PressInv'
  BY <1>1, <1>2 DEF LastWriteInv, Turns, PressInv
<1>11. OnePersonInv'
  <2>1. \A b \in Attempts : Live(b)' => attempt'[b].who = privy
    BY <1>1, <1>2, <1>4, <1>5, <1>6 DEF OnePersonInv
  <2> QED
    BY <1>2, <2>1 DEF OnePersonInv
<1>12. EntryInv'
  BY <1>1, <1>2, <1>4, <1>5, <1>6 DEF EntryInv
<1>13. ShownInv'
  BY <1>1, <1>2 DEF ShownInv, ListIsOfShown
<1> QED
  BY <1>7, <1>8, <1>9, <1>10, <1>11, <1>12, <1>13 DEF SessionInv

LEMMA SignedInKeeps ==
    ASSUME SessionAssumption, SessionRecordAssumption, SessionInv, NEW a \in Attempts, SignedIn(a)
    PROVE  SessionInv'
<1> USE SessionAssumption, SessionRecordAssumption
<1>1. TypeOK /\ MineInv /\ GoneInv /\ QueueInv /\ LastWriteInv /\ OnePersonInv /\ EntryInv
      /\ PressInv /\ ShownInv
  BY DEF SessionInv
<1>2. /\ attempt[a] # Absent /\ attempt[a].at = "asking"
      /\ accounts' = accounts \union {attempt[a].who}
      /\ UNCHANGED <<disk, shown, justLoggedOut, starting, step, entry, exit, fetch, list, privy, signedOut>>
  BY DEF SignedIn, session, gate, screens, provider, history
<1>3. attempt[a] \in SignIn /\ attempt[a].who \in People /\ accounts' \subseteq People
  BY <1>1, <1>2 DEF TypeOK, SignIn
<1>4. CASE Finish(a) /\ UNCHANGED <<owner, queue>>
  <2>1. /\ attempt' \in [Attempts -> SignIn \union {Absent}]
        /\ autoKey' \in People \union {Absent} /\ auto' \in Attempts \union {Absent}
        /\ reg' \in Attempts \union {Absent}
        /\ auto' # Absent => attempt'[auto'] # Absent /\ attempt'[auto'].kind = "auto"
        /\ reg' # Absent => attempt'[reg'] # Absent /\ attempt'[reg'].kind = "register"
        /\ \A b \in Attempts : b # a => attempt'[b] = attempt[b]
        /\ \A b \in Attempts : Live(b)' => Live(b) /\ b # a
        /\ MineInv'
    BY <1>1, <1>3, <1>4, FinishEnds
  <2>2. TypeOK'
    BY <1>1, <1>2, <1>3, <1>4, <2>1 DEF TypeOK
  <2>3. GoneInv' /\ EntryInv' /\ PressInv'
    BY <1>1, <1>2, <1>4, <2>1 DEF GoneInv, EntryInv, PressInv
  <2>4. QueueInv' /\ LastWriteInv'
    BY <1>1, <1>2, <1>4, <2>1 DEF QueueInv, LastWriteInv, Turns
  <2>5. OnePersonInv' /\ ShownInv'
    BY <1>1, <1>2, <1>4, <2>1 DEF OnePersonInv, ShownInv, ListIsOfShown
  <2> QED
    BY <2>1, <2>2, <2>3, <2>4, <2>5 DEF SessionInv
<1>5. CASE ~attempt[a].aborted /\ Save(a, attempt[a].who)
  <2> DEFINE who == attempt[a].who
             t == Task("open", Len(owner) + 1, a)
  <2>1. /\ Len(owner) < MaxTokens /\ owner' = Append(owner, who) /\ queue' = Append(Outdated, t)
        /\ attempt' = [attempt EXCEPT ![a].at = "saving"]
        /\ UNCHANGED <<autoKey, auto, reg>>
    BY <1>5 DEF Save
  <2>2. owner \in Seq(People) /\ Len(owner) \in Nat /\ Len(owner) + 1 \in Token
    BY <1>1, <2>1 DEF TypeOK, Token, SessionAssumption
  <2>3. /\ t \in Write /\ t.kind = "open" /\ t.by = a /\ t.token = Len(owner) + 1 /\ t.done = 0
    BY <2>2 DEF Task, Write
  <2> HIDE DEF t
  <2>4. Queued(t)
    BY <1>1, <2>1, <2>3, QueuedLast
  <2>5. Len(queue) \in Nat /\ DOMAIN queue = 1 .. Len(queue)
    BY <1>1, QueueType
  <2>6. /\ queue' \in Seq(Write)
        /\ \A i \in DOMAIN queue' :
             \/ /\ i \in DOMAIN queue /\ queue'[i].kind = queue[i].kind /\ queue'[i].by = queue[i].by
                /\ queue'[i].token = queue[i].token /\ queue'[i].done = queue[i].done
                /\ ~queue'[i].current
             \/ /\ i = Len(queue) + 1 /\ queue'[i].kind = "open" /\ queue'[i].by = a
                /\ queue'[i].token = Len(owner) + 1 /\ queue'[i].done = 0
    <3>1. queue'[Len(queue) + 1] = t
      BY <2>4 DEF Queued
    <3> QED
      BY <2>3, <2>4, <2>5, <3>1 DEF Queued
  <2>7. /\ attempt' \in [Attempts -> SignIn \union {Absent}]
        /\ attempt'[a] \in SignIn /\ attempt'[a] # Absent /\ attempt'[a].at = "saving"
        /\ attempt'[a].who = who /\ attempt'[a].kind = attempt[a].kind
        /\ (attempt'[a].aborted <=> attempt[a].aborted)
        /\ \A b \in Attempts : b # a => attempt'[b] = attempt[b]
    <3>1. attempt' = [attempt EXCEPT ![a] = [attempt[a] EXCEPT !.at = "saving"]]
      BY <2>1
    <3> DEFINE new == [attempt[a] EXCEPT !.at = "saving"]
    <3>2. /\ new \in SignIn /\ new.at = "saving" /\ new.who = who /\ new.kind = attempt[a].kind
          /\ (new.aborted <=> attempt[a].aborted)
      BY <1>3 DEF SignIn
    <3>3. new # Absent
      BY <3>2 DEF SessionRecordAssumption
    <3> HIDE DEF new, who
    <3> QED
      BY <1>1, <3>1, <3>2, <3>3 DEF TypeOK, new
  <2>8. \A b \in Attempts : Live(b)' <=> Live(b)
    BY <1>2, <2>7 DEF Live
  <2>9. Live(a) /\ signedOut = FALSE
    BY <1>1, <1>2, <1>5 DEF Live, GoneInv, TypeOK
  <2>10. /\ owner' \in Seq(People) /\ Len(owner') = Len(owner) + 1 /\ Len(owner') <= MaxTokens
         /\ owner'[Len(owner) + 1] = who
         /\ \A i \in Token : i <= Len(owner) => owner'[i] = owner[i]
    BY <1>3, <2>1, <2>2 DEF SessionAssumption, Token
  <2> HIDE DEF who
  <2>11. TypeOK'
    <3>1. /\ disk.token # Absent => disk.token <= Len(owner')
          /\ shown # Absent => shown.token <= Len(owner')
      BY <1>1, <2>2, <2>10 DEF TypeOK, Shown, Token, SessionAssumption
    <3>2. /\ auto # Absent => attempt'[auto] # Absent /\ attempt'[auto].kind = "auto"
          /\ reg # Absent => attempt'[reg] # Absent /\ attempt'[reg].kind = "register"
      BY <1>1, <2>7 DEF TypeOK
    <3> QED
      BY <1>1, <1>2, <1>3, <2>1, <2>6, <2>7, <2>10, <3>1, <3>2 DEF TypeOK
  <2>12. MineInv' /\ GoneInv'
    BY <1>1, <1>2, <2>1, <2>8, <2>9 DEF MineInv, GoneInv
  <2>13. QueueInv'
    <3>1. ASSUME NEW i \in DOMAIN queue', queue'[i].kind = "open"
          PROVE  /\ queue'[i].by \in Attempts
                 /\ attempt'[queue'[i].by] # Absent /\ attempt'[queue'[i].by].at = "saving"
                 /\ queue'[i].token \in 1 .. Len(owner')
                 /\ owner'[queue'[i].token] = attempt'[queue'[i].by].who
                 /\ queue'[i].done > 0 => i = 1 /\ disk'.token = queue'[i].token
      <4>1. CASE i \in DOMAIN queue /\ queue'[i].kind = queue[i].kind /\ queue'[i].by = queue[i].by
                 /\ queue'[i].token = queue[i].token /\ queue'[i].done = queue[i].done
        <5>1. /\ queue[i].by \in Attempts
              /\ attempt[queue[i].by] # Absent /\ attempt[queue[i].by].at = "saving"
              /\ queue[i].token \in 1 .. Len(owner)
              /\ owner[queue[i].token] = attempt[queue[i].by].who
              /\ queue[i].done > 0 => i = 1 /\ disk.token = queue[i].token
          BY <1>1, <3>1, <4>1 DEF QueueInv
        <5>2. queue[i].by # a /\ attempt'[queue[i].by] = attempt[queue[i].by]
          BY <1>2, <2>7, <5>1
        <5>3. queue[i].token \in 1 .. Len(owner') /\ owner'[queue[i].token] = owner[queue[i].token]
          BY <2>1, <2>2, <2>10, <5>1 DEF Token, SessionAssumption
        <5> QED
          BY <1>2, <4>1, <5>1, <5>2, <5>3
      <4>2. CASE queue'[i].by = a /\ queue'[i].token = Len(owner) + 1 /\ queue'[i].done = 0
        BY <2>2, <2>7, <2>10, <4>2
      <4> QED
        BY <2>6, <4>1, <4>2
    <3>2. \A i, j \in DOMAIN queue' :
            queue'[i].kind = "open" /\ queue'[j].kind = "open" /\ queue'[i].by = queue'[j].by => i = j
      <4>1. \A i \in DOMAIN queue : queue[i].kind = "open" => queue[i].by # a
        BY <1>1, <1>2 DEF QueueInv
      <4> QED
        BY <1>1, <2>6, <4>1 DEF QueueInv
    <3>3. \A i \in DOMAIN queue' : queue'[i].kind = "close" => queue'[i].by \in Exits
      BY <1>1, <2>6 DEF QueueInv
    <3> QED
      BY <3>1, <3>2, <3>3 DEF QueueInv
  <2>14. LastWriteInv'
    BY <2>6 DEF LastWriteInv, Turns
  <2>15. EntryInv'
    BY <1>1, <1>2, <2>7, <2>8 DEF EntryInv
  <2>16. PressInv'
    BY <1>1, <1>2, <2>6 DEF PressInv
  <2>17. shown # Absent => owner'[shown.token] = owner[shown.token]
    BY <1>1, <2>10 DEF TypeOK, Shown
  <2>18. OnePersonInv'
    <3>1. \A b \in Attempts : Live(b) => attempt'[b].who = attempt[b].who /\ attempt'[b].kind = attempt[b].kind
      BY <2>7 DEF who
    <3> QED
      BY <1>1, <1>2, <2>8, <2>17, <3>1 DEF OnePersonInv
  <2>19. ShownInv'
    <3>1. disk.token # Absent => owner'[disk.token] = owner[disk.token]
      BY <1>1, <2>10 DEF TypeOK
    <3>2. fetch # Absent /\ fetch.token # Absent
            => owner'[fetch.token] = owner[fetch.token] /\ fetch.token <= Len(owner')
      BY <1>1, <2>2, <2>10 DEF TypeOK, ShownInv, Request, Token
    <3> QED
      BY <1>1, <1>2, <2>17, <3>1, <3>2 DEF ShownInv, ListIsOfShown
  <2> QED
    BY <2>11, <2>12, <2>13, <2>14, <2>15, <2>16, <2>18, <2>19 DEF SessionInv
<1> QED
  BY <1>4, <1>5 DEF SignedIn

LEMMA SignInRefusedKeeps ==
    ASSUME SessionAssumption, SessionRecordAssumption, SessionInv, NEW a \in Attempts, Refused(a)
    PROVE  SessionInv'
<1> USE SessionAssumption, SessionRecordAssumption
<1>1. TypeOK /\ MineInv /\ GoneInv /\ QueueInv /\ LastWriteInv /\ OnePersonInv /\ EntryInv
      /\ PressInv /\ ShownInv
  BY DEF SessionInv
<1>2. /\ attempt[a] # Absent /\ attempt[a].at = "asking" /\ Finish(a)
      /\ UNCHANGED <<disk, queue, shown, justLoggedOut, starting, entry, exit, fetch, list,
                     accounts, owner, privy, signedOut>>
      /\ step' = step \/ (step' = "identity" /\ ~attempt[a].aborted)
  BY DEF Refused, session, screens, service, provider, history
<1>3. attempt[a] \in SignIn
  BY <1>1, <1>2 DEF TypeOK
<1>4. /\ attempt' \in [Attempts -> SignIn \union {Absent}]
      /\ autoKey' \in People \union {Absent} /\ auto' \in Attempts \union {Absent}
      /\ reg' \in Attempts \union {Absent}
      /\ auto' # Absent => attempt'[auto'] # Absent /\ attempt'[auto'].kind = "auto"
      /\ reg' # Absent => attempt'[reg'] # Absent /\ attempt'[reg'].kind = "register"
      /\ \A b \in Attempts : b # a => attempt'[b] = attempt[b]
      /\ \A b \in Attempts : Live(b)' => Live(b) /\ b # a
      /\ MineInv'
  BY <1>1, <1>2, <1>3, FinishEnds
<1>5. signedOut => step' = step
  BY <1>1, <1>2 DEF GoneInv, Live
<1>6. TypeOK'
  <2>1. step' \in {"gate", "identity"}
    BY <1>1, <1>2 DEF TypeOK
  <2> QED
    BY <1>1, <1>2, <1>4, <2>1 DEF TypeOK
<1>7. GoneInv' /\ EntryInv' /\ PressInv'
  BY <1>1, <1>2, <1>4, <1>5 DEF GoneInv, EntryInv, PressInv
<1>8. QueueInv' /\ LastWriteInv'
  BY <1>1, <1>2, <1>4 DEF QueueInv, LastWriteInv, Turns
<1>9. OnePersonInv' /\ ShownInv'
  BY <1>1, <1>2, <1>4 DEF OnePersonInv, ShownInv, ListIsOfShown
<1> QED
  BY <1>4, <1>6, <1>7, <1>8, <1>9 DEF SessionInv

LEMMA SessionInitHolds ==
    ASSUME SessionAssumption, SessionRecordAssumption, SessionInit
    PROVE  SessionInv
<1> USE SessionAssumption, SessionRecordAssumption
<1>1. \A a \in Attempts : ~Live(a)
  BY DEF SessionInit, Live
<1>2. queue = <<>> /\ queue \in Seq(Write) /\ DOMAIN queue = {}
  BY DEF SessionInit
<1>3. TypeOK
  <2>1. disk \in DiskType /\ disk.token = Absent
    BY DEF SessionInit, Blank, DiskType
  <2>2. owner \in Seq(People) /\ Len(owner) = 0 /\ 0 <= MaxTokens
    BY DEF SessionInit, SessionAssumption
  <2> QED
    BY <1>2, <2>1, <2>2 DEF SessionInit, TypeOK, SessionAssumption, DiskType
<1>4. MineInv /\ GoneInv /\ OnePersonInv /\ EntryInv
  BY <1>1 DEF SessionInit, MineInv, GoneInv, OnePersonInv, EntryInv
<1>5. QueueInv /\ LastWriteInv /\ PressInv
  BY <1>2 DEF QueueInv, LastWriteInv, PressInv
<1>6. ShownInv
  BY DEF SessionInit, ShownInv, ListIsOfShown, Blank
<1> QED
  BY <1>3, <1>4, <1>5, <1>6 DEF SessionInv

\* The books of the session hold in every state the phone can reach, whatever the number
\* of people, of attempts under way and of sign-outs under way.
THEOREM SessionInvHolds == SessionSpec => []SessionInv
<1> USE SessionAssumption, SessionRecordAssumption
<1>1. SessionInit => SessionInv
  BY SessionInitHolds
<1>2. SessionInv /\ [SessionNext]_sessionVars => SessionInv'
  <2> SUFFICES ASSUME SessionInv, [SessionNext]_sessionVars PROVE SessionInv'
    OBVIOUS
  <2>1. CASE SaveSession \/ ShowSession \/ DropSession
    BY <2>1, SaveSessionKeeps, ShowSessionKeeps, DropSessionKeeps
  <2>2. CASE SaveExit \/ ExitSaved \/ ExitFails
    BY <2>2, SaveExitKeeps, ExitSavedKeeps, ExitFailsKeeps
  <2>3. CASE Unblock \/ UnblockRefused \/ Expire
    BY <2>3, UnblockKeeps, UnblockRefusedKeeps, ExpireKeeps
  <2>4. CASE \E x \in Exits : Logout(x)
    BY <2>4, LogoutKeeps
  <2>5. CASE CleanupEnds
    BY <2>5, CleanupEndsKeeps
  <2>6. CASE CleanupFails \/ CleanupTimesOut
    BY <2>6, UnwaitKeeps DEF CleanupFails, CleanupTimesOut
  <2>7. CASE Press \/ ProviderAnswers \/ Look
    BY <2>7, PressKeeps, ProviderAnswersKeeps, LookKeeps
  <2>8. CASE \E a \in Attempts : Register(a) \/ SignedIn(a) \/ Refused(a)
    BY <2>8, RegisterKeeps, SignedInKeeps, SignInRefusedKeeps
  <2>9. CASE Fetch \/ Send \/ Answered
    BY <2>9, FetchKeeps, SendKeeps, AnsweredKeeps
  <2>10. CASE Unauthorized \/ Restart
    BY <2>10, UnauthorizedKeeps, RestartKeeps
  <2>11. CASE UNCHANGED sessionVars
    <3>1. UNCHANGED <<disk, queue, shown, justLoggedOut, attempt, autoKey, auto, reg, checking, starting,
                      step, entry, ignored, exit, fetch, list, accounts, owner, privy, cleanup, signedOut>>
      BY <2>11 DEF sessionVars, session, attempts, gate, screens, service, provider, history
    <3>2. TypeOK /\ GoneInv /\ OnePersonInv /\ EntryInv /\ PressInv /\ ShownInv
      BY DEF SessionInv
    <3>3. TypeOK'
      BY <3>1, <3>2 DEF TypeOK
    <3>4. MineInv' /\ QueueInv' /\ LastWriteInv'
      BY <3>1, QuietKeeps
    <3>5. GoneInv' /\ OnePersonInv' /\ EntryInv' /\ PressInv' /\ ShownInv'
      BY <3>1, <3>2 DEF GoneInv, OnePersonInv, EntryInv, PressInv, ShownInv, ListIsOfShown, Live
    <3> QED
      BY <3>3, <3>4, <3>5 DEF SessionInv
  <2> QED
    BY <2>1, <2>2, <2>3, <2>4, <2>5, <2>6, <2>7, <2>8, <2>9, <2>10, <2>11 DEF SessionNext
<1> QED
  BY <1>1, <1>2, PTL DEF SessionSpec

\* Whoever has signed out is not signed in again before somebody presses a button: no
\* late answer, no write that waited and no restart shows an account.
THEOREM SignedOutForGood == SessionSpec => []SignedOutStaysOut
<1>1. SessionInv => SignedOutStaysOut
  BY DEF SessionInv, GoneInv, SignedOutStaysOut
<1> QED
  BY <1>1, SessionInvHolds, PTL

\* No answer that comes late puts another person's data on the screens.
THEOREM ScreensAreOfShown == SessionSpec => []ListIsOfShown
<1>1. SessionInv => ListIsOfShown
  BY DEF SessionInv, ShownInv
<1> QED
  BY <1>1, SessionInvHolds, PTL

\* The shape of the session's variables, with what the refs hold under way.
THEOREM SessionTyped == SessionSpec => []TypeOK
<1>1. SessionInv => TypeOK
  BY DEF SessionInv
<1> QED
  BY <1>1, SessionInvHolds, PTL
=============================================================================
