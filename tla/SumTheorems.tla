---------------------------- MODULE SumTheorems -----------------------------
(***************************************************************************)
(* What a sum over a finite set is, for all sets: it does not depend on    *)
(* the order in which CHOOSE takes the elements, and changes by what is    *)
(* added or removed.  The models add amounts up with MapThenSumSet.        *)
(*                                                                         *)
(* The theorems of the library on induction take an operator; here it is   *)
(* used in the form that does not: a set of subsets of a finite set has a  *)
(* smallest member (SmallestSubset), and a smallest counterexample to a    *)
(* statement about sums is none.                                           *)
(***************************************************************************)
EXTENDS Integers, FiniteSetsExt, FiniteSetTheorems, WellFoundedInduction, TLAPS

\* The sum of the values of the function f over S.
SumOver(f, S) == MapThenSumSet(LAMBDA x : f[x], S)

\* The element that the sum takes first.
FirstOf(s) == CHOOSE x \in s : TRUE

\* The table of the sums of f over the subsets of S.
IsTable(g, f, S) ==
    g = [s \in SUBSET S |-> IF s = {} THEN 0 ELSE f[FirstOf(s)] + g[s \ {FirstOf(s)}]]

LEMMA SmallestSubset ==
    ASSUME NEW S, IsFiniteSet(S), NEW Bad \in SUBSET SUBSET S, Bad # {}
    PROVE  \E T \in Bad : \A U \in SUBSET T : U # T => U \notin Bad
<1>1. IsWellFoundedOn(StrictSubsetOrdering(S), SUBSET S)
  BY FS_StrictSubsetOrderingWellFounded, FS_FiniteSubsetsOfFinite
<1>2. PICK T \in Bad : \A U \in Bad : ~(<<U, T>> \in StrictSubsetOrdering(S))
  BY <1>1, WFMin
<1>3. ASSUME NEW U \in SUBSET T, U # T, U \in Bad
      PROVE  FALSE
  <2>1. <<U, T>> \in StrictSubsetOrdering(S)
    BY <1>3 DEF StrictSubsetOrdering
  <2> QED
    BY <1>2, <1>3, <2>1
<1> QED
  BY <1>2, <1>3

LEMMA SumIsOfTable ==
    ASSUME NEW f, NEW S
    PROVE  SumOver(f, S) = (CHOOSE g : IsTable(g, f, S))[S]
BY DEF SumOver, MapThenSumSet, MapThenFoldSet, IsTable, FirstOf

LEMMA TableEntry ==
    ASSUME NEW f, NEW S, NEW g, IsTable(g, f, S), NEW s \in SUBSET S
    PROVE  g[s] = IF s = {} THEN 0 ELSE f[FirstOf(s)] + g[s \ {FirstOf(s)}]
BY DEF IsTable

LEMMA FirstIsIn ==
    ASSUME NEW s, s # {}
    PROVE  FirstOf(s) \in s
BY DEF FirstOf

LEMMA TablesAgree ==
    ASSUME NEW f, NEW S, NEW T, NEW g, NEW h, IsTable(g, f, S), IsTable(h, f, T),
           IsFiniteSet(S), NEW s \in SUBSET S, s \in SUBSET T
    PROVE  g[s] = h[s]
<1> DEFINE Bad == {t \in SUBSET S : t \in SUBSET T /\ g[t] # h[t]}
<1> SUFFICES ASSUME Bad # {} PROVE FALSE
  OBVIOUS
<1>1. PICK t \in Bad : \A u \in SUBSET t : u # t => u \notin Bad
  BY SmallestSubset
<1>2. t # {}
  BY TableEntry
<1>3. FirstOf(t) \in t /\ t \ {FirstOf(t)} \in SUBSET t /\ t \ {FirstOf(t)} # t
  BY <1>2, FirstIsIn
<1>4. g[t \ {FirstOf(t)}] = h[t \ {FirstOf(t)}]
  BY <1>1, <1>3
<1>5. g[t] = h[t]
  BY <1>2, <1>4, TableEntry
<1> QED
  BY <1>5

LEMMA TableExists ==
    ASSUME NEW f, NEW S, IsFiniteSet(S)
    PROVE  \E g : IsTable(g, f, S)
<1> DEFINE Bad == {T \in SUBSET S : ~\E g : IsTable(g, f, T)}
<1> SUFFICES ASSUME Bad # {} PROVE FALSE
  OBVIOUS
<1>1. PICK T \in Bad : \A U \in SUBSET T : U # T => U \notin Bad
  <2>1. Bad \in SUBSET SUBSET S
    OBVIOUS
  <2> HIDE DEF Bad
  <2> QED
    BY <2>1, SmallestSubset
<1> DEFINE Table(U) == CHOOSE g : IsTable(g, f, U)
<1>2. ASSUME NEW U \in SUBSET T, U # T
      PROVE  IsTable(Table(U), f, U) /\ IsFiniteSet(U)
  BY <1>1, <1>2, FS_Subset
<1> HIDE DEF Table
<1> DEFINE h == [s \in SUBSET T |-> IF s = {} THEN 0
                                     ELSE f[FirstOf(s)] + Table(s \ {FirstOf(s)})[s \ {FirstOf(s)}]]
<1>3. ASSUME NEW U \in SUBSET T, U # T
      PROVE  h[U] = Table(U)[U]
  <2>1. CASE U = {}
    BY <1>2, <1>3, <2>1, TableEntry
  <2>2. CASE U # {}
    <3> DEFINE V == U \ {FirstOf(U)}
    <3>1. V \in SUBSET T /\ V # T /\ V \in SUBSET U
      BY <1>3
    <3>2. Table(U)[V] = Table(V)[V]
      BY <1>2, <1>3, <3>1, TablesAgree
    <3>3. Table(U)[U] = f[FirstOf(U)] + Table(U)[V]
      BY <1>2, <1>3, <2>2, TableEntry
    <3> QED
      BY <1>3, <2>2, <3>2, <3>3
  <2> QED
    BY <2>1, <2>2
<1>4. ASSUME NEW s \in SUBSET T, s # {}
      PROVE  h[s \ {FirstOf(s)}] = Table(s \ {FirstOf(s)})[s \ {FirstOf(s)}]
  <2>1. s \ {FirstOf(s)} \in SUBSET T /\ s \ {FirstOf(s)} # T
    BY <1>4, FirstIsIn
  <2> QED
    BY <1>3, <2>1
<1>5. IsTable(h, f, T)
  BY <1>4 DEF IsTable
<1> QED
  BY <1>1, <1>5

\* Any table says what the sum is.
LEMMA SumIsInTable ==
    ASSUME NEW f, NEW S, IsFiniteSet(S), NEW g, IsTable(g, f, S), NEW T \in SUBSET S
    PROVE  SumOver(f, T) = g[T]
<1>1. IsFiniteSet(T)
  BY FS_Subset
<1>2. IsTable(CHOOSE h : IsTable(h, f, T), f, T)
  BY <1>1, TableExists
<1> QED
  BY <1>1, <1>2, SumIsOfTable, TablesAgree

LEMMA SumByFirst ==
    ASSUME NEW f, NEW S, IsFiniteSet(S)
    PROVE  SumOver(f, S) = IF S = {} THEN 0 ELSE f[FirstOf(S)] + SumOver(f, S \ {FirstOf(S)})
<1>1. PICK g : IsTable(g, f, S)
  BY TableExists
<1>2. SumOver(f, S) = g[S] /\ SumOver(f, S \ {FirstOf(S)}) = g[S \ {FirstOf(S)}]
  BY <1>1, SumIsInTable
<1>3. CASE S = {}
  BY <1>1, <1>2, <1>3, TableEntry
<1>4. CASE S # {}
  <2>1. g[S] = f[FirstOf(S)] + g[S \ {FirstOf(S)}]
    BY <1>1, <1>4, TableEntry
  <2> QED
    BY <1>2, <1>4, <2>1
<1> QED
  BY <1>3, <1>4

-----------------------------------------------------------------------------

\* The sum of nothing.
THEOREM SumEmpty == \A f : SumOver(f, {}) = 0
BY SumByFirst, FS_EmptySet

\* Numbers add up to a number.
THEOREM SumType ==
    ASSUME NEW f, NEW S, IsFiniteSet(S), \A x \in S : f[x] \in Int
    PROVE  SumOver(f, S) \in Int
<1> DEFINE Bad == {T \in SUBSET S : SumOver(f, T) \notin Int}
<1> SUFFICES ASSUME Bad # {} PROVE FALSE
  OBVIOUS
<1>1. PICK T \in Bad : \A U \in SUBSET T : U # T => U \notin Bad
  <2>1. Bad \in SUBSET SUBSET S
    OBVIOUS
  <2> HIDE DEF Bad
  <2> QED
    BY <2>1, SmallestSubset
<1>2. IsFiniteSet(T)
  BY FS_Subset
<1>3. T # {}
  BY SumEmpty
<1>4. FirstOf(T) \in T /\ SumOver(f, T \ {FirstOf(T)}) \in Int /\ f[FirstOf(T)] \in Int
  BY <1>1, <1>3, FirstIsIn
<1>5. SumOver(f, T) = f[FirstOf(T)] + SumOver(f, T \ {FirstOf(T)})
  BY <1>2, <1>3, SumByFirst
<1> QED
  BY <1>4, <1>5

\* Whatever element is taken out, the sum is its value and the rest.
THEOREM SumWithout ==
    ASSUME NEW f, NEW S, IsFiniteSet(S), \A x \in S : f[x] \in Int, NEW a \in S
    PROVE  SumOver(f, S) = f[a] + SumOver(f, S \ {a})
<1> DEFINE Bad == {T \in SUBSET S : \E x \in T : SumOver(f, T) # f[x] + SumOver(f, T \ {x})}
<1> SUFFICES ASSUME Bad # {} PROVE FALSE
  OBVIOUS
<1>1. PICK T \in Bad : \A U \in SUBSET T : U # T => U \notin Bad
  <2>1. Bad \in SUBSET SUBSET S
    OBVIOUS
  <2> HIDE DEF Bad
  <2> QED
    BY <2>1, SmallestSubset
<1>2. PICK x \in T : SumOver(f, T) # f[x] + SumOver(f, T \ {x})
  BY <1>1
<1> DEFINE y == FirstOf(T)
<1>3. y \in T /\ SumOver(f, T) = f[y] + SumOver(f, T \ {y})
  BY FS_Subset, SumByFirst, FirstIsIn
<1> HIDE DEF y
<1>4. x # y
  BY <1>2, <1>3
<1>5. T \ {y} \in SUBSET T /\ T \ {y} # T /\ x \in T \ {y} /\ T \ {x} \in SUBSET T /\ T \ {x} # T /\ y \in T \ {x}
  BY <1>3, <1>4
<1>6. SumOver(f, T \ {y}) = f[x] + SumOver(f, (T \ {y}) \ {x})
  BY <1>1, <1>5
<1>7. SumOver(f, T \ {x}) = f[y] + SumOver(f, (T \ {x}) \ {y})
  BY <1>1, <1>5
<1>8. (T \ {x}) \ {y} = (T \ {y}) \ {x}
  OBVIOUS
<1>9. SumOver(f, (T \ {y}) \ {x}) \in Int /\ f[x] \in Int /\ f[y] \in Int
  BY <1>3, FS_Subset, SumType
<1> QED
  <2> DEFINE rest == SumOver(f, (T \ {y}) \ {x})
  <2>1. SumOver(f, T) = f[y] + (f[x] + rest) /\ SumOver(f, T \ {x}) = f[y] + rest
    BY <1>3, <1>6, <1>7, <1>8
  <2>2. rest \in Int /\ f[x] \in Int /\ f[y] \in Int
    BY <1>9
  <2> HIDE DEF rest
  <2>3. f[y] + (f[x] + rest) = f[x] + (f[y] + rest)
    BY <2>2
  <2> QED
    BY <1>2, <2>1, <2>3

\* An element that is not there yet adds its value.
THEOREM SumWith ==
    ASSUME NEW f, NEW S, IsFiniteSet(S), \A x \in S : f[x] \in Int, NEW a, a \notin S, f[a] \in Int
    PROVE  SumOver(f, S \union {a}) = f[a] + SumOver(f, S)
<1>1. IsFiniteSet(S \union {a}) /\ (S \union {a}) \ {a} = S /\ a \in S \union {a}
  BY FS_AddElement
<1>2. \A x \in S \union {a} : f[x] \in Int
  OBVIOUS
<1> QED
  BY <1>1, <1>2, SumWithout

\* Only the values on the set count.
THEOREM SumSame ==
    ASSUME NEW f, NEW g, NEW S, IsFiniteSet(S), \A x \in S : f[x] = g[x]
    PROVE  SumOver(f, S) = SumOver(g, S)
<1> DEFINE Bad == {T \in SUBSET S : SumOver(f, T) # SumOver(g, T)}
<1> SUFFICES ASSUME Bad # {} PROVE FALSE
  OBVIOUS
<1>1. PICK T \in Bad : \A U \in SUBSET T : U # T => U \notin Bad
  <2>1. Bad \in SUBSET SUBSET S
    OBVIOUS
  <2> HIDE DEF Bad
  <2> QED
    BY <2>1, SmallestSubset
<1>2. T # {} /\ IsFiniteSet(T)
  BY SumEmpty, FS_Subset
<1>3. FirstOf(T) \in T /\ SumOver(f, T \ {FirstOf(T)}) = SumOver(g, T \ {FirstOf(T)})
  BY <1>1, <1>2, FirstIsIn
<1>4. /\ SumOver(f, T) = f[FirstOf(T)] + SumOver(f, T \ {FirstOf(T)})
      /\ SumOver(g, T) = g[FirstOf(T)] + SumOver(g, T \ {FirstOf(T)})
  BY <1>2, SumByFirst
<1> QED
  BY <1>3, <1>4

\* One value changes, and the sum by as much.
THEOREM SumChanged ==
    ASSUME NEW f, NEW g, NEW S, IsFiniteSet(S), \A x \in S : f[x] \in Int /\ g[x] \in Int,
           NEW a \in S, \A x \in S \ {a} : f[x] = g[x]
    PROVE  SumOver(g, S) = SumOver(f, S) - f[a] + g[a]
<1>1. SumOver(f, S) = f[a] + SumOver(f, S \ {a}) /\ SumOver(g, S) = g[a] + SumOver(g, S \ {a})
  BY SumWithout
<1>2. IsFiniteSet(S \ {a})
  BY FS_Subset
<1>3. SumOver(f, S \ {a}) = SumOver(g, S \ {a}) /\ SumOver(f, S \ {a}) \in Int
  BY <1>2, SumSame, SumType
<1>4. f[a] \in Int /\ g[a] \in Int
  OBVIOUS
<1> QED
  BY <1>1, <1>3, <1>4

\* The sum over two sets that have nothing in common.
THEOREM SumOfTwo ==
    ASSUME NEW f, NEW S, NEW T, IsFiniteSet(S), IsFiniteSet(T), S \intersect T = {},
           \A x \in S \union T : f[x] \in Int
    PROVE  SumOver(f, S \union T) = SumOver(f, S) + SumOver(f, T)
<1> DEFINE Bad == {U \in SUBSET T : SumOver(f, S \union U) # SumOver(f, S) + SumOver(f, U)}
<1> SUFFICES ASSUME Bad # {} PROVE FALSE
  OBVIOUS
<1>1. PICK U \in Bad : \A V \in SUBSET U : V # U => V \notin Bad
  <2>1. Bad \in SUBSET SUBSET T
    OBVIOUS
  <2> HIDE DEF Bad
  <2> QED
    BY <2>1, SmallestSubset
<1>2. SumOver(f, S) \in Int
  BY SumType
<1>3. U # {}
  <2> SUFFICES ASSUME U = {} PROVE FALSE
    OBVIOUS
  <2>1. S \union U = S /\ SumOver(f, U) = 0
    BY SumEmpty
  <2>2. SumOver(f, S \union U) = SumOver(f, S) + SumOver(f, U)
    BY <1>2, <2>1
  <2> QED
    BY <2>2
<1>4. PICK a \in U : TRUE
  BY <1>3
<1> DEFINE V == U \ {a}
<1>5. V \in SUBSET U /\ V # U /\ V \in SUBSET T /\ a \in T /\ a \notin S \union V /\ f[a] \in Int
  BY <1>4
<1>6. SumOver(f, S \union V) = SumOver(f, S) + SumOver(f, V)
  BY <1>1, <1>5
<1>7. IsFiniteSet(V) /\ IsFiniteSet(S \union V)
  BY <1>5, FS_Subset, FS_Union
<1>8. SumOver(f, (S \union V) \union {a}) = f[a] + SumOver(f, S \union V)
  BY <1>5, <1>7, SumWith
<1>9. SumOver(f, V \union {a}) = f[a] + SumOver(f, V)
  BY <1>5, <1>7, SumWith
<1>10. V \union {a} = U /\ (S \union V) \union {a} = S \union U
  BY <1>4
<1>11. SumOver(f, V) \in Int
  BY <1>5, <1>7, SumType
<1> HIDE DEF V
<1>12. f[a] + (SumOver(f, S) + SumOver(f, V)) = SumOver(f, S) + (f[a] + SumOver(f, V))
  BY <1>2, <1>5, <1>11
<1> QED
  BY <1>1, <1>6, <1>8, <1>9, <1>10, <1>12

\* Values that are not negative add up to none that is.
THEOREM SumNat ==
    ASSUME NEW f, NEW S, IsFiniteSet(S), \A x \in S : f[x] \in Nat
    PROVE  SumOver(f, S) \in Nat
<1> DEFINE Bad == {T \in SUBSET S : SumOver(f, T) \notin Nat}
<1> SUFFICES ASSUME Bad # {} PROVE FALSE
  OBVIOUS
<1>1. PICK T \in Bad : \A U \in SUBSET T : U # T => U \notin Bad
  <2>1. Bad \in SUBSET SUBSET S
    OBVIOUS
  <2> HIDE DEF Bad
  <2> QED
    BY <2>1, SmallestSubset
<1>2. T # {} /\ IsFiniteSet(T)
  <2>1. SumOver(f, {}) \in Nat
    BY SumEmpty
  <2>2. T # {}
    BY <2>1
  <2> QED
    BY <2>2, FS_Subset
<1>3. FirstOf(T) \in T /\ SumOver(f, T \ {FirstOf(T)}) \in Nat /\ f[FirstOf(T)] \in Nat
  BY <1>1, <1>2, FirstIsIn
<1>4. SumOver(f, T) = f[FirstOf(T)] + SumOver(f, T \ {FirstOf(T)})
  BY <1>2, SumByFirst
<1> QED
  BY <1>3, <1>4

\* Of values that are not negative, some add up to no more than all.
THEOREM SumOfPart ==
    ASSUME NEW f, NEW S, IsFiniteSet(S), \A x \in S : f[x] \in Nat, NEW T \in SUBSET S
    PROVE  SumOver(f, T) <= SumOver(f, S)
<1> DEFINE rest == S \ T
<1>1. IsFiniteSet(T) /\ IsFiniteSet(rest)
  BY FS_Subset
<1>2. T \union rest = S /\ T \intersect rest = {} /\ rest \in SUBSET S
  OBVIOUS
<1> HIDE DEF rest
<1>3. SumOver(f, T) \in Nat /\ SumOver(f, rest) \in Nat
  BY <1>1, <1>2, SumNat
<1>4. \A x \in T \union rest : f[x] \in Int
  BY <1>2
<1>5. SumOver(f, T \union rest) = SumOver(f, T) + SumOver(f, rest)
  BY <1>1, <1>2, <1>4, SumOfTwo
<1>6. SumOver(f, S) = SumOver(f, T) + SumOver(f, rest)
  BY <1>2, <1>5
<1>7. \A m, n \in Nat : m <= m + n
  OBVIOUS
<1> QED
  BY <1>3, <1>6, <1>7

\* Nothing, however often, is nothing.
THEOREM SumZero ==
    ASSUME NEW f, NEW S, IsFiniteSet(S), \A x \in S : f[x] = 0
    PROVE  SumOver(f, S) = 0
<1> DEFINE Bad == {T \in SUBSET S : SumOver(f, T) # 0}
<1> SUFFICES ASSUME Bad # {} PROVE FALSE
  OBVIOUS
<1>1. PICK T \in Bad : \A U \in SUBSET T : U # T => U \notin Bad
  <2>1. Bad \in SUBSET SUBSET S
    OBVIOUS
  <2> HIDE DEF Bad
  <2> QED
    BY <2>1, SmallestSubset
<1>2. T # {} /\ IsFiniteSet(T)
  <2>1. T # {}
    BY SumEmpty
  <2> QED
    BY <2>1, FS_Subset
<1>3. FirstOf(T) \in T /\ SumOver(f, T \ {FirstOf(T)}) = 0 /\ f[FirstOf(T)] = 0
  BY <1>1, <1>2, FirstIsIn
<1>4. SumOver(f, T) = f[FirstOf(T)] + SumOver(f, T \ {FirstOf(T)})
  BY <1>2, SumByFirst
<1> QED
  BY <1>3, <1>4

\* The terms of h are those of f and g, added up.
AreAdded(f, g, h, S) == \A x \in S : f[x] \in Int /\ g[x] \in Int /\ h[x] = f[x] + g[x]

\* Sums are added up term by term ...
THEOREM SumPlus ==
    ASSUME NEW f, NEW g, NEW h, NEW S, IsFiniteSet(S), AreAdded(f, g, h, S)
    PROVE  SumOver(h, S) = SumOver(f, S) + SumOver(g, S)
<1> DEFINE Bad == {T \in SUBSET S : SumOver(h, T) # SumOver(f, T) + SumOver(g, T)}
<1> SUFFICES ASSUME Bad # {} PROVE FALSE
  OBVIOUS
<1>1. PICK T \in Bad : \A U \in SUBSET T : U # T => U \notin Bad
  <2>1. Bad \in SUBSET SUBSET S
    OBVIOUS
  <2> HIDE DEF Bad
  <2> QED
    BY <2>1, SmallestSubset
<1>2. T # {} /\ IsFiniteSet(T)
  <2>1. SumOver(h, {}) = SumOver(f, {}) + SumOver(g, {})
    BY SumEmpty
  <2>2. SumOver(h, T) # SumOver(f, T) + SumOver(g, T)
    BY <1>1
  <2>3. T # {}
    BY <2>1, <2>2
  <2> QED
    BY <2>3, FS_Subset
<1> DEFINE a == FirstOf(T)
           R == T \ {a}
<1>3. a \in T /\ IsFiniteSet(R)
  BY <1>2, FirstIsIn, FS_RemoveElement
<1>4. SumOver(h, R) = SumOver(f, R) + SumOver(g, R) /\ h[a] = f[a] + g[a] /\ f[a] \in Int /\ g[a] \in Int
  BY <1>1, <1>3 DEF AreAdded
<1>5. SumOver(f, R) \in Int /\ SumOver(g, R) \in Int
  <2>1. \A x \in R : f[x] \in Int /\ g[x] \in Int
    BY DEF AreAdded
  <2> QED
    BY <1>3, <2>1, SumType
<1>6. /\ SumOver(f, T) = f[a] + SumOver(f, R) /\ SumOver(g, T) = g[a] + SumOver(g, R)
      /\ SumOver(h, T) = h[a] + SumOver(h, R)
  BY <1>2, SumByFirst
<1>7. SumOver(h, T) # SumOver(f, T) + SumOver(g, T)
  BY <1>1
<1> HIDE DEF a, R
<1> QED
  BY <1>4, <1>5, <1>6, <1>7

\* The terms of h are those of f, times c.
AreTimes(f, h, c, S) == \A x \in S : f[x] \in Int /\ h[x] = c * f[x]

\* ... a factor is taken out ...
THEOREM SumTimes ==
    ASSUME NEW f, NEW h, NEW c \in Int, NEW S, IsFiniteSet(S), AreTimes(f, h, c, S)
    PROVE  SumOver(h, S) = c * SumOver(f, S)
<1> DEFINE Bad == {T \in SUBSET S : SumOver(h, T) # c * SumOver(f, T)}
<1> SUFFICES ASSUME Bad # {} PROVE FALSE
  OBVIOUS
<1>1. PICK T \in Bad : \A U \in SUBSET T : U # T => U \notin Bad
  <2>1. Bad \in SUBSET SUBSET S
    OBVIOUS
  <2> HIDE DEF Bad
  <2> QED
    BY <2>1, SmallestSubset
<1>2. T # {} /\ IsFiniteSet(T)
  <2>1. SumOver(h, {}) = 0 /\ SumOver(f, {}) = 0 /\ c * 0 = 0
    BY SumEmpty
  <2>2. T # {}
    BY <1>1, <2>1
  <2> QED
    BY <2>2, FS_Subset
<1> DEFINE a == FirstOf(T)
           R == T \ {a}
<1>3. a \in T /\ IsFiniteSet(R)
  BY <1>2, FirstIsIn, FS_RemoveElement
<1>4. SumOver(h, R) = c * SumOver(f, R) /\ h[a] = c * f[a] /\ f[a] \in Int
  BY <1>1, <1>3 DEF AreTimes
<1>5. SumOver(f, R) \in Int
  <2>1. \A x \in R : f[x] \in Int
    BY DEF AreTimes
  <2> QED
    BY <1>3, <2>1, SumType
<1>6. SumOver(f, T) = f[a] + SumOver(f, R) /\ SumOver(h, T) = h[a] + SumOver(h, R)
  BY <1>2, SumByFirst
<1>7. SumOver(h, T) # c * SumOver(f, T)
  BY <1>1
<1> HIDE DEF a, R
<1>8. c * (f[a] + SumOver(f, R)) = c * f[a] + c * SumOver(f, R)
  BY <1>4, <1>5
<1> QED
  BY <1>4, <1>5, <1>6, <1>7, <1>8

AreAtMost(f, c, S) == \A x \in S : f[x] \in Int /\ f[x] <= c

\* ... and what is bounded term by term is bounded by the number of terms.
THEOREM SumBounded ==
    ASSUME NEW f, NEW c \in Int, NEW S, IsFiniteSet(S), AreAtMost(f, c, S)
    PROVE  SumOver(f, S) <= c * Cardinality(S)
<1> DEFINE Bad == {T \in SUBSET S : ~(SumOver(f, T) <= c * Cardinality(T))}
<1> SUFFICES ASSUME Bad # {} PROVE FALSE
  OBVIOUS
<1>1. PICK T \in Bad : \A U \in SUBSET T : U # T => U \notin Bad
  <2>1. Bad \in SUBSET SUBSET S
    OBVIOUS
  <2> HIDE DEF Bad
  <2> QED
    BY <2>1, SmallestSubset
<1>2. T # {} /\ IsFiniteSet(T)
  <2>1. T # {}
    BY SumEmpty, FS_EmptySet
  <2> QED
    BY <2>1, FS_Subset
<1> DEFINE a == FirstOf(T)
           R == T \ {a}
<1>3. a \in T /\ IsFiniteSet(R)
  BY <1>2, FirstIsIn, FS_RemoveElement
<1>4. SumOver(f, R) <= c * Cardinality(R) /\ f[a] <= c /\ f[a] \in Int
  BY <1>1, <1>3 DEF AreAtMost
<1>5. SumOver(f, R) \in Int
  <2>1. \A x \in R : f[x] \in Int
    BY DEF AreAtMost
  <2> QED
    BY <1>3, <2>1, SumType
<1>6. SumOver(f, T) = f[a] + SumOver(f, R)
  BY <1>2, SumByFirst
<1>7. ~(SumOver(f, T) <= c * Cardinality(T))
  BY <1>1
<1>8. Cardinality(R) = Cardinality(T) - 1 /\ Cardinality(T) \in Nat
  BY <1>2, <1>3, FS_RemoveElement, FS_CardinalityType
<1> HIDE DEF a, R
<1>9. c * (Cardinality(T) - 1) = c * Cardinality(T) - c /\ c * Cardinality(T) \in Int
  BY <1>8
<1> QED
  BY <1>4, <1>5, <1>6, <1>7, <1>8, <1>9

\* Equal terms.
THEOREM SumEqual ==
    ASSUME NEW f, NEW c \in Int, NEW S, IsFiniteSet(S), \A x \in S : f[x] = c
    PROVE  SumOver(f, S) = c * Cardinality(S)
<1> DEFINE g == [x \in S |-> -f[x]]
<1>1. SumOver(f, S) <= c * Cardinality(S)
  <2>1. AreAtMost(f, c, S)
    BY DEF AreAtMost
  <2> QED
    BY <2>1, SumBounded
<1>2. SumOver(g, S) = (-1) * SumOver(f, S)
  <2>1. AreTimes(f, g, -1, S)
    BY DEF AreTimes
  <2> HIDE DEF g
  <2> QED
    BY <2>1, SumTimes
<1>3. SumOver(g, S) <= (-c) * Cardinality(S)
  <2>1. AreAtMost(g, -c, S)
    BY DEF AreAtMost
  <2> HIDE DEF g
  <2> QED
    BY <2>1, SumBounded
<1>4. SumOver(f, S) \in Int /\ Cardinality(S) \in Nat
  BY SumType, FS_CardinalityType
<1> HIDE DEF g
<1>5. (-c) * Cardinality(S) = -(c * Cardinality(S)) /\ c * Cardinality(S) \in Int
  BY <1>4
<1> QED
  BY <1>1, <1>2, <1>3, <1>4, <1>5
=============================================================================
