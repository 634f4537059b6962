--------------------------- MODULE StorageProofs ----------------------------
(***************************************************************************)
(* Proofs about Storage, for any keys, sizes, capacity, tree of            *)
(* directories and number of concurrent calls.                             *)
(***************************************************************************)
EXTENDS Storage, FiniteSetTheorems, WellFoundedInduction, TLAPS

-----------------------------------------------------------------------------
(* Sums over finite sets *)

Pick(s) == CHOOSE x \in s : TRUE

\* g has the sum of f over each subset of S.
Sums(g, f, S) == g = [s \in SUBSET S |-> IF s = {} THEN 0 ELSE f[Pick(s)] + g[s \ {Pick(s)}]]

\* Among sets of subsets of a finite set, some has no smaller one.
LEMMA Smallest ==
    ASSUME NEW S, IsFiniteSet(S), NEW B \in SUBSET SUBSET S, B # {}
    PROVE  \E m \in B : \A s \in SUBSET m : s # m => s \notin B
<1>1. IsWellFoundedOn(StrictSubsetOrdering(S), SUBSET S)
    BY FS_StrictSubsetOrderingWellFounded, FS_FiniteSubsetsOfFinite
<1>2. PICK m \in B : \A s \in B : <<s, m>> \notin StrictSubsetOrdering(S)
    BY <1>1, WFMin
<1>3. ASSUME NEW s \in SUBSET m, s # m, s \in B PROVE FALSE
  <2>1. <<s, m>> \in StrictSubsetOrdering(S)
    BY <1>3 DEF StrictSubsetOrdering
  <2> QED
    BY <1>2, <1>3, <2>1
<1> QED
    BY <1>3

\* Any set of numbers has a first one.
LEMMA Least ==
    ASSUME NEW S \in SUBSET Nat, S # {}
    PROVE  \E m \in S : \A n \in S : m <= n
<1> DEFINE R == {ss \in Nat \X Nat : ss[1] < ss[2]}
<1>1. IsWellFoundedOn(R, Nat)
    BY NatLessThanWellFounded DEF OpToRel
<1> HIDE DEF R
<1>2. PICK m \in S : \A n \in S : <<n, m>> \notin R
    BY <1>1, WFMin
<1>3. \A n \in S : m <= n
  <2>1. ASSUME NEW n \in S, n < m PROVE FALSE
    <3>1. <<n, m>> \in Nat \X Nat /\ <<n, m>>[1] = n /\ <<n, m>>[2] = m
      OBVIOUS
    <3>2. <<n, m>> \in R
      BY <2>1, <3>1 DEF R
    <3> QED
      BY <1>2, <3>2
  <2> QED
    BY <2>1
<1> QED
    BY <1>3

LEMMA PickIn == ASSUME NEW s, s # {} PROVE Pick(s) \in s
BY DEF Pick

LEMMA SumUnfolds ==
    ASSUME NEW S, NEW f, NEW g, Sums(g, f, S)
    PROVE  /\ g[{}] = 0
           /\ \A s \in SUBSET S : s # {} => g[s] = f[Pick(s)] + g[s \ {Pick(s)}]
<1>1. \A s \in SUBSET S : g[s] = IF s = {} THEN 0 ELSE f[Pick(s)] + g[s \ {Pick(s)}]
    BY DEF Sums
<1> QED
    BY <1>1

LEMMA SumTyped ==
    ASSUME NEW S, IsFiniteSet(S), NEW f, \A x \in S : f[x] \in Int, NEW g, Sums(g, f, S)
    PROVE  \A s \in SUBSET S : g[s] \in Int
<1> DEFINE B == {s \in SUBSET S : g[s] \notin Int}
<1> SUFFICES ASSUME B # {} PROVE FALSE
    OBVIOUS
<1>1. PICK m \in B : \A s \in SUBSET m : s # m => s \notin B
  <2>1. B \in SUBSET SUBSET S
    OBVIOUS
  <2> HIDE DEF B
  <2> QED
    BY <2>1, Smallest
<1>2. m # {} /\ m \in SUBSET S
  <2>1. g[{}] \in Int
    BY SumUnfolds
  <2> QED
    BY <2>1
<1>3. Pick(m) \in m
    BY <1>2, PickIn
<1>4. g[m \ {Pick(m)}] \in Int
  <2>1. m \ {Pick(m)} \in SUBSET m /\ m \ {Pick(m)} # m
    BY <1>3
  <2>2. m \ {Pick(m)} \notin B
    BY <1>1, <2>1
  <2> QED
    BY <1>2, <2>2
<1>5. g[m] = f[Pick(m)] + g[m \ {Pick(m)}]
  <2> HIDE DEF B
  <2> QED
    BY <1>2, SumUnfolds
<1> QED
    BY <1>2, <1>3, <1>4, <1>5

\* The elements may be taken in any order.
LEMMA SumSplits ==
    ASSUME NEW S, IsFiniteSet(S), NEW f, \A x \in S : f[x] \in Int, NEW g, Sums(g, f, S),
           NEW t \in SUBSET S, NEW y \in t
    PROVE  g[t] = f[y] + g[t \ {y}]
<1> DEFINE B == {s \in SUBSET S : \E x \in s : g[s] # f[x] + g[s \ {x}]}
<1> SUFFICES ASSUME B # {} PROVE FALSE
    OBVIOUS
<1>1. PICK m \in B : \A s \in SUBSET m : s # m => s \notin B
  <2>1. B \in SUBSET SUBSET S
    OBVIOUS
  <2> HIDE DEF B
  <2> QED
    BY <2>1, Smallest
<1>2. PICK x \in m : g[m] # f[x] + g[m \ {x}]
    OBVIOUS
<1> DEFINE p == Pick(m)
<1>3. m \in SUBSET S /\ p \in m /\ g[m] = f[p] + g[m \ {p}]
    BY <1>2, PickIn, SumUnfolds
<1>4. x # p
    BY <1>2, <1>3
<1>5. g[m \ {p}] = f[x] + g[(m \ {p}) \ {x}]
    BY <1>1, <1>2, <1>3, <1>4
<1>6. g[m \ {x}] = f[p] + g[(m \ {x}) \ {p}]
    BY <1>1, <1>2, <1>3, <1>4
<1>7. (m \ {p}) \ {x} = (m \ {x}) \ {p}
    OBVIOUS
<1>8. /\ f[x] \in Int /\ f[p] \in Int
      /\ g[(m \ {x}) \ {p}] \in Int
    BY <1>3, SumTyped
<1>9. g[m] = f[x] + g[m \ {x}]
  <2> HIDE DEF p, B
  <2>1. g[m] = f[p] + (f[x] + g[(m \ {x}) \ {p}])
    BY <1>3, <1>5, <1>7
  <2>2. f[x] + g[m \ {x}] = f[x] + (f[p] + g[(m \ {x}) \ {p}])
    BY <1>6
  <2> QED
    BY <1>8, <2>1, <2>2
<1> QED
    BY <1>2, <1>9

\* Sums of what is the same are the same.
LEMMA SumSame ==
    ASSUME NEW S, IsFiniteSet(S), NEW f, NEW g, Sums(g, f, S),
           NEW T, NEW e, NEW h, Sums(h, e, T),
           NEW r \in SUBSET S, r \subseteq T, \A x \in r : f[x] = e[x]
    PROVE  g[r] = h[r]
<1> DEFINE B == {s \in SUBSET r : g[s] # h[s]}
<1> SUFFICES ASSUME B # {} PROVE FALSE
    OBVIOUS
<1>1. B \in SUBSET SUBSET S
    OBVIOUS
<1>2. PICK m \in B : \A s \in SUBSET m : s # m => s \notin B
  <2> HIDE DEF B
  <2> QED
    BY <1>1, Smallest
<1>3. m # {} /\ m \in SUBSET S /\ m \in SUBSET T /\ m \subseteq r
    BY SumUnfolds
<1>4. Pick(m) \in m
    BY <1>3, PickIn
<1>5. g[m \ {Pick(m)}] = h[m \ {Pick(m)}]
    BY <1>2, <1>3, <1>4
<1>6. g[m] = f[Pick(m)] + g[m \ {Pick(m)}] /\ h[m] = e[Pick(m)] + h[m \ {Pick(m)}]
    BY <1>3, SumUnfolds
<1> QED
    BY <1>3, <1>4, <1>5, <1>6

\* There is such a g: by the size of the subsets.
LEMMA SumExists ==
    ASSUME NEW S, IsFiniteSet(S), NEW f
    PROVE  \E g : Sums(g, f, S)
<1> DEFINE Unfolded(g, s) == IF s = {} THEN 0 ELSE f[Pick(s)] + g[s \ {Pick(s)}]
           UpTo(g, n) == \A s \in SUBSET S : Cardinality(s) <= n => g[s] = Unfolded(g, s)
           B == {n \in Nat : ~\E g : UpTo(g, n)}
<1>1. \A s \in SUBSET S :
         IsFiniteSet(s) /\ Cardinality(s) \in Nat /\ Cardinality(s) <= Cardinality(S)
    BY FS_Subset, FS_CardinalityType
<1>2. Cardinality(S) \in Nat
    BY FS_CardinalityType
<1>3. ASSUME NEW n \in Nat, NEW g, UpTo(g, n)
      PROVE  UpTo([s \in SUBSET S |-> Unfolded(g, s)], n + 1)
  <2> DEFINE h == [s \in SUBSET S |-> Unfolded(g, s)]
  <2> SUFFICES ASSUME NEW s \in SUBSET S, Cardinality(s) <= n + 1 PROVE h[s] = Unfolded(h, s)
    OBVIOUS
  <2>1. CASE s = {}
    BY <2>1
  <2>2. CASE s # {}
    <3> DEFINE r == s \ {Pick(s)}
    <3>1. r \in SUBSET S /\ Pick(s) \in s
      BY <2>2, PickIn
    <3>2. Cardinality(r) <= n
      <4>1. Cardinality(r) = Cardinality(s) - 1
        BY <1>1, <3>1, FS_RemoveElement
      <4> QED
        BY <1>1, <4>1
    <3>3. g[r] = Unfolded(g, r)
      BY <1>3, <3>1, <3>2
    <3>4. h[r] = g[r]
      BY <3>1, <3>3
    <3> QED
      BY <2>2, <3>4
  <2> QED
    BY <2>1, <2>2
<1>4. \E g : UpTo(g, 0)
  <2>1. UpTo([s \in SUBSET S |-> 0], 0)
    BY <1>1, FS_EmptySet
  <2> QED
    BY <2>1
<1>5. ASSUME B # {} PROVE FALSE
  <2>1. PICK m \in B : \A n \in B : m <= n
    <3>1. B \in SUBSET Nat
      OBVIOUS
    <3> HIDE DEF B
    <3> QED
      BY <1>5, <3>1, Least
  <2>2. m \in Nat /\ m # 0
    BY <1>4
  <2>3. m - 1 \in Nat /\ m - 1 \notin B
    <3>1. m - 1 \in Nat /\ ~(m <= m - 1)
      BY <2>2
    <3> HIDE DEF B
    <3> QED
      BY <2>1, <3>1
  <2>4. PICK g : UpTo(g, m - 1)
    BY <2>3
  <2>5. UpTo([s \in SUBSET S |-> Unfolded(g, s)], (m - 1) + 1)
    <3> HIDE DEF UpTo
    <3> QED
      BY <1>3, <2>3, <2>4
  <2>6. (m - 1) + 1 = m
    BY <2>2
  <2> QED
    BY <2>5, <2>6
<1>6. PICK g : UpTo(g, Cardinality(S))
    BY <1>2, <1>5
<1> DEFINE h == [s \in SUBSET S |-> Unfolded(g, s)]
<1>7. \A s \in SUBSET S : g[s] = h[s]
    BY <1>1, <1>6
<1>8. \A s \in SUBSET S : Unfolded(g, s) = Unfolded(h, s)
  <2> SUFFICES ASSUME NEW s \in SUBSET S PROVE Unfolded(g, s) = Unfolded(h, s)
    OBVIOUS
  <2>1. s \ {Pick(s)} \in SUBSET S
    OBVIOUS
  <2>2. g[s \ {Pick(s)}] = h[s \ {Pick(s)}]
    BY <1>7, <2>1
  <2> HIDE DEF h
  <2> QED
    BY <2>2
<1>9. h = [s \in SUBSET S |-> Unfolded(h, s)]
    BY <1>8
<1> HIDE DEF h
<1>10. Sums(h, f, S)
    BY <1>9 DEF Sums
<1> QED
    BY <1>10

-----------------------------------------------------------------------------
(* The memory store *)

\* What is held is the sum of the lengths.
Held(o) == {k \in Keys : o[k] # Absent}
Length(o, k) == IF k \in Held(o) THEN o[k] ELSE 0
Sum(o) == Mem!MapThenSumSet(LAMBDA k : Length(o, k), Held(o))

LEMMA HeldIs ==
    /\ Mem!Stored = Held(objects) /\ Mem!Stored' = Held(objects')
    /\ Mem!Total = Sum(objects) /\ Mem!Total' = Sum(objects')
    /\ \A k : Mem!Bytes(k) = Length(objects, k) /\ Mem!Bytes(k)' = Length(objects', k)
<1>1. Mem!Stored = Held(objects) /\ Mem!Stored' = Held(objects')
    BY DEF Mem!Stored, Held
<1>2. \A k : Mem!Bytes(k) = Length(objects, k) /\ Mem!Bytes(k)' = Length(objects', k)
    BY DEF Mem!Bytes, Mem!Stored, Held, Length
<1>3. Mem!Total = Sum(objects) /\ Mem!Total' = Sum(objects')
    BY DEF Mem!Total, Mem!Stored, Mem!Bytes, Sum, Held, Length,
           Mem!MapThenSumSet, Mem!MapThenFoldSet
<1> QED
    BY <1>1, <1>2, <1>3

LEMMA SumIs ==
    ASSUME NEW o, IsFiniteSet(Held(o))
    PROVE  \E g : Sums(g, [k \in Keys |-> Length(o, k)], Held(o)) /\ Sum(o) = g[Held(o)]
<1> DEFINE S == Held(o)
           f == [k \in Keys |-> Length(o, k)]
           Eq(g) == g = [s \in SUBSET S |-> IF s = {} THEN 0
                                            ELSE Length(o, Pick(s)) + g[s \ {Pick(s)}]]
           it == CHOOSE g : Eq(g)
<1>1. Sum(o) = it[S]
    BY DEF Sum, Mem!MapThenSumSet, Mem!MapThenFoldSet, Pick
<1>2. ASSUME NEW g PROVE Sums(g, f, S) <=> Eq(g)
  <2>1. \A s \in SUBSET S : s # {} => f[Pick(s)] = Length(o, Pick(s))
    BY PickIn DEF Held
  <2>2. [s \in SUBSET S |-> IF s = {} THEN 0 ELSE f[Pick(s)] + g[s \ {Pick(s)}]]
        = [s \in SUBSET S |-> IF s = {} THEN 0 ELSE Length(o, Pick(s)) + g[s \ {Pick(s)}]]
    <3> HIDE DEF f, S
    <3> QED
      BY <2>1
  <2> QED
    BY <2>2 DEF Sums
<1>3. Eq(it)
  <2>1. \E g : Sums(g, f, S)
    <3> HIDE DEF f, S
    <3>1. IsFiniteSet(S)
      BY DEF S
    <3> QED
      BY <3>1, SumExists
  <2> HIDE DEF Eq, f, S
  <2> QED
    BY <1>2, <2>1
<1>4. Sums(it, f, S)
  <2> HIDE DEF Eq, f, S, it
  <2> QED
    BY <1>2, <1>3
<1> HIDE DEF it, f, S
<1>5. \E g : Sums(g, f, S) /\ Sum(o) = g[S]
    BY <1>1, <1>4
<1> QED
    BY <1>5 DEF f, S

LEMMA FiniteIs == \A S : Mem!IsFiniteSet(S) <=> IsFiniteSet(S)
BY DEF Mem!IsFiniteSet, IsFiniteSet

\* One object's change changes the sum by its change of length.
LEMMA SumChanges ==
    ASSUME NEW o \in [Keys -> Sizes \cup {Absent}], IsFiniteSet(Held(o)),
           NEW k \in Keys, NEW v \in Sizes \cup {Absent}
    PROVE  LET p == [o EXCEPT ![k] = v]
           IN  /\ IsFiniteSet(Held(p))
               /\ Sum(o) \in Int /\ Sum(p) \in Int
               /\ Length(o, k) \in Nat /\ Length(p, k) \in Nat
               /\ Length(p, k) = IF v = Absent THEN 0 ELSE v
               /\ Sum(p) = Sum(o) - Length(o, k) + Length(p, k)
<1> DEFINE p == [o EXCEPT ![k] = v]
           f == [j \in Keys |-> Length(o, j)]
           e == [j \in Keys |-> Length(p, j)]
           R == Held(o) \ {k}
<1>1. /\ p \in [Keys -> Sizes \cup {Absent}] /\ p[k] = v
      /\ \A j \in Keys \ {k} : p[j] = o[j]
    OBVIOUS
<1> HIDE DEF p
<1>2. /\ Held(p) = IF v = Absent THEN R ELSE R \cup {k}
      /\ Held(o) \subseteq Keys /\ Held(p) \subseteq Keys /\ R = Held(p) \ {k}
    BY <1>1 DEF Held
<1>3. IsFiniteSet(R) /\ IsFiniteSet(Held(p))
    BY <1>2, FS_RemoveElement, FS_AddElement
<1>4. /\ \A j \in Keys : Length(o, j) \in Nat /\ Length(p, j) \in Nat
      /\ Length(p, k) = IF v = Absent THEN 0 ELSE v
      /\ \A j \in R : Length(o, j) = Length(p, j)
    BY <1>1, StorageAssumption DEF Length, Held
<1>5. /\ \A j \in Keys : f[j] \in Int /\ e[j] \in Int
      /\ \A j \in R : f[j] = e[j]
      /\ f[k] = Length(o, k) /\ e[k] = Length(p, k)
  <2>1. \A j \in Keys : f[j] = Length(o, j) /\ e[j] = Length(p, j)
    OBVIOUS
  <2>2. R \subseteq Keys
    BY <1>2
  <2> HIDE DEF f, e, R
  <2>3. \A j \in Keys : Length(o, j) \in Int /\ Length(p, j) \in Int
    <3> Nat \subseteq Int
      OBVIOUS
    <3> QED
      BY <1>4
  <2> QED
    BY <1>4, <2>1, <2>2, <2>3
<1>6. PICK g : Sums(g, f, Held(o)) /\ Sum(o) = g[Held(o)]
    BY SumIs
<1>7. PICK h : Sums(h, e, Held(p)) /\ Sum(p) = h[Held(p)]
    BY <1>3, SumIs
<1> HIDE DEF f, e
<1>8. Sum(o) = f[k] + g[R]
  <2>1. /\ Held(o) \in SUBSET Held(o)
        /\ \A j \in Held(o) : f[j] \in Int
    BY <1>2, <1>5
  <2>2. CASE k \in Held(o)
    <3>1. R = Held(o) \ {k}
      BY <1>2
    <3> HIDE DEF R
    <3> QED
      BY <1>6, <2>1, <2>2, <3>1, SumSplits
  <2>3. CASE k \notin Held(o)
    <3>1. Held(o) = R /\ f[k] = 0
      BY <1>2, <1>5, <2>3 DEF Length
    <3>2. g[R] \in Int
      <4> HIDE DEF R
      <4> QED
        BY <1>6, <2>1, <3>1, SumTyped
    <3> HIDE DEF R
    <3> QED
      BY <1>6, <3>1, <3>2
  <2> QED
    BY <2>2, <2>3
<1>9. Sum(p) = e[k] + h[R]
  <2>1. /\ Held(p) \in SUBSET Held(p)
        /\ \A j \in Held(p) : e[j] \in Int
    BY <1>2, <1>5
  <2>2. CASE k \in Held(p)
    <3>1. R = Held(p) \ {k}
      BY <1>2
    <3> HIDE DEF R
    <3> QED
      BY <1>3, <1>7, <2>1, <2>2, <3>1, SumSplits
  <2>3. CASE k \notin Held(p)
    <3>1. Held(p) = R /\ e[k] = 0
      BY <1>2, <1>5, <2>3 DEF Length
    <3>2. h[R] \in Int
      <4> HIDE DEF R
      <4> QED
        BY <1>3, <1>7, <2>1, <3>1, SumTyped
    <3> HIDE DEF R
    <3> QED
      BY <1>7, <3>1, <3>2
  <2> QED
    BY <2>2, <2>3
<1>10. g[R] = h[R] /\ g[R] \in Int
  <2>1. R \in SUBSET Held(o) /\ R \subseteq Held(p)
    BY <1>2
  <2>2. \A j \in Held(o) : f[j] \in Int
    BY <1>2, <1>5
  <2> HIDE DEF R
  <2>3. g[R] \in Int
    BY <1>6, <2>1, <2>2, SumTyped
  <2>4. g[R] = h[R]
    BY <1>5, <1>6, <1>7, <2>1, SumSame
  <2> QED
    BY <2>3, <2>4
<1>11. /\ Sum(o) \in Int /\ Sum(p) \in Int
       /\ Sum(p) = Sum(o) - Length(o, k) + Length(p, k)
  <2> HIDE DEF R
  <2> QED
    BY <1>4, <1>5, <1>8, <1>9, <1>10
<1> QED
    BY <1>3, <1>4, <1>11 DEF p

LEMMA NothingHeld ==
    ASSUME NEW o, Held(o) = {} PROVE Sum(o) = 0
<1>1. IsFiniteSet(Held(o))
    BY FS_EmptySet
<1>2. PICK g : Sums(g, [k \in Keys |-> Length(o, k)], Held(o)) /\ Sum(o) = g[Held(o)]
    BY <1>1, SumIs
<1> DEFINE f == [k \in Keys |-> Length(o, k)]
<1> HIDE DEF f
<1>3. Sums(g, f, {})
    BY <1>2 DEF f
<1> QED
    BY <1>2, <1>3 DEF Sums

LEMMA MemInit ==
    ASSUME Mem!Init PROVE Mem!MemInv
<1>1. Held(objects) = {}
    BY DEF Mem!Init, Held
<1>2. Mem!Stored = {} /\ Mem!Total = 0
    BY <1>1, HeldIs, NothingHeld
<1>3. Mem!TypeOK
  <2>1. objects \in [Keys -> Sizes \cup {Absent}]
    BY DEF Mem!Init
  <2>2. refused \in BOOLEAN
    BY Zenon DEF Mem!Init
  <2> QED
    BY <2>1, <2>2 DEF Mem!Init, Mem!TypeOK
<1>4. Mem!Accounted
  <2>1. usedBytes = 0 /\ Capacity \in Nat
    BY StorageAssumption DEF Mem!Init
  <2> QED
    BY <1>2, <2>1, FS_EmptySet, FiniteIs DEF Mem!Accounted
<1> QED
    BY <1>3, <1>4 DEF Mem!MemInv

\* How one object's change moves the total.
LEMMA TotalMoves ==
    ASSUME Mem!MemInv, NEW k \in Keys, NEW v \in Sizes \cup {Absent},
           objects' = [objects EXCEPT ![k] = v]
    PROVE  /\ Mem!Total \in Int /\ Mem!Total' \in Int /\ Mem!Bytes(k) \in Nat
           /\ IsFiniteSet(Mem!Stored')
           /\ Mem!Total' = Mem!Total - Mem!Bytes(k) + (IF v = Absent THEN 0 ELSE v)
<1>1. objects \in [Keys -> Sizes \cup {Absent}] /\ IsFiniteSet(Held(objects))
    BY HeldIs, FiniteIs DEF Mem!MemInv, Mem!TypeOK, Mem!Accounted
<1> DEFINE p == [objects EXCEPT ![k] = v]
<1>2. objects' = p
    OBVIOUS
<1>3. /\ IsFiniteSet(Held(p))
      /\ Sum(objects) \in Int /\ Sum(p) \in Int
      /\ Length(objects, k) \in Nat /\ Length(p, k) \in Nat
      /\ Length(p, k) = IF v = Absent THEN 0 ELSE v
      /\ Sum(p) = Sum(objects) - Length(objects, k) + Length(p, k)
    BY <1>1, SumChanges
<1> HIDE DEF p
<1>4. /\ Mem!Total = Sum(objects) /\ Mem!Total' = Sum(p)
      /\ Mem!Stored' = Held(p) /\ Mem!Bytes(k) = Length(objects, k)
    BY <1>2, HeldIs
<1> QED
    BY <1>3, <1>4

\* The total while no object changes.
LEMMA TotalStays ==
    ASSUME Mem!MemInv, objects' = objects
    PROVE  /\ Mem!Total' = Mem!Total /\ Mem!Stored' = Mem!Stored
           /\ \A k : Mem!Bytes(k)' = Mem!Bytes(k)
           /\ \A k \in Keys : Mem!Total \in Int /\ Mem!Bytes(k) \in Nat
<1>1. Mem!Total' = Mem!Total /\ Mem!Stored' = Mem!Stored /\ \A k : Mem!Bytes(k)' = Mem!Bytes(k)
  <2>1. Mem!Stored' = Mem!Stored
    BY DEF Mem!Stored
  <2>2. \A k : Mem!Bytes(k)' = Mem!Bytes(k)
    BY <2>1 DEF Mem!Bytes
  <2>3. Sum(objects') = Sum(objects)
    OBVIOUS
  <2> QED
    BY <2>1, <2>2, <2>3, HeldIs
<1>2. ASSUME NEW k \in Keys PROVE Mem!Total \in Int /\ Mem!Bytes(k) \in Nat
  <2>1. /\ IsFiniteSet(Held(objects)) /\ objects \in [Keys -> Sizes \cup {Absent}]
        /\ objects[k] \in Sizes \cup {Absent}
    BY HeldIs, FiniteIs DEF Mem!MemInv, Mem!TypeOK, Mem!Accounted
  <2>2. Sum(objects) \in Int /\ Length(objects, k) \in Nat
    BY <2>1, SumChanges
  <2> QED
    BY <2>2, HeldIs
<1> QED
    BY <1>1, <1>2

LEMMA PutKeeps ==
    ASSUME Mem!MemInv, NEW k \in Keys, NEW n \in Sizes, Mem!PutObject(k, n)
    PROVE  Mem!MemInv'
<1>1. n \in Nat /\ n # Absent /\ usedBytes \in Int /\ Capacity \in Nat
    BY StorageAssumption DEF Mem!MemInv, Mem!TypeOK
<1>2. CASE /\ (usedBytes - Mem!Bytes(k)) + n > Capacity
           /\ Mem!Refuse(k, n) /\ usedBytes' = usedBytes - Mem!Bytes(k)
  <2>1. /\ Mem!Total' = Mem!Total /\ Mem!Stored' = Mem!Stored
        /\ Mem!Total \in Int /\ Mem!Bytes(k) \in Nat
    BY <1>2, TotalStays DEF Mem!Refuse
  <2>2. k \notin Mem!Stored => Mem!Bytes(k) = 0
    BY DEF Mem!Bytes
  <2>3. Mem!TypeOK'
    BY <1>1, <1>2, <2>1 DEF Mem!MemInv, Mem!TypeOK, Mem!Refuse
  <2>4. usedBytes' <= Mem!Total' /\ IsFiniteSet(Mem!Stored')
    BY <1>1, <1>2, <2>1, FiniteIs DEF Mem!MemInv, Mem!Accounted
  <2>5. ASSUME ~refused' PROVE usedBytes' = Mem!Total' /\ Mem!Total' <= Capacity
    <3>1. ~refused /\ k \notin Mem!Stored
      BY <1>2, <2>5, Zenon DEF Mem!Refuse
    <3> QED
      BY <1>1, <1>2, <2>1, <2>2, <3>1, FiniteIs DEF Mem!MemInv, Mem!Accounted
  <2> QED
    BY <2>3, <2>4, <2>5, FiniteIs DEF Mem!MemInv, Mem!Accounted
<1>3. CASE /\ (usedBytes - Mem!Bytes(k)) + n <= Capacity
           /\ Mem!Accept(k, n) /\ usedBytes' = (usedBytes - Mem!Bytes(k)) + n
  <2>1. /\ Mem!Total \in Int /\ Mem!Total' \in Int /\ Mem!Bytes(k) \in Nat
        /\ IsFiniteSet(Mem!Stored') /\ Mem!Total' = Mem!Total - Mem!Bytes(k) + n
    BY <1>1, <1>3, TotalMoves DEF Mem!Accept
  <2>2. Mem!TypeOK'
    BY <1>1, <1>3, <2>1 DEF Mem!MemInv, Mem!TypeOK, Mem!Accept
  <2>3. usedBytes' <= Mem!Total'
    BY <1>1, <1>3, <2>1, FiniteIs DEF Mem!MemInv, Mem!Accounted
  <2>4. ASSUME ~refused' PROVE usedBytes' = Mem!Total' /\ Mem!Total' <= Capacity
    BY <1>1, <1>3, <2>1, <2>4, FiniteIs DEF Mem!MemInv, Mem!Accounted, Mem!Accept
  <2> QED
    BY <2>1, <2>2, <2>3, <2>4, FiniteIs DEF Mem!MemInv, Mem!Accounted
<1> QED
    BY <1>2, <1>3 DEF Mem!PutObject

LEMMA DeleteKeeps ==
    ASSUME Mem!MemInv, NEW k \in Keys, Mem!DeleteObject(k)
    PROVE  Mem!MemInv'
<1>1. /\ usedBytes \in Int /\ Capacity \in Nat
      /\ Mem!Bytes(k) = objects[k] /\ usedBytes' = usedBytes - Mem!Bytes(k)
    BY StorageAssumption DEF Mem!MemInv, Mem!TypeOK, Mem!DeleteObject, Mem!Bytes
<1>2. /\ Mem!Total \in Int /\ Mem!Total' \in Int /\ Mem!Bytes(k) \in Nat
      /\ IsFiniteSet(Mem!Stored') /\ Mem!Total' = Mem!Total - Mem!Bytes(k)
  <2>1. objects' = [objects EXCEPT ![k] = Absent]
    BY DEF Mem!DeleteObject
  <2>2. /\ Mem!Total \in Int /\ Mem!Total' \in Int /\ Mem!Bytes(k) \in Nat
        /\ IsFiniteSet(Mem!Stored') /\ Mem!Total' = Mem!Total - Mem!Bytes(k) + 0
    BY <2>1, TotalMoves
  <2> QED
    BY <2>2
<1>3. Mem!TypeOK'
    BY <1>1, <1>2 DEF Mem!MemInv, Mem!TypeOK, Mem!DeleteObject
<1>4. usedBytes' <= Mem!Total'
    BY <1>1, <1>2, FiniteIs DEF Mem!MemInv, Mem!Accounted
<1>5. ASSUME ~refused' PROVE usedBytes' = Mem!Total' /\ Mem!Total' <= Capacity
    BY <1>1, <1>2, <1>5, FiniteIs DEF Mem!MemInv, Mem!Accounted, Mem!DeleteObject
<1> QED
    BY <1>2, <1>3, <1>4, <1>5, FiniteIs DEF Mem!MemInv, Mem!Accounted

LEMMA MemInvariance == Mem!Spec => []Mem!MemInv
<1>1. Mem!Init => Mem!MemInv
    BY MemInit
<1>2. Mem!MemInv /\ [Mem!Next]_(Mem!vars) => Mem!MemInv'
  <2>1. ASSUME Mem!MemInv, UNCHANGED Mem!vars PROVE Mem!MemInv'
    <3>1. Mem!Total' = Mem!Total /\ Mem!Stored' = Mem!Stored
      BY <2>1, TotalStays DEF Mem!vars
    <3> QED
      BY <2>1, <3>1, FiniteIs DEF Mem!MemInv, Mem!TypeOK, Mem!Accounted, Mem!vars
  <2>2. ASSUME Mem!MemInv, Mem!Next PROVE Mem!MemInv'
    BY <2>2, PutKeeps, DeleteKeeps DEF Mem!Next
  <2> QED
    BY <2>1, <2>2
<1> QED
    BY <1>1, <1>2, PTL DEF Mem!Spec

\* A refused write would not have fit.
LEMMA RefusedDidNotFit ==
    ASSUME Mem!MemInv, Mem!Next, NEW k \in Keys, NEW n \in Sizes, <<k, n>> \in full'
    PROVE  Mem!Total - Mem!Bytes(k) + n > Capacity
<1>1. PICK j \in Keys, m \in Sizes : Mem!PutObject(j, m) /\ <<j, m>> = <<k, n>>
    BY DEF Mem!Next, Mem!DeleteObject, Mem!PutObject, Mem!Accept, Mem!Refuse
<1>2. Mem!PutObject(k, n) /\ <<k, n>> \in full'
    BY <1>1
<1>3. usedBytes - Mem!Bytes(k) + n > Capacity /\ objects' = objects
    BY <1>2 DEF Mem!PutObject, Mem!Accept, Mem!Refuse
<1>4. Mem!Total \in Int /\ Mem!Bytes(k) \in Nat
    BY <1>3, TotalStays
<1> QED
    BY <1>3, <1>4, StorageAssumption, FiniteIs DEF Mem!MemInv, Mem!TypeOK, Mem!Accounted

-----------------------------------------------------------------------------
(* The file store: FileInv is inductive. *)

\* Where the directories above another one are: among any that are closed under Up; and
\* of two, the lower one has a child among them.
LEMMA AboveFacts ==
    ASSUME NEW d \in Dirs
    PROVE  /\ d \in File!Above(d) /\ File!Above(d) \subseteq Dirs
           /\ \A e \in File!Above(d) : Up[e] \in File!Above(d) \cup {Base}
           /\ \A S \in SUBSET Dirs :
                  d \in S /\ (\A c \in S : Up[c] \in S \cup {Base}) => File!Above(d) \subseteq S
           /\ \A e \in File!Above(d) : e # d => \E c \in File!Above(d) : Up[c] = e
<1>1. File!Above(d) \subseteq Dirs /\ d \in File!Above(d)
    BY DEF File!Above
<1>2. ASSUME NEW S \in SUBSET Dirs, d \in S, \A c \in S : Up[c] \in S \cup {Base}
      PROVE  File!Above(d) \subseteq S
    BY <1>2 DEF File!Above
<1>3. ASSUME NEW e \in File!Above(d), Up[e] # Base PROVE Up[e] \in File!Above(d)
  <2>1. Up[e] \in Dirs
    BY <1>1, <1>3, StorageAssumption
  <2>2. ASSUME NEW S \in SUBSET Dirs, d \in S, \A c \in S : Up[c] \in S \cup {Base}
        PROVE  Up[e] \in S
    <3>1. e \in S
      BY <1>2, <2>2
    <3> QED
      BY <1>3, <2>2, <3>1
  <2> QED
    BY <2>1, <2>2 DEF File!Above
<1>4. ASSUME NEW e \in File!Above(d), e # d, \A c \in File!Above(d) : Up[c] # e PROVE FALSE
  <2> DEFINE S == File!Above(d) \ {e}
  <2>1. S \in SUBSET Dirs /\ d \in S
    BY <1>1, <1>4
  <2>2. \A c \in S : Up[c] \in S \cup {Base}
    BY <1>3, <1>4
  <2>3. File!Above(d) \subseteq S
    BY <1>2, <2>1, <2>2
  <2> QED
    BY <2>3
<1> QED
    BY <1>1, <1>2, <1>3, <1>4

\* What a call may change of its own state, and its type.
LEMMA GotoKeeps ==
    ASSUME File!Calls, NEW t \in Threads,
           NEW label \in {"idle", "mkdir", "create", "write", "remove", "readdir", "rmdir"},
           File!Goto(t, label)
    PROVE  /\ pc' \in [Threads ->
                     {"idle", "mkdir", "create", "write", "remove", "readdir", "rmdir"}]
           /\ pc'[t] = label /\ \A u \in Threads \ {t} : pc'[u] = pc[u]
BY DEF File!Goto, File!Calls, File!TypeOK

\* A call is begun.
LEMMA BeginKeeps ==
    ASSUME File!FileInv, NEW t \in Threads, NEW k \in Keys,
           File!PutObject(t, k) \/ File!DeleteObject(t, k)
    PROVE  File!FileInv'
<1> DEFINE label == IF File!PutObject(t, k) THEN "mkdir" ELSE "remove"
<1>1. /\ pc[t] = "idle" /\ File!Goto(t, label) /\ label \in {"mkdir", "remove"}
      /\ key' = [key EXCEPT ![t] = k] /\ stored' = stored \ {k}
      /\ UNCHANGED <<dirs, file, at, linked, alone, littered>>
    BY DEF File!PutObject, File!DeleteObject
<1> HIDE DEF label
<1>2. /\ pc'[t] = label /\ \A u \in Threads \ {t} : pc'[u] = pc[u] /\ key'[u] = key[u]
      /\ pc' \in [Threads -> {"idle", "mkdir", "create", "write", "remove", "readdir", "rmdir"}]
      /\ key' \in [Threads -> Keys \cup {NoKey}] /\ key'[t] = k
    BY <1>1, GotoKeeps DEF File!FileInv, File!Calls, File!TypeOK
<1>3. File!Calls'
    BY <1>1, <1>2 DEF File!FileInv, File!Calls, File!TypeOK
<1>4. File!Untouched'
    BY <1>1, <1>2 DEF File!FileInv, File!Untouched, File!Busy
<1>5. File!Tidied'
  <2>1. \A u \in Threads : \A d : File!Covers(u, d) => File!Covers(u, d)'
    BY <1>1, <1>2 DEF File!Covers
  <2>2. \A d : File!Children(d)' = File!Children(d)
    BY <1>1 DEF File!Children
  <2> QED
    BY <1>1, <2>1, <2>2 DEF File!FileInv, File!Tidied
<1> QED
    BY <1>3, <1>4, <1>5 DEF File!FileInv

\* A call that fails, and a stop: what is empty stays so.
LEMMA FailuresKeep ==
    ASSUME File!FileInv,
           \/ File!Crash
           \/ \E t \in Threads : \/ File!MakeDirFails(t) \/ File!CreateFileFails(t)
                                \/ File!WriteFileFails(t)
    PROVE  File!FileInv'
<1>1. /\ littered' = TRUE /\ UNCHANGED <<dirs, file, key, at, linked, alone, stored>>
      /\ pc' \in [Threads -> {"idle", "mkdir", "create", "write", "remove", "readdir", "rmdir"}]
      /\ \A t \in Threads : pc'[t] \in {pc[t], "idle"}
    BY DEF File!Crash, File!MakeDirFails, File!CreateFileFails, File!WriteFileFails, File!Fail, File!Goto,
       File!FileInv, File!Calls, File!TypeOK
<1>2. File!Calls'
    BY <1>1 DEF File!FileInv, File!Calls, File!TypeOK
<1>3. File!Untouched'
    BY <1>1 DEF File!FileInv, File!Untouched, File!Busy
<1>4. File!Tidied'
    BY <1>1 DEF File!Tidied
<1> QED
    BY <1>2, <1>3, <1>4 DEF File!FileInv

\* MkdirAll: what it makes is empty, and its own.
LEMMA MakeDirKeeps ==
    ASSUME File!FileInv, NEW t \in Threads, File!MakeDir(t) PROVE File!FileInv'
<1>1. pc[t] = "mkdir" /\ key[t] \in Keys /\ UNCHANGED <<file, stored, littered>>
    BY DEF File!MakeDir, File!FileInv, File!Calls
<1>2. CASE File!Goto(t, "create") /\ UNCHANGED <<dirs, key, at, linked, alone>>
  <2>1. /\ pc'[t] = "create" /\ \A u \in Threads \ {t} : pc'[u] = pc[u]
        /\ pc' \in [Threads -> {"idle", "mkdir", "create", "write", "remove", "readdir", "rmdir"}]
    BY <1>2, GotoKeeps DEF File!FileInv
  <2>2. File!Calls'
    BY <1>1, <1>2, <2>1 DEF File!FileInv, File!Calls, File!TypeOK
  <2>3. File!Untouched'
    BY <1>1, <1>2, <2>1 DEF File!FileInv, File!Untouched, File!Busy
  <2>4. \A u \in Threads : \A d : File!Covers(u, d) => File!Covers(u, d)'
    BY <1>1, <1>2, <2>1 DEF File!Covers
  <2>5. \A d : File!Children(d)' = File!Children(d)
    BY <1>1, <1>2 DEF File!Children
  <2>6. File!Tidied'
    BY <1>1, <1>2, <2>4, <2>5 DEF File!FileInv, File!Tidied
  <2> QED
    BY <2>2, <2>3, <2>6 DEF File!FileInv
<1>3. ASSUME NEW d \in File!Missing(key[t]), File!IsThere(Up[d]), dirs' = dirs \cup {d},
             UNCHANGED File!call
      PROVE  File!FileInv'
  <2>1. UNCHANGED <<pc, key, at, linked, alone>>
    BY <1>3 DEF File!call
  <2>2. d \in File!Above(DirOf[key[t]]) /\ d \in Dirs
    BY <1>1, StorageAssumption, AboveFacts DEF File!Missing
  <2>3. File!Calls'
    BY <1>1, <1>3, <2>1, <2>2 DEF File!FileInv, File!Calls, File!TypeOK, File!IsThere
  <2>4. File!Untouched'
    BY <1>1, <2>1 DEF File!FileInv, File!Untouched, File!Busy
  <2>5. \A u \in Threads : \A e : File!Covers(u, e) => File!Covers(u, e)'
    BY <2>1 DEF File!Covers
  <2>6. \A e : File!Children(e) \subseteq File!Children(e)'
    BY <1>1, <1>3 DEF File!Children
  <2>7. File!Covers(t, d)'
    BY <1>1, <2>1, <2>2 DEF File!Covers
  <2>8. File!Tidied'
    BY <1>1, <1>3, <2>5, <2>6, <2>7 DEF File!FileInv, File!Tidied
  <2> QED
    BY <2>3, <2>4, <2>8 DEF File!FileInv
<1> QED
    BY <1>2, <1>3 DEF File!MakeDir

\* os.Create: the file is in its directory, which is in its own, ...
LEMMA CreateFileKeeps ==
    ASSUME File!FileInv, NEW t \in Threads, File!CreateFile(t) PROVE File!FileInv'
<1> DEFINE k == key[t]
<1>1. /\ pc[t] = "create" /\ k \in Keys /\ File!IsThere(DirOf[k]) /\ File!Goto(t, "write")
      /\ file' = [file EXCEPT ![k] = "torn"]
      /\ alone' = [u \in Threads |-> IF u = t THEN File!Writers(k) = {}
                                     ELSE alone[u] /\ u \notin File!Writers(k)]
      /\ linked' = [linked EXCEPT ![t] = TRUE]
      /\ UNCHANGED <<dirs, key, at, stored, littered>>
    BY DEF File!CreateFile, File!FileInv, File!Calls
<1>2. /\ pc'[t] = "write" /\ \A u \in Threads \ {t} : pc'[u] = pc[u]
      /\ pc' \in [Threads -> {"idle", "mkdir", "create", "write", "remove", "readdir", "rmdir"}]
    BY <1>1, GotoKeeps DEF File!FileInv
<1>3. alone' \in [Threads -> BOOLEAN] /\ linked' \in [Threads -> BOOLEAN]
  <2>1. \A u \in Threads :
            (IF u = t THEN File!Writers(k) = {}
                       ELSE alone[u] /\ u \notin File!Writers(k)) \in BOOLEAN
    OBVIOUS
  <2>2. alone' \in [Threads -> BOOLEAN]
    BY <1>1, <2>1
  <2> QED
    BY <1>1, <2>2 DEF File!FileInv, File!Calls, File!TypeOK
<1>4. /\ file' \in [Keys -> {"absent", "torn", "whole"}] /\ file'[k] = "torn"
      /\ \A j \in Keys \ {k} : file'[j] = file[j]
    BY <1>1 DEF File!FileInv, File!Calls, File!TypeOK
<1>5. File!Calls'
    BY <1>1, <1>2, <1>3, <1>4 DEF File!FileInv, File!Calls, File!TypeOK
<1>6. File!Untouched'
  <2>1. k \notin stored
    BY <1>1 DEF File!FileInv, File!Untouched, File!Busy
  <2> QED
    BY <1>1, <1>2, <1>4, <2>1 DEF File!FileInv, File!Calls, File!TypeOK, File!Untouched, File!Busy
<1>7. \A d : File!Children(d) \subseteq File!Children(d)'
    BY <1>1, <1>4 DEF File!Children
<1>8. ASSUME NEW d \in File!Above(DirOf[k]) PROVE File!Children(d)' # {}
  <2>1. DirOf[k] \in dirs /\ DirOf[k] \in Dirs
    BY <1>1, StorageAssumption DEF File!IsThere
  <2>2. File!Above(DirOf[k]) \subseteq dirs
    BY <2>1, AboveFacts DEF File!FileInv, File!Calls, File!TypeOK
  <2>3. CASE d = DirOf[k]
    BY <1>1, <1>4, <2>3 DEF File!Children
  <2>4. CASE d # DirOf[k]
    <3>1. PICK c \in File!Above(DirOf[k]) : Up[c] = d
      BY <2>1, <2>4, AboveFacts
    <3> QED
      BY <1>1, <2>2, <3>1 DEF File!Children
  <2> QED
    BY <2>3, <2>4
<1>9. \A u \in Threads \ {t} : \A d : File!Covers(u, d) => File!Covers(u, d)'
    BY <1>1, <1>2 DEF File!Covers
<1>10. \A d : File!Covers(t, d) => d \in File!Above(DirOf[k])
    BY <1>1 DEF File!Covers
<1>11. File!Tidied'
    BY <1>1, <1>7, <1>8, <1>9, <1>10 DEF File!FileInv, File!Tidied
<1> QED
    BY <1>5, <1>6, <1>11 DEF File!FileInv

\* ... and io.Copy completes it: if nobody else is at work on it, it is stored.
LEMMA WriteFileKeeps ==
    ASSUME File!FileInv, NEW t \in Threads, File!WriteFile(t) PROVE File!FileInv'
<1> DEFINE k == key[t]
<1>1. /\ pc[t] = "write" /\ k \in Keys /\ File!Goto(t, "idle")
      /\ \/ linked[t] /\ file' = [file EXCEPT ![k] = "whole"]
         \/ linked[t] /\ ~alone[t] /\ file' = [file EXCEPT ![k] = "torn"]
         \/ ~linked[t] /\ UNCHANGED file
      /\ stored' = IF alone[t] /\ linked[t] /\ \A u \in Threads \ {t} : ~File!Busy(u, k)
                   THEN stored \cup {k} ELSE stored
      /\ UNCHANGED <<dirs, key, at, linked, alone, littered>>
    BY DEF File!WriteFile, File!FileInv, File!Calls
<1>2. /\ pc'[t] = "idle" /\ \A u \in Threads \ {t} : pc'[u] = pc[u]
      /\ pc' \in [Threads -> {"idle", "mkdir", "create", "write", "remove", "readdir", "rmdir"}]
    BY <1>1, GotoKeeps DEF File!FileInv
<1>3. /\ file' \in [Keys -> {"absent", "torn", "whole"}]
      /\ \A j \in Keys : file[j] # "absent" => file'[j] # "absent"
      /\ \A j \in Keys \ {k} : file'[j] = file[j]
      /\ alone[t] /\ linked[t] => file'[k] = "whole"
    BY <1>1 DEF File!FileInv, File!Calls, File!TypeOK
<1>4. stored' \subseteq Keys
    BY <1>1 DEF File!FileInv, File!Calls, File!TypeOK
<1>5. File!Calls'
    BY <1>1, <1>2, <1>3, <1>4 DEF File!FileInv, File!Calls, File!TypeOK
<1>6. File!Untouched'
  <2>1. k \notin stored
    BY <1>1 DEF File!FileInv, File!Untouched, File!Busy
  <2>2. \A j \in stored : j \in Keys
    BY DEF File!FileInv, File!Calls, File!TypeOK
  <2>3. ASSUME NEW j \in stored' PROVE file'[j] = "whole" /\ \A u \in Threads : ~File!Busy(u, j)'
    <3>1. CASE j \in stored
      BY <1>1, <1>2, <1>3, <2>1, <2>2, <3>1 DEF File!FileInv, File!Untouched, File!Busy
    <3>2. CASE j \notin stored
      <4>1. j = k /\ alone[t] /\ linked[t] /\ \A u \in Threads \ {t} : ~File!Busy(u, k)
        BY <1>1, <3>2
      <4> QED
        BY <1>1, <1>2, <1>3, <4>1 DEF File!Busy
    <3> QED
      BY <3>1, <3>2
  <2> QED
    BY <2>3 DEF File!Untouched
<1>7. File!Tidied'
  <2>1. \A d : File!Children(d) \subseteq File!Children(d)'
    BY <1>1, <1>3 DEF File!Children
  <2>2. \A u \in Threads : \A d : File!Covers(u, d) => File!Covers(u, d)'
    BY <1>1, <1>2 DEF File!Covers
  <2> QED
    BY <1>1, <2>1, <2>2 DEF File!FileInv, File!Tidied
<1> QED
    BY <1>5, <1>6, <1>7 DEF File!FileInv

\* os.Remove: the directory that may be empty now is the one the call goes on with.
LEMMA RemoveFileKeeps ==
    ASSUME File!FileInv, NEW t \in Threads, File!RemoveFile(t) PROVE File!FileInv'
<1> DEFINE k == key[t]
           label == IF file[k] = "absent" THEN "idle" ELSE "readdir"
<1>1. /\ pc[t] = "remove" /\ k \in Keys /\ File!Goto(t, label)
      /\ file' = [file EXCEPT ![k] = "absent"]
      /\ linked' = [u \in Threads |-> linked[u] /\ u \notin File!Writers(k)]
      /\ at' = [at EXCEPT ![t] = DirOf[k]]
      /\ UNCHANGED <<dirs, key, alone, stored, littered>>
    BY DEF File!RemoveFile, File!FileInv, File!Calls
<1>2. /\ pc'[t] = label /\ \A u \in Threads \ {t} : pc'[u] = pc[u] /\ at'[u] = at[u]
      /\ pc' \in [Threads -> {"idle", "mkdir", "create", "write", "remove", "readdir", "rmdir"}]
      /\ at'[t] = DirOf[k] /\ at' \in [Threads -> Dirs \cup {Base}]
    BY <1>1, GotoKeeps, StorageAssumption DEF File!FileInv, File!Calls, File!TypeOK
<1>3. linked' \in [Threads -> BOOLEAN]
  <2>1. \A u \in Threads : (linked[u] /\ u \notin File!Writers(k)) \in BOOLEAN
    OBVIOUS
  <2> QED
    BY <1>1, <2>1
<1>4. /\ file' \in [Keys -> {"absent", "torn", "whole"}] /\ file'[k] = "absent"
      /\ \A j \in Keys \ {k} : file'[j] = file[j]
    BY <1>1 DEF File!FileInv, File!Calls, File!TypeOK
<1>5. File!Calls'
    BY <1>1, <1>2, <1>3, <1>4 DEF File!FileInv, File!Calls, File!TypeOK
<1>6. File!Untouched'
  <2>1. k \notin stored
    BY <1>1 DEF File!FileInv, File!Untouched, File!Busy
  <2> QED
    BY <1>1, <1>2, <1>4, <2>1 DEF File!FileInv, File!Calls, File!TypeOK, File!Untouched, File!Busy
<1>7. \A u \in Threads : \A d : File!Covers(u, d) => File!Covers(u, d)'
    BY <1>1, <1>2 DEF File!Covers
<1>8. File!Tidied'
  <2> SUFFICES ASSUME ~littered, NEW d \in dirs, File!Children(d)' = {}
               PROVE  \E u \in Threads : File!Covers(u, d)'
    BY <1>1 DEF File!Tidied
  <2>1. CASE file[k] # "absent" /\ DirOf[k] = d
    BY <1>2, <2>1 DEF File!Covers
  <2>2. CASE file[k] = "absent" \/ DirOf[k] # d
    <3>1. File!Children(d)' = File!Children(d)
      BY <1>1, <1>4, <2>2 DEF File!Children
    <3> QED
      BY <1>7, <3>1 DEF File!FileInv, File!Tidied
  <2> QED
    BY <2>1, <2>2
<1> QED
    BY <1>5, <1>6, <1>8 DEF File!FileInv

\* os.ReadDir: a call that ends here leaves a directory that is not empty.
LEMMA ReadDirKeeps ==
    ASSUME File!FileInv, NEW t \in Threads, File!ReadDir(t) PROVE File!FileInv'
<1> DEFINE label == IF at[t] \in dirs /\ File!Children(at[t]) = {} THEN "rmdir" ELSE "idle"
<1>1. /\ pc[t] = "readdir" /\ File!Goto(t, label)
      /\ UNCHANGED <<dirs, file, key, at, linked, alone, stored, littered>>
    BY DEF File!ReadDir
<1>2. /\ pc'[t] = label /\ \A u \in Threads \ {t} : pc'[u] = pc[u]
      /\ pc' \in [Threads -> {"idle", "mkdir", "create", "write", "remove", "readdir", "rmdir"}]
    BY <1>1, GotoKeeps DEF File!FileInv
<1>3. File!Calls'
    BY <1>1, <1>2 DEF File!FileInv, File!Calls, File!TypeOK
<1>4. File!Untouched'
    BY <1>1, <1>2 DEF File!FileInv, File!Untouched, File!Busy
<1>5. File!Tidied'
  <2>1. \A d : File!Children(d)' = File!Children(d)
    BY <1>1 DEF File!Children
  <2>2. ASSUME NEW u \in Threads, NEW d \in dirs, File!Children(d) = {}, File!Covers(u, d)
        PROVE  File!Covers(u, d)'
    BY <1>1, <1>2, <2>2 DEF File!Covers
  <2> QED
    BY <1>1, <2>1, <2>2 DEF File!FileInv, File!Tidied
<1> QED
    BY <1>3, <1>4, <1>5 DEF File!FileInv

\* os.Remove of the directory: the one above it may be empty now, and is next.
LEMMA RemoveDirKeeps ==
    ASSUME File!FileInv, NEW t \in Threads, File!RemoveDir(t)
        PROVE File!FileInv'
<1> DEFINE d == at[t]
<1>1. pc[t] = "rmdir" /\ d \in Dirs /\ UNCHANGED <<file, key, linked, alone, stored, littered>>
    BY DEF File!RemoveDir, File!FileInv, File!Calls
<1>2. CASE d \in dirs /\ File!Children(d) = {}
  <2>1. dirs' = dirs \ {d} /\ at' = [at EXCEPT ![t] = Up[d]] /\ File!Goto(t, "readdir")
    BY <1>2 DEF File!RemoveDir
  <2>2. /\ pc'[t] = "readdir" /\ \A u \in Threads \ {t} : pc'[u] = pc[u] /\ at'[u] = at[u]
        /\ pc' \in [Threads -> {"idle", "mkdir", "create", "write", "remove", "readdir", "rmdir"}]
        /\ at'[t] = Up[d] /\ at' \in [Threads -> Dirs \cup {Base}]
    BY <1>1, <2>1, GotoKeeps, StorageAssumption DEF File!FileInv, File!Calls, File!TypeOK
  <2>3. File!Calls'
    <3>1. \A e \in dirs' : Up[e] \in dirs' \cup {Base}
      BY <1>2, <2>1 DEF File!FileInv, File!Calls, File!Children
    <3> QED
      BY <1>1, <2>1, <2>2, <3>1 DEF File!FileInv, File!Calls, File!TypeOK
  <2>4. File!Untouched'
    BY <1>1, <2>2 DEF File!FileInv, File!Untouched, File!Busy
  <2>5. File!Tidied'
    <3> SUFFICES ASSUME ~littered, NEW e \in dirs', File!Children(e)' = {}
                 PROVE  \E u \in Threads : File!Covers(u, e)'
      BY <1>1 DEF File!Tidied
    <3>1. CASE e = Up[d]
      BY <2>2, <3>1 DEF File!Covers
    <3>2. CASE e # Up[d]
      <4>1. File!Children(e) = {} /\ e \in dirs /\ e # d
        BY <1>1, <2>1, <3>2 DEF File!Children
      <4>2. PICK u \in Threads : File!Covers(u, e)
        BY <4>1 DEF File!FileInv, File!Tidied
      <4>3. u # t
        BY <1>1, <4>1, <4>2 DEF File!Covers
      <4> QED
        BY <1>1, <2>2, <4>2, <4>3 DEF File!Covers
    <3> QED
      BY <3>1, <3>2
  <2> QED
    BY <2>3, <2>4, <2>5 DEF File!FileInv
<1>3. CASE ~(d \in dirs /\ File!Children(d) = {})
  <2>1. File!Goto(t, "idle") /\ UNCHANGED <<dirs, at>>
    BY <1>3 DEF File!RemoveDir
  <2>2. /\ pc'[t] = "idle" /\ \A u \in Threads \ {t} : pc'[u] = pc[u]
        /\ pc' \in [Threads -> {"idle", "mkdir", "create", "write", "remove", "readdir", "rmdir"}]
    BY <2>1, GotoKeeps DEF File!FileInv
  <2>3. File!Calls'
    BY <1>1, <2>1, <2>2 DEF File!FileInv, File!Calls, File!TypeOK
  <2>4. File!Untouched'
    BY <1>1, <2>2 DEF File!FileInv, File!Untouched, File!Busy
  <2>5. File!Tidied'
    <3>1. \A e : File!Children(e)' = File!Children(e)
      BY <1>1, <2>1 DEF File!Children
    <3>2. ASSUME NEW u \in Threads, NEW e \in dirs, File!Children(e) = {}, File!Covers(u, e)
          PROVE  File!Covers(u, e)'
      BY <1>1, <1>3, <2>1, <2>2, <3>2 DEF File!Covers
    <3> QED
      BY <1>1, <2>1, <3>1, <3>2 DEF File!FileInv, File!Tidied
  <2> QED
    BY <2>3, <2>4, <2>5 DEF File!FileInv
<1> QED
    BY <1>2, <1>3

\* The inductive invariant of the files holds in every reachable state.
LEMMA FileInvariance == File!Spec => []File!FileInv
<1>1. File!Init => File!FileInv
  <2> SUFFICES ASSUME File!Init PROVE File!FileInv
    OBVIOUS
  <2>1. File!Calls
    BY DEF File!Init, File!Calls, File!TypeOK
  <2>2. File!Untouched /\ File!Tidied
    BY DEF File!Init, File!Untouched, File!Tidied
  <2> QED
    BY <2>1, <2>2 DEF File!FileInv
<1>2. File!FileInv /\ [File!Next]_(File!vars) => File!FileInv'
  <2> SUFFICES ASSUME File!FileInv, [File!Next]_(File!vars) PROVE File!FileInv'
    OBVIOUS
  <2>1. ASSUME NEW t \in Threads,
               \/ \E k \in Keys : File!PutObject(t, k) \/ File!DeleteObject(t, k)
               \/ File!MakeDir(t) \/ File!CreateFile(t) \/ File!WriteFile(t)
        PROVE  File!FileInv'
    BY <2>1, BeginKeeps, MakeDirKeeps, CreateFileKeeps, WriteFileKeeps
  <2>2. ASSUME NEW t \in Threads,
               File!RemoveFile(t) \/ File!ReadDir(t) \/ File!RemoveDir(t)
        PROVE File!FileInv'
    BY <2>2, RemoveFileKeeps, ReadDirKeeps, RemoveDirKeeps
  <2>3. CASE \/ File!Crash
             \/ \E t \in Threads : \/ File!MakeDirFails(t) \/ File!CreateFileFails(t)
                                  \/ File!WriteFileFails(t)
    BY <2>3, FailuresKeep
  <2>4. CASE UNCHANGED File!vars
    <3>1. UNCHANGED <<dirs, file, pc, key, at, linked, alone, stored, littered>>
      BY <2>4 DEF File!vars, File!call
    <3>2. /\ \A e : File!Children(e)' = File!Children(e)
          /\ \A u, e : File!Covers(u, e)' = File!Covers(u, e)
      BY <3>1 DEF File!Children, File!Covers
    <3> QED
      BY <3>1, <3>2 DEF File!FileInv, File!Calls, File!TypeOK, File!Untouched, File!Busy,
         File!Tidied
  <2> QED
    BY <2>1, <2>2, <2>3, <2>4 DEF File!Next
<1> QED
    BY <1>1, <1>2, PTL DEF File!Spec

-----------------------------------------------------------------------------
(* One process has one of them *)

LEMMA MemPart == Spec => Mem!Spec
<1>1. Init => Mem!Init
    BY DEF Init
<1>2. [Next]_vars => [Mem!Next]_(Mem!vars)
    BY DEF Next, MemoryCall, FileCall, vars, memory, Mem!vars
<1> QED
    BY <1>1, <1>2, PTL DEF Spec, Mem!Spec

LEMMA FilePart == Spec => File!Spec
<1>1. Init => File!Init
    BY DEF Init
<1>2. [Next]_vars => [File!Next]_(File!vars)
    BY DEF Next, MemoryCall, FileCall, vars, files, File!vars, File!call
<1> QED
    BY <1>1, <1>2, PTL DEF Spec, File!Spec

\* A process with the file store refuses no write for want of capacity.
OneBackend == backend = "file" => full = {}

LEMMA OneBackendInvariance == Spec => []OneBackend
<1>1. Init => OneBackend
    BY DEF Init, Mem!Init, OneBackend
<1>2. OneBackend /\ [Next]_vars => OneBackend'
    BY DEF OneBackend, Next, MemoryCall, FileCall, vars, memory
<1> QED
    BY <1>1, <1>2, PTL DEF Spec

-----------------------------------------------------------------------------
(* Theorems *)

\* The types of both stores.
THEOREM Types == Spec => []TypeOK
<1>1. Mem!MemInv /\ File!FileInv => TypeOK
    BY DEF TypeOK, Mem!MemInv, File!FileInv, File!Calls
<1> QED
    BY <1>1, MemPart, FilePart, MemInvariance, FileInvariance, PTL

\* The running total is exact, and within the capacity, until an overwrite is refused
\* (memory.go, PutObject).
THEOREM BytesExact == Spec => []BytesExactUntilRefusal
<1>1. Mem!MemInv => BytesExactUntilRefusal
    BY DEF Mem!MemInv, Mem!Accounted, BytesExactUntilRefusal
<1> QED
    BY <1>1, MemPart, MemInvariance, PTL

\* A write that fits is never refused (memory.go, PutObject).
THEOREM FittingAccepted == Spec => FittingWriteAccepted
<1> DEFINE Fits == \A k \in Keys, n \in Sizes :
                       <<k, n>> \in full' => Mem!Total - Mem!Bytes(k) + n > Capacity
<1>1. Mem!MemInv /\ OneBackend /\ [Next]_vars => [Fits]_vars
  <2>1. ASSUME Mem!MemInv, MemoryCall PROVE Fits
    BY <2>1, RefusedDidNotFit DEF MemoryCall
  <2>2. ASSUME OneBackend, FileCall PROVE full' = {}
    BY <2>2 DEF OneBackend, FileCall, memory
  <2> QED
    BY <2>1, <2>2 DEF Next
<1> QED
    BY <1>1, MemPart, MemInvariance, OneBackendInvariance, PTL DEF Spec, FittingWriteAccepted

\* An object that was stored stays whole until a call on its key starts, whatever
\* else is called and wherever the process stops (file.go).
THEOREM WholeOnceStored == Spec => []StoredStaysWhole
<1>1. File!FileInv => StoredStaysWhole
    BY DEF File!FileInv, File!Untouched, StoredStaysWhole
<1> QED
    BY <1>1, FilePart, FileInvariance, PTL

\* The last of several deletions leaves no empty directory (file.go, DeleteObject).
THEOREM TidyAtRest == Spec => []NoEmptyDirLeft
<1>1. File!FileInv => NoEmptyDirLeft
    BY DEF File!FileInv, File!Tidied, File!Covers, NoEmptyDirLeft
<1> QED
    BY <1>1, FilePart, FileInvariance, PTL
=============================================================================
