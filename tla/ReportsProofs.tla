----------------------------- MODULE ReportsProofs -----------------------------
(***************************************************************************)
(* Proofs about the reports, for any tables, ranges and questions: figures *)
(* that name the same thing are one, searches narrow the lists they are    *)
(* made in, and who is in two groups of a report was written between its   *)
(* queries.  The sums are folds over sets; what is needed of them comes    *)
(* first.                                                                  *)
(***************************************************************************)
EXTENDS OrderReports, ClientReports, ListingsProofs

(***************************************************************************)
(* A sum over a finite set, whatever element is taken first.               *)
(***************************************************************************)
Picked(T) == CHOOSE x \in T : TRUE

\* g sums f over the subsets of S, one element after the other
Tallies(g, f, S) ==
    g = [T \in SUBSET S |-> IF T = {} THEN 0 ELSE f[Picked(T)] + g[T \ {Picked(T)}]]

LEMMA SmallestNumber ==
    ASSUME NEW N, N \subseteq Nat, N # {}
    PROVE  \E n \in N : \A m \in N : n <= m
<1>1. PICK k \in N : TRUE
  OBVIOUS
<1> DEFINE I == 0 .. k
           F == {0 .. m : m \in {n \in N : n <= k}}
<1>2. IsFiniteSet(I) /\ F \subseteq SUBSET I /\ F # {}
  <2>1. IsFiniteSet(I)
    BY FS_Interval
  <2>2. 0 .. k \in F
    OBVIOUS
  <2>3. \A m \in {n \in N : n <= k} : 0 .. m \subseteq 0 .. k
    OBVIOUS
  <2> QED
    BY <2>1, <2>2, <2>3
<1>3. PICK T \in F : \A U \in F : U \subseteq T => U = T
  <2> HIDE DEF F, I
  <2> QED BY <1>2, SmallestSet
<1>4. PICK n \in N : n <= k /\ T = 0 .. n
  OBVIOUS
<1>5. ASSUME NEW m \in N, m < n PROVE FALSE
  <2>1. 0 .. m \in F /\ 0 .. m \subseteq 0 .. n
    BY <1>4, <1>5
  <2>2. 0 .. m = 0 .. n
    <3> HIDE DEF F
    <3> QED BY <1>3, <1>4, <2>1
  <2>3. n \in 0 .. n /\ n \notin 0 .. m
    BY <1>5
  <2> QED
    BY <2>2, <2>3
<1> QED
  BY <1>5

LEMMA TalliesExist ==
    ASSUME NEW S, IsFiniteSet(S), NEW f
    PROVE  \E g : Tallies(g, f, S)
<1> DEFINE Upto(n) == {T \in SUBSET S : Cardinality(T) <= n}
           Next(g, n) == [T \in Upto(n) |-> IF T = {} THEN 0
                                            ELSE f[Picked(T)] + g[T \ {Picked(T)}]]
           Missing == {n \in 0 .. Cardinality(S) : ~ \E g : g = Next(g, n)}
<1>1. Cardinality(S) \in Nat
  BY FS_CardinalityType
<1>2. \A T \in SUBSET S : IsFiniteSet(T) /\ Cardinality(T) \in 0 .. Cardinality(S)
  BY FS_Subset, FS_CardinalityType
<1>3. \A T \in SUBSET S : T # {} =>
          /\ Picked(T) \in T /\ T \ {Picked(T)} \in SUBSET S
          /\ Cardinality(T \ {Picked(T)}) = Cardinality(T) - 1
  BY <1>2, FS_RemoveElement DEF Picked
<1>4. \E g : g = Next(g, 0)
  <2>1. \A T \in Upto(0) : T = {}
    BY <1>2, FS_EmptySet
  <2>2. [T \in Upto(0) |-> 0] = Next([T \in Upto(0) |-> 0], 0)
    BY <2>1
  <2> QED
    BY <2>2
<1>5. ASSUME NEW n \in Nat, NEW g, g = Next(g, n) PROVE \E h : h = Next(h, n + 1)
  <2> DEFINE h == Next(g, n + 1)
  <2>1. ASSUME NEW T \in Upto(n) PROVE h[T] = g[T]
    <3>1. T \in Upto(n + 1)
      BY <1>2
    <3>2. h[T] = IF T = {} THEN 0 ELSE f[Picked(T)] + g[T \ {Picked(T)}]
      BY <3>1
    <3>3. Next(g, n)[T] = IF T = {} THEN 0 ELSE f[Picked(T)] + g[T \ {Picked(T)}]
      OBVIOUS
    <3> HIDE DEF h, Next
    <3> QED BY <1>5, <3>2, <3>3
  <2>2. \A T \in Upto(n + 1) : T # {} => T \ {Picked(T)} \in Upto(n)
    BY <1>2, <1>3
  <2>3. \A T \in Upto(n + 1) : T # {} => h[T \ {Picked(T)}] = g[T \ {Picked(T)}]
    <3> HIDE DEF h, Upto
    <3> QED BY <2>1, <2>2
  <2>4. h = Next(h, n + 1)
    <3> DEFINE k == h
    <3>1. k = [T \in Upto(n + 1) |-> IF T = {} THEN 0 ELSE f[Picked(T)] + g[T \ {Picked(T)}]]
      OBVIOUS
    <3>2. \A T \in Upto(n + 1) : T # {} => k[T \ {Picked(T)}] = g[T \ {Picked(T)}]
      BY <2>3
    <3> HIDE DEF k, Upto
    <3>3. k = Next(k, n + 1)
      BY <3>1, <3>2
    <3> QED BY <3>3 DEF k
  <2> QED
    BY <2>4
<1>6. \E g : g = Next(g, Cardinality(S))
  <2> HIDE DEF Next
  <2> DEFINE c == Cardinality(S)
  <2> SUFFICES ASSUME Missing # {} PROVE FALSE
    <3>1. Cardinality(S) \in 0 .. Cardinality(S)
      BY <1>1
    <3> QED BY <3>1
  <2>1. PICK n \in Missing : \A m \in Missing : n <= m
    <3>1. Missing \subseteq Nat
      BY <1>1
    <3> HIDE DEF Missing
    <3> QED BY <3>1, SmallestNumber
  <2>2. n # 0 /\ n \in 0 .. c
    BY <1>4
  <2>3. n - 1 \in 0 .. c /\ n - 1 \in Nat
    <3> HIDE DEF Missing
    <3> QED BY <1>1, <2>2
  <2>4. n - 1 \notin Missing
    <3> HIDE DEF Missing
    <3> QED BY <1>1, <2>1, <2>2
  <2>5. PICK g : g = Next(g, n - 1)
    BY <2>3, <2>4
  <2>6. \E h : h = Next(h, (n - 1) + 1)
    <3> HIDE DEF Missing
    <3> QED BY <1>5, <2>3, <2>5
  <2>7. (n - 1) + 1 = n
    <3> HIDE DEF Missing
    <3> QED BY <1>1, <2>2
  <2>8. \E h : h = Next(h, n)
    <3> HIDE DEF Missing
    <3> QED BY <2>6, <2>7
  <2> QED
    BY <2>8
<1>7. Upto(Cardinality(S)) = SUBSET S
  BY <1>2
<1> QED
  BY <1>6, <1>7 DEF Tallies

LEMMA SumIsATally ==
    ASSUME NEW f, NEW S, \E g : Tallies(g, f, S)
    PROVE  \E g : Tallies(g, f, S) /\ SumFunctionOnSet(f, S) = g[S]
<1>1. SumFunctionOnSet(f, S) = (CHOOSE g : Tallies(g, f, S))[S]
  BY DEF SumFunctionOnSet, FoldFunctionOnSet, MapThenFoldSet, Tallies, Picked
<1> QED BY <1>1

\* two sums over the same elements with the same values agree
LEMMA TalliesAgree ==
    ASSUME NEW S, IsFiniteSet(S), NEW T, IsFiniteSet(T), NEW R, R \subseteq S \cap T,
           NEW f, NEW g, \A x \in R : f[x] = g[x],
           NEW h, Tallies(h, f, S), NEW k, Tallies(k, g, T)
    PROVE  h[R] = k[R]
<1> DEFINE F == {U \in SUBSET R : h[U] # k[U]}
<1> SUFFICES ASSUME F # {} PROVE FALSE
  OBVIOUS
<1>1. PICK U \in F : \A V \in F : V \subseteq U => V = U
  <2>1. F \subseteq SUBSET R /\ IsFiniteSet(R)
    BY FS_Subset
  <2> HIDE DEF F
  <2> QED BY <2>1, SmallestSet
<1>2. /\ h[U] = IF U = {} THEN 0 ELSE f[Picked(U)] + h[U \ {Picked(U)}]
      /\ k[U] = IF U = {} THEN 0 ELSE g[Picked(U)] + k[U \ {Picked(U)}]
  BY DEF Tallies
<1>3. U # {} /\ Picked(U) \in U
  BY <1>2 DEF Picked
<1>4. U \ {Picked(U)} \notin F /\ U \ {Picked(U)} \in SUBSET R
  <2>1. U \ {Picked(U)} \subseteq U /\ U \ {Picked(U)} # U
    BY <1>3
  <2> HIDE DEF F
  <2>2. U \ {Picked(U)} \notin F
    BY <1>1, <2>1
  <2>3. U \in SUBSET R
    BY <1>1 DEF F
  <2> QED
    BY <2>1, <2>2, <2>3
<1>5. h[U \ {Picked(U)}] = k[U \ {Picked(U)}] /\ f[Picked(U)] = g[Picked(U)]
  BY <1>3, <1>4
<1> QED
  BY <1>2, <1>3, <1>5

SumOver(f, S) == SumFunctionOnSet(f, S)

LEMMA SumsAgree ==
    ASSUME NEW S, IsFiniteSet(S), NEW f, NEW g, \A x \in S : f[x] = g[x]
    PROVE  SumOver(f, S) = SumOver(g, S)
<1>1. PICK h : Tallies(h, f, S) /\ SumOver(f, S) = h[S]
  BY TalliesExist, SumIsATally DEF SumOver
<1>2. Tallies(h, g, S)
  <2>1. \A T \in SUBSET S : T # {} => Picked(T) \in S
    BY DEF Picked
  <2> QED
    BY <1>1, <2>1 DEF Tallies
<1>3. PICK k : Tallies(k, g, S) /\ SumOver(g, S) = k[S]
  BY <1>2, SumIsATally DEF SumOver
<1> QED
  BY <1>1, <1>2, <1>3, TalliesAgree

LEMMA SumOfNone ==
    ASSUME NEW f
    PROVE  SumOver(f, {}) = 0
<1>1. PICK h : Tallies(h, f, {}) /\ SumOver(f, {}) = h[{}]
  BY FS_EmptySet, TalliesExist, SumIsATally DEF SumOver
<1> QED
  BY <1>1 DEF Tallies

LEMMA SumOfPicked ==
    ASSUME NEW S, IsFiniteSet(S), S # {}, NEW f
    PROVE  /\ Picked(S) \in S
           /\ SumOver(f, S) = f[Picked(S)] + SumOver(f, S \ {Picked(S)})
<1> DEFINE U == S \ {Picked(S)}
<1>1. PICK h : Tallies(h, f, S) /\ SumOver(f, S) = h[S]
  BY TalliesExist, SumIsATally DEF SumOver
<1>2. Picked(S) \in S
  BY DEF Picked
<1>3. h[S] = f[Picked(S)] + h[U]
  BY <1>1, <1>2 DEF Tallies
<1>4. IsFiniteSet(U) /\ U \subseteq S \cap U
  BY FS_Subset
<1>5. PICK k : Tallies(k, f, U) /\ SumOver(f, U) = k[U]
  BY <1>4, TalliesExist, SumIsATally DEF SumOver
<1>6. h[U] = k[U]
  <2> HIDE DEF U
  <2> QED BY <1>1, <1>4, <1>5, TalliesAgree
<1> QED
  BY <1>1, <1>2, <1>3, <1>5, <1>6

\* what holds of the sum of a set if it holds of the smaller ones
LEMMA SumOfTheRest ==
    ASSUME NEW S, IsFiniteSet(S), NEW f, \A x \in S : f[x] \in Int
    PROVE  /\ SumOver(f, S) \in Int
           /\ \A x \in S : SumOver(f, S) = f[x] + SumOver(f, S \ {x})
<1> DEFINE Holds(U) == /\ SumOver(f, U) \in Int
                       /\ \A x \in U : SumOver(f, U) = f[x] + SumOver(f, U \ {x})
           F == {U \in SUBSET S : ~ Holds(U)}
<1> SUFFICES ASSUME F # {} PROVE FALSE
  OBVIOUS
<1>1. PICK U \in F : \A V \in F : V \subseteq U => V = U
  <2>1. F \subseteq SUBSET S
    OBVIOUS
  <2> HIDE DEF F
  <2> QED BY <2>1, SmallestSet
<1>2. U \subseteq S /\ IsFiniteSet(U)
  BY FS_Subset
<1>3. U # {}
  BY SumOfNone
<1>4. ASSUME NEW x \in U PROVE Holds(U \ {x})
  BY <1>1, <1>2
<1> DEFINE p == Picked(U)
<1>5. p \in U /\ SumOver(f, U) = f[p] + SumOver(f, U \ {p})
  BY <1>2, <1>3, SumOfPicked
<1>6. SumOver(f, U) \in Int
  BY <1>2, <1>4, <1>5
<1>7. ASSUME NEW x \in U, x # p PROVE SumOver(f, U) = f[x] + SumOver(f, U \ {x})
  <2> DEFINE V == (U \ {p}) \ {x}
  <2>1. V = (U \ {x}) \ {p} /\ p \in U \ {x} /\ x \in U \ {p}
    BY <1>5, <1>7
  <2>2. SumOver(f, U \ {p}) = f[x] + SumOver(f, V)
    BY <1>4, <1>5, <2>1
  <2>3. SumOver(f, U \ {x}) = f[p] + SumOver(f, V)
    BY <1>4, <2>1
  <2>4. SumOver(f, V) \in Int
    <3>1. V \subseteq S /\ V \subseteq U /\ V # U
      BY <1>2, <1>7
    <3>2. V \notin F
      <4> HIDE DEF F, V
      <4> QED BY <1>1, <3>1
    <3> QED
      BY <3>1, <3>2
  <2>5. f[x] \in Int /\ f[p] \in Int
    BY <1>2, <1>5
  <2> HIDE DEF V, p
  <2> QED
    BY <1>5, <2>2, <2>3, <2>4, <2>5
<1>8. Holds(U)
  BY <1>5, <1>6, <1>7
<1> QED
  BY <1>1, <1>8

\* G holds of all finite sets if it holds of none and of one more
LEMMA OneMore ==
    ASSUME NEW S, IsFiniteSet(S), NEW G, {} \in G,
           \A U \in SUBSET S : \A x \in U : U \ {x} \in G => U \in G
    PROVE  S \in G
<1> DEFINE F == {U \in SUBSET S : U \notin G}
<1> SUFFICES ASSUME F # {} PROVE FALSE
  OBVIOUS
<1>1. PICK U \in F : \A V \in F : V \subseteq U => V = U
  <2>1. F \subseteq SUBSET S
    OBVIOUS
  <2> HIDE DEF F
  <2> QED BY <2>1, SmallestSet
<1>2. PICK x \in U : TRUE
  BY <1>1
<1>3. U \ {x} \in G
  BY <1>1, <1>2
<1> QED
  BY <1>1, <1>3

LEMMA SumOfSums ==
    ASSUME NEW S, IsFiniteSet(S), NEW f, NEW g, \A x \in S : f[x] \in Int /\ g[x] \in Int
    PROVE  SumOver([x \in S |-> f[x] + g[x]], S) = SumOver(f, S) + SumOver(g, S)
<1> DEFINE h == [x \in S |-> f[x] + g[x]]
           G == {U \in SUBSET S : SumOver(h, U) = SumOver(f, U) + SumOver(g, U)}
<1>1. {} \in G
  BY SumOfNone
<1>2. ASSUME NEW U \in SUBSET S, NEW x \in U, U \ {x} \in G PROVE U \in G
  <2>1. IsFiniteSet(U) /\ h[x] = f[x] + g[x] /\ f[x] \in Int /\ g[x] \in Int
    BY FS_Subset
  <2>2. \A y \in U : f[y] \in Int /\ g[y] \in Int /\ h[y] \in Int
    OBVIOUS
  <2>3. IsFiniteSet(U \ {x}) /\ \A y \in U \ {x} : f[y] \in Int /\ g[y] \in Int
    BY <2>1, <2>2, FS_RemoveElement
  <2> HIDE DEF h
  <2>4. /\ SumOver(f, U) = f[x] + SumOver(f, U \ {x}) /\ SumOver(g, U) = g[x] + SumOver(g, U \ {x})
        /\ SumOver(h, U) = h[x] + SumOver(h, U \ {x})
    BY <2>1, <2>2, SumOfTheRest
  <2>5. SumOver(f, U \ {x}) \in Int /\ SumOver(g, U \ {x}) \in Int
    BY <2>3, SumOfTheRest
  <2> QED
    BY <1>2, <2>1, <2>4, <2>5
<1>3. S \in G
  <2> HIDE DEF G
  <2> QED BY <1>1, <1>2, OneMore
<1> QED
  BY <1>3

LEMMA SumsInOrder ==
    ASSUME NEW S, IsFiniteSet(S), NEW f, NEW g,
           \A x \in S : f[x] \in Int /\ g[x] \in Int /\ f[x] <= g[x]
    PROVE  SumOver(f, S) <= SumOver(g, S)
<1> DEFINE G == {U \in SUBSET S : SumOver(f, U) <= SumOver(g, U)}
<1>1. {} \in G
  BY SumOfNone
<1>2. ASSUME NEW U \in SUBSET S, NEW x \in U, U \ {x} \in G PROVE U \in G
  <2>1. IsFiniteSet(U) /\ IsFiniteSet(U \ {x})
    BY FS_Subset
  <2>2. \A y \in U : f[y] \in Int /\ g[y] \in Int
    OBVIOUS
  <2>3. /\ SumOver(f, U) = f[x] + SumOver(f, U \ {x}) /\ SumOver(g, U) = g[x] + SumOver(g, U \ {x})
        /\ SumOver(f, U \ {x}) \in Int /\ SumOver(g, U \ {x}) \in Int
    BY <2>1, <2>2, SumOfTheRest
  <2>4. f[x] \in Int /\ g[x] \in Int /\ f[x] <= g[x] /\ SumOver(f, U \ {x}) <= SumOver(g, U \ {x})
    BY <1>2
  <2> QED
    BY <2>3, <2>4
<1>3. S \in G
  <2> HIDE DEF G
  <2> QED BY <1>1, <1>2, OneMore
<1> QED
  BY <1>3

LEMMA SumOfOneValue ==
    ASSUME NEW S, IsFiniteSet(S), NEW c \in Int, NEW f, \A x \in S : f[x] = c
    PROVE  SumOver(f, S) = c * Cardinality(S)
<1> DEFINE G == {U \in SUBSET S : SumOver(f, U) = c * Cardinality(U)}
<1>1. {} \in G
  BY SumOfNone, FS_EmptySet
<1>2. ASSUME NEW U \in SUBSET S, NEW x \in U, U \ {x} \in G PROVE U \in G
  <2>1. /\ IsFiniteSet(U) /\ Cardinality(U) \in Nat
        /\ Cardinality(U \ {x}) = Cardinality(U) - 1
    BY FS_Subset, FS_CardinalityType, FS_RemoveElement
  <2>2. \A y \in U : f[y] \in Int
    OBVIOUS
  <2>3. SumOver(f, U) = c + SumOver(f, U \ {x})
    BY <2>1, <2>2, SumOfTheRest
  <2>4. SumOver(f, U \ {x}) = c * (Cardinality(U) - 1)
    BY <1>2, <2>1
  <2>5. \A n \in Int : c + c * (n - 1) = c * n
    OBVIOUS
  <2> QED
    BY <2>1, <2>3, <2>4, <2>5
<1>3. S \in G
  <2> HIDE DEF G
  <2> QED BY <1>1, <1>2, OneMore
<1> QED
  BY <1>3

LEMMA SumOfUnion ==
    ASSUME NEW S, IsFiniteSet(S), NEW T, IsFiniteSet(T), S \cap T = {},
           NEW f, \A x \in S \cup T : f[x] \in Int
    PROVE  SumOver(f, S \cup T) = SumOver(f, S) + SumOver(f, T)
<1> DEFINE G == {U \in SUBSET S : SumOver(f, U \cup T) = SumOver(f, U) + SumOver(f, T)}
<1>1. SumOver(f, T) \in Int
  BY SumOfTheRest
<1>2. {} \in G
  <2>1. {} \cup T = T
    OBVIOUS
  <2> QED BY <1>1, <2>1, SumOfNone
<1>3. ASSUME NEW U \in SUBSET S, NEW x \in U, U \ {x} \in G PROVE U \in G
  <2>1. /\ IsFiniteSet(U) /\ IsFiniteSet(U \cup T) /\ x \in U \cup T
        /\ (U \cup T) \ {x} = (U \ {x}) \cup T
    BY FS_Subset, FS_Union
  <2>2. \A y \in U \cup T : f[y] \in Int
    OBVIOUS
  <2>3. SumOver(f, U) = f[x] + SumOver(f, U \ {x})
    BY <2>1, <2>2, SumOfTheRest
  <2>4. SumOver(f, U \cup T) = f[x] + SumOver(f, (U \ {x}) \cup T)
    <3>1. PICK W : W = U \cup T
      OBVIOUS
    <3>2. IsFiniteSet(W) /\ x \in W /\ \A y \in W : f[y] \in Int
      BY <2>1, <2>2, <3>1
    <3>3. SumOver(f, W) = f[x] + SumOver(f, W \ {x})
      BY <3>2, SumOfTheRest
    <3> QED
      BY <2>1, <3>1, <3>3, Zenon
  <2>5. SumOver(f, U \ {x}) \in Int /\ f[x] \in Int
    <3>1. IsFiniteSet(U \ {x}) /\ \A y \in U \ {x} : f[y] \in Int
      BY <2>1, FS_RemoveElement
    <3> QED BY <3>1, SumOfTheRest
  <2> QED
    BY <1>1, <1>3, <2>3, <2>4, <2>5
<1>4. S \in G
  <2> HIDE DEF G
  <2> QED BY <1>2, <1>3, OneMore
<1> QED
  BY <1>4

LEMMA SumOfOne ==
    ASSUME NEW S, IsFiniteSet(S), NEW x \in S, NEW f, f[x] \in Int, \A y \in S \ {x} : f[y] = 0
    PROVE  SumOver(f, S) = f[x]
<1>1. \A y \in S : f[y] \in Int
  OBVIOUS
<1>2. IsFiniteSet(S \ {x}) /\ Cardinality(S \ {x}) \in Nat
  BY FS_RemoveElement, FS_CardinalityType
<1>3. SumOver(f, S) = f[x] + SumOver(f, S \ {x})
  BY <1>1, SumOfTheRest
<1>4. SumOver(f, S \ {x}) = 0 * Cardinality(S \ {x})
  BY <1>2, SumOfOneValue
<1> QED
  BY <1>2, <1>3, <1>4

\* a sum is the sum of the sums of its groups
LEMMA SumByGroups ==
    ASSUME NEW S, IsFiniteSet(S), NEW I, IsFiniteSet(I), NEW p, \A x \in S : p[x] \in I,
           NEW f, \A x \in S : f[x] \in Int
    PROVE  SumOver([i \in I |-> SumOver(f, {x \in S : p[x] = i})], I) = SumOver(f, S)
<1> DEFINE Group(U, i) == {x \in U : p[x] = i}
           Groups(U) == [i \in I |-> SumOver(f, Group(U, i))]
           G == {U \in SUBSET S : SumOver(Groups(U), I) = SumOver(f, U)}
<1>1. {} \in G
  <2>1. \A i \in I : Groups({})[i] = 0
    <3>1. \A i \in I : Group({}, i) = {}
      OBVIOUS
    <3> QED BY <3>1, SumOfNone
  <2>2. SumOver(Groups({}), I) = 0 * Cardinality(I)
    <3> HIDE DEF Groups
    <3> QED BY <2>1, SumOfOneValue
  <2> QED
    BY <2>2, SumOfNone, FS_CardinalityType
<1>2. ASSUME NEW U \in SUBSET S, NEW x \in U, U \ {x} \in G PROVE U \in G
  <2> DEFINE V == U \ {x}
             d == [i \in I |-> IF i = p[x] THEN f[x] ELSE 0]
  <2>1. IsFiniteSet(U) /\ IsFiniteSet(V) /\ p[x] \in I /\ f[x] \in Int /\ \A y \in U : f[y] \in Int
    BY FS_Subset
  <2>2. ASSUME NEW i \in I
        PROVE  Groups(U)[i] = Groups(V)[i] + d[i] /\ Groups(V)[i] \in Int /\ d[i] \in Int
    <3>1. /\ IsFiniteSet(Group(V, i)) /\ IsFiniteSet(Group(U, i))
          /\ \A y \in Group(V, i) : f[y] \in Int
          /\ \A y \in Group(U, i) : f[y] \in Int
      BY <2>1, FS_Subset
    <3>2. SumOver(f, Group(V, i)) \in Int
      <4> HIDE DEF Group
      <4> QED BY <3>1, SumOfTheRest
    <3>3. CASE i = p[x]
      <4>1. x \in Group(U, i) /\ Group(U, i) \ {x} = Group(V, i)
        BY <3>3
      <4>2. SumOver(f, Group(U, i)) = f[x] + SumOver(f, Group(V, i))
        <5>1. PICK W : W = Group(U, i)
          OBVIOUS
        <5> HIDE DEF Group
        <5>2. SumOver(f, W) = f[x] + SumOver(f, W \ {x})
          BY <3>1, <4>1, <5>1, SumOfTheRest
        <5> QED BY <4>1, <5>1, <5>2, Zenon
      <4>3. d[i] = f[x]
        BY <3>3
      <4> HIDE DEF Group, d, V
      <4> QED BY <2>1, <3>2, <4>2, <4>3
    <3>4. CASE i # p[x]
      <4>1. Group(U, i) = Group(V, i)
        BY <3>4
      <4>2. SumOver(f, Group(U, i)) = SumOver(f, Group(V, i))
        BY <4>1
      <4>3. d[i] = 0
        BY <3>4
      <4> HIDE DEF Group, d, V
      <4> QED BY <3>2, <4>2, <4>3
    <3> QED
      BY <3>3, <3>4
  <2>3. SumOver(Groups(U), I) = SumOver(Groups(V), I) + SumOver(d, I)
    <3> DEFINE e == [i \in I |-> Groups(V)[i] + d[i]]
    <3>1. \A i \in I : Groups(U)[i] = e[i]
      <4> HIDE DEF Groups, d
      <4> QED BY <2>2
    <3>2. SumOver(e, I) = SumOver(Groups(V), I) + SumOver(d, I)
      <4> HIDE DEF Groups, d
      <4> QED BY <2>2, SumOfSums
    <3>3. SumOver(Groups(U), I) = SumOver(e, I)
      <4> HIDE DEF Groups, d, e
      <4> QED BY <3>1, SumsAgree
    <3> QED
      BY <3>2, <3>3
  <2>4. SumOver(d, I) = f[x]
    <3>1. d[p[x]] = f[x] /\ \A i \in I \ {p[x]} : d[i] = 0
      BY <2>1
    <3> HIDE DEF d
    <3> QED BY <2>1, <3>1, SumOfOne
  <2>5. SumOver(Groups(V), I) = SumOver(f, V)
    BY <1>2
  <2>6. SumOver(f, U) = f[x] + SumOver(f, V) /\ SumOver(f, V) \in Int
    <3>1. \A y \in V : f[y] \in Int
      BY <2>1
    <3> QED BY <2>1, <3>1, SumOfTheRest
  <2>7. SumOver(Groups(U), I) = SumOver(f, U)
    <3> HIDE DEF Groups, d, V
    <3> QED BY <2>1, <2>3, <2>4, <2>5, <2>6
  <2> QED
    BY <2>7
<1>3. S \in G
  <2> HIDE DEF G
  <2> QED BY <1>1, <1>2, OneMore
<1> QED
  BY <1>3

LEMMA CountByGroups ==
    ASSUME NEW S, IsFiniteSet(S), NEW I, IsFiniteSet(I), NEW p, \A x \in S : p[x] \in I
    PROVE  SumOver([i \in I |-> Cardinality({x \in S : p[x] = i})], I) = Cardinality(S)
<1> DEFINE one == [x \in S |-> 1]
           Group(i) == {x \in S : p[x] = i}
           sums == [i \in I |-> SumOver(one, Group(i))]
           counts == [i \in I |-> Cardinality(Group(i))]
<1>1. ASSUME NEW U \in SUBSET S PROVE SumOver(one, U) = Cardinality(U)
  <2>1. IsFiniteSet(U) /\ Cardinality(U) \in Nat /\ \A x \in U : one[x] = 1
    BY FS_Subset, FS_CardinalityType
  <2>2. SumOver(one, U) = 1 * Cardinality(U)
    <3> HIDE DEF one
    <3> QED BY <2>1, SumOfOneValue
  <2> QED
    BY <2>1, <2>2
<1>2. SumOver(sums, I) = SumOver(one, S)
  <2>1. \A x \in S : one[x] \in Int
    OBVIOUS
  <2> HIDE DEF one
  <2> QED BY <2>1, SumByGroups
<1>3. \A i \in I : sums[i] = counts[i]
  <2>1. \A i \in I : Group(i) \in SUBSET S
    OBVIOUS
  <2> HIDE DEF one, Group
  <2> QED BY <1>1, <2>1
<1>4. SumOver(sums, I) = SumOver(counts, I)
  <2> HIDE DEF sums, counts
  <2> QED BY <1>3, SumsAgree
<1> QED
  BY <1>1, <1>2, <1>4

LEMMA SumOfAll ==
    ASSUME NEW f, NEW S, DOMAIN f = S
    PROVE  SumFunction(f) = SumOver(f, S)
BY DEF SumFunction, SumOver

\* the part of a sum that is left out
LEMMA SumOfParts ==
    ASSUME NEW T, IsFiniteSet(T), NEW S \in SUBSET T, NEW f, \A x \in T : f[x] \in Int
    PROVE  SumOver(f, T) = SumOver(f, S) + SumOver(f, T \ S)
<1>1. PICK R : R = T \ S
  OBVIOUS
<1>2. IsFiniteSet(S) /\ IsFiniteSet(R) /\ S \cap R = {} /\ S \cup R = T
  BY <1>1, FS_Subset
<1>3. SumOver(f, S \cup R) = SumOver(f, S) + SumOver(f, R)
  BY <1>2, SumOfUnion
<1> QED
  BY <1>1, <1>2, <1>3, Zenon

-----------------------------------------------------------------------------
(***************************************************************************)
(* The ranges are finite, and a counter per day counts what falls into it. *)
(***************************************************************************)
LEMMA Intervals ==
    ASSUME NEW m \in Int, NEW n \in Int
    PROVE  IsFiniteSet(m .. n) /\ m .. n \subseteq Int
BY FS_Interval

LEMMA OpenStarts ==
    ASSUME NEW rows \in SUBSET Days
    PROVE  OpenStart(rows) \in Days
<1>1. CASE rows = {}
  <2>1. Today \in 0 .. Today
    BY DatesOK
  <2> QED
    BY <1>1, <2>1 DEF OpenStart, Days
<1>2. CASE rows # {}
  <2>1. rows \subseteq Nat
    BY DEF Days
  <2>2. PICK n \in rows : \A m \in rows : n <= m
    BY <1>2, <2>1, SmallestNumber
  <2>3. Min(rows) \in rows
    BY <2>2 DEF Min
  <2> QED
    BY <1>2, <2>3 DEF OpenStart
<1> QED
  BY <1>1, <1>2

\* the days that a range can reach
Calendar == (0 - LastDays) .. Today

LEMMA RangesAreInTheCalendar ==
    ASSUME NEW a, a.from \in Days \cup {NotGiven}, a.to \in Days \cup {NotGiven},
           NEW rows \in SUBSET Days
    PROVE  DashboardRange(a) \in SUBSET Calendar /\ ReportRange(a, rows) \in SUBSET Calendar
<1>1. /\ Today \in Nat /\ LastDays \in Nat /\ Days = 0 .. Today
      /\ NotGiven \notin Days
  BY DatesOK DEF Days
<1>2. ASSUME NEW m \in Int, m >= 0 - LastDays, NEW n \in Int, n <= Today
      PROVE  m .. n \in SUBSET Calendar
  BY <1>1, <1>2 DEF Calendar
<1>3. LastRange \in SUBSET Calendar
  <2>1. PICK m \in Int : m = Today - LastDays
    BY <1>1
  <2>2. m >= 0 - LastDays /\ Today \in Int /\ Today <= Today
    BY <1>1, <2>1
  <2>3. m .. Today \in SUBSET Calendar
    BY <1>2, <2>2
  <2> QED
    BY <2>1, <2>3 DEF LastRange
<1>4. DashboardRange(a) \in SUBSET Calendar
  <2>1. CASE a.from = NotGiven \/ a.to = NotGiven
    BY <1>3, <2>1 DEF DashboardRange
  <2>2. CASE ~(a.from = NotGiven \/ a.to = NotGiven)
    <3>1. a.from \in Days /\ a.to \in Days /\ DashboardRange(a) = a.from .. a.to
      BY <2>2 DEF DashboardRange
    <3>2. PICK m \in Days : m = a.from
      BY <3>1
    <3>3. PICK n \in Days : n = a.to
      BY <3>1
    <3>4. m \in Int /\ m >= 0 - LastDays /\ n \in Int /\ n <= Today
      BY <1>1
    <3>5. m .. n \in SUBSET Calendar
      BY <1>2, <3>4
    <3> QED
      BY <3>1, <3>2, <3>3, <3>5
  <2> QED
    BY <2>1, <2>2
<1>5. OpenStart(rows) \in Days
  BY <1>1, OpenStarts
<1>6. PICK start : start = IF a.from = NotGiven THEN OpenStart(rows) ELSE a.from
  OBVIOUS
<1>7. PICK end : end = IF a.to = NotGiven THEN Today ELSE a.to
  OBVIOUS
<1>8. start \in Days /\ end \in Days
  BY <1>1, <1>5, <1>6, <1>7
<1>9. DateRange(a, rows) = start .. end
  BY <1>6, <1>7 DEF DateRange
<1>10. DateRange(a, rows) \in SUBSET Calendar
  <2>1. start \in Int /\ start >= 0 - LastDays /\ end \in Int /\ end <= Today
    BY <1>1, <1>8
  <2>2. start .. end \in SUBSET Calendar
    BY <1>2, <2>1
  <2> QED
    BY <1>9, <2>2
<1> QED
  BY <1>3, <1>4, <1>10 DEF ReportRange

LEMMA CalendarIsFinite == \A range \in SUBSET Calendar : IsFiniteSet(range)
<1>1. IsFiniteSet(Calendar)
  <2>1. 0 - LastDays \in Int /\ Today \in Int
    BY DatesOK
  <2> QED
    BY <2>1, Intervals DEF Calendar
<1> QED
  BY <1>1, FS_Subset

LEMMA DaysAreCounted ==
    ASSUME NEW S, IsFiniteSet(S), NEW range, IsFiniteSet(range), NEW dayOf
    PROVE  /\ PerDay(S, dayOf, range) \in [range -> Nat]
           /\ SumOfDays(PerDay(S, dayOf, range)) \in Nat
           /\ SumOfDays(PerDay(S, dayOf, range)) <= Cardinality(S)
           /\ (\A x \in S : dayOf[x] \in range) =>
                 SumOfDays(PerDay(S, dayOf, range)) = Cardinality(S)
<1>1. PICK T : T = {x \in S : dayOf[x] \in range}
  OBVIOUS
<1>2. /\ T \subseteq S /\ IsFiniteSet(T) /\ Cardinality(T) \in Nat
      /\ Cardinality(T) <= Cardinality(S)
  BY <1>1, FS_Subset, FS_CardinalityType
<1>3. PICK counts : counts = PerDay(S, dayOf, range)
  OBVIOUS
<1>4. PICK inRange : inRange = [d \in range |-> Cardinality({x \in T : dayOf[x] = d})]
  OBVIOUS
<1>5. \A d \in range : counts[d] = inRange[d]
  <2>1. \A d \in range : {x \in S : dayOf[x] = d} = {x \in T : dayOf[x] = d}
    BY <1>1
  <2> QED
    BY <1>3, <1>4, <2>1 DEF PerDay
<1>6. SumOver(counts, range) = SumOver(inRange, range)
  BY <1>5, SumsAgree
<1>7. SumOver(inRange, range) = Cardinality(T)
  <2>1. \A x \in T : dayOf[x] \in range
    BY <1>1
  <2> QED
    BY <1>2, <1>4, <2>1, CountByGroups
<1>8. SumOfDays(counts) = SumOver(counts, range)
  BY <1>3, SumOfAll DEF SumOfDays, PerDay
<1>9. counts \in [range -> Nat]
  <2>1. \A d \in range : Cardinality({x \in S : dayOf[x] = d}) \in Nat
    BY FS_Subset, FS_CardinalityType
  <2> QED
    BY <1>3, <2>1 DEF PerDay
<1>10. (\A x \in S : dayOf[x] \in range) => T = S
  BY <1>1
<1> QED
  BY <1>2, <1>3, <1>6, <1>7, <1>8, <1>9, <1>10

-----------------------------------------------------------------------------
(***************************************************************************)
(* What reviews cost, by order and by seller.                              *)
(***************************************************************************)
Cost == [v \in Reviews |-> OrderRow[OrderOf[v]].cost]
SellerOfReview == [v \in Reviews |-> OrderRow[OrderOf[v]].seller]

LEMMA OfTheReports ==
    /\ IsFiniteSet(Orders) /\ IsFiniteSet(Reviews) /\ IsFiniteSet(Sellers)
    /\ \A v \in Reviews : OrderOf[v] \in Orders
    /\ \A o \in Orders : /\ OrderRow[o].cost \in Int /\ OrderRow[o].total_price \in Int
                         /\ OrderRow[o].seller \in Sellers /\ OrderRow[o].day \in Days
    /\ \A v \in Reviews : Cost[v] \in Int /\ SellerOfReview[v] \in Sellers
    /\ NotGiven \notin Sellers
<1>1. OrderRow \in [Orders -> OrderColumns] /\ OrderOf \in [Reviews -> Orders]
  BY OrderReportsOK
<1>2. \A o \in Orders : /\ OrderRow[o].cost \in Int /\ OrderRow[o].total_price \in Int
                        /\ OrderRow[o].seller \in Sellers /\ OrderRow[o].day \in Days
  BY <1>1 DEF OrderColumns
<1>3. \A v \in Reviews : OrderOf[v] \in Orders
  BY <1>1
<1> QED
  BY <1>2, <1>3, OrderReportsOK DEF Cost, SellerOfReview

LEMMA CostIsASum ==
    ASSUME NEW R \in SUBSET Reviews
    PROVE  CostOfReviews(R) = SumOver(Cost, R) /\ CostOfReviews(R) \in Int
<1>1. PICK f : f = [v \in R |-> OrderRow[OrderOf[v]].cost]
  OBVIOUS
<1>2. IsFiniteSet(R) /\ (\A v \in R : f[v] = Cost[v]) /\ \A v \in R : Cost[v] \in Int
  BY <1>1, OfTheReports, FS_Subset DEF Cost
<1>3. CostOfReviews(R) = SumOver(f, R)
  BY <1>1, SumOfAll DEF CostOfReviews
<1> QED
  BY <1>2, <1>3, SumsAgree, SumOfTheRest

LEMMA CostByOrders ==
    ASSUME NEW S \in SUBSET Orders, NEW R \in SUBSET Reviews, \A v \in R : OrderOf[v] \in S,
           NEW f, DOMAIN f = S,
           \A o \in S : f[o] = CostOfReviews({v \in R : OrderOf[v] = o})
    PROVE  SumFunction(f) = CostOfReviews(R)
<1>1. IsFiniteSet(S) /\ IsFiniteSet(R) /\ \A v \in R : Cost[v] \in Int
  BY OfTheReports, FS_Subset
<1>2. PICK g : g = [o \in S |-> SumOver(Cost, {v \in R : OrderOf[v] = o})]
  OBVIOUS
<1>3. \A o \in S : f[o] = g[o]
  <2>1. \A o \in S : {v \in R : OrderOf[v] = o} \in SUBSET Reviews
    OBVIOUS
  <2> QED
    BY <1>2, <2>1, CostIsASum
<1>4. SumOver(g, S) = SumOver(Cost, R)
  BY <1>1, <1>2, SumByGroups
<1> QED
  BY <1>1, <1>3, <1>4, SumsAgree, SumOfAll, CostIsASum

LEMMA CostOfOneOrder ==
    ASSUME NEW o \in Orders, NEW R \in SUBSET Reviews, \A v \in R : OrderOf[v] = o
    PROVE  CostOfReviews(R) = OrderRow[o].cost * Cardinality(R)
<1>1. IsFiniteSet(R) /\ OrderRow[o].cost \in Int /\ \A v \in R : Cost[v] = OrderRow[o].cost
  BY OfTheReports, FS_Subset DEF Cost
<1>2. SumOver(Cost, R) = OrderRow[o].cost * Cardinality(R)
  BY <1>1, SumOfOneValue
<1> QED
  BY <1>2, CostIsASum

LEMMA CostBySellers ==
    ASSUME NEW R \in SUBSET Reviews, NEW f, DOMAIN f = Sellers,
           \A s \in Sellers : f[s] = CostOfReviews({v \in R : SellerOfReview[v] = s})
    PROVE  SumFunction(f) = CostOfReviews(R)
<1>1. /\ IsFiniteSet(R) /\ IsFiniteSet(Sellers) /\ \A v \in R : Cost[v] \in Int
      /\ \A v \in R : SellerOfReview[v] \in Sellers
  BY OfTheReports, FS_Subset
<1>2. PICK g : g = [s \in Sellers |-> SumOver(Cost, {v \in R : SellerOfReview[v] = s})]
  OBVIOUS
<1>3. \A s \in Sellers : f[s] = g[s]
  <2>1. \A s \in Sellers : {v \in R : SellerOfReview[v] = s} \in SUBSET Reviews
    OBVIOUS
  <2> QED
    BY <1>2, <2>1, CostIsASum
<1>4. SumOver(g, Sellers) = SumOver(Cost, R)
  BY <1>1, <1>2, SumByGroups
<1> QED
  BY <1>1, <1>3, <1>4, SumsAgree, SumOfAll, CostIsASum

-----------------------------------------------------------------------------
(***************************************************************************)
(* The dashboard: whatever the tables hold.                                *)
(***************************************************************************)
LEMMA GoneOfAll ==
    ASSUME NEW S \in SUBSET Orders
    PROVE  /\ Gone(ReviewsOfAll(S)) \in SUBSET Reviews
           /\ ReviewsOfAll(S) \ Gone(ReviewsOfAll(S)) \in SUBSET Reviews
           /\ \A v \in Reviews : v \in ReviewsOfAll(S) <=> OrderOf[v] \in S /\ review[v].life # "none"
           /\ \A v \in Reviews : v \in Gone(ReviewsOfAll(S)) <=>
                 OrderOf[v] \in S /\ review[v].life # "none" /\ review[v].status = "GELOSCHT"
           /\ \A o \in S : {v \in Gone(ReviewsOfAll(S)) : OrderOf[v] = o} = Gone(ReviewsOf(o))
<1>1. \A v : v \in ReviewsOfAll(S) <=>
                v \in Reviews /\ OrderOf[v] \in S /\ review[v].life # "none"
  BY DEF ReviewsOfAll, ReviewsOf
<1>2. \A v : v \in Gone(ReviewsOfAll(S)) <=>
                /\ v \in Reviews /\ OrderOf[v] \in S
                /\ review[v].life # "none" /\ review[v].status = "GELOSCHT"
  BY <1>1 DEF Gone
<1>3. \A o \in S : \A v : v \in Gone(ReviewsOf(o)) <=>
                /\ v \in Reviews /\ OrderOf[v] = o
                /\ review[v].life # "none" /\ review[v].status = "GELOSCHT"
  BY DEF Gone, ReviewsOf
<1>4. \A o \in S : {v \in Gone(ReviewsOfAll(S)) : OrderOf[v] = o} = Gone(ReviewsOf(o))
  BY <1>2, <1>3
<1> QED
  BY <1>1, <1>2, <1>4

LEMMA DashboardOrdersAreOrders ==
    ASSUME NEW a
    PROVE  DashboardOrders(a) \in SUBSET Orders
BY DEF DashboardOrders, CreatedIn, OfBrand, Rows

LEMMA GoneByOrders ==
    ASSUME NEW S \in SUBSET Orders, NEW f, DOMAIN f = S,
           \A o \in S : f[o] = CostOfReviews(Gone(ReviewsOf(o)))
    PROVE  SumFunction(f) = CostOfReviews(Gone(ReviewsOfAll(S)))
<1>1. PICK R : R = Gone(ReviewsOfAll(S))
  OBVIOUS
<1>2. /\ R \in SUBSET Reviews /\ \A v \in R : OrderOf[v] \in S
      /\ \A o \in S : {v \in R : OrderOf[v] = o} = Gone(ReviewsOf(o))
  BY <1>1, GoneOfAll
<1>3. \A o \in S : f[o] = CostOfReviews({v \in R : OrderOf[v] = o})
  BY <1>2
<1> QED
  BY <1>1, <1>2, <1>3, CostByOrders

LEMMA ReceivedIsRevenue ==
    ASSUME NEW a
    PROVE  AdminGraph(a).receivedAmount = Revenue(a)
<1>1. PICK S \in SUBSET Orders : S = DashboardOrders(a)
  BY DashboardOrdersAreOrders
<1>2. PICK f : f = [o \in S |-> OrderRow[o].cost * Cardinality(Gone(ReviewsOf(o)))]
  OBVIOUS
<1>3. ASSUME NEW o \in S PROVE f[o] = CostOfReviews(Gone(ReviewsOf(o)))
  <2>1. Gone(ReviewsOf(o)) \in SUBSET Reviews /\ \A v \in Gone(ReviewsOf(o)) : OrderOf[v] = o
    BY DEF Gone, ReviewsOf
  <2> QED
    BY <1>2, <2>1, CostOfOneOrder
<1>4. SumFunction(f) = CostOfReviews(Gone(ReviewsOfAll(S)))
  BY <1>2, <1>3, GoneByOrders
<1>5. Revenue(a) = SumFunction(f)
  BY <1>1, <1>2 DEF Revenue
<1>6. AdminGraph(a).receivedAmount = CostOfReviews(Gone(ReviewsOfAll(S)))
  BY <1>1 DEF AdminGraph
<1> QED
  BY <1>4, <1>5, <1>6

LEMMA CommissionsAddUp ==
    ASSUME NEW a
    PROVE  /\ SumFunction([s \in Sellers |-> Commission(a, s).current])
                = AdminGraph(a).receivedAmount
           /\ SumFunction([s \in Sellers |-> Commission(a, s).unpaid])
                = AdminGraph(a).unpaidAmount
<1>1. PICK S \in SUBSET Orders : S = DashboardOrders(a)
  BY DashboardOrdersAreOrders
<1>2. PICK all : all = ReviewsOfAll(S)
  OBVIOUS
<1>3. ASSUME NEW s \in Sellers
      PROVE  LET mine == ReviewsOfAll(OfSeller(S, s))
             IN  /\ Gone(mine) = {v \in Gone(all) : SellerOfReview[v] = s}
                 /\ mine \ Gone(mine) = {v \in all \ Gone(all) : SellerOfReview[v] = s}
  <2>1. PICK own \in SUBSET Orders : own = OfSeller(S, s)
    BY <1>1 DEF OfSeller
  <2>2. \A o \in Orders : o \in own <=> o \in S /\ OrderRow[o].seller = s
    BY <2>1, OfTheReports DEF OfSeller
  <2>3. PICK mine : mine = ReviewsOfAll(own)
    OBVIOUS
  <2>4. mine \subseteq Reviews /\ all \subseteq Reviews
    BY <1>2, <2>3 DEF ReviewsOfAll, ReviewsOf
  <2>5. \A v \in Reviews : v \in mine <=> v \in all /\ SellerOfReview[v] = s
    BY <1>2, <2>2, <2>3, GoneOfAll, OfTheReports DEF SellerOfReview
  <2>6. \A v \in Reviews : /\ v \in Gone(mine) <=> v \in mine /\ review[v].status = "GELOSCHT"
                           /\ v \in Gone(all) <=> v \in all /\ review[v].status = "GELOSCHT"
    BY DEF Gone
  <2>7. Gone(mine) \subseteq Reviews /\ Gone(all) \subseteq Reviews
    BY <2>4 DEF Gone
  <2>8. Gone(mine) = {v \in Gone(all) : SellerOfReview[v] = s}
    BY <2>5, <2>6, <2>7
  <2>9. mine \ Gone(mine) = {v \in all \ Gone(all) : SellerOfReview[v] = s}
    BY <2>4, <2>5, <2>6, <2>7
  <2> QED
    BY <2>1, <2>3, <2>8, <2>9
<1>4. PICK current : current = [s \in Sellers |-> Commission(a, s).current]
  OBVIOUS
<1>5. PICK unpaid : unpaid = [s \in Sellers |-> Commission(a, s).unpaid]
  OBVIOUS
<1>6. \A s \in Sellers :
          /\ current[s] = CostOfReviews({v \in Gone(all) : SellerOfReview[v] = s})
          /\ unpaid[s] = CostOfReviews({v \in all \ Gone(all) : SellerOfReview[v] = s})
  BY <1>1, <1>3, <1>4, <1>5, Zenon DEF Commission
<1>7. Gone(all) \in SUBSET Reviews /\ all \ Gone(all) \in SUBSET Reviews
  BY <1>2, GoneOfAll
<1>8. SumFunction(current) = CostOfReviews(Gone(all))
  BY <1>4, <1>6, <1>7, CostBySellers
<1>9. SumFunction(unpaid) = CostOfReviews(all \ Gone(all))
  BY <1>5, <1>6, <1>7, CostBySellers
<1>10. /\ AdminGraph(a).receivedAmount = CostOfReviews(Gone(all))
       /\ AdminGraph(a).unpaidAmount = CostOfReviews(all \ Gone(all))
  BY <1>1, <1>2 DEF AdminGraph
<1> QED
  BY <1>4, <1>5, <1>8, <1>9, <1>10, Zenon

LEMMA ShownAndOthers ==
    ASSUME NEW a, NEW s
    PROVE  LET shown == OrderInfo(a, s)
               others == OfSeller(DashboardOrders(a), s) \ DOMAIN shown
           IN  SumFunction(shown) + CostOfReviews(Gone(ReviewsOfAll(others)))
                 = Commission(a, s).current
<1>1. PICK S \in SUBSET Orders : S = OfSeller(DashboardOrders(a), s)
  BY DashboardOrdersAreOrders DEF OfSeller
<1>2. PICK shown : shown = OrderInfo(a, s)
  OBVIOUS
<1>3. PICK T \in SUBSET S : /\ DOMAIN shown = T
                            /\ \A o \in T : shown[o] = CostOfReviews(Gone(ReviewsOf(o)))
  BY <1>1, <1>2 DEF OrderInfo
<1>4. PICK rest \in SUBSET Orders : rest = S \ T
  OBVIOUS
<1>5. PICK R \in SUBSET Reviews : R = Gone(ReviewsOfAll(S))
  BY GoneOfAll
<1>6. PICK Q \in SUBSET R : Q = Gone(ReviewsOfAll(T))
  BY <1>5, GoneOfAll
<1>7. R \ Q = Gone(ReviewsOfAll(rest))
  <2>1. Gone(ReviewsOfAll(rest)) \in SUBSET Reviews
    BY GoneOfAll
  <2>2. \A v \in Reviews : v \in Gone(ReviewsOfAll(rest)) <=> v \in R /\ v \notin Q
    BY <1>4, <1>5, <1>6, GoneOfAll
  <2> QED
    BY <2>1, <2>2
<1>8. IsFiniteSet(R) /\ \A v \in R : Cost[v] \in Int
  BY OfTheReports, FS_Subset
<1>9. SumOver(Cost, R) = SumOver(Cost, Q) + SumOver(Cost, R \ Q)
  BY <1>8, SumOfParts
<1>10. CostOfReviews(R) = CostOfReviews(Q) + CostOfReviews(R \ Q)
  <2>1. Q \in SUBSET Reviews /\ R \ Q \in SUBSET Reviews
    OBVIOUS
  <2> QED
    BY <1>9, <2>1, CostIsASum
<1>11. SumFunction(shown) = CostOfReviews(Q)
  BY <1>3, <1>6, GoneByOrders
<1>12. Commission(a, s).current = CostOfReviews(R)
  BY <1>1, <1>5 DEF Commission
<1> QED
  BY <1>1, <1>2, <1>3, <1>4, <1>7, <1>10, <1>11, <1>12, Zenon

LEMMA SellersGraphs ==
    ASSUME NEW a, IsFiniteSet(DashboardRange(a))
    PROVE  SumFunction([s \in Sellers |-> SumOfDays(SellerGraph(a, s))])
             <= OrderPercentage(a)["NEW"]
<1>1. PICK S \in SUBSET Orders : S = DashboardOrders(a)
  BY DashboardOrdersAreOrders
<1>2. PICK N : N = {o \in S : order[o].status = "NEW"}
  OBVIOUS
<1>3. IsFiniteSet(N) /\ Cardinality(N) \in Nat
  BY <1>2, OfTheReports, FS_Subset, FS_CardinalityType
<1>4. PICK sellerOf : sellerOf = [o \in Orders |-> OrderRow[o].seller]
  OBVIOUS
<1>5. \A o \in N : sellerOf[o] \in Sellers
  BY <1>2, <1>4, OfTheReports
<1>6. PICK dayOf : dayOf = [o \in Orders |-> OrderRow[o].orderDate]
  OBVIOUS
<1>7. PICK graphs : graphs = [s \in Sellers |-> SumOfDays(SellerGraph(a, s))]
  OBVIOUS
<1>8. PICK counts : counts = [s \in Sellers |-> Cardinality({o \in N : sellerOf[o] = s})]
  OBVIOUS
<1>9. ASSUME NEW s \in Sellers
      PROVE  graphs[s] \in Int /\ counts[s] \in Int /\ graphs[s] <= counts[s]
  <2>1. PICK G : G = {o \in N : sellerOf[o] = s}
    OBVIOUS
  <2>2. G = {o \in OfSeller(S, s) : order[o].status = "NEW"}
    BY <1>2, <1>4, <2>1, OfTheReports DEF OfSeller
  <2>3. IsFiniteSet(G) /\ Cardinality(G) \in Nat
    BY <1>3, <2>1, FS_Subset, FS_CardinalityType
  <2>4. SellerGraph(a, s) = PerDay(G, dayOf, DashboardRange(a))
    BY <1>1, <1>6, <2>2, Zenon DEF SellerGraph
  <2>5. graphs[s] = SumOfDays(PerDay(G, dayOf, DashboardRange(a)))
    BY <1>7, <2>4
  <2> QED
    BY <1>8, <2>1, <2>3, <2>5, DaysAreCounted
<1>10. SumOver(graphs, Sellers) <= SumOver(counts, Sellers)
  BY <1>9, OfTheReports, SumsInOrder
<1>11. SumOver(counts, Sellers) = Cardinality(N)
  BY <1>3, <1>5, <1>8, OfTheReports, CountByGroups
<1>12. OrderPercentage(a)["NEW"] = Cardinality(N)
  BY <1>1, <1>2 DEF OrderPercentage, PaymentStatus
<1> QED
  BY <1>7, <1>10, <1>11, <1>12, SumOfAll

LEMMA RevenueHolds == RevenueIsOneFigure
<1> SUFFICES ASSUME NEW a \in Args
             PROVE  LET graph == AdminGraph(a)
                        of(s) == OfSeller(DashboardOrders(a), s)
                    IN  /\ graph.receivedAmount = Revenue(a)
                        /\ SumFunction([s \in Sellers |-> Commission(a, s).current]) = Revenue(a)
                        /\ SumFunction([s \in Sellers |-> Commission(a, s).unpaid])
                             = graph.unpaidAmount
                        /\ \A s \in Sellers :
                              LET shown == OrderInfo(a, s)
                                  others == of(s) \ DOMAIN shown
                              IN  SumFunction(shown) + CostOfReviews(Gone(ReviewsOfAll(others)))
                                    = Commission(a, s).current
                        /\ SumOfDays(graph.paidReviews) <= Cardinality(Gone(Reviews))
                        /\ SumFunction([s \in Sellers |-> SumOfDays(SellerGraph(a, s))])
                             <= OrderPercentage(a)["NEW"]
  BY DEF RevenueIsOneFigure
<1>1. IsFiniteSet(DashboardRange(a))
  <2>1. a.from \in Days \cup {NotGiven} /\ a.to \in Days \cup {NotGiven}
    BY OrderReportsOK DEF Asking
  <2> QED
    BY <2>1, RangesAreInTheCalendar, CalendarIsFinite
<1>2. SumOfDays(AdminGraph(a).paidReviews) <= Cardinality(Gone(Reviews))
  <2>1. PICK R \in SUBSET Reviews : R = Gone(ReviewsOfAll(DashboardOrders(a)))
    BY DashboardOrdersAreOrders, GoneOfAll
  <2>2. R \subseteq Gone(Reviews) /\ Gone(Reviews) \subseteq Reviews
    BY <2>1 DEF Gone
  <2>3. IsFiniteSet(R) /\ Cardinality(R) \in Nat /\ Cardinality(Gone(Reviews)) \in Nat
        /\ Cardinality(R) <= Cardinality(Gone(Reviews))
    BY <2>2, OfTheReports, FS_Subset, FS_CardinalityType
  <2>4. AdminGraph(a).paidReviews = PerDay(R, ReviewDay, DashboardRange(a))
    BY <2>1 DEF AdminGraph
  <2>5. PICK n \in Nat : n = SumOfDays(PerDay(R, ReviewDay, DashboardRange(a))) /\ n <= Cardinality(R)
    BY <1>1, <2>3, DaysAreCounted
  <2> QED
    BY <2>3, <2>4, <2>5
<1> QED
  BY <1>1, <1>2, ReceivedIsRevenue, CommissionsAddUp, ShownAndOthers, SellersGraphs, Zenon

-----------------------------------------------------------------------------
(***************************************************************************)
(* The graphs of the report: rows have a status, and live ones one of those*)
(* that the graphs show.                                                   *)
(***************************************************************************)
OrderState == {NoRow} \cup [life : {"live", "deleted"}, status : PaymentStatus]
ReviewState == {NoRow} \cup [life : {"live", "deleted"}, status : ReviewStatus]

TablesTyped == order \in [Orders -> OrderState] /\ review \in [Reviews -> ReviewState]

LEMMA SixAreFinite ==
    ASSUME NEW a, NEW b, NEW c, NEW d, NEW e, NEW f
    PROVE  IsFiniteSet({a, b, c, d, e, f})
<1>1. PICK A : A = {a, b}
  OBVIOUS
<1>2. PICK B : B = {c, d}
  OBVIOUS
<1>3. PICK C : C = {e, f}
  OBVIOUS
<1>4. \A x, y : IsFiniteSet({x, y})
  <2> TAKE x, y
  <2>1. PICK X : X = {x}
    OBVIOUS
  <2>2. PICK Y : Y = {y}
    OBVIOUS
  <2>3. IsFiniteSet(X) /\ IsFiniteSet(Y)
    BY <2>1, <2>2, FS_Singleton
  <2>4. IsFiniteSet(X \cup Y)
    BY <2>3, FS_Union
  <2>5. X \cup Y = {x, y}
    BY <2>1, <2>2
  <2> QED
    BY <2>4, <2>5
<1>5. IsFiniteSet((A \cup B) \cup C)
  BY <1>1, <1>2, <1>3, <1>4, FS_Union
<1>6. (A \cup B) \cup C = {a, b, c, d, e, f}
  BY <1>1, <1>2, <1>3
<1> QED
  BY <1>5, <1>6

LEMMA StatusesAreFinite == IsFiniteSet(PaymentStatus) /\ IsFiniteSet(ReviewStatus)
BY SixAreFinite DEF PaymentStatus, ReviewStatus

\* the live reviews of some orders
LiveOfAll(S) == UNION {LiveReviewsOf(o) : o \in S}

LEMMA GoneOfLive ==
    ASSUME NEW S \in SUBSET Orders
    PROVE  /\ LiveOfAll(S) \in SUBSET Reviews /\ Gone(LiveOfAll(S)) \in SUBSET Reviews
           /\ \A v \in Reviews : v \in LiveOfAll(S) <=> OrderOf[v] \in S /\ review[v].life = "live"
           /\ \A v \in Gone(LiveOfAll(S)) : OrderOf[v] \in S
           /\ \A o \in S : {v \in Gone(LiveOfAll(S)) : OrderOf[v] = o} = Gone(LiveReviewsOf(o))
<1>1. \A v : v \in LiveOfAll(S) <=> v \in Reviews /\ OrderOf[v] \in S /\ review[v].life = "live"
  BY DEF LiveOfAll, LiveReviewsOf, ReviewsOf
<1>2. \A v : v \in Gone(LiveOfAll(S)) <=>
                /\ v \in Reviews /\ OrderOf[v] \in S
                /\ review[v].life = "live" /\ review[v].status = "GELOSCHT"
  BY <1>1 DEF Gone
<1>3. \A o \in S : \A v : v \in Gone(LiveReviewsOf(o)) <=>
                /\ v \in Reviews /\ OrderOf[v] = o
                /\ review[v].life = "live" /\ review[v].status = "GELOSCHT"
  BY DEF Gone, LiveReviewsOf, ReviewsOf
<1>4. \A o \in S : {v \in Gone(LiveOfAll(S)) : OrderOf[v] = o} = Gone(LiveReviewsOf(o))
  BY <1>2, <1>3
<1> QED
  BY <1>1, <1>2, <1>4

LEMMA PaymentsCoverTheReport ==
    ASSUME NEW S \in SUBSET Orders, \A o \in S : order[o].status \in PaymentStatus
    PROVE  /\ SumFunction([st \in PaymentStatus |-> GraphOfPayments(S)[st].count]) = Cardinality(S)
           /\ SumFunction([st \in PaymentStatus |-> GraphOfPayments(S)[st].amount])
                = CostOfReviews(Gone(LiveOfAll(S)))
<1>1. IsFiniteSet(S) /\ IsFiniteSet(PaymentStatus)
  BY OfTheReports, FS_Subset, StatusesAreFinite
<1>2. PICK statusOf : statusOf = [o \in Orders |-> order[o].status]
  OBVIOUS
<1>3. \A o \in S : statusOf[o] \in PaymentStatus
  BY <1>2
<1>4. PICK earned : earned = [o \in Orders |->
                                 OrderRow[o].cost * Cardinality(Gone(LiveReviewsOf(o)))]
  OBVIOUS
<1>5. ASSUME NEW o \in Orders
      PROVE  /\ earned[o] = CostOfReviews(Gone(LiveReviewsOf(o)))
             /\ earned[o] \in Int
  <2>1. /\ Gone(LiveReviewsOf(o)) \in SUBSET Reviews
        /\ \A v \in Gone(LiveReviewsOf(o)) : OrderOf[v] = o
    BY DEF Gone, LiveReviewsOf, ReviewsOf
  <2> QED
    BY <1>4, <2>1, CostOfOneOrder, CostIsASum
<1>6. PICK counts : counts = [st \in PaymentStatus |-> GraphOfPayments(S)[st].count]
  OBVIOUS
<1>7. PICK amounts : amounts = [st \in PaymentStatus |-> GraphOfPayments(S)[st].amount]
  OBVIOUS
<1>8. ASSUME NEW st \in PaymentStatus
      PROVE  /\ counts[st] = Cardinality({o \in S : statusOf[o] = st})
             /\ amounts[st] = SumOver(earned, {o \in S : statusOf[o] = st})
  <2>1. PICK G : G = {o \in S : statusOf[o] = st}
    OBVIOUS
  <2>2. G = {o \in S : order[o].status = st}
    BY <1>2, <2>1
  <2>3. PICK f : f = [o \in G |-> OrderRow[o].cost * Cardinality(Gone(LiveReviewsOf(o)))]
    OBVIOUS
  <2>4. GraphOfPayments(S)[st].count = Cardinality(G)
        /\ GraphOfPayments(S)[st].amount = SumFunction(f)
    BY <2>2, <2>3 DEF GraphOfPayments
  <2>5. IsFiniteSet(G) /\ \A o \in G : f[o] = earned[o]
    BY <1>1, <1>4, <2>1, <2>3, FS_Subset
  <2>6. SumFunction(f) = SumOver(earned, G)
    BY <2>3, <2>5, SumOfAll, SumsAgree
  <2> QED
    BY <1>6, <1>7, <2>1, <2>4, <2>6
<1>9. SumFunction(counts) = Cardinality(S)
  <2>1. PICK g : g = [st \in PaymentStatus |-> Cardinality({o \in S : statusOf[o] = st})]
    OBVIOUS
  <2>2. counts = g
    BY <1>6, <1>8, <2>1
  <2>3. SumOver(g, PaymentStatus) = Cardinality(S)
    BY <1>1, <1>3, <2>1, CountByGroups
  <2> QED
    BY <1>6, <2>2, <2>3, SumOfAll
<1>10. SumFunction(amounts) = SumOver(earned, S)
  <2>1. PICK g : g = [st \in PaymentStatus |-> SumOver(earned, {o \in S : statusOf[o] = st})]
    OBVIOUS
  <2>2. amounts = g
    BY <1>7, <1>8, <2>1
  <2>3. SumOver(g, PaymentStatus) = SumOver(earned, S)
    BY <1>1, <1>3, <1>5, <2>1, SumByGroups
  <2> QED
    BY <1>7, <2>2, <2>3, SumOfAll
<1>11. SumOver(earned, S) = CostOfReviews(Gone(LiveOfAll(S)))
  <2>1. PICK f : f = [o \in S |-> earned[o]]
    OBVIOUS
  <2>2. PICK R : R = Gone(LiveOfAll(S))
    OBVIOUS
  <2>3. R \in SUBSET Reviews /\ \A v \in R : OrderOf[v] \in S
    BY <2>2, GoneOfLive
  <2>4. ASSUME NEW o \in S
        PROVE  f[o] = CostOfReviews({v \in R : OrderOf[v] = o})
    <3>1. {v \in R : OrderOf[v] = o} = Gone(LiveReviewsOf(o))
      BY <2>2, GoneOfLive
    <3>2. f[o] = CostOfReviews(Gone(LiveReviewsOf(o)))
      BY <1>5, <2>1
    <3> QED
      BY <3>1, <3>2
  <2>5. SumFunction(f) = CostOfReviews(R)
    BY <2>1, <2>3, <2>4, CostByOrders
  <2>6. SumFunction(f) = SumOver(earned, S)
    BY <1>1, <2>1, SumOfAll, SumsAgree
  <2> QED
    BY <2>2, <2>5, <2>6
<1> QED
  BY <1>6, <1>7, <1>9, <1>10, <1>11, Zenon

LEMMA ReviewsCoverTheReport ==
    ASSUME NEW S \in SUBSET Orders,
           \A v \in Reviews : review[v].life = "live" => review[v].status \in ReviewStatus
    PROVE  /\ SumFunction([st \in ReviewStatus |-> GraphOfReviews(S)[st].count])
                = Cardinality(LiveOfAll(S))
           /\ GraphOfReviews(S)["GELOSCHT"].amount = CostOfReviews(Gone(LiveOfAll(S)))
<1>1. PICK U \in SUBSET Reviews : U = LiveOfAll(S)
  BY GoneOfLive
<1>2. IsFiniteSet(U) /\ IsFiniteSet(ReviewStatus)
  BY OfTheReports, FS_Subset, StatusesAreFinite
<1>3. PICK statusOf : statusOf = [v \in Reviews |-> review[v].status]
  OBVIOUS
<1>4. \A v \in U : statusOf[v] \in ReviewStatus
  BY <1>1, <1>3, GoneOfLive
<1>5. PICK counts : counts = [st \in ReviewStatus |-> GraphOfReviews(S)[st].count]
  OBVIOUS
<1>6. ASSUME NEW st \in ReviewStatus
      PROVE  /\ GraphOfReviews(S)[st].count = Cardinality({v \in U : statusOf[v] = st})
             /\ GraphOfReviews(S)[st].amount = CostOfReviews({v \in U : statusOf[v] = st})
  <2>1. \A v \in Reviews : v \in LiveReviewsOf(OrderOf[v]) <=> review[v].life = "live"
    BY DEF LiveReviewsOf, ReviewsOf
  <2>2. {v \in U : statusOf[v] = st} = {v \in Reviews : /\ OrderOf[v] \in S
                                                        /\ v \in LiveReviewsOf(OrderOf[v])
                                                        /\ review[v].status = st}
    BY <1>1, <1>3, <2>1, GoneOfLive
  <2> QED
    BY <2>2 DEF GraphOfReviews
<1>7. SumFunction(counts) = Cardinality(U)
  <2>1. PICK g : g = [st \in ReviewStatus |-> Cardinality({v \in U : statusOf[v] = st})]
    OBVIOUS
  <2>2. counts = g
    BY <1>5, <1>6, <2>1
  <2>3. SumOver(g, ReviewStatus) = Cardinality(U)
    BY <1>2, <1>4, <2>1, CountByGroups
  <2> QED
    BY <1>5, <2>2, <2>3, SumOfAll
<1>8. "GELOSCHT" \in ReviewStatus
  BY DEF ReviewStatus
<1>9. {v \in U : statusOf[v] = "GELOSCHT"} = Gone(U)
  BY <1>3 DEF Gone
<1> QED
  BY <1>1, <1>5, <1>6, <1>7, <1>8, <1>9, Zenon

LEMMA ReportedOrders ==
    ASSUME NEW a, NEW s
    PROVE  ReportedIn(a, s) \in SUBSET LiveRows /\ LiveRows \in SUBSET Orders
BY DEF ReportedIn, CreatedIn, OfSeller, OfBrand, LiveRows

LEMMA GraphsHold == TablesTyped => GraphsCoverTheReport
<1> SUFFICES ASSUME TablesTyped PROVE GraphsCoverTheReport
  OBVIOUS
<1>1. /\ \A o \in LiveRows : order[o].status \in PaymentStatus
      /\ \A v \in Reviews : review[v].life = "live" => review[v].status \in ReviewStatus
  BY DEF TablesTyped, OrderState, ReviewState, NoRow, LiveRows
<1>2. ASSUME NEW a \in Args, NEW s \in Scopes
      PROVE  LET S == ReportedIn(a, s)
                 payments == GraphOfPayments(S)
                 reviews == GraphOfReviews(S)
             IN  /\ SumFunction([st \in PaymentStatus |-> payments[st].count]) = Cardinality(S)
                 /\ SumFunction([st \in ReviewStatus |-> reviews[st].count])
                       = Cardinality(UNION {LiveReviewsOf(o) : o \in S})
                 /\ SumFunction([st \in PaymentStatus |-> payments[st].amount])
                       = reviews["GELOSCHT"].amount
  <2>1. PICK S \in SUBSET Orders : S = ReportedIn(a, s)
    BY ReportedOrders
  <2>2. \A o \in S : order[o].status \in PaymentStatus
    BY <1>1, <2>1, ReportedOrders
  <2>3. /\ SumFunction([st \in PaymentStatus |-> GraphOfPayments(S)[st].count]) = Cardinality(S)
        /\ SumFunction([st \in PaymentStatus |-> GraphOfPayments(S)[st].amount])
             = CostOfReviews(Gone(LiveOfAll(S)))
    BY <2>2, PaymentsCoverTheReport
  <2>4. /\ SumFunction([st \in ReviewStatus |-> GraphOfReviews(S)[st].count])
             = Cardinality(LiveOfAll(S))
        /\ GraphOfReviews(S)["GELOSCHT"].amount = CostOfReviews(Gone(LiveOfAll(S)))
    BY <1>1, ReviewsCoverTheReport
  <2> QED
    BY <2>1, <2>3, <2>4, Zenon DEF LiveOfAll
<1> QED
  BY <1>2, Zenon DEF GraphsCoverTheReport

-----------------------------------------------------------------------------
(***************************************************************************)
(* Searches.                                                               *)
(***************************************************************************)
LEMMA SearchesHold == SearchesNarrowTheList
<1>1. ASSUME NEW list, NEW st
      PROVE  FindManyOrders(list, "PAYMENT_STATUS", st) = {o \in list : order[o].status = st}
  BY DEF FindManyOrders, Meets
<1>2. ASSUME NEW list
      PROVE  /\ Summary(list).unpaid
                  = Summary(FindManyOrders(list, "PAYMENT_STATUS", "UNPAID")).total
             /\ Summary(list).paidCommission
                  = Summary(FindManyOrders(list, "PAYMENT_STATUS", "PAID")).currentCommission
  BY <1>1 DEF Summary
<1>3. ASSUME NEW list, NEW kw
      PROVE  /\ \A f \in OrderFilter : FindManyOrders(list, f, kw) \subseteq list
             /\ FindManyOrders(list, "COMPANY", kw) \subseteq FindManyOrders(list, "none", kw)
             /\ FindManyOrders(list, "REMARKS", kw) \subseteq FindManyOrders(list, "none", kw)
  BY DEF FindManyOrders, Meets, AllQuery, Text
<1>4. ASSUME NEW list, NEW kw, NEW s, NEW f \in SellerFilter \ {"CLIENT"}
      PROVE  FindManyOrdersForSeller(list, f, kw, s) \subseteq OfClientsSeller(list, s)
  <2>1. CASE f = "none"
    BY <2>1 DEF FindManyOrdersForSeller
  <2>2. CASE f # "none"
    BY <2>2 DEF FindManyOrdersForSeller
  <2> QED
    BY <2>1, <2>2
<1>5. ASSUME NEW list, NEW kw, NEW s, NEW f \in {"CLIENT", "COMPANY", "REMARKS"},
             NEW o \in OfClientsSeller(list, s), o \in FindManyOrdersForSeller(list, f, kw, s)
      PROVE  o \in FindManyOrdersForSeller(list, "none", kw, s)
  <2>1. Meets(o, f, kw)
    BY <1>5 DEF FindManyOrdersForSeller
  <2>2. SearchOrdersForSeller(o, kw)
    BY <2>1 DEF Meets, Text, SearchOrdersForSeller
  <2> QED
    BY <2>2 DEF FindManyOrdersForSeller
<1>6. ASSUME NEW list, NEW kw, NEW s
      PROVE  OfClientsSeller(list, s)
               \cap UNION {FindManyOrdersForSeller(list, f, kw, s) :
                              f \in {"CLIENT", "COMPANY", "REMARKS"}}
               \subseteq FindManyOrdersForSeller(list, "none", kw, s)
  BY <1>5
<1>7. ASSUME NEW list, NEW kw
      PROVE  FindManyOrders(list, "COMPANY", kw) \cup FindManyOrders(list, "REMARKS", kw)
               \subseteq FindManyOrders(list, "none", kw)
  BY <1>3
<1>8. ASSUME NEW list, NEW kw
      PROVE  SearchesIn(list, kw)
  <2>1. \A f \in OrderFilter : FindManyOrders(list, f, kw) \subseteq list
    BY <1>3, Zenon
  <2>2. FindManyOrders(list, "COMPANY", kw) \cup FindManyOrders(list, "REMARKS", kw)
          \subseteq FindManyOrders(list, "none", kw)
    BY <1>7, Zenon
  <2>3. ASSUME NEW s \in Sellers, NEW f \in SellerFilter \ {"CLIENT"}
        PROVE  FindManyOrdersForSeller(list, f, kw, s) \subseteq OfClientsSeller(list, s)
    BY <1>4, Zenon
  <2>4. ASSUME NEW s \in Sellers
        PROVE  OfClientsSeller(list, s)
                 \cap UNION {FindManyOrdersForSeller(list, f, kw, s) :
                                f \in {"CLIENT", "COMPANY", "REMARKS"}}
                 \subseteq FindManyOrdersForSeller(list, "none", kw, s)
    BY <1>6, Zenon
  <2> QED
    BY <2>1, <2>2, <2>3, <2>4, Zenon DEF SearchesIn
<1>9. ASSUME NEW list
      PROVE  SummaryOf(list)
  BY <1>2, Zenon DEF SummaryOf
<1> QED
  BY <1>8, <1>9 DEF SearchesNarrowTheList

-----------------------------------------------------------------------------
(***************************************************************************)
(* orderReport, between its reads: an order that the second read finds and *)
(* the first has not found was written in between.                         *)
(***************************************************************************)
\* what a report has read is of its range, and what it would read now was read or written
AtOrders(a, touched, range) ==
    report = [pc |-> "orders", args |-> a, touched |-> touched, range |-> range]

AtPaid(a, touched, range, found) ==
    /\ report = [pc |-> "paid", args |-> a, touched |-> touched, range |-> range,
                 found |-> found]
    /\ \A o \in found : OrderRow[o].day \in range
    /\ CreatedIn(SellerScope(a), range) \subseteq found \cup touched

AtDone(touched, range, found, paid) ==
    /\ report = [pc |-> "done", range |-> range, touched |-> touched, found |-> found,
                 paid |-> paid, orders |-> PerDay(found, OrderDay, range),
                 paidOrders |-> PerDay(paid, OrderDay, range)]
    /\ \A o \in found \cup paid : OrderRow[o].day \in range
    /\ paid \subseteq found \cup touched

ReportKnows ==
    \/ report = Idle
    \/ \E a \in ReportArgs, touched \in SUBSET Orders, range \in SUBSET Calendar :
          \/ AtOrders(a, touched, range)
          \/ \E found \in SUBSET Orders : \/ AtPaid(a, touched, range, found)
                                          \/ \E paid \in SUBSET Orders :
                                                AtDone(touched, range, found, paid)

ReportInv == TablesTyped /\ ReportKnows

LEMMA TablesStart == OrderTablesInit => TablesTyped
BY DEF OrderTablesInit, TablesTyped, OrderState, ReviewState

LEMMA TablesStayTyped ==
    ASSUME TablesTyped, [OrderReportsNext]_orderReportVars
    PROVE  TablesTyped'
<1>1. order \in [Orders -> OrderState] /\ review \in [Reviews -> ReviewState]
  BY DEF TablesTyped
<1> SUFFICES order' \in [Orders -> OrderState] /\ review' \in [Reviews -> ReviewState]
  BY DEF TablesTyped
<1>2. CASE UNCHANGED <<order, review>>
  BY <1>1, <1>2
<1>3. ASSUME NEW o \in Orders, CreateOrder(o) PROVE order' \in [Orders -> OrderState] /\ review' \in [Reviews -> ReviewState]
  BY <1>1, <1>3 DEF CreateOrder, OrderState, PaymentStatus
<1>4. ASSUME NEW o \in Orders, NEW st \in Recordable, RecordPayment(o, st) PROVE order' \in [Orders -> OrderState] /\ review' \in [Reviews -> ReviewState]
  <2>1. st \in PaymentStatus
    BY OrderReportsOK
  <2>2. order[o] \in [life : {"live", "deleted"}, status : PaymentStatus]
    BY <1>1, <1>4 DEF RecordPayment, OrderState, NoRow
  <2>3. [order[o] EXCEPT !.status = st] \in OrderState
    BY <2>1, <2>2 DEF OrderState
  <2> QED
    BY <1>1, <1>4, <2>3 DEF RecordPayment
<1>5. ASSUME NEW o \in Orders, NEW from \in {"live", "deleted"}, NEW to \in {"live", "deleted"},
             SetLife(o, from, to)
      PROVE  order' \in [Orders -> OrderState] /\ review' \in [Reviews -> ReviewState]
  <2>1. [order[o] EXCEPT !.life = to] \in OrderState
    BY <1>1, <1>5 DEF SetLife, OrderState, NoRow
  <2>2. ASSUME NEW v \in ReviewsOf(o)
        PROVE  [review[v] EXCEPT !.life = to] \in ReviewState
    BY <1>1, <2>2 DEF ReviewsOf, ReviewState, NoRow
  <2> QED
    BY <1>1, <1>5, <2>1, <2>2 DEF SetLife
<1>6. ASSUME NEW v \in Reviews, AddReview(v) \/ FinishReview(v) \/ RemoveReview(v)
      PROVE  order' \in [Orders -> OrderState] /\ review' \in [Reviews -> ReviewState]
  <2>1. CASE AddReview(v)
    BY <1>1, <2>1 DEF AddReview, WriteReview, ReviewState, ReviewStatus
  <2>2. CASE FinishReview(v)
    BY <1>1, <2>2 DEF FinishReview, WriteReview, ReviewState, ReviewStatus
  <2>3. CASE RemoveReview(v)
    <3>1. [review[v] EXCEPT !.life = "deleted"] \in ReviewState
      BY <1>1, <2>3 DEF RemoveReview, ReviewState, NoRow
    <3> QED
      BY <1>1, <2>3, <3>1 DEF RemoveReview, WriteReview
  <2> QED
    BY <1>6, <2>1, <2>2, <2>3
<1>7. ASSUME NEW a \in ReportArgs, BaseReport(a) PROVE UNCHANGED <<order, review>>
  BY <1>7 DEF BaseReport
<1>8. CASE FindOrders \/ FindPaidOrders \/ Answer
  BY <1>2, <1>8 DEF FindOrders, FindPaidOrders, Answer
<1> QED
  BY <1>2, <1>3, <1>4, <1>5, <1>6, <1>7, <1>8
  DEF OrderReportsNext, RemoveOrder, RestoreOrder, orderReportVars

\* a write of one order is remembered
LEMMA WritesAreTouched ==
    ASSUME ReportKnows, NEW o \in Orders, \A p \in Orders : p # o => order'[p] = order[p],
           Touch(o)
    PROVE  ReportKnows'
<1>1. CASE report = Idle
  BY <1>1 DEF Touch, Idle, ReportKnows
<1>2. ASSUME NEW a \in ReportArgs, NEW touched \in SUBSET Orders, NEW range \in SUBSET Calendar,
             AtOrders(a, touched, range)
      PROVE  ReportKnows'
  <2>1. AtOrders(a, touched \cup {o}, range)'
    BY <1>2 DEF AtOrders, Touch
  <2> QED
    BY <2>1 DEF ReportKnows
<1>3. ASSUME NEW a \in ReportArgs, NEW touched \in SUBSET Orders, NEW range \in SUBSET Calendar,
             NEW found \in SUBSET Orders, AtPaid(a, touched, range, found)
      PROVE  ReportKnows'
  <2>1. report' = [pc |-> "paid", args |-> a, touched |-> touched \cup {o}, range |-> range,
                   found |-> found]
    BY <1>3 DEF AtPaid, Touch
  <2>2. \A p : p \in CreatedIn(SellerScope(a), range)' /\ p # o
                 => p \in CreatedIn(SellerScope(a), range)
    BY DEF CreatedIn, SellerScope, OfSeller, OfBrand, LiveRows
  <2>3. CreatedIn(SellerScope(a), range)' \subseteq found \cup (touched \cup {o})
    BY <1>3, <2>2 DEF AtPaid
  <2>4. AtPaid(a, touched \cup {o}, range, found)'
    BY <1>3, <2>1, <2>3 DEF AtPaid
  <2> QED
    BY <2>4 DEF ReportKnows
<1>4. ASSUME NEW a \in ReportArgs, NEW touched \in SUBSET Orders, NEW range \in SUBSET Calendar,
             NEW found \in SUBSET Orders, NEW paid \in SUBSET Orders,
             AtDone(touched, range, found, paid)
      PROVE  ReportKnows'
  <2>1. AtDone(touched \cup {o}, range, found, paid)'
    BY <1>4 DEF AtDone, Touch
  <2> QED
    BY <2>1 DEF ReportKnows
<1> QED
  BY <1>1, <1>2, <1>3, <1>4 DEF ReportKnows

LEMMA ReadsAreKnown ==
    ASSUME ReportKnows,
           (\E a \in ReportArgs : BaseReport(a)) \/ FindOrders \/ FindPaidOrders \/ Answer
    PROVE  ReportKnows'
<1>1. ASSUME NEW a \in ReportArgs, BaseReport(a) PROVE ReportKnows'
  <2>1. a.from \in Days \cup {NotGiven} /\ a.to \in Days \cup {NotGiven}
    BY OrderReportsOK DEF Asking
  <2>2. PICK rows \in SUBSET Days : rows = DaysOfOrders(LiveRows)
    BY OfTheReports DEF DaysOfOrders, LiveRows
  <2>3. PICK range \in SUBSET Calendar : range = ReportRange(a, rows)
    BY <2>1, RangesAreInTheCalendar
  <2>4. AtOrders(a, {}, range)'
    BY <1>1, <2>2, <2>3 DEF BaseReport, AtOrders
  <2> QED
    BY <2>3, <2>4 DEF ReportKnows
<1>2. CASE FindOrders
  <2>1. PICK a \in ReportArgs, touched \in SUBSET Orders, range \in SUBSET Calendar :
           AtOrders(a, touched, range)
    BY <1>2 DEF FindOrders, ReportKnows, Idle, AtPaid, AtDone
  <2>2. PICK found : found = CreatedIn(SellerScope(a), range)
    OBVIOUS
  <2>3. found \in SUBSET Orders /\ \A o \in found : OrderRow[o].day \in range
    BY <2>2 DEF CreatedIn, SellerScope, OfSeller, OfBrand, LiveRows
  <2>4. report' = [pc |-> "paid", args |-> a, touched |-> {}, range |-> range, found |-> found]
    BY <1>2, <2>1, <2>2 DEF FindOrders, AtOrders
  <2>5. CreatedIn(SellerScope(a), range)' = found
    BY <1>2, <2>2 DEF FindOrders, CreatedIn, SellerScope, OfSeller, OfBrand, LiveRows
  <2>6. AtPaid(a, {}, range, found)'
    BY <2>3, <2>4, <2>5 DEF AtPaid
  <2> QED
    BY <2>3, <2>6 DEF ReportKnows
<1>3. CASE FindPaidOrders
  <2>1. PICK a \in ReportArgs, touched \in SUBSET Orders, range \in SUBSET Calendar,
             found \in SUBSET Orders : AtPaid(a, touched, range, found)
    BY <1>3 DEF FindPaidOrders, ReportKnows, Idle, AtOrders, AtDone
  <2>2. PICK paid : paid = {o \in CreatedIn(SellerScope(a), range) : order[o].status = "PAID"}
    OBVIOUS
  <2>3. /\ paid \in SUBSET Orders /\ \A o \in paid : OrderRow[o].day \in range
        /\ paid \subseteq CreatedIn(SellerScope(a), range)
    BY <2>2 DEF CreatedIn, SellerScope, OfSeller, OfBrand, LiveRows
  <2>4. report' = [pc |-> "done", range |-> range, touched |-> touched, found |-> found,
                   paid |-> paid, orders |-> PerDay(found, OrderDay, range),
                   paidOrders |-> PerDay(paid, OrderDay, range)]
    BY <1>3, <2>1, <2>2 DEF FindPaidOrders, AtPaid
  <2>5. AtDone(touched, range, found, paid)'
    BY <2>1, <2>3, <2>4 DEF AtPaid, AtDone
  <2> QED
    BY <2>3, <2>5 DEF ReportKnows
<1>4. CASE Answer
  BY <1>4 DEF Answer, ReportKnows
<1> QED
  BY <1>1, <1>2, <1>3, <1>4

LEMMA ReportInvHolds == OrderReportsSpec => []ReportInv
<1>1. OrderReportsInit => ReportInv
  BY TablesStart DEF OrderReportsInit, ReportInv, ReportKnows
<1>2. ASSUME ReportInv, [OrderReportsNext]_orderReportVars PROVE ReportInv'
  <2>1. ReportKnows /\ TablesTyped /\ TablesTyped'
    BY <1>2, TablesStayTyped DEF ReportInv
  <2> SUFFICES ReportKnows'
    BY <2>1 DEF ReportInv
  <2>2. ASSUME NEW o \in Orders, NEW st \in Recordable, RecordPayment(o, st)
        PROVE  ReportKnows'
    <3>1. Touch(o) /\ \A p \in Orders : p # o => order'[p] = order[p]
      BY <2>1, <2>2 DEF RecordPayment, TablesTyped
    <3> QED
      BY <2>1, <3>1, WritesAreTouched
  <2>3. ASSUME NEW o \in Orders, CreateOrder(o) \/ RemoveOrder(o) \/ RestoreOrder(o)
        PROVE  ReportKnows'
    <3>1. Touch(o) /\ \A p \in Orders : p # o => order'[p] = order[p]
      BY <2>1, <2>3 DEF CreateOrder, RemoveOrder, RestoreOrder, SetLife, TablesTyped
    <3> QED
      BY <2>1, <3>1, WritesAreTouched
  <2>4. ASSUME NEW v \in Reviews, AddReview(v) \/ FinishReview(v) \/ RemoveReview(v)
        PROVE  ReportKnows'
    <3>1. Touch(OrderOf[v]) /\ order' = order /\ OrderOf[v] \in Orders
      BY <2>4, OfTheReports DEF AddReview, FinishReview, RemoveReview, WriteReview
    <3> QED
      BY <2>1, <3>1, WritesAreTouched
  <2>5. CASE (\E a \in ReportArgs : BaseReport(a)) \/ FindOrders \/ FindPaidOrders \/ Answer
    BY <2>1, <2>5, ReadsAreKnown
  <2>6. CASE UNCHANGED orderReportVars
    <3>1. \A a, range : CreatedIn(SellerScope(a), range)' = CreatedIn(SellerScope(a), range)
      BY <2>6 DEF orderReportVars, CreatedIn, SellerScope, OfSeller, OfBrand, LiveRows
    <3>2. report' = report
      BY <2>6 DEF orderReportVars
    <3>3. \A a, touched, range : AtOrders(a, touched, range)' <=> AtOrders(a, touched, range)
      BY <3>2 DEF AtOrders
    <3>4. \A a, touched, range, found :
             AtPaid(a, touched, range, found)' <=> AtPaid(a, touched, range, found)
      BY <3>1, <3>2, Zenon DEF AtPaid
    <3>5. \A touched, range, found, paid :
             AtDone(touched, range, found, paid)' <=> AtDone(touched, range, found, paid)
      BY <3>2, ZenonT(60) DEF AtDone
    <3> QED
      BY <2>1, <3>2, <3>3, <3>4, <3>5, Zenon DEF ReportKnows
  <2> QED
    BY <1>2, <2>2, <2>3, <2>4, <2>5, <2>6 DEF OrderReportsNext
<1> QED
  BY <1>1, <1>2, PTL DEF OrderReportsSpec

LEMMA PaidOrdersSeen == ReportInv => PaidOrdersWereSeen
<1> SUFFICES ASSUME ReportInv, report.pc = "done"
             PROVE  /\ report.paid \ report.found \subseteq report.touched
                    /\ SumOfDays(report.orders) = Cardinality(report.found)
                    /\ SumOfDays(report.paidOrders) = Cardinality(report.paid)
  BY DEF PaidOrdersWereSeen
<1>1. PICK touched \in SUBSET Orders, range \in SUBSET Calendar, found \in SUBSET Orders,
           paid \in SUBSET Orders : AtDone(touched, range, found, paid)
  BY DEF ReportInv, ReportKnows, Idle, AtOrders, AtPaid
<1>2. IsFiniteSet(found) /\ IsFiniteSet(paid) /\ IsFiniteSet(range)
  BY OfTheReports, FS_Subset, CalendarIsFinite
<1>3. \A o \in found \cup paid : OrderDay[o] \in range
  BY <1>1 DEF AtDone, OrderDay
<1>4. /\ SumOfDays(PerDay(found, OrderDay, range)) = Cardinality(found)
      /\ SumOfDays(PerDay(paid, OrderDay, range)) = Cardinality(paid)
  BY <1>2, <1>3, DaysAreCounted
<1> QED
  BY <1>1, <1>4 DEF AtDone

\* In every state, for every range, brand and seller, the revenue of the dashboard, the received
\* amount of its graph and the commissions of all sellers are one figure, and no graph of the
\* dashboard shows a review or an order twice.
THEOREM RevenueStaysOneFigure == OrderReportsSpec => []RevenueIsOneFigure
<1>1. RevenueIsOneFigure
  BY RevenueHolds
<1> QED
  BY <1>1, PTL

\* The two graphs of the report always divide its orders and their reviews without rest, and
\* show the same amount of reviews that are GELOSCHT.
THEOREM GraphsAlwaysCover == OrderReportsSpec => []GraphsCoverTheReport
<1>1. ReportInv => GraphsCoverTheReport
  BY GraphsHold DEF ReportInv
<1> QED
  BY <1>1, ReportInvHolds, PTL

\* A search always narrows the list it is made in, whatever the filter and the keyword, and the
\* summary of a list has the figures of the searches by payment status in it.
THEOREM SearchesAlwaysNarrow == OrderReportsSpec => []SearchesNarrowTheList
<1>1. SearchesNarrowTheList
  BY SearchesHold
<1> QED
  BY <1>1, PTL

\* An order that a report counts as paid but not as an order was written between its two reads,
\* and every order that was read is counted on one day.
THEOREM PaidOrdersAreSeen == OrderReportsSpec => []PaidOrdersWereSeen
BY ReportInvHolds, PaidOrdersSeen, PTL

-----------------------------------------------------------------------------
(***************************************************************************)
(* The reports on clients and on sellers, between their queries.           *)
(***************************************************************************)
ClientTablesTyped ==
    /\ client \in [Clients -> [life : {"none", "live", "deleted"},
                               info : {"none", "ACTIVE", "DELETED"}, loggedIn : BOOLEAN]]
    /\ vendor \in [Vendors -> {"ACTIVE", "DELETED"}]

SurveyRecord ==
    [pc : {"total", "new", "byRange", "inactive", "clients", "active", "gone", "sellers"},
     args : Surveys, touched : SUBSET (Clients \cup Vendors), range : SUBSET Calendar,
     total : Nat, new : SUBSET Clients, first : SUBSET Clients, second : SUBSET Clients,
     perDay : {<<>>} \cup UNION {[range -> Nat] : range \in SUBSET Calendar}]

\* who is asked for, and who of them the groups of the report are for
AskedRows == IF survey.args.kind = "clients" THEN Asked(survey.args)
         ELSE InRange(survey.args, survey.range)
IsFirst(c) == IF survey.args.kind = "clients" THEN client[c].life = "live"
              ELSE vendor[ClientRow[c].seller] = "ACTIVE"
IsSecond(c) == IF survey.args.kind = "clients" THEN client[c].info = "DELETED"
               ELSE vendor[ClientRow[c].seller] = "DELETED"

Counted == survey.pc # "total" => Cardinality(AskedRows \ survey.touched) <= survey.total

NewAreLive == survey.pc = "byRange" =>
    \A c \in survey.new \ survey.touched : c \in AskedLive(survey.args)

FirstFound ==
    survey.pc \in {"inactive", "clients", "gone", "sellers"} =>
        /\ survey.first \subseteq AskedRows
        /\ \A c \in survey.first : ClientRow[c].day \in survey.range
        /\ \A c \in survey.first : Moved(c) \/ IsFirst(c)
        /\ \A c \in survey.new \ survey.touched :
              ClientRow[c].day \in survey.range => c \in survey.first

SecondFound ==
    survey.pc \in {"clients", "sellers"} =>
        /\ survey.second \subseteq AskedRows
        /\ \A c \in survey.second : Moved(c) \/ IsSecond(c)
        /\ survey.perDay = CountPerDay(survey.first, survey.range)

SurveyKnows ==
    \/ survey = Unasked
    \/ /\ survey \in SurveyRecord
       /\ survey.args.kind = "clients" <=>
             survey.pc \in {"total", "new", "byRange", "inactive", "clients"}
       /\ survey.args.kind = "sellers" => survey.new = {}
       /\ Counted /\ NewAreLive /\ FirstFound /\ SecondFound

SurveyInv == ClientTablesTyped /\ SurveyKnows

ClientDay == [c \in Clients |-> ClientRow[c].day]

LEMMA OfTheClients ==
    /\ IsFiniteSet(Clients)
    /\ \A c \in Clients : ClientRow[c].day \in Days /\ ClientRow[c].seller \in Vendors
    /\ \A a \in Surveys : a.from \in Days \cup {NotGiven} /\ a.to \in Days \cup {NotGiven}
BY ClientReportsOK DEF ClientColumns, Questions

LEMMA CountsPerDay ==
    ASSUME NEW S \in SUBSET Clients, NEW range \in SUBSET Calendar
    PROVE  /\ CountPerDay(S, range) \in [range -> Nat]
           /\ (\A c \in S : ClientRow[c].day \in range) =>
                 SumFunction(CountPerDay(S, range)) = Cardinality(S)
<1>1. IsFiniteSet(S) /\ IsFiniteSet(range)
  BY OfTheClients, FS_Subset, CalendarIsFinite
<1>2. CountPerDay(S, range) = PerDay(S, ClientDay, range)
  <2>1. \A d \in range : {c \in S : ClientRow[c].day = d} = {c \in S : ClientDay[c] = d}
    BY DEF ClientDay
  <2> QED
    BY <2>1 DEF CountPerDay, PerDay
<1>3. (\A c \in S : ClientRow[c].day \in range) => \A c \in S : ClientDay[c] \in range
  BY DEF ClientDay
<1>4. /\ PerDay(S, ClientDay, range) \in [range -> Nat]
      /\ (\A c \in S : ClientDay[c] \in range) =>
            SumOfDays(PerDay(S, ClientDay, range)) = Cardinality(S)
  BY <1>1, DaysAreCounted
<1> QED
  BY <1>2, <1>3, <1>4 DEF SumOfDays

LEMMA RowsAreClients ==
    /\ \A a : Asked(a) \in SUBSET Clients /\ AskedLive(a) \subseteq Asked(a)
    /\ \A a, range : InRange(a, range) \in SUBSET Clients
BY DEF Asked, AskedLive, InRange, OfVendor, OfLabel, ArrivedIn, ClientRows, LiveClients

LEMMA SameRows ==
    ASSUME UNCHANGED <<client, vendor>>
    PROVE  /\ \A a : Asked(a)' = Asked(a) /\ AskedLive(a)' = AskedLive(a)
           /\ \A a, range : InRange(a, range)' = InRange(a, range)
BY DEF Asked, AskedLive, InRange, OfVendor, OfLabel, ArrivedIn, ClientRows, LiveClients

\* a write of one client or one seller: rows stay rows, and who changes is remembered
LEMMA DisturbancesAreKnown ==
    ASSUME SurveyKnows, NEW x \in Clients \cup Vendors, Disturb(x),
           \A c \in Clients : /\ c # x => client'[c] = client[c]
                              /\ client[c].life # "none" => client'[c].life # "none",
           \A v \in Vendors : v # x => vendor'[v] = vendor[v]
    PROVE  SurveyKnows'
<1>1. CASE survey = Unasked
  BY <1>1 DEF Disturb, Unasked, SurveyKnows
<1> SUFFICES ASSUME survey # Unasked PROVE SurveyKnows'
  BY <1>1
<1>2. survey \in SurveyRecord
  BY DEF SurveyKnows
<1>3. /\ survey' \in SurveyRecord
      /\ survey'.pc = survey.pc /\ survey'.args = survey.args /\ survey'.range = survey.range
      /\ survey'.total = survey.total /\ survey'.new = survey.new
      /\ survey'.first = survey.first /\ survey'.second = survey.second
      /\ survey'.perDay = survey.perDay /\ survey'.touched = survey.touched \cup {x}
  <2>1. survey' = [survey EXCEPT !.touched = @ \cup {x}]
    BY <1>2 DEF Disturb, SurveyRecord
  <2> QED
    BY <1>2, <2>1 DEF SurveyRecord
<1>4. \A c : /\ c \in AskedRows => c \in AskedRows' /\ c \in Clients
             /\ c \in AskedRows' /\ c # x => c \in AskedRows
  BY <1>3 DEF AskedRows, Asked, InRange, OfVendor, OfLabel, ArrivedIn, ClientRows
<1>5. \A c \in Clients : Moved(c)' <=> Moved(c) \/ c = x \/ ClientRow[c].seller = x
  BY <1>3 DEF Moved
<1>6. ASSUME NEW c \in Clients, ~(Moved(c)')
      PROVE  (IsFirst(c)' <=> IsFirst(c)) /\ (IsSecond(c)' <=> IsSecond(c))
  <2>1. client'[c] = client[c]
    BY <1>5, <1>6
  <2>2. vendor'[ClientRow[c].seller] = vendor[ClientRow[c].seller]
    BY <1>5, <1>6, OfTheClients
  <2> QED
    BY <1>3, <2>1, <2>2 DEF IsFirst, IsSecond
<1>7. Counted'
  <2>1. PICK R : R = AskedRows \ survey.touched
    OBVIOUS
  <2>2. PICK T : T = AskedRows' \ survey'.touched
    OBVIOUS
  <2>3. T \subseteq R /\ R \subseteq Clients
    BY <1>3, <1>4, <2>1, <2>2
  <2>4. /\ Cardinality(T) \in Nat /\ Cardinality(R) \in Nat
        /\ Cardinality(T) <= Cardinality(R)
    BY <2>3, OfTheClients, FS_Subset, FS_CardinalityType
  <2>5. survey.pc # "total" => Cardinality(R) <= survey.total
    BY <2>1 DEF SurveyKnows, Counted
  <2>6. survey.total \in Nat
    BY <1>2 DEF SurveyRecord
  <2> QED
    BY <1>3, <2>2, <2>4, <2>5, <2>6 DEF Counted
<1>8. NewAreLive'
  <2> SUFFICES ASSUME survey.pc = "byRange", NEW c \in survey.new, c \notin survey.touched, c # x
               PROVE  c \in AskedLive(survey.args)'
    BY <1>3 DEF NewAreLive
  <2>1. c \in AskedLive(survey.args)
    BY DEF SurveyKnows, NewAreLive
  <2> QED
    BY <1>3, <2>1 DEF AskedLive, Asked, OfVendor, OfLabel, ClientRows, LiveClients
<1>9. FirstFound'
  <2> SUFFICES ASSUME survey.pc \in {"inactive", "clients", "gone", "sellers"}
               PROVE  /\ survey.first \subseteq AskedRows'
                      /\ \A c \in survey.first : ClientRow[c].day \in survey.range
                      /\ \A c \in survey.first : (Moved(c) \/ IsFirst(c))'
                      /\ \A c \in survey.new \ survey'.touched :
                            ClientRow[c].day \in survey.range => c \in survey.first
    BY <1>3 DEF FirstFound
  <2>1. FirstFound /\ survey.first \subseteq Clients
    BY <1>2 DEF SurveyKnows, SurveyRecord
  <2>2. survey.first \subseteq AskedRows'
    BY <1>4, <2>1 DEF FirstFound
  <2>3. \A c \in survey.first : (Moved(c) \/ IsFirst(c))'
    BY <1>5, <1>6, <2>1 DEF FirstFound
  <2> QED
    BY <1>3, <2>1, <2>2, <2>3 DEF FirstFound
<1>10. SecondFound'
  <2> SUFFICES ASSUME survey.pc \in {"clients", "sellers"}
               PROVE  /\ survey.second \subseteq AskedRows'
                      /\ \A c \in survey.second : (Moved(c) \/ IsSecond(c))'
                      /\ survey.perDay = CountPerDay(survey.first, survey.range)
    BY <1>3 DEF SecondFound
  <2>1. SecondFound /\ survey.second \subseteq Clients
    BY <1>2 DEF SurveyKnows, SurveyRecord
  <2>2. survey.second \subseteq AskedRows'
    BY <1>4, <2>1 DEF SecondFound
  <2>3. \A c \in survey.second : (Moved(c) \/ IsSecond(c))'
    BY <1>5, <1>6, <2>1 DEF SecondFound
  <2> QED
    BY <2>1, <2>2, <2>3 DEF SecondFound
<1> QED
  BY <1>3, <1>7, <1>8, <1>9, <1>10 DEF SurveyKnows

LEMMA ReportsBegin ==
    ASSUME NEW a \in Surveys, ClientReport(a) \/ SellerReport(a)
    PROVE  SurveyKnows'
<1>1. a.from \in Days \cup {NotGiven} /\ a.to \in Days \cup {NotGiven}
  BY OfTheClients
<1>2. CASE ClientReport(a)
  <2>1. PICK rows \in SUBSET Days : rows = ActiveDays(NotGiven)
    BY OfTheClients DEF ActiveDays, OfLabel, ClientRows
  <2>2. PICK range \in SUBSET Calendar : range = ReportRange(a, rows)
    BY <1>1, RangesAreInTheCalendar
  <2>3. survey' = [pc |-> "total", args |-> a, touched |-> {}, range |-> range, total |-> 0,
                   new |-> {}, first |-> {}, second |-> {}, perDay |-> <<>>]
        /\ a.kind = "clients"
    BY <1>2, <2>1, <2>2 DEF ClientReport, Begun
  <2>4. survey' \in SurveyRecord
    BY <2>3 DEF SurveyRecord
  <2> QED
    BY <2>3, <2>4 DEF SurveyKnows, Counted, NewAreLive, FirstFound, SecondFound
<1>3. CASE SellerReport(a)
  <2>1. PICK range \in SUBSET Calendar : range = DashboardRange(a)
    BY <1>1, RangesAreInTheCalendar
  <2>2. PICK n \in Nat : n = Cardinality(InRange(a, range))
    BY OfTheClients, RowsAreClients, FS_Subset, FS_CardinalityType
  <2>3. survey' = [pc |-> "active", args |-> a, touched |-> {}, range |-> range, total |-> n,
                   new |-> {}, first |-> {}, second |-> {}, perDay |-> <<>>]
        /\ a.kind = "sellers"
    BY <1>3, <2>1, <2>2 DEF SellerReport, Begun
  <2>4. survey' \in SurveyRecord
    BY <2>3 DEF SurveyRecord
  <2>5. InRange(a, range)' = InRange(a, range)
    BY <1>3, SameRows DEF SellerReport
  <2>6. survey'.args = a /\ survey'.range = range /\ survey'.touched = {} /\ survey'.total = n
    BY <2>3
  <2>7. AskedRows' = InRange(a, range)
    BY <1>3, <2>3, <2>5, <2>6 DEF AskedRows, SellerReport
  <2>8. InRange(a, range) \ {} = InRange(a, range) /\ n <= n
    OBVIOUS
  <2>9. Counted'
    BY <2>2, <2>6, <2>7, <2>8 DEF Counted
  <2> QED
    BY <2>3, <2>4, <2>9 DEF SurveyKnows, NewAreLive, FirstFound, SecondFound
<1> QED
  BY <1>2, <1>3

\* the queries of the report on clients
LEMMA ClientQueriesAreKnown ==
    ASSUME SurveyKnows,
           CountClients \/ FindNewClients \/ FindClientsByRange \/ FindInactiveClients
    PROVE  SurveyKnows'
<1>1. /\ survey \in SurveyRecord /\ survey.args.kind = "clients" /\ survey # Unasked
      /\ Counted /\ NewAreLive /\ FirstFound /\ SecondFound
  BY DEF SurveyKnows, Unasked, CountClients, FindNewClients, FindClientsByRange,
         FindInactiveClients
<1>2. UNCHANGED <<client, vendor>>
  BY DEF CountClients, FindNewClients, FindClientsByRange, FindInactiveClients
<1>3. PICK a \in Surveys : a = survey.args
  BY <1>1 DEF SurveyRecord
<1>4. PICK R \in SUBSET Clients : R = Asked(a)
  BY RowsAreClients
<1>5. survey'.args = a => AskedRows' = R
  BY <1>1, <1>2, <1>3, <1>4, SameRows DEF AskedRows
<1>6. AskedRows = R
  BY <1>1, <1>3, <1>4 DEF AskedRows
<1>7. CASE CountClients
  <2>1. PICK n \in Nat : n = Cardinality(R)
    BY OfTheClients, FS_Subset, FS_CardinalityType
  <2>2. survey' = [survey EXCEPT !.pc = "new", !.touched = {}, !.total = n]
    BY <1>3, <1>4, <1>7, <2>1 DEF CountClients
  <2>3. survey' \in SurveyRecord
    BY <1>1, <2>2 DEF SurveyRecord
  <2>4. /\ survey'.pc = "new" /\ survey'.args = a /\ survey'.touched = {}
        /\ survey'.total = n
    BY <1>1, <1>3, <2>2 DEF SurveyRecord
  <2>5. Counted'
    BY <1>5, <2>1, <2>4 DEF Counted
  <2> QED
    BY <1>1, <1>3, <2>3, <2>4, <2>5 DEF SurveyKnows, NewAreLive, FirstFound, SecondFound
<1>8. CASE FindNewClients
  <2>1. PICK new \in SUBSET Clients : new = {c \in AskedLive(a) : ClientRow[c].fresh}
    BY RowsAreClients
  <2>2. survey' = [survey EXCEPT !.pc = "byRange", !.new = new]
    BY <1>3, <1>8, <2>1 DEF FindNewClients
  <2>3. survey' \in SurveyRecord
    BY <1>1, <2>2 DEF SurveyRecord
  <2>4. /\ survey'.pc = "byRange" /\ survey'.args = a /\ survey'.touched = survey.touched
        /\ survey'.total = survey.total /\ survey'.new = new
    BY <1>1, <1>3, <2>2 DEF SurveyRecord
  <2>5. Counted'
    BY <1>1, <1>5, <1>6, <1>8, <2>4 DEF Counted, FindNewClients
  <2>6. NewAreLive'
    BY <1>2, <2>1, <2>4, SameRows DEF NewAreLive
  <2> QED
    BY <1>1, <1>3, <2>3, <2>4, <2>5, <2>6 DEF SurveyKnows, FirstFound, SecondFound
<1>9. CASE FindClientsByRange
  <2>1. PICK range : range = survey.range
    OBVIOUS
  <2>2. PICK first \in SUBSET Clients : first = ArrivedIn(AskedLive(a), range)
    BY RowsAreClients DEF ArrivedIn
  <2>3. survey' = [survey EXCEPT !.pc = "inactive", !.first = first]
    BY <1>3, <1>9, <2>1, <2>2 DEF FindClientsByRange
  <2>4. survey' \in SurveyRecord
    BY <1>1, <2>3 DEF SurveyRecord
  <2>5. /\ survey'.pc = "inactive" /\ survey'.args = a /\ survey'.touched = survey.touched
        /\ survey'.total = survey.total /\ survey'.new = survey.new /\ survey'.first = first
        /\ survey'.range = range
    BY <1>1, <1>3, <2>1, <2>3 DEF SurveyRecord
  <2>6. Counted'
    BY <1>1, <1>5, <1>6, <1>9, <2>5 DEF Counted, FindClientsByRange
  <2>7. first \subseteq R /\ \A c \in first : ClientRow[c].day \in range
    BY <1>4, <2>2, RowsAreClients DEF ArrivedIn
  <2>8. \A c \in first : IsFirst(c)'
    BY <1>1, <1>2, <1>3, <2>2, <2>5 DEF IsFirst, ArrivedIn, AskedLive, LiveClients
  <2>9. \A c \in survey.new \ survey.touched : c \in AskedLive(a)
    BY <1>1, <1>3, <1>9 DEF NewAreLive, FindClientsByRange
  <2>10. \A c \in survey.new \ survey.touched : ClientRow[c].day \in range => c \in first
    BY <2>2, <2>9 DEF ArrivedIn
  <2>11. FirstFound'
    BY <1>5, <2>5, <2>7, <2>8, <2>10 DEF FirstFound
  <2> QED
    BY <1>1, <1>3, <2>4, <2>5, <2>6, <2>11 DEF SurveyKnows, NewAreLive, SecondFound
<1>10. CASE FindInactiveClients
  <2>1. PICK range \in SUBSET Calendar : range = survey.range
    BY <1>1 DEF SurveyRecord
  <2>2. PICK first \in SUBSET Clients : first = survey.first
    BY <1>1 DEF SurveyRecord
  <2>3. PICK second \in SUBSET Clients :
           second = {c \in ArrivedIn(R, range) : client[c].info = "DELETED"}
    BY DEF ArrivedIn
  <2>4. PICK perDay \in [range -> Nat] : perDay = CountPerDay(first, range)
    BY CountsPerDay
  <2>5. survey' = [survey EXCEPT !.pc = "clients", !.second = second, !.perDay = perDay]
    BY <1>3, <1>4, <1>10, <2>1, <2>2, <2>3, <2>4 DEF FindInactiveClients
  <2>6. survey' \in SurveyRecord
    BY <1>1, <2>5 DEF SurveyRecord
  <2>7. /\ survey'.pc = "clients" /\ survey'.args = a /\ survey'.touched = survey.touched
        /\ survey'.total = survey.total /\ survey'.new = survey.new /\ survey'.first = first
        /\ survey'.range = range /\ survey'.second = second /\ survey'.perDay = perDay
    BY <1>1, <1>3, <2>1, <2>2, <2>5 DEF SurveyRecord
  <2>8. Counted'
    BY <1>1, <1>5, <1>6, <1>10, <2>7 DEF Counted, FindInactiveClients
  <2>9. /\ first \subseteq R /\ \A c \in first : ClientRow[c].day \in range
        /\ \A c \in first : Moved(c) \/ IsFirst(c)
        /\ \A c \in survey.new \ survey.touched : ClientRow[c].day \in range => c \in first
    BY <1>1, <1>6, <1>10, <2>1, <2>2 DEF FirstFound, FindInactiveClients
  <2>10. \A c : (Moved(c)' <=> Moved(c)) /\ (IsFirst(c)' <=> IsFirst(c))
    BY <1>1, <1>2, <1>3, <2>7 DEF Moved, IsFirst
  <2>11. FirstFound'
    BY <1>5, <2>7, <2>9, <2>10 DEF FirstFound
  <2>12. second \subseteq R /\ \A c \in second : IsSecond(c)'
    BY <1>1, <1>2, <1>3, <2>3, <2>7 DEF IsSecond, ArrivedIn
  <2>13. SecondFound'
    BY <1>5, <2>4, <2>7, <2>12 DEF SecondFound
  <2> QED
    BY <1>1, <1>3, <2>6, <2>7, <2>8, <2>11, <2>13 DEF SurveyKnows, NewAreLive
<1> QED
  BY <1>7, <1>8, <1>9, <1>10

\* the queries of the report on sellers
LEMMA SellerQueriesAreKnown ==
    ASSUME SurveyKnows, FindActiveSellers \/ FindInactiveSellers
    PROVE  SurveyKnows'
<1>1. /\ survey \in SurveyRecord /\ survey.args.kind # "clients" /\ survey # Unasked
      /\ Counted /\ NewAreLive /\ FirstFound /\ SecondFound
  BY DEF SurveyKnows, Unasked, FindActiveSellers, FindInactiveSellers
<1>2. UNCHANGED <<client, vendor>>
  BY DEF FindActiveSellers, FindInactiveSellers
<1>3. PICK a \in Surveys : a = survey.args /\ a.kind = "sellers"
  BY <1>1, ClientReportsOK DEF SurveyRecord, Questions
<1>4. survey.new = {}
  BY <1>1, <1>3 DEF SurveyKnows
<1>5. PICK range \in SUBSET Calendar : range = survey.range
  BY <1>1 DEF SurveyRecord
<1>6. PICK R \in SUBSET Clients : R = InRange(a, range)
  BY RowsAreClients
<1>7. \A c \in R : ClientRow[c].day \in range
  BY <1>6 DEF InRange, ArrivedIn
<1>8. survey'.args = a /\ survey'.range = range => AskedRows' = R
  BY <1>1, <1>2, <1>3, <1>6, SameRows DEF AskedRows
<1>9. AskedRows = R
  BY <1>1, <1>3, <1>5, <1>6 DEF AskedRows
<1>10. CASE FindActiveSellers
  <2>1. PICK first \in SUBSET Clients : first = OfStatus(R, "ACTIVE")
    BY DEF OfStatus
  <2>2. survey' = [survey EXCEPT !.pc = "gone", !.first = first]
    BY <1>3, <1>5, <1>6, <1>10, <2>1 DEF FindActiveSellers
  <2>3. survey' \in SurveyRecord
    BY <1>1, <2>2 DEF SurveyRecord
  <2>4. /\ survey'.pc = "gone" /\ survey'.args = a /\ survey'.touched = survey.touched
        /\ survey'.total = survey.total /\ survey'.new = {} /\ survey'.first = first
        /\ survey'.range = range
    BY <1>1, <1>3, <1>4, <1>5, <2>2 DEF SurveyRecord
  <2>5. Counted'
    BY <1>1, <1>8, <1>9, <1>10, <2>4 DEF Counted, FindActiveSellers
  <2>6. first \subseteq R /\ \A c \in first : IsFirst(c)'
    BY <1>2, <1>3, <2>1, <2>4 DEF IsFirst, OfStatus
  <2>7. FirstFound'
    BY <1>7, <1>8, <2>4, <2>6 DEF FirstFound
  <2> QED
    BY <1>3, <2>3, <2>4, <2>5, <2>7 DEF SurveyKnows, NewAreLive, SecondFound
<1>11. CASE FindInactiveSellers
  <2>1. PICK first \in SUBSET Clients : first = survey.first
    BY <1>1 DEF SurveyRecord
  <2>2. PICK second \in SUBSET Clients : second = OfStatus(R, "DELETED")
    BY DEF OfStatus
  <2>3. PICK perDay \in [range -> Nat] : perDay = CountPerDay(first, range)
    BY CountsPerDay
  <2>4. survey' = [survey EXCEPT !.pc = "sellers", !.second = second, !.perDay = perDay]
    BY <1>3, <1>5, <1>6, <1>11, <2>1, <2>2, <2>3 DEF FindInactiveSellers
  <2>5. survey' \in SurveyRecord
    BY <1>1, <2>4 DEF SurveyRecord
  <2>6. /\ survey'.pc = "sellers" /\ survey'.args = a /\ survey'.touched = survey.touched
        /\ survey'.total = survey.total /\ survey'.new = {} /\ survey'.first = first
        /\ survey'.range = range /\ survey'.second = second /\ survey'.perDay = perDay
    BY <1>1, <1>3, <1>4, <1>5, <2>1, <2>4 DEF SurveyRecord
  <2>7. Counted'
    BY <1>1, <1>8, <1>9, <1>11, <2>6 DEF Counted, FindInactiveSellers
  <2>8. first \subseteq R /\ \A c \in first : Moved(c) \/ IsFirst(c)
    BY <1>1, <1>9, <1>11, <2>1 DEF FirstFound, FindInactiveSellers
  <2>9. \A c : (Moved(c)' <=> Moved(c)) /\ (IsFirst(c)' <=> IsFirst(c))
    BY <1>1, <1>2, <1>3, <2>6 DEF Moved, IsFirst
  <2>10. FirstFound'
    BY <1>7, <1>8, <2>6, <2>8, <2>9 DEF FirstFound
  <2>11. second \subseteq R /\ \A c \in second : IsSecond(c)'
    BY <1>2, <1>3, <2>2, <2>6 DEF IsSecond, OfStatus
  <2>12. SecondFound'
    BY <1>8, <2>3, <2>6, <2>11 DEF SecondFound
  <2> QED
    BY <1>3, <2>5, <2>6, <2>7, <2>10, <2>12 DEF SurveyKnows, NewAreLive
<1> QED
  BY <1>10, <1>11

LEMMA ClientTablesStayTyped ==
    ASSUME ClientTablesTyped, [ClientReportsNext]_clientReportVars
    PROVE  ClientTablesTyped'
<1> DEFINE Row == [life : {"none", "live", "deleted"}, info : {"none", "ACTIVE", "DELETED"},
                   loggedIn : BOOLEAN]
<1>1. client \in [Clients -> Row] /\ vendor \in [Vendors -> {"ACTIVE", "DELETED"}]
  BY DEF ClientTablesTyped
<1>2. CASE UNCHANGED <<client, vendor>>
  BY <1>1, <1>2 DEF ClientTablesTyped
<1>3. ASSUME NEW c \in Clients, NEW row \in Row, WriteClient(c, row) PROVE ClientTablesTyped'
  BY <1>1, <1>3 DEF WriteClient, ClientTablesTyped
<1>4. ASSUME NEW c \in Clients,
             CreateClient(c) \/ LogIn(c) \/ MarkClient(c) \/ DropClient(c) \/ ReviveClient(c)
      PROVE  \E row \in Row : WriteClient(c, row)
  <2>1. /\ [life |-> "live", info |-> "ACTIVE", loggedIn |-> FALSE] \in Row
        /\ [client[c] EXCEPT !.loggedIn = TRUE] \in Row
        /\ [client[c] EXCEPT !.info = "DELETED"] \in Row
        /\ [client[c] EXCEPT !.life = "deleted"] \in Row
        /\ [client[c] EXCEPT !.life = "live", !.info = "ACTIVE"] \in Row
    BY <1>1
  <2> HIDE DEF Row
  <2> QED
    BY <1>4, <2>1 DEF CreateClient, LogIn, MarkClient, DropClient, ReviveClient
<1>5. ASSUME NEW v \in Vendors, SetVendor(v, "ACTIVE") \/ SetVendor(v, "DELETED")
      PROVE  ClientTablesTyped'
  BY <1>1, <1>5 DEF SetVendor, ClientTablesTyped
<1>6. ASSUME NEW a \in Surveys, ClientReport(a) \/ SellerReport(a)
      PROVE  UNCHANGED <<client, vendor>>
  BY <1>6 DEF ClientReport, SellerReport
<1>7. CASE \/ CountClients \/ FindNewClients \/ FindClientsByRange \/ FindInactiveClients
           \/ FindActiveSellers \/ FindInactiveSellers \/ Reply
  BY <1>2, <1>7 DEF CountClients, FindNewClients, FindClientsByRange, FindInactiveClients,
                    FindActiveSellers, FindInactiveSellers, Reply
<1> HIDE DEF Row
<1> QED
  BY <1>2, <1>3, <1>4, <1>5, <1>6, <1>7 DEF ClientReportsNext, clientReportVars

LEMMA SurveyInvHolds == ClientReportsSpec => []SurveyInv
<1>1. ClientReportsInit => SurveyInv
  BY DEF ClientReportsInit, ClientTablesInit, SurveyInv, ClientTablesTyped, SurveyKnows
<1>2. ASSUME SurveyInv, [ClientReportsNext]_clientReportVars PROVE SurveyInv'
  <2>1. SurveyKnows /\ ClientTablesTyped /\ ClientTablesTyped'
    BY <1>2, ClientTablesStayTyped DEF SurveyInv
  <2> SUFFICES SurveyKnows'
    BY <2>1 DEF SurveyInv
  <2>2. ASSUME NEW c \in Clients,
               CreateClient(c) \/ LogIn(c) \/ MarkClient(c) \/ DropClient(c) \/ ReviveClient(c)
        PROVE  SurveyKnows'
    <3>1. /\ Disturb(c) /\ vendor' = vendor
          /\ \A d \in Clients : /\ d # c => client'[d] = client[d]
                                /\ client[d].life # "none" => client'[d].life # "none"
      BY <2>1, <2>2 DEF CreateClient, LogIn, MarkClient, DropClient, ReviveClient, WriteClient,
                        ClientTablesTyped
    <3> QED
      BY <2>1, <3>1, DisturbancesAreKnown
  <2>3. ASSUME NEW v \in Vendors, SetVendor(v, "ACTIVE") \/ SetVendor(v, "DELETED")
        PROVE  SurveyKnows'
    <3>1. /\ Disturb(v) /\ client' = client
          /\ \A w \in Vendors : w # v => vendor'[w] = vendor[w]
      BY <2>1, <2>3 DEF SetVendor, ClientTablesTyped
    <3> QED
      BY <2>1, <3>1, DisturbancesAreKnown
  <2>4. ASSUME NEW a \in Surveys, ClientReport(a) \/ SellerReport(a) PROVE SurveyKnows'
    BY <2>4, ReportsBegin
  <2>5. CASE CountClients \/ FindNewClients \/ FindClientsByRange \/ FindInactiveClients
    BY <2>1, <2>5, ClientQueriesAreKnown
  <2>6. CASE FindActiveSellers \/ FindInactiveSellers
    BY <2>1, <2>6, SellerQueriesAreKnown
  <2>7. CASE Reply
    BY <2>7 DEF Reply, SurveyKnows
  <2>8. CASE UNCHANGED clientReportVars
    <3>1. client' = client /\ vendor' = vendor /\ survey' = survey
      BY <2>8 DEF clientReportVars
    <3>2. AskedRows' = AskedRows
      BY <3>1, SameRows DEF AskedRows
    <3>3. NewAreLive' <=> NewAreLive
      BY <3>1, SameRows DEF NewAreLive
    <3>4. \A c : /\ Moved(c)' <=> Moved(c)
                 /\ IsFirst(c)' <=> IsFirst(c)
                 /\ IsSecond(c)' <=> IsSecond(c)
      BY <3>1 DEF Moved, IsFirst, IsSecond
    <3>5. (Counted' <=> Counted) /\ (FirstFound' <=> FirstFound) /\ (SecondFound' <=> SecondFound)
      BY <3>1, <3>2, <3>4, Zenon DEF Counted, FirstFound, SecondFound
    <3> QED
      BY <2>1, <3>1, <3>3, <3>5 DEF SurveyKnows
  <2> QED
    BY <1>2, <2>2, <2>3, <2>4, <2>5, <2>6, <2>7, <2>8 DEF ClientReportsNext
<1> QED
  BY <1>1, <1>2, PTL DEF ClientReportsSpec

LEMMA CountedOnce == SurveyInv => NobodyIsCountedTwice
<1> SUFFICES ASSUME SurveyInv, survey.pc \in {"clients", "sellers"}
             PROVE  /\ \A c \in survey.first \cap survey.second : Moved(c) \/ HalfRemoved(c)
                    /\ Cardinality({c \in survey.first \cup survey.second : ~Moved(c)})
                         <= survey.total
                    /\ \A c \in survey.new \ survey.touched :
                          ClientRow[c].day \in survey.range => c \in survey.first
                    /\ SumFunction(survey.perDay) = Cardinality(survey.first)
  BY DEF NobodyIsCountedTwice
<1>1. survey \in SurveyRecord /\ Counted /\ FirstFound /\ SecondFound
  BY DEF SurveyInv, SurveyKnows, Unasked
<1>2. ASSUME NEW c \in survey.first \cap survey.second PROVE Moved(c) \/ HalfRemoved(c)
  BY <1>1 DEF FirstFound, SecondFound, IsFirst, IsSecond, HalfRemoved
<1>3. Cardinality({c \in survey.first \cup survey.second : ~Moved(c)}) <= survey.total
  <2>1. PICK T : T = {c \in survey.first \cup survey.second : ~Moved(c)}
    OBVIOUS
  <2>2. PICK R : R = AskedRows \ survey.touched
    OBVIOUS
  <2>3. R \subseteq Clients
    BY <2>2, RowsAreClients DEF AskedRows
  <2>4. T \subseteq R
    BY <1>1, <2>1, <2>2 DEF FirstFound, SecondFound, Moved
  <2>5. /\ Cardinality(T) \in Nat /\ Cardinality(R) \in Nat
        /\ Cardinality(T) <= Cardinality(R)
    BY <2>3, <2>4, OfTheClients, FS_Subset, FS_CardinalityType
  <2>6. Cardinality(R) <= survey.total /\ survey.total \in Nat
    BY <1>1, <2>2 DEF Counted, SurveyRecord
  <2> QED
    BY <2>1, <2>5, <2>6
<1>4. SumFunction(survey.perDay) = Cardinality(survey.first)
  <2>1. PICK range \in SUBSET Calendar : range = survey.range
    BY <1>1 DEF SurveyRecord
  <2>2. PICK first \in SUBSET Clients : first = survey.first
    BY <1>1 DEF SurveyRecord
  <2>3. \A c \in first : ClientRow[c].day \in range
    BY <1>1, <2>1, <2>2 DEF FirstFound
  <2>4. SumFunction(CountPerDay(first, range)) = Cardinality(first)
    BY <2>3, CountsPerDay
  <2> QED
    BY <1>1, <2>1, <2>2, <2>4 DEF SecondFound
<1> QED
  BY <1>1, <1>2, <1>3, <1>4 DEF FirstFound

LEMMA ClientSearchesHold == ClientSearchesNarrow
<1>1. ASSUME NEW a, NEW v, NEW kw
      PROVE  /\ FindManyClients(a, "SELLER", kw, FALSE) \subseteq BaseList(a, NotGiven)
             /\ FindManyClients(a, "none", kw, FALSE) \subseteq BaseList(a, NotGiven)
  BY DEF FindManyClients, QueryForSeller, QueryOfSeller
<1>2. ASSUME NEW a, NEW v \in Vendors
      PROVE  \A c : c \in BaseList(a, v) <=> c \in BaseList(a, NotGiven) /\ c \in OfVendor(Clients, v)
  BY DEF BaseList, ArrivedIn, OfVendor, OfLabel, LiveClients
<1>3. ASSUME NEW a, NEW v \in Vendors, NEW kw
      PROVE  SellerFindManyClients(a, kw, FALSE, v)
               = FindManyClients(a, "none", kw, FALSE) \cap OfVendor(Clients, v)
  BY <1>2 DEF SellerFindManyClients, FindManyClients, QueryForSeller
<1>4. ASSUME NEW a, NEW v \in Vendors, NEW kw
      PROVE  /\ SellerFindManyClients(a, kw, TRUE, v) \cap OfLabel(Clients, a.brand)
                  \subseteq SellerFindManyClients(a, kw, FALSE, v)
             /\ SellerFindManyClients(a, kw, FALSE, v) \subseteq LiveClients
  BY DEF SellerFindManyClients, QueryForSeller, ClientLoggedIn, BaseList, ArrivedIn, OfVendor,
         OfLabel, LiveClients
<1> QED
  BY <1>1, <1>3, <1>4 DEF ClientSearchesNarrow

\* Whatever is written between its queries, a report on clients or sellers has nobody among the
\* active and the inactive ones but who was written in between or is half removed, its total has
\* room for all who were not, and each client it shows is counted on one day.
THEOREM NobodyIsEverCountedTwice == ClientReportsSpec => []NobodyIsCountedTwice
BY SurveyInvHolds, CountedOnce, PTL

\* A search of clients always narrows its list, and a seller finds what an administrator finds
\* among the seller's clients.
THEOREM ClientSearchesAlwaysNarrow == ClientReportsSpec => []ClientSearchesNarrow
<1>1. ClientSearchesNarrow
  BY ClientSearchesHold
<1> QED
  BY <1>1, PTL
=============================================================================
