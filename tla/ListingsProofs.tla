---------------------------- MODULE ListingsProofs ----------------------------
(***************************************************************************)
(* What sorted and filtered lists are, for every finite set and every order:*)
(* each element once, one before the other as the order has them.  The     *)
(* induction over finite sets is that a non-empty family of subsets of one *)
(* has a smallest member.                                                  *)
(***************************************************************************)
EXTENDS Listings, FiniteSetTheorems, WellFoundedInduction, TLAPS

\* before puts all elements of S in one order
InLine(before, S) ==
    /\ \A x, y \in S : <<x, y>> \in before /\ <<y, x>> \in before => FALSE
    /\ \A x, y \in S : x = y \/ <<x, y>> \in before \/ <<y, x>> \in before
    /\ \A x, y, z \in S : <<x, y>> \in before /\ <<y, z>> \in before => <<x, z>> \in before

\* the elements of S one after the other, each before the next
IsListing(f, S, before) ==
    /\ f \in [1 .. Cardinality(S) -> S]
    /\ \A m, n \in 1 .. Cardinality(S) : m < n => <<f[m], f[n]>> \in before

LEMMA SmallestSet ==
    ASSUME NEW S, IsFiniteSet(S), NEW F, F \subseteq SUBSET S, F # {}
    PROVE  \E T \in F : \A U \in F : U \subseteq T => U = T
<1>1. F \subseteq FiniteSubsetsOf(S)
  BY FS_Subset DEF FiniteSubsetsOf
<1>2. IsWellFoundedOn(StrictSubsetOrdering(S), FiniteSubsetsOf(S))
  BY FS_StrictSubsetOrderingWellFounded
<1>3. PICK T \in F : \A U \in F : ~ (<<U, T>> \in StrictSubsetOrdering(S))
  BY <1>1, <1>2, WFMin
<1>4. \A U \in F : U \subseteq T => U = T
  BY <1>1, <1>3 DEF StrictSubsetOrdering, FiniteSubsetsOf
<1> QED
  BY <1>4

LEMMA FirstElement ==
    ASSUME NEW S, IsFiniteSet(S), S # {}, NEW before, InLine(before, S)
    PROVE  \E x \in S : \A y \in S \ {x} : <<x, y>> \in before
<1> DEFINE Ahead(x) == {y \in S : <<y, x>> \in before}
           F == {Ahead(x) : x \in S}
<1>1. F \subseteq SUBSET S /\ F # {}
  OBVIOUS
<1>2. PICK T \in F : \A U \in F : U \subseteq T => U = T
  <2> HIDE DEF F
  <2> QED BY <1>1, SmallestSet
<1>3. PICK x \in S : T = Ahead(x)
  OBVIOUS
<1>4. ASSUME NEW y \in S, <<y, x>> \in before PROVE FALSE
  <2>1. Ahead(y) \subseteq Ahead(x)
    BY <1>4 DEF InLine
  <2>2. Ahead(y) \in F
    OBVIOUS
  <2>3. Ahead(y) = Ahead(x)
    <3> HIDE DEF F, Ahead
    <3> QED BY <1>2, <1>3, <2>1, <2>2
  <2>4. y \in Ahead(x) /\ y \notin Ahead(y)
    BY <1>4 DEF InLine
  <2> QED
    BY <2>3, <2>4
<1> QED
  BY <1>4 DEF InLine

LEMMA ListingExists ==
    ASSUME NEW S, IsFiniteSet(S), NEW before, InLine(before, S)
    PROVE  \E f : IsListing(f, S, before)
<1> DEFINE F == {T \in SUBSET S : ~ \E f : IsListing(f, T, before)}
<1>1. SUFFICES ASSUME F # {} PROVE FALSE
  BY DEF F
<1>2. PICK T \in F : \A U \in F : U \subseteq T => U = T
  <2>1. F \subseteq SUBSET S
    OBVIOUS
  <2> HIDE DEF F
  <2> QED BY <1>1, <2>1, SmallestSet
<1>3. T \subseteq S /\ IsFiniteSet(T) /\ InLine(before, T)
  BY FS_Subset DEF InLine
<1>4. T # {}
  <2>1. IsListing([n \in 1 .. 0 |-> n], {}, before)
    BY FS_EmptySet DEF IsListing
  <2> QED
    BY <1>2, <2>1
<1>5. PICK x \in T : \A y \in T \ {x} : <<x, y>> \in before
  BY <1>3, <1>4, FirstElement
<1> DEFINE U == T \ {x}
           c == Cardinality(T)
<1>6. /\ IsFiniteSet(U) /\ Cardinality(U) = c - 1 /\ c \in Nat /\ c # 0
      /\ U \subseteq S /\ U # T
  BY <1>3, FS_RemoveElement, FS_CardinalityType, FS_EmptySet
<1>7. PICK f : IsListing(f, U, before)
  BY <1>2, <1>6
<1> DEFINE g == [n \in 1 .. c |-> IF n = 1 THEN x ELSE f[n - 1]]
<1>8. f \in [1 .. c - 1 -> U] /\ \A m, n \in 1 .. c - 1 : m < n => <<f[m], f[n]>> \in before
  BY <1>6, <1>7 DEF IsListing
<1>9. g \in [1 .. c -> T]
  BY <1>6, <1>8
<1>10. ASSUME NEW m \in 1 .. c, NEW n \in 1 .. c, m < n PROVE <<g[m], g[n]>> \in before
  <2>1. g[n] = f[n - 1] /\ n - 1 \in 1 .. c - 1
    BY <1>6, <1>10
  <2>2. CASE m = 1
    BY <1>5, <1>8, <2>1, <2>2
  <2>3. CASE m # 1
    <3>1. g[m] = f[m - 1] /\ m - 1 \in 1 .. c - 1 /\ m - 1 < n - 1
      BY <1>6, <1>10, <2>3
    <3> QED
      BY <1>8, <2>1, <3>1
  <2> QED
    BY <2>2, <2>3
<1>11. IsListing(g, T, before)
  BY <1>9, <1>10 DEF IsListing
<1> QED
  BY <1>2, <1>11

\* such a list has every element, and none of them twice
LEMMA ListingsList ==
    ASSUME NEW S, IsFiniteSet(S), NEW before, InLine(before, S), NEW f, IsListing(f, S, before)
    PROVE  /\ \A m, n \in 1 .. Cardinality(S) : f[m] = f[n] => m = n
           /\ \A x \in S : \E n \in 1 .. Cardinality(S) : f[n] = x
<1> DEFINE c == Cardinality(S)
<1>2. c \in Nat
  BY FS_CardinalityType
<1>3. f \in [1 .. c -> S] /\ \A m, n \in 1 .. c : m < n => <<f[m], f[n]>> \in before
  BY DEF IsListing
<1>4. \A m, n \in 1 .. c : f[m] = f[n] => m = n
  <2>1. ASSUME NEW m \in 1 .. c, NEW n \in 1 .. c, m < n PROVE f[m] # f[n]
    <3>1. <<f[m], f[n]>> \in before /\ f[m] \in S /\ f[n] \in S
      BY <1>3, <2>1
    <3> QED
      BY <3>1 DEF InLine
  <2> QED
    BY <1>2, <2>1
<1>5. \A x \in S : \E n \in 1 .. c : f[n] = x
  <2>1. f \in Injection(1 .. c, S)
    BY <1>3, <1>4 DEF Injection, IsInjective
  <2>2. IsFiniteSet(1 .. c) /\ Cardinality(1 .. c) = c
    BY <1>2, FS_Interval
  <2>3. f \in Surjection(1 .. c, S)
    BY <2>1, <2>2, FS_Injection
  <2> QED
    BY <2>3 DEF Surjection
<1> QED
  BY <1>4, <1>5

\* the n-th has n - 1 before it
LEMMA AheadOfIt ==
    ASSUME NEW S, IsFiniteSet(S), NEW before, InLine(before, S), NEW f, IsListing(f, S, before),
           NEW n \in 1 .. Cardinality(S)
    PROVE  Cardinality({y \in S : <<y, f[n]>> \in before}) = n - 1
<1> DEFINE c == Cardinality(S)
           A == {y \in S : <<y, f[n]>> \in before}
           g == [m \in 1 .. n - 1 |-> f[m]]
<1>1. c \in Nat /\ f \in [1 .. c -> S]
  BY FS_CardinalityType DEF IsListing
<1>2. \A m, k \in 1 .. c : /\ m < k => <<f[m], f[k]>> \in before
                           /\ f[m] = f[k] => m = k
  BY ListingsList, ZenonT(60) DEF IsListing
<1>3. ASSUME NEW m \in 1 .. c PROVE f[m] \in A <=> m \in 1 .. n - 1
  <2>1. f[m] \in S /\ f[n] \in S
    BY <1>1
  <2>2. <<f[m], f[n]>> \in before => m < n
    <3>1. ~ (<<f[n], f[n]>> \in before)
      BY <2>1 DEF InLine
    <3>2. n < m => ~ (<<f[m], f[n]>> \in before)
      BY <1>2, <2>1 DEF InLine
    <3> QED
      BY <1>1, <3>1, <3>2
  <2> QED
    BY <1>1, <1>2, <2>1, <2>2
<1>4. \A y \in A : \E m \in 1 .. n - 1 : f[m] = y
  <2>1. \A y \in S : \E m \in 1 .. c : f[m] = y
    BY ListingsList
  <2> QED
    BY <1>3, <2>1
<1>5. 1 .. n - 1 \subseteq 1 .. c /\ n - 1 \in Nat
  BY <1>1
<1>6. g \in Bijection(1 .. n - 1, A)
  <2>1. g \in [1 .. n - 1 -> A] /\ \A m \in 1 .. n - 1 : g[m] = f[m]
    BY <1>3, <1>5
  <2> HIDE DEF g, A
  <2> QED
    BY <1>2, <1>4, <1>5, <2>1 DEF Bijection, Injection, Surjection, IsInjective
<1>7. ExistsBijection(1 .. n - 1, A)
  <2> HIDE DEF g, A
  <2> QED BY <1>6 DEF ExistsBijection
<1>8. IsFiniteSet(1 .. n - 1) /\ Cardinality(1 .. n - 1) = n - 1
  BY <1>5, FS_Interval
<1> HIDE DEF A
<1>9. Cardinality(A) = n - 1
  BY <1>7, <1>8, FS_Bijection
<1> QED
  BY <1>9 DEF A

\* ... and so the list that Listing chooses is one.
LEMMA ListingLists ==
    ASSUME NEW S, IsFiniteSet(S), NEW before, InLine(before, S)
    PROVE  /\ IsListing(Listing(S, before), S, before)
           /\ \A m, n \in 1 .. Cardinality(S) :
                 Listing(S, before)[m] = Listing(S, before)[n] => m = n
           /\ \A x \in S : \E n \in 1 .. Cardinality(S) : Listing(S, before)[n] = x
<1> DEFINE c == Cardinality(S)
           Ahead(x) == {y \in S : <<y, x>> \in before}
<1>1. PICK f : IsListing(f, S, before)
  BY ListingExists
<1>2. f \in [1 .. c -> S] /\ c \in Nat
  BY <1>1, FS_CardinalityType DEF IsListing
<1>3. \A n \in 1 .. c : Cardinality(Ahead(f[n])) = n - 1
  BY <1>1, AheadOfIt
<1>4. ASSUME NEW n \in 1 .. c PROVE (CHOOSE x \in S : Cardinality(Ahead(x)) = n - 1) = f[n]
  <2> DEFINE z == CHOOSE x \in S : Cardinality(Ahead(x)) = n - 1
  <2> HIDE DEF Ahead
  <2>1. z \in S /\ Cardinality(Ahead(z)) = n - 1
    BY <1>2, <1>3
  <2>2. PICK k \in 1 .. c : f[k] = z
    BY <1>1, <2>1, ListingsList
  <2>3. k = n
    BY <1>2, <1>3, <2>1, <2>2
  <2> QED
    BY <2>2, <2>3
<1>5. Listing(S, before) = f
  BY <1>2, <1>4 DEF Listing
<1> QED
  BY <1>1, <1>5, ListingsList
LEMMA AscendingOrders ==
    ASSUME NEW S \in SUBSET Nat
    PROVE  InLine(Ascending(S), S)
BY DEF InLine, Ascending

LEMMA SiftedProperties ==
    ASSUME NEW T, NEW s \in Seq(T), NEW keep
    PROVE  /\ Sifted(s, keep) \in Seq(T)
           /\ \A n \in 1 .. Len(Sifted(s, keep)) :
                 \E m \in 1 .. Len(s) : Sifted(s, keep)[n] = s[m] /\ s[m] \in keep
           /\ \A m \in 1 .. Len(s) : s[m] \in keep =>
                 \E n \in 1 .. Len(Sifted(s, keep)) : Sifted(s, keep)[n] = s[m]
           /\ (\A m, n \in 1 .. Len(s) : s[m] = s[n] => m = n) =>
                 \A m, n \in 1 .. Len(Sifted(s, keep)) :
                    Sifted(s, keep)[m] = Sifted(s, keep)[n] => m = n
<1> DEFINE at == {n \in DOMAIN s : s[n] \in keep}
           c == Cardinality(at)
           f == Listing(at, Ascending(at))
<1>1. DOMAIN s = 1 .. Len(s) /\ Len(s) \in Nat
  OBVIOUS
<1>2. IsFiniteSet(at) /\ at \subseteq Nat
  <2>1. IsFiniteSet(1 .. Len(s))
    BY <1>1, FS_Interval
  <2>2. at \in SUBSET (1 .. Len(s))
    BY <1>1
  <2> HIDE DEF at
  <2>3. IsFiniteSet(at)
    BY <2>1, <2>2, FS_Subset
  <2> QED
    BY <1>1, <2>2, <2>3
<1>0. \A m : m \in at <=> m \in 1 .. Len(s) /\ s[m] \in keep
  BY <1>1
<1> HIDE DEF at
<1>3. c \in Nat /\ InLine(Ascending(at), at)
  BY <1>2, FS_CardinalityType, AscendingOrders
<1>4. /\ f \in [1 .. c -> at]
      /\ \A m, n \in 1 .. c : f[m] = f[n] => m = n
      /\ \A x \in at : \E n \in 1 .. c : f[n] = x
  BY <1>2, <1>3, ListingLists DEF IsListing
<1>5. Sifted(s, keep) = [n \in 1 .. c |-> s[f[n]]]
  BY DEF Sifted, at
<1> HIDE DEF f, c
<1>6. /\ Sifted(s, keep) \in Seq(T) /\ Len(Sifted(s, keep)) = c
      /\ \A n \in 1 .. c : Sifted(s, keep)[n] = s[f[n]]
  BY <1>1, <1>3, <1>4, <1>5 DEF at
<1> DEFINE r == Sifted(s, keep)
<1> HIDE DEF r
<1>7. \A n \in 1 .. c : f[n] \in 1 .. Len(s) /\ s[f[n]] \in keep
  BY <1>0, <1>4
<1>8. r \in Seq(T) /\ Len(r) = c /\ \A n \in 1 .. c : r[n] = s[f[n]]
  BY <1>6 DEF r
<1>9. \A n \in 1 .. Len(r) : \E m \in 1 .. Len(s) : r[n] = s[m] /\ s[m] \in keep
  BY <1>7, <1>8
<1>10. \A m \in 1 .. Len(s) : s[m] \in keep => \E n \in 1 .. Len(r) : r[n] = s[m]
  BY <1>0, <1>4, <1>8
<1>11. (\A m, n \in 1 .. Len(s) : s[m] = s[n] => m = n) =>
          \A m, n \in 1 .. Len(r) : r[m] = r[n] => m = n
  BY <1>4, <1>7, <1>8
<1> QED
  BY <1>8, <1>9, <1>10, <1>11 DEF r
=============================================================================
