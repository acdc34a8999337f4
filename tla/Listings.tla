------------------------------ MODULE Listings ------------------------------
(***************************************************************************)
(* Sorted and filtered lists.  An order is a set of pairs: <<x, y>> is in  *)
(* it when x comes before y.                                               *)
(***************************************************************************)
EXTENDS Naturals, FiniteSets, Sequences

\* the elements of S in the order: the n-th has n - 1 before it
Listing(S, before) ==
    [n \in 1 .. Cardinality(S) |->
        CHOOSE x \in S : Cardinality({y \in S : <<y, x>> \in before}) = n - 1]

Ascending(S) == {p \in S \X S : p[1] < p[2]}

\* the elements of a sequence that are in a set, in the order they have
Sifted(s, keep) ==
    LET at == {n \in DOMAIN s : s[n] \in keep}
    IN  [n \in 1 .. Cardinality(at) |-> s[Listing(at, Ascending(at))[n]]]
=============================================================================
