------------------------------ MODULE MCCascade ------------------------------
(* Values of the constants for model checking ClientCascade. *)
EXTENDS ClientCascade, TLC

CONSTANTS c1, k1, k2, o1, o2, t1, r1, r2

\* one client with an order in each of two companies; the first has a task
OneClientOf == o1 :> c1 @@ o2 :> c1
TwoCompanies == o1 :> k1 @@ o2 :> k2
OneTaskOf == t1 :> o1

\* one client with one order
OnlyClientOf == o1 :> c1
OnlyCompanyOf == o1 :> k1
=============================================================================
