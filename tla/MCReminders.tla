------------------------------ MODULE MCReminders ------------------------------
(* Values of the constants for model checking PaymentReminders. *)
EXTENDS PaymentReminders, TLC

CONSTANTS o1, c1, c2, h1, h2

OneOrder    == {o1}
OneClient   == {c1}
OneLast     == c1 :> o1
TwoClients  == {c1, c2}
TwoLast     == c1 :> o1 @@ c2 :> NoOrder
HandlerSymmetry == Permutations({h1, h2})
=============================================================================
