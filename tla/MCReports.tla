------------------------------ MODULE MCReports ------------------------------
(***************************************************************************)
(* The reports on orders and those on clients share no table that one of    *)
(* them writes: a behaviour is about one of the two.                        *)
(***************************************************************************)
EXTENDS OrderReports, ClientReports, TLC

CONSTANTS o1, o2, v1, v2, v3, b1, b2, s1, s2, c1, c2

VARIABLE topic

ReviewOrders == (v1 :> o1) @@ (v2 :> o1) @@ (v3 :> o2)
OrderTable ==
    (o1 :> [brand |-> b1, seller |-> s1, clientSeller |-> s1, day |-> 0, orderDate |-> 1,
            reviewDay |-> 1, cost |-> 2, total_price |-> 4])
 @@ (o2 :> [brand |-> b2, seller |-> s1, clientSeller |-> s2, day |-> 2, orderDate |-> 2,
            reviewDay |-> 2, cost |-> 5, total_price |-> 5])
OrderTexts ==
    (o1 :> [clientName |-> {"x"}, clientEmail |-> {"x", "y"}, sellerName |-> {"y"},
            sellerEmail |-> {"y"}, alternateEmail |-> {"x"}, seller_email |-> {},
            id |-> {"y"}, company |-> {"y"}, remarks |-> {}, reviewer |-> {"x"}])
 @@ (o2 :> [clientName |-> {"y"}, clientEmail |-> {"y"}, sellerName |-> {"x"},
            sellerEmail |-> {"x"}, alternateEmail |-> {}, seller_email |-> {"x"},
            id |-> {"x"}, company |-> {}, remarks |-> {"x"}, reviewer |-> {}])
OrderQuestions ==
    {[from |-> NotGiven, to |-> 2, brand |-> NotGiven, seller |-> s1],
     [from |-> 0, to |-> NotGiven, brand |-> b2, seller |-> NotGiven]}

ClientTable ==
    (c1 :> [brand |-> b1, seller |-> s1, day |-> 0, fresh |-> FALSE])
 @@ (c2 :> [brand |-> b2, seller |-> s2, day |-> 2, fresh |-> TRUE])
ClientTexts ==
    (c1 :> [name |-> {"x"}, email |-> {}, phone |-> {"y"}, thirdPartyId |-> {"x", "y"},
            sellerName |-> {"y"}, sellerEmail |-> {}])
 @@ (c2 :> [name |-> {}, email |-> {"x", "y"}, phone |-> {"x"}, thirdPartyId |-> {},
            sellerName |-> {}, sellerEmail |-> {"x"}])
ClientQuestions ==
    [kind : {"clients"}, from : {0, NotGiven}, to : {2, NotGiven}, brand : {NotGiven, b1},
     seller : {NotGiven}]
  \cup
    [kind : {"sellers"}, from : {0, NotGiven}, to : {2}, brand : {NotGiven, b2},
     seller : {NotGiven}]

Lines == [from : {0, 1, NotGiven}, to : {1, NotGiven}, brand : {NotGiven, b1}]

Off == [pc |-> "off"]

Init ==
    \/ topic = "orders" /\ OrderReportsInit /\ ClientTablesInit /\ survey = Off
    \/ topic = "clients" /\ ClientReportsInit /\ OrderTablesInit /\ report = Off

Next ==
    /\ topic' = topic
    /\ \/ topic = "orders" /\ OrderReportsNext /\ UNCHANGED clientReportVars
       \/ topic = "clients" /\ ClientReportsNext /\ UNCHANGED orderReportVars

Spec == Init /\ [][Next]_<<topic, order, review, report, client, vendor, survey>>
=============================================================================
