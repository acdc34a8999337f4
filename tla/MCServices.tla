------------------------------ MODULE MCServices ------------------------------
(* The services that share no state with each other, checked in one run: a *)
(* behaviour is about one of them, and the others stay as they began.      *)
EXTENDS Accounts, ClientBrands, Credentials, Chat, ProspectBoard, DailyRatings, Images, CsvImport

VARIABLE topic

FirstEmails == (1 :> "e1") @@ (2 :> "e2")
\* no alternate email, or a live one of the second user and a deleted one of the first
FirstLists == {{}, {[user |-> 2, email |-> "e3", live |-> TRUE],
                    [user |-> 1, email |-> "e3", live |-> FALSE]}}
AskedLists == {<<>>, <<"e3">>, <<"e2", "e3">>}

\* the second user's email is also an alternate email of the first, who logs in by a1 as well
PersonEmails == ("u1" :> "m1") @@ ("u2" :> "m2") @@ ("c1" :> "m1")
FurtherEmails == ("u1" :> {"a1", "m2"}) @@ ("u2" :> {"a2"})

\* the second talker may be connected twice; one socket has no token
SocketOwners == ("k1" :> "t1") @@ ("k2" :> "t2") @@ ("k3" :> "t2")

Row(id, parent, named, status, by) ==
    [id |-> id, parent |-> parent, seller |-> 1, named |-> named, status |-> status, by |-> by]
\* two new rows, a row whose id may be there, rows without a parent or a name
SomeFiles == {<<Row(3, 1, TRUE, "1", "0"), Row(4, 2, TRUE, "0", "2")>>,
              <<Row(5, 1, TRUE, "0", "1"), Row(1, 1, FALSE, "1", "0")>>,
              <<Row(4, 0, FALSE, "1", "1"), Row(6, 4, TRUE, "1", "1")>>}
Old(id, parent, by) == [id |-> id, parent |-> parent, deleted |-> FALSE, by |-> by]
OldTables == [t \in Tables |->
    CASE t = "task" -> {Old(1, 1, "AUTO"), Old(2, 0, "ACCOUNTANT")}
      [] t \in {"user", "client", "company", "order", "orderLog"} -> {Old(1, 1, "none")}
      [] OTHER -> {}]

ServicesInit ==
    /\ topic \in {"accounts", "brands", "credentials", "chat", "board", "ratings", "images", "csv"}
    /\ AccountsInit /\ ClientBrandsInit /\ CredentialsInit /\ ChatInit
    /\ BoardInit /\ RatingsInit /\ ImagesInit /\ CsvInit
    \* what a behaviour is not about begins in one way only
    /\ topic # "accounts" => alone /\ alias = {} /\ sale = NoUser
    /\ topic # "brands" => brandId = CHOOSE b \in Brands : TRUE
    /\ topic # "credentials" => single
    /\ topic # "board" => lone
    /\ topic # "ratings" => rated = <<>>
    /\ topic # "images" => apart

ServicesNext ==
    /\ UNCHANGED topic
    /\ \/ topic = "accounts" /\ AccountsNext
       \/ topic # "accounts" /\ UNCHANGED accountVars
    /\ \/ topic = "brands" /\ ClientBrandsNext
       \/ topic # "brands" /\ UNCHANGED brandVars
    /\ \/ topic = "credentials" /\ CredentialsNext
       \/ topic # "credentials" /\ UNCHANGED credentialVars
    /\ \/ topic = "chat" /\ ChatNext
       \/ topic # "chat" /\ UNCHANGED chatVars
    /\ \/ topic = "board" /\ BoardNext
       \/ topic # "board" /\ UNCHANGED boardVars
    /\ \/ topic = "ratings" /\ RatingsNext
       \/ topic # "ratings" /\ UNCHANGED ratingVars
    /\ \/ topic = "images" /\ ImagesNext
       \/ topic # "images" /\ UNCHANGED imageVars
    /\ \/ topic = "csv" /\ CsvNext
       \/ topic # "csv" /\ UNCHANGED csvVars

ServicesSpec ==
    ServicesInit
      /\ [][ServicesNext]_<<topic, accountVars, brandVars, credentialVars, chatVars, boardVars,
                            ratingVars, imageVars, csvVars>>
=============================================================================
