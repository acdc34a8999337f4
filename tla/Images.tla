-------------------------------- MODULE Images --------------------------------
(***************************************************************************)
(* Pictures in the image store and the columns that name them: the profile  *)
(* image of a user, the invoice image of an order, the logo of a brand.     *)
(* Each request works with the row it read first.                           *)
(***************************************************************************)
EXTENDS Naturals, FiniteSets

CONSTANTS Clerks,                 \* requests that may be in flight at once
          MaxPictures, MaxErrands \* bounds on the uploads and the requests

Pictured == {"user", "order", "brand"}

VARIABLES picture,   \* profile_image, invoice_image, logo; 0 for null
          brandLife, \* of the brand: none, live, deleted
          stored,    \* pictures in the image store
          uploaded, errand, errands, hitches,
          apart,     \* one request at a time
          dangling,     \* history: owners whose picture was destroyed, but not replaced or cleared
          left       \* history: pictures that were uploaded, but not named
imageVars == <<picture, brandLife, stored, uploaded, errand, errands, hitches, apart, dangling, left>>

Unused == [pc |-> "idle"]
Advance(k, pc) == errand' = [errand EXCEPT ![k].pc = pc]
Over(k) == errand' = [errand EXCEPT ![k] = Unused]
Limits == <<errands, hitches, apart>>
Who(k) == errand[k].who

Put(k, p) == /\ picture' = [picture EXCEPT ![Who(k)] = p]
             /\ dangling' = dangling \ {Who(k)}

----------------------------------------------------------------------------
\* findUnique and JwtGuard's user: the row as it is before anything else

ReadRow(k) ==
    /\ errand[k].pc = "read"
    /\ LET p == picture[Who(k)]
           op == errand[k].op
       IN  IF Who(k) = "brand" /\ (brandLife # "live" \/ (op = "clear" /\ p = 0))
           THEN Over(k)             \* not found
           ELSE errand' = [errand EXCEPT ![k].seen = p,
                              ![k].pc = IF p # 0 THEN "destroy" ELSE op]
    /\ UNCHANGED <<picture, brandLife, stored, uploaded, Limits, dangling, left>>

\* brands.service.ts create: the code is looked up before the upload
FindCode(k) ==
    /\ errand[k].pc = "findCode"
    /\ IF brandLife = "live" THEN Over(k) ELSE Advance(k, "store") \/ Advance(k, "write")
    /\ UNCHANGED <<picture, brandLife, stored, uploaded, Limits, dangling, left>>

\* a mutant: the column is not cleared before the upload
ThenOp(k) == errand[k].op

\* a user's and an order's column is cleared before the upload, a brand's is not
AfterDestroy(k) == IF Who(k) # "brand" THEN "clear" ELSE errand[k].op

\* what is gone already is no error
DestroyImage(k) ==
    /\ errand[k].pc = "destroy"
    /\ stored' = stored \ {errand[k].seen}
    /\ Advance(k, AfterDestroy(k))
    /\ UNCHANGED <<picture, brandLife, uploaded, Limits, dangling, left>>

Clear(k) ==
    /\ errand[k].pc = "clear"
    /\ Put(k, 0)
    /\ IF errand[k].op = "store" THEN Advance(k, "store") ELSE Over(k)
    /\ UNCHANGED <<brandLife, stored, uploaded, Limits, left>>

UploadImage(k) ==
    /\ errand[k].pc = "store"
    /\ uploaded < MaxPictures /\ uploaded' = uploaded + 1
    /\ stored' = stored \cup {uploaded'}
    /\ errand' = [errand EXCEPT ![k].pc = "write", ![k].new = uploaded']
    /\ UNCHANGED <<picture, brandLife, Limits, dangling, left>>

\* the row with the picture's address; a brand is created with it
WriteUrl(k) ==
    /\ errand[k].pc = "write"
    /\ Put(k, errand[k].new)
    /\ brandLife' = IF errand[k].op = "create" THEN "live" ELSE brandLife
    /\ Over(k)
    /\ UNCHANGED <<stored, uploaded, Limits, left>>

\* brands.service.ts remove: a soft delete, the address stays
DropBrand(k) ==
    /\ errand[k].pc = "drop"
    /\ brandLife' = "deleted"
    /\ Over(k)
    /\ UNCHANGED <<picture, stored, uploaded, Limits, dangling, left>>

----------------------------------------------------------------------------
Errand(pc, op, w) == [pc |-> pc, op |-> op, who |-> w, seen |-> 0, new |-> 0]

\* two creations at once would make two brands of one code: here there is one
Errands ==
    {Errand("read", op, w) : op \in {"store", "clear"}, w \in Pictured}
  \cup {Errand("read", "drop", "brand")}
  \cup IF brandLife # "none" \/ \E k \in Clerks : errand[k].pc # "idle" /\ errand[k].op = "create"
       THEN {} ELSE {Errand("findCode", "create", "brand")}

BeginErrand(k) ==
    /\ errand[k].pc = "idle" /\ errands < MaxErrands /\ errands' = errands + 1
    /\ \A l \in Clerks : l < k => errand[l].pc # "idle"
    /\ apart => \A l \in Clerks : errand[l].pc = "idle"
    /\ \E a \in Errands : errand' = [errand EXCEPT ![k] = a]
    /\ UNCHANGED <<picture, brandLife, stored, uploaded, hitches, apart, dangling, left>>

\* a call to the database or the image store rejects: the column names a picture that is gone if
\* the call was the one that clears it or, for a brand, any after the picture was destroyed
FailErrand(k) ==
    /\ errand[k].pc # "idle"
    /\ hitches > 0 /\ hitches' = hitches - 1
    /\ LET gone == errand[k].seen # 0 /\ errand[k].pc \notin {"read", "destroy"}
       IN  dangling' = IF gone /\ (Who(k) = "brand" \/ errand[k].pc = "clear")
                    THEN dangling \cup {Who(k)} ELSE dangling
    /\ left' = IF errand[k].pc = "write" THEN left \cup {errand[k].new} ELSE left
    /\ Over(k)
    /\ UNCHANGED <<picture, brandLife, stored, uploaded, errands, apart>>

ImagesInit ==
    /\ picture = [w \in Pictured |-> 0] /\ brandLife = "none"
    /\ stored = {} /\ uploaded = 0
    /\ errand = [k \in Clerks |-> Unused]
    /\ errands = 0 /\ hitches = 1 /\ apart \in BOOLEAN
    /\ dangling = {} /\ left = {}

ImagesNext ==
    \E k \in Clerks :
        \/ BeginErrand(k) \/ FailErrand(k) \/ ReadRow(k) \/ FindCode(k) \/ DestroyImage(k)
        \/ Clear(k) \/ UploadImage(k) \/ WriteUrl(k) \/ DropBrand(k)

ImagesSpec == ImagesInit /\ [][ImagesNext]_imageVars

----------------------------------------------------------------------------
\* When nothing is in flight, however requests overlapped: the picture a live row names is in the
\* store, unless a call failed after the picture was destroyed and before the column was written.
\* One request at a time, every stored picture is named by a row, unless that very write failed.
PicturesAreThere ==
    (\A k \in Clerks : errand[k].pc = "idle") =>
        /\ \A w \in Pictured \ dangling :
              picture[w] = 0 \/ picture[w] \in stored \/ (w = "brand" /\ brandLife # "live")
        /\ apart => stored \subseteq left \cup {picture[w] : w \in Pictured}
=============================================================================
