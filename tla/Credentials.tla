------------------------------ MODULE Credentials ------------------------------
(***************************************************************************)
(* The passwords of users and clients: who writes them, and whether their   *)
(* owners are told.  A password is a number, its hash is the number stored; *)
(* every generated password and every code is a new one.                    *)
(***************************************************************************)
EXTENDS Naturals

CONSTANTS Staff, Customers,   \* the users and the clients
          EmailOf, AliasesOf, \* their emails, and the users' alternate ones: nothing keeps them apart
          Mailable,           \* the users whose email has an @
          Acts,               \* what may be in flight at once
          MaxActs, MaxDraws   \* bounds on the requests and on what is generated

ASSUME CredentialsOK == "nobody" \notin Staff \cup Customers

Persons == Staff \cup Customers

VARIABLES secret,    \* the password stored
          code,      \* forgot_password_code, 0 for null
          draws,     \* how many passwords and codes there have been
          act, acts, faults,
          single,    \* one request at a time
          told,      \* history: the passwords the owner chose or was mailed
          latest,    \* history: the last of them
          withheld   \* history: generated passwords that were not mailed
credentialVars == <<secret, code, draws, act, acts, faults, single, told, latest, withheld>>

Resting == [pc |-> "idle"]
GoOn(i, pc) == act' = [act EXCEPT ![i].pc = pc]
Done(i) == act' = [act EXCEPT ![i] = Resting]
Tell(p, pw) == /\ told' = [told EXCEPT ![p] = @ \cup {pw}]
               /\ latest' = [latest EXCEPT ![p] = pw]
Knows(p, pw) == pw \in told[p]
News == <<told, latest>>
Counters == <<acts, faults, single>>

\* hash.service.ts generatePassword, generatePasswordToken
Draw == draws < MaxDraws /\ draws' = draws + 1

----------------------------------------------------------------------------
\* login.service.ts: one row of the alternate emails if there is any, else one user

\* findFirst: it may be any of them
FoundUsers(email) ==
    LET owners == {p \in Staff : email \in AliasesOf[p]}
    IN  IF owners # {} THEN owners ELSE {p \in Staff : EmailOf[p] = email}
FoundClients(email) == {p \in Customers : EmailOf[p] = email}

\* whom a login may come out with: the password is compared with that of the one found
Validated(found, pw) ==
    IF found = {} THEN {"nobody"} ELSE {IF secret[p] = pw THEN p ELSE "nobody" : p \in found}
ValidateUser(email, pw) == Validated(FoundUsers(email), pw)
ValidateClient(email, pw) == Validated(FoundClients(email), pw)

----------------------------------------------------------------------------
\* forgot.service.ts and reset.service.ts

StoreCode(i) ==
    /\ act[i].pc = "forgot"
    /\ Draw
    /\ code' = [code EXCEPT ![act[i].who] = draws']
    /\ act' = [act EXCEPT ![i].pc = "mailCode", ![i].code = draws']
    /\ UNCHANGED <<secret, Counters, News, withheld>>

\* the owner follows the link at once, later, or never
MailCode(i) ==
    /\ act[i].pc = "mailCode"
    /\ Done(i) \/ GoOn(i, "reset")
    /\ UNCHANGED <<secret, code, draws, Counters, News, withheld>>

FindByCode(i) ==
    /\ act[i].pc = "reset"
    /\ IF code[act[i].who] = act[i].code THEN GoOn(i, "writeReset") ELSE Done(i)
    /\ UNCHANGED <<secret, code, draws, Counters, News, withheld>>

\* the code that is cleared may be a newer one
WriteReset(i) ==
    /\ act[i].pc = "writeReset"
    /\ Draw
    /\ code' = [code EXCEPT ![act[i].who] = 0]
    /\ secret' = [secret EXCEPT ![act[i].who] = draws']
    /\ Tell(act[i].who, draws')
    /\ Done(i)
    /\ UNCHANGED <<Counters, withheld>>

----------------------------------------------------------------------------
\* profile.service.ts changePassword

ReadOld(i) ==
    /\ act[i].pc = "change"
    /\ \E pw \in told[act[i].who] :
          IF secret[act[i].who] = pw THEN GoOn(i, "writeChange") ELSE Done(i)
    /\ UNCHANGED <<secret, code, draws, Counters, News, withheld>>

WriteChange(i) ==
    /\ act[i].pc = "writeChange"
    /\ Draw
    /\ secret' = [secret EXCEPT ![act[i].who] = draws']
    /\ Tell(act[i].who, draws')
    /\ Done(i)
    /\ UNCHANGED <<code, Counters, withheld>>

----------------------------------------------------------------------------
\* clients.service.ts generatePassword and sendEmail: an administrator passes the text on

GenerateOne(i) ==
    /\ act[i].pc = "generate"
    /\ Draw
    /\ secret' = [secret EXCEPT ![act[i].who] = draws']
    /\ withheld' = [withheld EXCEPT ![act[i].who] = @ \cup {draws'}]
    /\ Done(i)
    /\ UNCHANGED <<code, Counters, News>>

\* a mutant: the password is mailed as it was given
SendAny(i) ==
    /\ act[i].pc = "send"
    /\ \E pw \in withheld[act[i].who] : act' = [act EXCEPT ![i].pc = "mailGiven", ![i].code = pw]
    /\ UNCHANGED <<secret, code, draws, Counters, News, withheld>>

SendEmail(i) ==
    /\ act[i].pc = "send"
    /\ \E pw \in withheld[act[i].who] :
          IF secret[act[i].who] = pw
          THEN act' = [act EXCEPT ![i].pc = "mailGiven", ![i].code = pw]
          ELSE Done(i)
    /\ UNCHANGED <<secret, code, draws, Counters, News, withheld>>

MailGiven(i) ==
    /\ act[i].pc = "mailGiven"
    /\ Tell(act[i].who, act[i].code)
    /\ Done(i)
    /\ UNCHANGED <<secret, code, draws, Counters, withheld>>

----------------------------------------------------------------------------
\* generate:user-pass and generate:client-pass: the list is read once

WriteGenerated(i) ==
    /\ act[i].pc = "command"
    /\ IF act[i].todo = {} THEN /\ Done(i)
                                /\ UNCHANGED <<secret, draws, withheld>>
       ELSE \E p \in act[i].todo :
              /\ Draw
              /\ secret' = [secret EXCEPT ![p] = draws']
              /\ withheld' = [withheld EXCEPT ![p] = @ \cup {draws'}]
              /\ act' = [act EXCEPT ![i].todo = @ \ {p}, ![i].who = p, ![i].code = draws',
                                    ![i].pc = IF p \in Staff \ Mailable THEN "command"
                                              ELSE "mailGenerated"]
    /\ UNCHANGED <<code, Counters, News>>

MailGenerated(i) ==
    /\ act[i].pc = "mailGenerated"
    /\ Tell(act[i].who, act[i].code)
    /\ GoOn(i, "command")
    /\ UNCHANGED <<secret, code, draws, Counters, withheld>>

----------------------------------------------------------------------------
NewActs ==
    [pc : {"forgot", "change"}, who : Staff, code : {0}, todo : {{}}]
  \cup [pc : {"generate", "send"}, who : Customers, code : {0}, todo : {{}}]
  \cup {[pc |-> "command", who |-> p, code |-> 0, todo |-> S] :
            p \in Persons, S \in {Staff, Customers} \ {{}}}

BeginAct(i) ==
    /\ act[i].pc = "idle"
    /\ acts < MaxActs /\ acts' = acts + 1
    /\ \A k \in Acts : k < i => act[k].pc # "idle"
    /\ single => \A k \in Acts : act[k].pc = "idle"
    /\ \E a \in NewActs : act' = [act EXCEPT ![i] = a]
    /\ UNCHANGED <<secret, code, draws, faults, single, News, withheld>>

\* a call to the database or the mailer rejects: the command for clients goes on with the next
\* client, the one for users ends
Fault(i) ==
    /\ act[i].pc # "idle"
    /\ faults > 0 /\ faults' = faults - 1
    /\ IF act[i].pc = "mailGenerated" /\ act[i].who \in Customers
       THEN GoOn(i, "command") ELSE Done(i)
    /\ UNCHANGED <<secret, code, draws, acts, single, News, withheld>>

CredentialsInit ==
    /\ secret = [p \in Persons |-> 0] /\ told = [p \in Persons |-> {0}]
    /\ latest = [p \in Persons |-> 0]
    /\ code = [p \in Persons |-> 0] /\ withheld = [p \in Persons |-> {}]
    /\ act = [i \in Acts |-> Resting]
    /\ draws = 0 /\ acts = 0 /\ faults = 1 /\ single \in BOOLEAN

CredentialsNext ==
    \E i \in Acts :
        \/ BeginAct(i) \/ Fault(i)
        \/ StoreCode(i) \/ MailCode(i) \/ FindByCode(i) \/ WriteReset(i)
        \/ ReadOld(i) \/ WriteChange(i)
        \/ GenerateOne(i) \/ SendEmail(i) \/ MailGiven(i)
        \/ WriteGenerated(i) \/ MailGenerated(i)

CredentialsSpec == CredentialsInit /\ [][CredentialsNext]_credentialVars

----------------------------------------------------------------------------
\* the emails nobody else is found by: an alternate email no other user has as one, an email no
\* other user has at all
OwnEmails(p) ==
    IF p \in Staff
    THEN {email \in {EmailOf[p]} \cup AliasesOf[p] :
             \A q \in Staff \ {p} :
                 email \notin AliasesOf[q] /\ (email \in AliasesOf[p] \/ email # EmailOf[q])}
    ELSE {email \in {EmailOf[p]} : \A q \in Customers \ {p} : email # EmailOf[q]}

\* When nothing is in flight, the password in force was told to its owner or was generated and
\* not passed on. One request at a time it is the last one told, and with it a user logs in by
\* email and by every alternate email, but for an email somebody else has as well: as alternate
\* email it goes before the owner's, and of two rows either may be found. A client logs in by an
\* email no other client has. Reset codes, the commands and a mail that fails change nothing
\* about that.
TheLastPasswordToldWorks ==
    (\A i \in Acts : act[i].pc = "idle") =>
        \A p \in Persons :
            LET logsIn(email) == {p} = IF p \in Staff THEN ValidateUser(email, latest[p])
                                       ELSE ValidateClient(email, latest[p])
            IN  \/ secret[p] \in withheld[p] /\ ~Knows(p, secret[p])
                \/ IF single THEN \A email \in OwnEmails(p) : logsIn(email)
                   ELSE Knows(p, secret[p])
=============================================================================
