----------------------------- MODULE Customers -----------------------------
(***************************************************************************)
(* The Customers table: what every process that starts on an empty         *)
(* database seeds it with (SeedData.SeedAsync), and creation, update and   *)
(* deletion by the public API (CustomerService), which check and then      *)
(* save. The table has a unique index on the e-mail.                       *)
(***************************************************************************)
EXTENDS Naturals, FiniteSets

CONSTANTS
    Start,      \* starts, restarts included, of the processes that seed
    Api,        \* those of the public API
    Create,     \* requests to create a customer
    Edit,       \* requests to update one
    Delete,     \* requests to delete one
    Email,      \* e-mail addresses
    SeedEmail,  \* those of the customers that are seeded
    SeedSaves,  \* saves of a seeding: customers, policies, claims, quotes, projections
    NoEmail,    \* in place of the e-mail where there is no row
    MaxFault    \* bound on stops, failed saves and lost answers

ASSUME CustomersAssumption ==
    /\ Api \subseteq Start
    /\ Create \cap Edit = {} /\ Create \cap Delete = {} /\ Edit \cap Delete = {}
    /\ Create \cap (Start \X SeedEmail) = {}
    /\ SeedEmail \subseteq Email
    /\ NoEmail \notin Email
    /\ SeedSaves \in Nat \ {0, 1}
    /\ MaxFault \in Nat

Request == Create \cup Edit \cup Delete

(* The Ids are drawn anew by every request and by every seeding.           *)
Customer == Create \cup (Start \X SeedEmail)

VARIABLES
    email,      \* Customers.Email, NoEmail where there is no row
    phase,      \* per start: "starting", "seeding", "up" or "stopped"
    seeded,     \* per start: saves of its seeding
    pc,         \* per request: "new", "sent", "loaded", "checked", its response
    wanted,     \* per creation and update: the e-mail in it
    target,     \* per update and deletion: the row in its path
    loaded,     \* per update: the e-mail of the row when it was loaded
    faults,     \* number of faults
    stopped,    \* history: a seeding was cut short after its first save
    renamed,    \* history: customers whose e-mail was changed
    deleted     \* history: customers that were deleted

seeding == <<phase, seeded, stopped>>
requests == <<pc, wanted, target, loaded>>
gone == <<renamed, deleted>>
customersVars == <<email, seeding, requests, faults, gone>>

Exists(c) == email[c] # NoEmail
Holders(e) == {c \in Customer : email[c] = e}

CustomersInit ==
    /\ email = [c \in Customer |-> NoEmail]
    /\ phase = [p \in Start |-> "starting"]
    /\ seeded = [p \in Start |-> 0]
    /\ pc = [r \in Request |-> "new"]
    /\ wanted \in [Create \cup Edit -> Email]
    /\ target \in [Edit \cup Delete -> Customer]
    /\ loaded = [r \in Edit |-> NoEmail]
    /\ faults = 0
    /\ stopped = FALSE
    /\ renamed = {}
    /\ deleted = {}

Fault == faults < MaxFault /\ faults' = faults + 1

(* Mutated form of EmailsAreFree: the index is not unique.                 *)
AnyEmails(emails) == emails \subseteq Email

(* The unique index on the e-mail, with respect to rows about to be saved. *)
EmailsAreFree(emails) == \A e \in emails : Holders(e) = {}

-----------------------------------------------------------------------------
(* SeedData.SeedAsync. A process that throws there stops; what is started  *)
(* in its place, or after it, is a start of its own.                       *)
SeedCheck(p) ==
    /\ phase[p] = "starting"
    /\ phase' = [phase EXCEPT ![p] = IF \E c \in Customer : Exists(c) THEN "up" ELSE "seeding"]
    /\ UNCHANGED <<email, seeded, stopped, requests, faults, gone>>

SeedCustomers(p) ==
    /\ phase[p] = "seeding" /\ seeded[p] = 0
    /\ EmailsAreFree(SeedEmail)
    /\ email' = [c \in Customer |->
                    IF c \in {p} \X SeedEmail THEN c[2] ELSE email[c]]
    /\ seeded' = [seeded EXCEPT ![p] = 1]
    /\ UNCHANGED <<phase, stopped, requests, faults, gone>>

AllThere(p) == \A e \in SeedEmail : Exists(<<p, e>>)

(* The second save is that of the policies, which refer to every customer. *)
SeedMore(p) ==
    /\ phase[p] = "seeding" /\ seeded[p] \in 1..(SeedSaves - 1)
    /\ seeded[p] = 1 => AllThere(p)
    /\ seeded' = [seeded EXCEPT ![p] = @ + 1]
    /\ phase' = IF seeded[p] + 1 = SeedSaves THEN [phase EXCEPT ![p] = "up"] ELSE phase
    /\ UNCHANGED <<email, stopped, requests, faults, gone>>

SeedEnds(p) ==
    /\ phase[p] = "seeding"
    /\ phase' = [phase EXCEPT ![p] = "stopped"]
    /\ stopped' = (stopped \/ seeded[p] > 0)
    /\ UNCHANGED <<email, seeded, requests, gone>>

(* A save violates the index, or refers to a customer that was deleted:    *)
(* the policies do, the claims and the quotes may.                         *)
SeedViolation(p) ==
    /\ IF seeded[p] = 0 THEN ~EmailsAreFree(SeedEmail) ELSE ~AllThere(p)
    /\ SeedEnds(p)
    /\ UNCHANGED faults

SeedStop(p) == Fault /\ SeedEnds(p)

-----------------------------------------------------------------------------
Go(r, from, to) == pc[r] = from /\ pc' = [pc EXCEPT ![r] = to]

(* The request reaches a replica of the API that serves.                   *)
Send(r) ==
    /\ \E p \in Api : phase[p] = "up"
    /\ Go(r, "new", "sent")

(* CreateCustomerAsync.                                                    *)
CheckEmail(r) ==
    /\ Go(r, "sent", IF EmailsAreFree({wanted[r]}) THEN "checked" ELSE "409")
    /\ UNCHANGED <<email, seeding, wanted, target, loaded, faults, gone>>

(* Mutated form of SaveCustomer: the violation of the index is swallowed.  *)
SaveOrIgnore(r) ==
    /\ Go(r, "checked", "201")
    /\ email' = IF EmailsAreFree({wanted[r]}) THEN [email EXCEPT ![r] = wanted[r]] ELSE email
    /\ UNCHANGED <<seeding, wanted, target, loaded, faults, gone>>

SaveCustomer(r) ==
    /\ Go(r, "checked", IF EmailsAreFree({wanted[r]}) THEN "201" ELSE "500")
    /\ email' = IF EmailsAreFree({wanted[r]}) THEN [email EXCEPT ![r] = wanted[r]] ELSE email
    /\ UNCHANGED <<seeding, wanted, target, loaded, faults, gone>>

(* UpdateCustomerAsync.                                                    *)
LoadCustomer(r) ==
    /\ Go(r, "sent", IF Exists(target[r]) THEN "loaded" ELSE "404")
    /\ loaded' = [loaded EXCEPT ![r] = email[target[r]]]
    /\ UNCHANGED <<email, seeding, wanted, target, faults, gone>>

CheckNewEmail(r) ==
    /\ Go(r, "loaded", IF wanted[r] = loaded[r] \/ Holders(wanted[r]) \subseteq {target[r]}
                       THEN "checked" ELSE "409")
    /\ UNCHANGED <<email, seeding, wanted, target, loaded, faults, gone>>

(* The e-mail is written if it differs from what was loaded. A save that   *)
(* writes fails when the row was deleted meanwhile.                        *)
SaveUpdate(r) ==
    LET c == target[r]
        written == wanted[r] # loaded[r]
        fails == ~Exists(c) \/ ~(Holders(wanted[r]) \subseteq {c})
    IN  /\ \/ (written => ~fails) /\ Go(r, "checked", "200")
           \/ (IF written THEN fails ELSE ~Exists(c)) /\ Go(r, "checked", "500")
        /\ email' = IF written /\ ~fails THEN [email EXCEPT ![c] = wanted[r]] ELSE email
        /\ renamed' = IF written /\ ~fails THEN renamed \cup {c} ELSE renamed
        /\ UNCHANGED <<seeding, wanted, target, loaded, faults, deleted>>

(* DeleteCustomerAsync. Whether there is an active policy is left open.    *)
LoadToDelete(r) ==
    /\ \E s \in IF Exists(target[r]) THEN {"loaded", "409"} ELSE {"404"} : Go(r, "sent", s)
    /\ UNCHANGED <<email, seeding, wanted, target, loaded, faults, gone>>

RemoveCustomer(r) ==
    LET c == target[r]
    IN  /\ Go(r, "loaded", IF Exists(c) THEN "204" ELSE "500")
        /\ email' = [email EXCEPT ![c] = NoEmail]
        /\ deleted' = IF Exists(c) THEN deleted \cup {c} ELSE deleted
        /\ UNCHANGED <<seeding, wanted, target, loaded, faults, renamed>>

(* The database cannot be reached.                                         *)
FailRequest(r) ==
    /\ Fault
    /\ \E s \in {"sent", "loaded", "checked"} : Go(r, s, "500")
    /\ UNCHANGED <<email, seeding, wanted, target, loaded, gone>>

StartUp ==
    \E p \in Start :
        SeedCheck(p) \/ SeedCustomers(p) \/ SeedMore(p) \/ SeedViolation(p) \/ SeedStop(p)

Sending(r) == Send(r) /\ UNCHANGED <<email, seeding, wanted, target, loaded, faults, gone>>

Change ==
    \/ \E r \in Edit : Sending(r) \/ LoadCustomer(r) \/ CheckNewEmail(r) \/ SaveUpdate(r)
    \/ \E r \in Delete : Sending(r) \/ LoadToDelete(r) \/ RemoveCustomer(r)

-----------------------------------------------------------------------------
(* However requests and seedings overlap, no two customers share an e-mail.*)
EmailsUnique == \A e \in Email : Cardinality(Holders(e)) <= 1

(* However many processes start, together or later, the database is seeded *)
(* once: a second seeding gets through only if every customer of the first *)
(* was deleted or given another e-mail. And a process that serves, when    *)
(* none is seeding, has a complete seed, unless a seeding was cut short.   *)
SeededOnce ==
    /\ \A p, q \in Start :
          p # q /\ seeded[p] > 0 /\ seeded[q] > 0 =>
              \/ {p} \X SeedEmail \subseteq renamed \cup deleted
              \/ {q} \X SeedEmail \subseteq renamed \cup deleted
    /\ ~stopped /\ (\E p \in Start : phase[p] = "up")
          /\ (\A p \in Start : phase[p] # "seeding") =>
          \E p \in Start : seeded[p] = SeedSaves
=============================================================================
