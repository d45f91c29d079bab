------------------------------- MODULE Forms -------------------------------
(***************************************************************************)
(* The forms of the web front end and the HTTP client that posts them to   *)
(* the public API: a new customer (Customers.razor) or a new claim         *)
(* (FileClaim.razor).                                                      *)
(*                                                                         *)
(* A handler on the server runs for every click, and while it waits for    *)
(* its answer the page goes on serving clicks. isSubmitting disables the   *)
(* button, but no handler reads it: until the next rendering reaches the   *)
(* browser, the button there can be clicked again, and the form is posted  *)
(* twice. So several posts of one form may be awaited at once.             *)
(*                                                                         *)
(* The client is the one of ServiceDefaults: its resilience handler posts  *)
(* again when an answer is 500 or takes too long, and the API goes on with *)
(* the request that was given up. A request carries no identity. Of a      *)
(* claim's request the checks on the policy are left out (ClaimIntake has  *)
(* them): it is saved, then dispatched, and then answered.                 *)
(***************************************************************************)
EXTENDS Customers

CONSTANTS
    Form,       \* forms on open pages, each to be submitted with one content
    MaxAttempt  \* attempts of one form, by clicks and by the client

VARIABLES
    kind,       \* per form: "customer" or "claim"
    submitting, \* per form: isSubmitting, on the server
    button,     \* per form: the button in the browser is there and enabled
    message,    \* per form: which of successMessage and errorMessage are set
    attempt,    \* per form: number of attempts that were posted
    awaited,    \* attempts a handler of the page awaits the answer of
    doubled,    \* history: attempts by a click while another was awaited or had succeeded
    abandoned,  \* history: attempts given up before their answer arrived
    filed,      \* attempts that saved a claim
    unsent      \* history: attempts that failed after they had saved a claim

pageVars == <<submitting, button, message, attempt, awaited, doubled, abandoned>>
formVars == <<kind, pageVars, filed, unsent>>
vars == <<customersVars, formVars>>

ASSUME FormsAssumption == MaxAttempt \in Nat /\ Create = Form \X (1..MaxAttempt)

Attempts(f) == {f} \X (1..MaxAttempt)
Answers == {"201", "409", "500"}

TypeOK ==
    /\ email \in [Customer -> Email \cup {NoEmail}]
    /\ phase \in [Start -> {"starting", "seeding", "up", "stopped"}]
    /\ seeded \in [Start -> 0..SeedSaves]
    /\ pc \in [Request -> Answers \cup {"new", "sent", "loaded", "checked", "saved", "200", "204", "404"}]
    /\ wanted \in [Create \cup Edit -> Email]
    /\ target \in [Edit \cup Delete -> Customer]
    /\ loaded \in [Edit -> Email \cup {NoEmail}]
    /\ faults \in Nat /\ stopped \in BOOLEAN
    /\ renamed \subseteq Customer /\ deleted \subseteq Customer
    /\ kind \in [Form -> {"customer", "claim"}]
    /\ submitting \in [Form -> BOOLEAN] /\ button \in [Form -> BOOLEAN]
    /\ message \in [Form -> SUBSET {"success", "error"}]
    /\ attempt \in [Form -> 0..MaxAttempt]
    /\ awaited \subseteq Create /\ doubled \subseteq Create /\ abandoned \subseteq Create
    /\ filed \subseteq Create /\ unsent \subseteq Create

Init ==
    /\ CustomersInit
    /\ \A f \in Form : \A a, b \in Attempts(f) : wanted[a] = wanted[b]
    /\ kind \in [Form -> {"customer", "claim"}]
    /\ submitting = [f \in Form |-> FALSE]
    /\ button = [f \in Form |-> TRUE]
    /\ message = [f \in Form |-> {}]
    /\ attempt = [f \in Form |-> 0]
    /\ awaited = {} /\ doubled = {} /\ abandoned = {}
    /\ filed = {} /\ unsent = {}

Succeeded(f) == "success" \in message[f]

(* After success the form of a customer is emptied and closed. A click     *)
(* still on its way then posts an empty form: that is another form's post. *)
Closed(f) == kind[f] = "customer" /\ Succeeded(f)

NewAttempt(f) == <<f, attempt[f] + 1>>

Post(f) ==
    /\ attempt[f] < MaxAttempt
    /\ attempt' = [attempt EXCEPT ![f] = @ + 1]
    /\ Send(NewAttempt(f))
    /\ UNCHANGED <<email, seeding, wanted, target, loaded, gone, kind, filed, unsent>>

-----------------------------------------------------------------------------
(* SubmitCustomer and SubmitClaim, up to the answer. Nothing is checked.   *)
Submit(f) ==
    /\ button[f] /\ ~Closed(f)
    /\ Post(f)
    /\ submitting' = [submitting EXCEPT ![f] = TRUE]
    /\ message' = [message EXCEPT ![f] = @ \ {"error"}]
    /\ awaited' = awaited \cup {NewAttempt(f)}
    /\ doubled' = IF Succeeded(f) \/ Attempts(f) \cap awaited # {}
                  THEN doubled \cup {NewAttempt(f)} ELSE doubled
    /\ UNCHANGED <<faults, button, abandoned>>

(* A rendering reaches the browser.                                        *)
ShowButton(f) ==
    /\ button' = [button EXCEPT ![f] = ~submitting[f] /\ ~Closed(f)]
    /\ UNCHANGED <<customersVars, kind, submitting, message, attempt, awaited, doubled, abandoned,
                   filed, unsent>>

(* The rest of a handler. Whatever the others of the page still await, it  *)
(* resets isSubmitting, that of a claim when it has left the page.         *)
Told(f, what) ==
    /\ message' = [message EXCEPT ![f] = @ \cup what]
    /\ submitting' = [submitting EXCEPT ![f] = @ /\ kind[f] = "claim" /\ "success" \in what]

(* Mutated form of Answer: only the status 200 counts as success.          *)
AnswerOkOnly(a) ==
    /\ a \in awaited /\ pc[a] \in Answers
    /\ Told(a[1], {"error"})
    /\ awaited' = awaited \ {a}
    /\ UNCHANGED <<customersVars, kind, button, attempt, doubled, abandoned, filed, unsent>>

(* An answer 500 is shown when the time for all attempts is over. After a  *)
(* success the page of the customers loads its list again in the same try: *)
(* when that fails it shows an error as well.                              *)
Answer(a) ==
    /\ a \in awaited /\ pc[a] \in Answers
    /\ \/ /\ Told(a[1], {IF pc[a] = "201" THEN "success" ELSE "error"})
          /\ UNCHANGED faults
       \/ /\ kind[a[1]] = "customer" /\ pc[a] = "201" /\ Fault
          /\ Told(a[1], {"success", "error"})
    /\ awaited' = awaited \ {a}
    /\ UNCHANGED <<email, seeding, requests, gone, kind, button, attempt, doubled, abandoned,
                   filed, unsent>>

(* The resilience handler posts again.                                     *)
Repost(a) ==
    LET new == NewAttempt(a[1])
    IN  /\ Post(a[1])
        /\ awaited' = (awaited \ {a}) \cup {new}
        /\ doubled' = IF a \in doubled THEN doubled \cup {new} ELSE doubled
        /\ UNCHANGED <<submitting, button, message>>

Retry(a) ==
    /\ a \in awaited /\ pc[a] = "500"
    /\ Repost(a)
    /\ UNCHANGED <<faults, abandoned>>

(* The answer takes too long or is lost.                                   *)
GiveUp(a) ==
    /\ a \in awaited /\ Fault
    /\ abandoned' = abandoned \cup {a}
    /\ \/ Repost(a)
       \/ /\ Told(a[1], {"error"})
          /\ awaited' = awaited \ {a}
          /\ UNCHANGED <<email, seeding, requests, gone, kind, button, attempt, doubled,
                         filed, unsent>>

-----------------------------------------------------------------------------
(* SubmitClaimAsync, with the dispatch after the save.                     *)
SaveClaim(a) ==
    /\ kind[a[1]] = "claim"
    /\ Go(a, "sent", "saved")
    /\ filed' = filed \cup {a}
    /\ UNCHANGED <<email, seeding, wanted, target, loaded, faults, gone, kind, pageVars, unsent>>

AcceptClaim(a) ==
    /\ Go(a, "saved", "201")
    /\ UNCHANGED <<email, seeding, wanted, target, loaded, faults, gone, formVars>>

FailDispatch(a) ==
    /\ Fault
    /\ Go(a, "saved", "500")
    /\ unsent' = unsent \cup {a}
    /\ UNCHANGED <<email, seeding, wanted, target, loaded, gone, kind, pageVars, filed>>

Handle(a) ==
    \/ /\ kind[a[1]] = "customer"
       /\ CheckEmail(a) \/ SaveCustomer(a)
       /\ UNCHANGED formVars
    \/ SaveClaim(a) \/ AcceptClaim(a) \/ FailDispatch(a)

Next ==
    \/ \E f \in Form : Submit(f) \/ ShowButton(f)
    \/ \E a \in Create : Answer(a) \/ Retry(a) \/ GiveUp(a) \/ Handle(a)
    \/ /\ StartUp \/ Change \/ \E r \in Request : FailRequest(r)
       /\ UNCHANGED formVars

Spec == Init /\ [][Next]_vars

-----------------------------------------------------------------------------
(* What a form shows is true of what it did, however its posts overlap.    *)
(*  - One that shows success has its customer, unless it was deleted, or   *)
(*    its claim; and one that does not has none, except through attempts   *)
(*    still awaited, given up, or failed after the claim was committed.    *)
(*  - An attempt told that its e-mail is taken by an earlier attempt of    *)
(*    its own form follows one that was given up, or a double click.       *)
(*  - A form has two customers only if one was given another e-mail.       *)
Made(a) == Exists(a) \/ a \in deleted \/ a \in filed

FormsToldTruth ==
    \A f \in Form :
        /\ Succeeded(f) => \E a \in Attempts(f) : Made(a)
        /\ ~Succeeded(f) => \A a \in Attempts(f) : Made(a) => a \in awaited \cup abandoned \cup unsent
        /\ \A a, b \in Attempts(f) :
              b[2] < a[2] /\ pc[a] = "409" /\ Exists(b) => b \in abandoned \/ {a, b} \cap doubled # {}
        /\ Cardinality({a \in Attempts(f) : Exists(a)}) > 1 => renamed \cap Attempts(f) # {}

(* A form files its claim again only by a double click, or after an        *)
(* attempt that had no answer in time or failed after its commit: but for  *)
(* those there is at most one claim.                                       *)
FiledTwiceHasCause ==
    \A f \in Form : Cardinality((Attempts(f) \cap filed) \ (abandoned \cup unsent \cup doubled)) <= 1
=============================================================================
