------------------------------ MODULE WebProofs ------------------------------
(***************************************************************************)
(* Theorems about what people see: the forms of the web front end over the *)
(* customers (Forms, Customers), for any number of starts, forms, attempts *)
(* and requests; the dialog of a page that lost its server (Reconnect);    *)
(* and the pages of the operations portal (Portal), for any number of      *)
(* users, claims, messages and clicks.                                     *)
(***************************************************************************)
EXTENDS Forms, Reconnect, Portal, FiniteSetTheorems, TLAPS

-----------------------------------------------------------------------------
(* The rows of the table.                                                  *)

(* The index is unique.                                                    *)
IndexInv == \A c, d \in Customer : Exists(c) /\ email[c] = email[d] => c = d

(* A row was saved with its e-mail, and keeps it unless it was updated or  *)
(* deleted.                                                                *)
RowsInv ==
    /\ \A p \in Start, e \in SeedEmail :
          seeded[p] > 0 => email[<<p, e>>] = e \/ <<p, e>> \in renamed \cup deleted
    /\ \A a \in Create :
          /\ Exists(a) \/ a \in deleted <=> pc[a] = "201" /\ kind[a[1]] = "customer"
          /\ Exists(a) => email[a] = wanted[a] \/ a \in renamed

(* The seeding.                                                            *)

(* Of two seedings, one lost all its customers or their e-mails.           *)
OnceInv ==
    \A p, q \in Start :
        p # q /\ seeded[p] > 0 /\ seeded[q] > 0 =>
            \/ {p} \X SeedEmail \subseteq renamed \cup deleted
            \/ {q} \X SeedEmail \subseteq renamed \cup deleted

(* Nothing is served, and there is no row, before a process seeded.        *)
FirstInv ==
    (\A p \in Start : seeded[p] = 0) =>
        /\ \A p \in Start : phase[p] # "up"
        /\ \A c \in Customer : ~Exists(c)
        /\ \A r \in Request : pc[r] = "new"

(* A seeding that is not cut short goes on to the end.                     *)
WholeInv ==
    ~stopped => \A p \in Start : seeded[p] > 0 =>
        \/ phase[p] = "seeding" /\ seeded[p] < SeedSaves
        \/ phase[p] = "up" /\ seeded[p] = SeedSaves

(* The forms.                                                              *)

(* The attempts of a form are posted in order, and ask for the same.       *)
PostedInv ==
    /\ \A a \in Create : pc[a] = "new" <=> a[2] > attempt[a[1]]
    /\ \A f \in Form : \A a, b \in Attempts(f) : wanted[a] = wanted[b]

(* An attempt that is over was given up, refused, or has succeeded.        *)
Lapsed(a) == a \in abandoned \/ pc[a] \in {"409", "500"}
OverInv ==
    \A a \in Create :
        pc[a] = "new" \/ a \in awaited \/ Lapsed(a) \/ (pc[a] = "201" /\ Succeeded(a[1]))

SuccessInv == \A f \in Form : Succeeded(f) => \E a \in Attempts(f) : pc[a] = "201"

(* Of two attempts, but for those by a double click, the later one is not  *)
(* posted while the earlier one is awaited, nor unless it has failed.      *)
Single(a, b) == a[1] = b[1] /\ b[2] < a[2] /\ pc[a] # "new" /\ a \notin doubled /\ b \notin doubled
AwaitInv == \A b \in awaited : pc[b] # "new" /\ \A a \in Create : ~Single(a, b)
OrderInv == \A a, b \in Create : Single(a, b) => Lapsed(b)

(* What the answers about claims say of them.                              *)
FiledInv ==
    \A a \in Create :
        /\ a \in filed => kind[a[1]] = "claim" /\ (pc[a] \in {"saved", "201"} \/ a \in unsent)
        /\ pc[a] = "saved" => kind[a[1]] = "claim"
        /\ kind[a[1]] = "claim" /\ pc[a] \in {"saved", "201"} => a \in filed
        /\ kind[a[1]] = "claim" => pc[a] # "409"

RowsKept == IndexInv /\ RowsInv
SeedKept == OnceInv /\ FirstInv /\ WholeInv
PagesInv == PostedInv /\ OverInv /\ SuccessInv /\ AwaitInv /\ OrderInv
IInv == TypeOK /\ RowsKept /\ SeedKept /\ PagesInv /\ FiledInv

-----------------------------------------------------------------------------
LEMMA Ids ==
    /\ \A a \in Create : a \in Customer /\ a \in Request /\ a \notin Edit /\ a \notin Delete
                         /\ a[1] \in Form /\ a[2] \in 1..MaxAttempt /\ a[2] \in Nat
                         /\ a = <<a[1], a[2]>> /\ a \in Attempts(a[1])
    /\ \A r \in Edit \cup Delete : r \in Request /\ r \notin Create
    /\ \A p \in Start, e \in SeedEmail :
          <<p, e>> \in Customer /\ <<p, e>> \notin Create /\ e \in Email /\ e # NoEmail
    /\ \A f \in Form, n \in 1..MaxAttempt : <<f, n>> \in Create
    /\ \A f \in Form : Attempts(f) \subseteq Create /\ \A a \in Attempts(f) : a[1] = f
    /\ MaxAttempt \in Nat /\ SeedSaves \in Nat /\ SeedSaves > 1
    /\ NoEmail \notin Email
    /\ Edit \cap Delete = {}
  BY CustomersAssumption, FormsAssumption DEF Customer, Request, Attempts

LEMMA InitIInv == Init => IInv
<1> SUFFICES ASSUME Init PROVE IInv
  OBVIOUS
<1> USE DEF Init, CustomersInit, Exists, Succeeded
<1>1. TypeOK
  <2>1. 0 \in 0..SeedSaves /\ 0 \in 0..MaxAttempt
    BY Ids
  <2> QED BY <2>1 DEF TypeOK, Answers
<1>2. RowsKept
  BY Ids DEF RowsKept, IndexInv, RowsInv
<1>3. SeedKept
  BY Ids DEF SeedKept, OnceInv, FirstInv, WholeInv
<1>4. \A a \in Create : pc[a] = "new" /\ a[2] > attempt[a[1]]
  BY Ids
<1>5. PostedInv
  BY <1>4, Ids DEF PostedInv
<1>6. OverInv /\ SuccessInv /\ AwaitInv /\ OrderInv
  BY <1>4, Ids DEF OverInv, SuccessInv, AwaitInv, OrderInv, Single
<1>7. FiledInv
  BY <1>4, Ids DEF FiledInv
<1> QED BY <1>1, <1>2, <1>3, <1>5, <1>6, <1>7 DEF IInv, PagesInv

-----------------------------------------------------------------------------
(* The steps of a form.                                                    *)

(* The part of the type invariant about the pages.                         *)
PageType ==
    /\ submitting \in [Form -> BOOLEAN] /\ button \in [Form -> BOOLEAN]
    /\ message \in [Form -> SUBSET {"success", "error"}]
    /\ awaited \subseteq Create /\ doubled \subseteq Create /\ abandoned \subseteq Create
    /\ faults \in Nat

(* A new attempt leaves those that fail, and is doubled unless all others  *)
(* are over or doubled.                                                    *)
Succeeds(n) ==
    /\ awaited' \subseteq awaited \cup {n} /\ n \in awaited'
    /\ abandoned \subseteq abandoned'
    /\ doubled \subseteq doubled' /\ doubled' \subseteq doubled \cup {n}
    /\ \A a \in awaited \ awaited' : a \in abandoned' \/ pc[a] \in {"409", "500"}
    /\ n \notin doubled' =>
          \A b \in Attempts(n[1]) : pc[b] # "new" =>
              \/ b \in doubled
              \/ b \notin awaited' /\ (b \in abandoned' \/ pc[b] \in {"409", "500"})
    /\ \A g \in Form : Succeeded(g)' <=> Succeeded(g)

LEMMA PostKeeps ==
    ASSUME IInv, NEW f \in Form, Post(f), PageType', Succeeds(NewAttempt(f))
    PROVE  IInv'
<1> DEFINE n == NewAttempt(f)
<1> USE DEF IInv, Post, Send, Go, seeding, gone
<1>1. /\ n \in Create /\ n[1] = f /\ n[2] = attempt[f] + 1 /\ n = <<f, attempt[f] + 1>>
      /\ attempt[f] \in Nat /\ attempt[f] + 1 \in 1..MaxAttempt
      /\ pc[n] = "new" /\ pc'[n] = "sent"
      /\ \A r \in Request : r # n => pc'[r] = pc[r]
  BY Ids DEF TypeOK, NewAttempt
<1>2. attempt'[f] = attempt[f] + 1 /\ \A g \in Form : g # f => attempt'[g] = attempt[g]
  BY DEF TypeOK
<1>3. TypeOK'
  <2>1. pc' \in [Request -> Answers \cup {"new", "sent", "loaded", "checked", "saved", "200", "204", "404"}]
    BY <1>1, Ids DEF TypeOK
  <2>2. attempt' \in [Form -> 0..MaxAttempt]
    BY <1>1, Ids DEF TypeOK
  <2>3. UNCHANGED <<email, phase, seeded, stopped, wanted, target, loaded, renamed, deleted, kind, filed, unsent>>
    OBVIOUS
  <2> QED BY <2>1, <2>2, <2>3 DEF TypeOK, PageType
<1>4. RowsKept'
  BY <1>1, Ids DEF RowsKept, IndexInv, RowsInv, Exists
<1>5. SeedKept'
  <2>1. \E p \in Start : seeded[p] # 0
    BY CustomersAssumption DEF SeedKept, FirstInv
  <2> QED BY <2>1 DEF SeedKept, OnceInv, FirstInv, WholeInv
<1>6. \A a \in Create : a[1] = f /\ a[2] = attempt[f] + 1 => a = n
  BY <1>1, Ids
<1>7. PostedInv'
  <2>1. \A a \in Create : pc'[a] = "new" <=> a[2] > attempt'[a[1]]
    <3> SUFFICES ASSUME NEW a \in Create PROVE pc'[a] = "new" <=> a[2] > attempt'[a[1]]
      OBVIOUS
    <3>1. CASE a = n
      BY <1>1, <1>2, <3>1
    <3>2. CASE a # n /\ a[1] = f
      BY <1>1, <1>2, <1>6, <3>2, Ids DEF PagesInv, PostedInv
    <3>3. CASE a # n /\ a[1] # f
      BY <1>1, <1>2, <3>3, Ids DEF PagesInv, PostedInv
    <3> QED BY <3>1, <3>2, <3>3
  <2> QED BY <2>1 DEF PagesInv, PostedInv
<1>8. \A a \in Create : Lapsed(a) => Lapsed(a)'
  BY <1>1, Ids DEF Lapsed, Succeeds
<1>9. OverInv'
  <2> SUFFICES ASSUME NEW a \in Create
               PROVE  pc'[a] = "new" \/ a \in awaited' \/ Lapsed(a)' \/ (pc'[a] = "201" /\ Succeeded(a[1])')
    BY DEF OverInv
  <2>1. CASE a = n
    BY <2>1 DEF Succeeds
  <2>2. CASE a # n
    BY <1>1, <1>8, <2>2, Ids DEF PagesInv, OverInv, Succeeds, Lapsed
  <2> QED BY <2>1, <2>2
<1>10. SuccessInv'
  <2> SUFFICES ASSUME NEW g \in Form, Succeeded(g) PROVE \E a \in Attempts(g) : pc'[a] = "201"
    BY DEF SuccessInv, Succeeds
  <2>1. PICK a \in Attempts(g) : pc[a] = "201"
    BY DEF PagesInv, SuccessInv
  <2> QED BY <1>1, <2>1, Ids
<1>11. \A b \in Create : b[1] = f /\ pc'[b] # "new" => b[2] <= attempt[f] + 1
  BY <1>1, <1>2, <1>7, Ids DEF PostedInv
<1>12. ASSUME NEW a \in Create, NEW b \in Create, Single(a, b)'
       PROVE  Lapsed(b)' /\ b \notin awaited'
  <2>1. a[1] = b[1] /\ b[2] < a[2] /\ pc'[a] # "new" /\ a \notin doubled' /\ b \notin doubled'
    BY <1>12 DEF Single
  <2>2. b # n
    BY <1>1, <1>11, <2>1, Ids
  <2>3. CASE a = n
    <3>1. b \in Attempts(f) /\ pc[b] # "new"
      BY <1>1, <2>1, <2>2, <2>3, Ids DEF PagesInv, PostedInv
    <3>2. b \notin awaited' /\ (b \in abandoned' \/ pc[b] \in {"409", "500"})
      BY <1>1, <2>1, <2>3, <3>1 DEF Succeeds
    <3> QED BY <1>1, <2>2, <3>2, Ids DEF Lapsed
  <2>4. CASE a # n
    <3>1. Single(a, b)
      BY <1>1, <2>1, <2>4, Ids DEF Single, Succeeds
    <3>2. Lapsed(b) /\ b \notin awaited
      BY <3>1 DEF PagesInv, OrderInv, AwaitInv
    <3> QED BY <1>8, <2>2, <3>2 DEF Succeeds
  <2> QED BY <2>3, <2>4
<1>13. OrderInv'
  BY <1>12 DEF OrderInv
<1>14. AwaitInv'
  <2>1. \A b \in awaited' : b \in Create /\ pc'[b] # "new"
    BY <1>1, Ids DEF Succeeds, PagesInv, AwaitInv, TypeOK
  <2> QED BY <1>12, <2>1 DEF AwaitInv
<1>15. FiledInv'
  BY <1>1, Ids DEF FiledInv
<1> QED BY <1>3, <1>4, <1>5, <1>7, <1>9, <1>10, <1>13, <1>14, <1>15 DEF PagesInv

(* An attempt whose handler ends: with its answer, or given up.            *)
LEMMA ToldKeeps ==
    ASSUME IInv, NEW a \in awaited, NEW what \in SUBSET {"success", "error"}, Told(a[1], what),
           PageType', awaited' = awaited \ {a}, abandoned \subseteq abandoned',
           \/ pc[a] = "201" /\ "success" \in what
           \/ (a \in abandoned' \/ pc[a] \in {"409", "500"}) /\ "success" \notin what,
           UNCHANGED <<email, seeding, requests, gone, kind, attempt, doubled, filed, unsent>>
    PROVE  IInv'
<1> USE DEF IInv, seeding, requests, gone
<1>0. a \in Create /\ a[1] \in Form /\ a \in Attempts(a[1])
  BY Ids DEF TypeOK
<1>1. /\ \A g \in Form : Succeeded(g)' <=> Succeeded(g) \/ (g = a[1] /\ "success" \in what)
  BY <1>0 DEF Told, Succeeded, TypeOK
<1>2. TypeOK'
  BY DEF TypeOK, PageType
<1>3. RowsKept' /\ SeedKept' /\ FiledInv'
  BY DEF RowsKept, IndexInv, RowsInv, Exists, SeedKept, OnceInv, FirstInv, WholeInv, FiledInv
<1>4. PostedInv'
  BY DEF PagesInv, PostedInv
<1>5. \A b \in Create : Lapsed(b) => Lapsed(b)'
  BY DEF Lapsed
<1>6. OverInv'
  <2> SUFFICES ASSUME NEW b \in Create
               PROVE  pc[b] = "new" \/ b \in awaited' \/ Lapsed(b)' \/ (pc[b] = "201" /\ Succeeded(b[1])')
    BY DEF OverInv
  <2>1. CASE b = a
    BY <1>0, <1>1, <2>1 DEF Lapsed
  <2>2. CASE b # a
    BY <1>1, <1>5, <2>2, Ids DEF PagesInv, OverInv
  <2> QED BY <2>1, <2>2
<1>7. SuccessInv'
  BY <1>0, <1>1 DEF PagesInv, SuccessInv
<1>8. \A c, b \in Create : Single(c, b)' <=> Single(c, b)
  BY DEF Single
<1>9. AwaitInv' /\ OrderInv'
  BY <1>0, <1>5, <1>8 DEF PagesInv, AwaitInv, OrderInv, TypeOK
<1> QED BY <1>2, <1>3, <1>4, <1>6, <1>7, <1>9 DEF PagesInv

(* A step of the table that leaves the pages alone.                        *)
LEMMA PagesKept ==
    ASSUME IInv, UNCHANGED <<wanted, kind, pageVars>>,
           \A a \in Create : pc'[a] = "new" <=> pc[a] = "new",
           \A a \in Create : pc[a] \in Answers => pc'[a] = pc[a]
    PROVE  PagesInv'
<1> USE DEF IInv, PagesInv, Answers, pageVars
<1>1. PostedInv'
  BY DEF PostedInv
<1>2. \A a \in Create : Lapsed(a) => Lapsed(a)'
  BY DEF Lapsed
<1>3. \A f \in Form : Succeeded(f)' <=> Succeeded(f)
  BY DEF Succeeded
<1>4. OverInv'
  BY <1>2, <1>3, Ids DEF OverInv
<1>5. SuccessInv'
  BY <1>3, Ids DEF SuccessInv
<1>6. \A a, b \in Create : Single(a, b)' <=> Single(a, b)
  BY DEF Single
<1>7. AwaitInv' /\ OrderInv'
  BY <1>2, <1>6 DEF AwaitInv, OrderInv, TypeOK
<1> QED BY <1>1, <1>4, <1>5, <1>7

-----------------------------------------------------------------------------
(* The steps of a seeding.                                                 *)
LEMMA StartUpKeeps ==
    ASSUME IInv, NEW p \in Start, UNCHANGED formVars,
           \/ SeedCheck(p) \/ SeedCustomers(p) \/ SeedMore(p) \/ SeedViolation(p) \/ SeedStop(p)
    PROVE  IInv'
<1> USE DEF IInv, SeedCheck, SeedCustomers, SeedViolation, SeedMore, SeedStop, SeedEnds, Fault,
            requests, gone
<1>1. UNCHANGED <<requests, gone, formVars>>
  OBVIOUS
<1>2. PagesInv' /\ FiledInv'
  <2>1. PagesInv'
    BY <1>1, PagesKept DEF formVars
  <2> QED BY <1>1, <2>1 DEF FiledInv, formVars
<1>3. \/ email' = email
      \/ SeedCustomers(p)
  OBVIOUS
<1>4. ASSUME SeedCustomers(p)
      PROVE  /\ \A e \in SeedEmail : email'[<<p, e>>] = e
             /\ \A c \in Customer : email'[c] # email[c] => \E e \in SeedEmail : c = <<p, e>>
             /\ \A a \in Create : email'[a] = email[a]
             /\ \A c \in Customer : email[c] \notin SeedEmail
  BY <1>4, Ids DEF TypeOK, EmailsAreFree, Holders
<1>5. TypeOK'
  <2>1. email' \in [Customer -> Email \cup {NoEmail}]
    <3>1. CASE SeedCustomers(p)
      BY <3>1, Ids DEF TypeOK
    <3> QED BY <1>3, <3>1 DEF TypeOK
  <2>2. seeded' \in [Start -> 0..SeedSaves]
    BY Ids DEF TypeOK
  <2>3. phase' \in [Start -> {"starting", "seeding", "up", "stopped"}]
    BY DEF TypeOK
  <2>4. faults' \in Nat
    BY DEF TypeOK
  <2>5. stopped' \in BOOLEAN
    <3>1. stopped' = stopped \/ stopped' = (stopped \/ seeded[p] > 0)
      OBVIOUS
    <3>2. (stopped \/ seeded[p] > 0) \in BOOLEAN
      OBVIOUS
    <3> QED BY <3>1, <3>2 DEF TypeOK
  <2> QED BY <1>1, <2>1, <2>2, <2>3, <2>4, <2>5 DEF TypeOK, formVars, pageVars
<1>6. /\ \A q \in Start : q # p => seeded'[q] = seeded[q] /\ phase'[q] = phase[q]
      /\ seeded'[p] >= seeded[p]
      /\ seeded'[p] > 0 => seeded[p] > 0 \/ SeedCustomers(p)
  BY Ids DEF TypeOK
<1>7. IndexInv'
  <2>1. CASE SeedCustomers(p)
    <3> SUFFICES ASSUME NEW c \in Customer, NEW d \in Customer, email'[c] # NoEmail,
                        email'[c] = email'[d]
                 PROVE  c = d
      BY DEF IndexInv, Exists
    <3>1. CASE email'[c] = email[c] /\ email'[d] = email[d]
      BY <3>1 DEF RowsKept, IndexInv, Exists
    <3>2. CASE \E e \in SeedEmail : c = <<p, e>>
      BY <1>4, <2>1, <3>2
    <3>3. CASE \E e \in SeedEmail : d = <<p, e>>
      BY <1>4, <2>1, <3>3
    <3> QED BY <1>4, <2>1, <3>1, <3>2, <3>3
  <2> QED BY <1>3, <2>1 DEF RowsKept, IndexInv, Exists
<1>8. RowsInv'
  <2>1. \A q \in Start, e \in SeedEmail :
            seeded'[q] > 0 => email'[<<q, e>>] = e \/ <<q, e>> \in renamed' \cup deleted'
    <3> SUFFICES ASSUME NEW q \in Start, NEW e \in SeedEmail, seeded'[q] > 0
                 PROVE  email'[<<q, e>>] = e \/ <<q, e>> \in renamed \cup deleted
      OBVIOUS
    <3>1. CASE q = p
      BY <1>3, <1>4, <1>6, <3>1 DEF RowsKept, RowsInv
    <3>2. CASE q # p
      <4>1. ~(\E g \in SeedEmail : <<q, e>> = <<p, g>>) /\ <<q, e>> \in Customer
        BY <3>2, Ids
      <4> QED BY <1>3, <1>4, <1>6, <3>2, <4>1 DEF RowsKept, RowsInv
    <3> QED BY <3>1, <3>2
  <2>2. \A a \in Create : email'[a] = email[a]
    BY <1>3, <1>4
  <2> QED BY <1>1, <2>1, <2>2 DEF RowsKept, RowsInv, Exists, formVars
<1>9. OnceInv'
  <2> SUFFICES ASSUME NEW q \in Start, NEW r \in Start, q # r, seeded'[q] > 0, seeded'[r] > 0
               PROVE  \/ {q} \X SeedEmail \subseteq renamed \cup deleted
                      \/ {r} \X SeedEmail \subseteq renamed \cup deleted
    BY <1>1 DEF OnceInv
  <2>1. CASE seeded[q] > 0 /\ seeded[r] > 0
    BY <2>1 DEF SeedKept, OnceInv
  <2>2. CASE ~(seeded[q] > 0 /\ seeded[r] > 0)
    <3>1. SeedCustomers(p) /\ (q = p \/ r = p)
      BY <1>6, <2>2 DEF TypeOK
    <3>2. PICK s \in {q, r} : s # p
      OBVIOUS
    <3>3. seeded[s] > 0
      BY <1>6, <3>2
    <3>4. \A e \in SeedEmail : <<s, e>> \in renamed \cup deleted
      BY <1>4, <3>1, <3>3, Ids DEF RowsKept, RowsInv
    <3> QED BY <3>2, <3>4
  <2> QED BY <2>1, <2>2
<1>10. FirstInv'
  <2> SUFFICES ASSUME \A q \in Start : seeded'[q] = 0
               PROVE  /\ \A q \in Start : phase'[q] # "up"
                      /\ \A c \in Customer : ~Exists(c)'
                      /\ \A r \in Request : pc'[r] = "new"
    BY DEF FirstInv
  <2>1. \A q \in Start : seeded[q] = 0
    BY <1>6 DEF TypeOK
  <2>2. ~SeedCustomers(p) /\ ~SeedMore(p)
    BY DEF TypeOK
  <2>3. \A q \in Start : phase'[q] # "up"
    BY <2>1, <2>2 DEF SeedKept, FirstInv, TypeOK
  <2> QED BY <1>1, <1>3, <2>1, <2>2, <2>3 DEF SeedKept, FirstInv, Exists
<1>11. WholeInv'
  <2>1. CASE SeedCheck(p)
    BY <2>1 DEF SeedKept, WholeInv, TypeOK
  <2>2. CASE SeedCustomers(p)
    BY <2>2, Ids DEF SeedKept, WholeInv, TypeOK
  <2>3. CASE SeedEnds(p)
    BY <2>3 DEF SeedKept, WholeInv, TypeOK
  <2>4. CASE SeedMore(p)
    <3>1. /\ seeded[p] \in 1..(SeedSaves - 1) /\ stopped' = stopped
          /\ seeded' = [seeded EXCEPT ![p] = @ + 1]
          /\ phase' = IF seeded[p] + 1 = SeedSaves THEN [phase EXCEPT ![p] = "up"] ELSE phase
          /\ phase[p] = "seeding"
      BY <2>4
    <3>2. phase \in [Start -> {"starting", "seeding", "up", "stopped"}] /\ SeedSaves \in Nat
          /\ seeded \in [Start -> 0..SeedSaves]
      BY Ids DEF TypeOK
    <3>3. seeded'[p] = seeded[p] + 1 /\ seeded[p] + 1 \in 1..SeedSaves
      BY ONLY <3>1, <3>2, p \in Start
    <3>4. seeded'[p] = SeedSaves => phase'[p] = "up"
      BY ONLY <3>1, <3>2, <3>3, p \in Start
    <3>5. seeded'[p] # SeedSaves => phase'[p] = "seeding" /\ seeded'[p] < SeedSaves
      BY ONLY <3>1, <3>2, <3>3, p \in Start
    <3>6. \A q \in Start : q # p => seeded'[q] = seeded[q] /\ phase'[q] = phase[q]
      BY <1>6
    <3>7. WholeInv
      BY DEF SeedKept
    <3> QED BY ONLY <3>1, <3>4, <3>5, <3>6, <3>7 DEF WholeInv
  <2> QED BY <2>1, <2>2, <2>3, <2>4
<1> QED BY <1>2, <1>5, <1>7, <1>8, <1>9, <1>10, <1>11 DEF RowsKept, SeedKept

-----------------------------------------------------------------------------
(* A step of a request that writes no row.                                 *)
LEMMA AnswerKeeps ==
    ASSUME IInv, NEW r \in Request, NEW from, NEW to, Go(r, from, to),
           from # "new", from \notin Answers,
           to \in {"loaded", "checked", "saved", "200", "201", "204", "404", "409", "500"},
           faults' \in Nat, loaded' \in [Edit -> Email \cup {NoEmail}],
           UNCHANGED <<email, seeding, wanted, target, gone, kind, pageVars>>,
           r \notin Create => to \notin {"saved", "201"} /\ filed' = filed /\ unsent' = unsent,
           r \in Create => /\ filed' = filed \/ filed' = filed \cup {r}
                           /\ unsent' = unsent \/ unsent' = unsent \cup {r}
                           /\ to \in {"saved", "201"} => kind[r[1]] = "claim" /\ r \in filed'
                           /\ to = "409" => kind[r[1]] = "customer"
                           /\ r \in filed' => \/ to \in {"saved", "201"}
                                              \/ r \in filed /\ r \in unsent'
                           /\ r \in filed' => kind[r[1]] = "claim"
    PROVE  IInv'
<1> USE DEF IInv, Go, seeding, Answers, gone
<1>1. pc'[r] = to /\ \A s \in Request : s # r => pc'[s] = pc[s]
  BY DEF TypeOK
<1>2. TypeOK'
  BY DEF TypeOK, pageVars
<1>3. RowsKept'
  <2>1. IndexInv'
    BY DEF RowsKept, IndexInv, Exists
  <2>2. RowsInv'
    BY <1>1, Ids DEF RowsKept, RowsInv, Exists
  <2> QED BY <2>1, <2>2 DEF RowsKept
<1>4. SeedKept'
  BY DEF SeedKept, OnceInv, FirstInv, WholeInv
<1>5. PagesInv'
  <2>1. \A a \in Create : (pc'[a] = "new" <=> pc[a] = "new") /\ (pc[a] \in Answers => pc'[a] = pc[a])
    BY <1>1, Ids
  <2> QED BY <2>1, PagesKept
<1>6. FiledInv'
  <2> SUFFICES ASSUME NEW a \in Create
               PROVE  /\ a \in filed' => kind[a[1]] = "claim" /\ (pc'[a] \in {"saved", "201"} \/ a \in unsent')
                      /\ pc'[a] = "saved" => kind[a[1]] = "claim"
                      /\ kind[a[1]] = "claim" /\ pc'[a] \in {"saved", "201"} => a \in filed'
                      /\ kind[a[1]] = "claim" => pc'[a] # "409"
    BY DEF FiledInv
  <2>1. CASE a = r
    BY <1>1, <2>1
  <2>2. CASE a # r
    BY <1>1, <2>2, Ids DEF FiledInv
  <2> QED BY <2>1, <2>2
<1> QED BY <1>2, <1>3, <1>4, <1>5, <1>6

(* A step of a request that writes a row, or deletes it.                   *)
Writes(r, c, e, to) ==
    \/ /\ r \in Create /\ c = r /\ to = "201" /\ e \in Email /\ e = wanted[r]
       /\ kind[r[1]] = "customer" /\ UNCHANGED <<renamed, deleted>>
    \/ /\ r \in Edit /\ Exists(c) /\ to = "200" /\ e \in Email
       /\ renamed' = renamed \cup {c} /\ deleted' = deleted
    \/ /\ r \in Delete /\ to \in {"204", "500"} /\ e = NoEmail
       /\ renamed' = renamed /\ deleted' = IF Exists(c) THEN deleted \cup {c} ELSE deleted

LEMMA WriteKeeps ==
    ASSUME IInv, NEW r \in Request, NEW from \in {"loaded", "checked"}, NEW to, Go(r, from, to),
           NEW c \in Customer, NEW e, e # NoEmail => \A d \in Customer : email[d] = e => d = c,
           email' = [email EXCEPT ![c] = e],
           UNCHANGED <<seeding, wanted, target, loaded, faults, formVars>>,
           Writes(r, c, e, to)
    PROVE  IInv'
<1> USE DEF IInv, Go, seeding, formVars, Answers
<1>0. e \in Email \cup {NoEmail} /\ to \in {"200", "201", "204", "500"}
  BY DEF Writes
<1>1. pc'[r] = to /\ \A s \in Request : s # r => pc'[s] = pc[s]
  BY DEF TypeOK
<1>2. email'[c] = e /\ \A d \in Customer : d # c => email'[d] = email[d]
  BY DEF TypeOK
<1>3. TypeOK'
  <2>1. renamed' \subseteq Customer /\ deleted' \subseteq Customer
    BY DEF Writes, TypeOK
  <2> QED BY <1>0, <2>1 DEF TypeOK, pageVars
<1>4. \A d \in Customer : Exists(d)' <=> IF d = c THEN e # NoEmail ELSE Exists(d)
  BY <1>2 DEF Exists
<1>5. IndexInv'
  BY <1>2, <1>4 DEF RowsKept, IndexInv, Exists
<1>6. /\ renamed \subseteq renamed' /\ deleted \subseteq deleted'
      /\ \A d \in Customer : d # c => (d \in renamed' <=> d \in renamed) /\ (d \in deleted' <=> d \in deleted)
  BY DEF Writes
<1>7. RowsInv'
  <2>1. ASSUME NEW p \in Start, NEW m \in SeedEmail, seeded[p] > 0
        PROVE  email'[<<p, m>>] = m \/ <<p, m>> \in renamed' \cup deleted'
    <3>1. <<p, m>> \in Customer /\ <<p, m>> \notin Create /\ m # NoEmail
      BY Ids
    <3>2. email[<<p, m>>] = m \/ <<p, m>> \in renamed \cup deleted
      BY <2>1 DEF RowsKept, RowsInv
    <3>3. CASE <<p, m>> = c
      BY <3>1, <3>2, <3>3, <1>6 DEF Writes, Exists
    <3> QED BY <1>2, <1>6, <3>1, <3>2, <3>3
  <2>2. ASSUME NEW a \in Create
        PROVE  /\ Exists(a)' \/ a \in deleted' <=> pc'[a] = "201" /\ kind[a[1]] = "customer"
               /\ Exists(a)' => email'[a] = wanted[a] \/ a \in renamed'
    <3>1. /\ Exists(a) \/ a \in deleted <=> pc[a] = "201" /\ kind[a[1]] = "customer"
          /\ Exists(a) => email[a] = wanted[a] \/ a \in renamed
          /\ a \in Customer /\ a \in Request /\ a \notin Edit /\ a \notin Delete
      BY Ids DEF RowsKept, RowsInv
    <3>2. CASE a # c /\ a # r
      BY <1>1, <1>2, <1>4, <1>6, <3>1, <3>2
    <3>3. CASE a = r
      BY <1>1, <1>2, <1>4, <3>1, <3>3, Ids DEF Writes
    <3>4. CASE a = c /\ a # r
      <4>1. CASE r \in Edit /\ Exists(c) /\ e \in Email /\ renamed' = renamed \cup {c} /\ deleted' = deleted
        BY <1>1, <1>2, <1>4, <3>1, <3>4, <4>1, Ids
      <4>2. CASE e = NoEmail /\ deleted' = IF Exists(c) THEN deleted \cup {c} ELSE deleted
        BY <1>1, <1>2, <1>4, <3>1, <3>4, <4>2
      <4> QED BY <3>4, <4>1, <4>2 DEF Writes
    <3> QED BY <3>2, <3>3, <3>4
  <2> QED BY <2>1, <2>2 DEF RowsInv
<1>8. SeedKept'
  <2>1. WholeInv'
    BY DEF SeedKept, WholeInv
  <2>2. OnceInv'
    BY <1>6 DEF SeedKept, OnceInv
  <2>3. FirstInv'
    BY DEF SeedKept, FirstInv
  <2> QED BY <2>1, <2>2, <2>3 DEF SeedKept
<1>9. PagesInv'
  <2>1. \A a \in Create : (pc'[a] = "new" <=> pc[a] = "new") /\ (pc[a] \in Answers => pc'[a] = pc[a])
    BY <1>0, <1>1, Ids
  <2> QED BY <2>1, PagesKept
<1>10. FiledInv'
  <2> SUFFICES ASSUME NEW a \in Create
               PROVE  /\ a \in filed => kind[a[1]] = "claim" /\ (pc'[a] \in {"saved", "201"} \/ a \in unsent)
                      /\ pc'[a] = "saved" => kind[a[1]] = "claim"
                      /\ kind[a[1]] = "claim" /\ pc'[a] \in {"saved", "201"} => a \in filed
                      /\ kind[a[1]] = "claim" => pc'[a] # "409"
    BY DEF FiledInv
  <2>1. CASE a = r
    BY <1>1, <2>1, Ids DEF Writes, FiledInv
  <2>2. CASE a # r
    BY <1>1, <2>2, Ids DEF FiledInv
  <2> QED BY <2>1, <2>2
<1> QED BY <1>3, <1>5, <1>7, <1>8, <1>9, <1>10 DEF RowsKept

-----------------------------------------------------------------------------
LEMMA SendingKeeps ==
    ASSUME IInv, NEW r \in Edit \cup Delete, UNCHANGED formVars, Sending(r) PROVE IInv'
<1> USE DEF IInv, formVars, Sending, gone, seeding
<1>1. r \in Request /\ r \notin Create
  BY Ids
<1>2. pc' = [pc EXCEPT ![r] = "sent"] /\ \A s \in Request : s # r => pc'[s] = pc[s]
  BY DEF Send, Go, TypeOK
<1>3. TypeOK'
  BY <1>1, <1>2 DEF TypeOK, pageVars
<1>4. RowsKept' /\ FiledInv'
  BY <1>1, <1>2, Ids DEF RowsKept, IndexInv, RowsInv, Exists, FiledInv
<1>5. SeedKept'
  <2>1. \E p \in Start : seeded[p] # 0
    BY CustomersAssumption DEF SeedKept, FirstInv, Send
  <2> QED BY <2>1 DEF SeedKept, OnceInv, FirstInv, WholeInv
<1>6. PagesInv'
  BY <1>1, <1>2, Ids, PagesKept
<1> QED BY <1>3, <1>4, <1>5, <1>6

LEMMA UpdateKeeps ==
    ASSUME IInv, NEW r \in Edit, UNCHANGED formVars,
           Sending(r) \/ LoadCustomer(r) \/ CheckNewEmail(r) \/ SaveUpdate(r)
    PROVE  IInv'
<1> USE DEF formVars
<1>0. r \in Request /\ r \notin Create /\ r \notin Delete
      /\ target[r] \in Customer /\ wanted[r] \in Email /\ wanted[r] # NoEmail
      /\ faults \in Nat /\ loaded \in [Edit -> Email \cup {NoEmail}]
      /\ email[target[r]] \in Email \cup {NoEmail}
  BY Ids DEF IInv, TypeOK
<1>1. CASE Sending(r)
  BY <1>1, SendingKeeps
<1>2. CASE LoadCustomer(r)
  BY <1>0, <1>2, AnswerKeeps DEF LoadCustomer, Answers
<1>3. CASE CheckNewEmail(r)
  BY <1>0, <1>3, AnswerKeeps DEF CheckNewEmail, Answers
<1>4. CASE SaveUpdate(r)
  <2> DEFINE c == target[r]
             writes == /\ wanted[r] # loaded[r] /\ Exists(c)
                       /\ Holders(wanted[r]) \subseteq {c}
  <2>1. CASE writes
    <3>1. \A d \in Customer : email[d] = wanted[r] => d = c
      BY <2>1 DEF Holders
    <3>2. /\ Go(r, "checked", "200") /\ email' = [email EXCEPT ![c] = wanted[r]]
          /\ renamed' = renamed \cup {c} /\ deleted' = deleted
      BY <1>4, <2>1 DEF SaveUpdate
    <3>3. UNCHANGED <<seeding, wanted, target, loaded, faults, formVars>>
      BY <1>4 DEF SaveUpdate
    <3>4. Writes(r, c, wanted[r], "200")
      BY <1>0, <2>1, <3>2 DEF Writes
    <3>5. r \in Request /\ c \in Customer /\ "checked" \in {"loaded", "checked"}
      BY <1>0
    <3> QED BY ONLY IInv, <3>1, <3>2, <3>3, <3>4, <3>5, WriteKeeps
  <2>2. CASE ~writes
    <3>1. /\ Go(r, "checked", "500") \/ Go(r, "checked", "200")
          /\ UNCHANGED <<email, renamed, deleted, seeding, wanted, target, loaded, faults>>
      BY <1>4, <2>2 DEF SaveUpdate
    <3>2. faults' \in Nat /\ loaded' \in [Edit -> Email \cup {NoEmail}] /\ UNCHANGED gone
      BY <1>0, <3>1 DEF gone
    <3> QED BY <1>0, <3>1, <3>2, AnswerKeeps DEF Answers
  <2> QED BY <2>1, <2>2
<1> QED BY <1>1, <1>2, <1>3, <1>4

LEMMA DeleteKeeps ==
    ASSUME IInv, NEW r \in Delete, UNCHANGED formVars,
           Sending(r) \/ LoadToDelete(r) \/ RemoveCustomer(r)
    PROVE  IInv'
<1> USE DEF formVars
<1>0. r \in Request /\ r \notin Create /\ target[r] \in Customer
      /\ faults \in Nat /\ loaded \in [Edit -> Email \cup {NoEmail}]
  BY Ids DEF IInv, TypeOK
<1>1. CASE Sending(r)
  BY <1>1, SendingKeeps
<1>2. CASE LoadToDelete(r)
  <2>1. PICK s \in {"loaded", "404", "409"} : Go(r, "sent", s)
    BY <1>2 DEF LoadToDelete
  <2> QED BY <1>0, <1>2, <2>1, AnswerKeeps DEF LoadToDelete, Answers
<1>3. CASE RemoveCustomer(r)
  <2> DEFINE c == target[r]
  <2>1. PICK to \in {"204", "500"} : Go(r, "loaded", to)
    BY <1>3 DEF RemoveCustomer
  <2>2. Writes(r, c, NoEmail, to)
    BY <1>3 DEF RemoveCustomer, Writes
  <2>3. /\ email' = [email EXCEPT ![c] = NoEmail]
        /\ UNCHANGED <<seeding, wanted, target, loaded, faults, formVars>>
    BY <1>3 DEF RemoveCustomer
  <2>4. r \in Request /\ c \in Customer /\ "loaded" \in {"loaded", "checked"}
    BY <1>0
  <2> QED BY ONLY IInv, <2>1, <2>2, <2>3, <2>4, WriteKeeps
<1> QED BY <1>1, <1>2, <1>3

LEMMA FailKeeps == ASSUME IInv, NEW r \in Request, FailRequest(r), UNCHANGED formVars PROVE IInv'
<1>1. PICK s \in {"sent", "loaded", "checked"} : Go(r, s, "500")
  BY DEF FailRequest
<1>2. r \in Create => r \notin filed \/ r \in unsent
  BY <1>1, Ids DEF Go, IInv, FiledInv
<1>3. faults' \in Nat /\ loaded' \in [Edit -> Email \cup {NoEmail}]
  BY DEF FailRequest, Fault, IInv, TypeOK
<1>4. r \in Create /\ r \in filed => kind[r[1]] = "claim"
  BY DEF IInv, FiledInv
<1> QED BY <1>1, <1>2, <1>3, <1>4, Ids, AnswerKeeps DEF FailRequest, formVars, Answers

LEMMA HandleKeeps == ASSUME IInv, NEW a \in Create, Handle(a) PROVE IInv'
<1>0. a \in Request /\ a \notin Edit /\ a \in Customer /\ wanted[a] \in Email /\ wanted[a] # NoEmail
      /\ faults \in Nat /\ loaded \in [Edit -> Email \cup {NoEmail}]
  BY Ids DEF IInv, TypeOK
<1>1. a \in filed => kind[a[1]] = "claim" /\ (pc[a] \in {"saved", "201"} \/ a \in unsent)
  BY DEF IInv, FiledInv
<1>2. CASE kind[a[1]] = "customer" /\ CheckEmail(a) /\ UNCHANGED formVars
  BY <1>0, <1>1, <1>2, AnswerKeeps DEF CheckEmail, formVars, Answers
<1>3. CASE kind[a[1]] = "customer" /\ SaveCustomer(a) /\ UNCHANGED formVars
  <2>1. CASE EmailsAreFree({wanted[a]})
    <3>1. \A d \in Customer : email[d] = wanted[a] => d = a
      BY <2>1 DEF EmailsAreFree, Holders
    <3>2. Go(a, "checked", "201") /\ email' = [email EXCEPT ![a] = wanted[a]]
      BY <1>3, <2>1 DEF SaveCustomer
    <3>3. UNCHANGED <<seeding, wanted, target, loaded, faults, formVars>>
      BY <1>3 DEF SaveCustomer
    <3>4. Writes(a, a, wanted[a], "201")
      BY <1>0, <1>3 DEF SaveCustomer, Writes, gone
    <3>5. a \in Request /\ a \in Customer /\ "checked" \in {"loaded", "checked"}
      BY <1>0
    <3> QED BY ONLY IInv, <3>1, <3>2, <3>3, <3>4, <3>5, WriteKeeps
  <2>2. CASE ~EmailsAreFree({wanted[a]})
    BY <1>0, <1>1, <1>3, <2>2, AnswerKeeps DEF SaveCustomer, formVars, Answers
  <2> QED BY <2>1, <2>2
<1>4. CASE SaveClaim(a)
  BY <1>0, <1>4, AnswerKeeps DEF SaveClaim, Answers
<1>5. CASE AcceptClaim(a)
  <2>1. kind[a[1]] = "claim" /\ a \in filed
    BY <1>5 DEF AcceptClaim, Go, IInv, FiledInv
  <2> QED BY <1>0, <1>5, <2>1, AnswerKeeps DEF AcceptClaim, formVars, Answers
<1>6. CASE FailDispatch(a)
  <2>1. kind[a[1]] = "claim" /\ a \in filed
    BY <1>6 DEF FailDispatch, Go, IInv, FiledInv
  <2> QED BY <1>0, <1>6, <2>1, AnswerKeeps DEF FailDispatch, Fault, Answers
<1> QED BY <1>2, <1>3, <1>4, <1>5, <1>6 DEF Handle

LEMMA SubmitKeeps == ASSUME IInv, NEW f \in Form, Submit(f) PROVE IInv'
<1> DEFINE n == NewAttempt(f)
<1> USE DEF IInv
<1>1. n \in Create /\ n[1] = f /\ pc[n] = "new"
  BY Ids DEF TypeOK, Submit, Post, Send, Go, NewAttempt
<1>2. PageType'
  BY <1>1, Zenon DEF TypeOK, PageType, Submit
<1>3. \A g \in Form : Succeeded(g)' <=> Succeeded(g)
  BY DEF Submit, Succeeded, TypeOK
<1>4. ASSUME n \notin doubled', NEW b \in Attempts(f), pc[b] # "new"
      PROVE  b \notin awaited' /\ (b \in abandoned' \/ pc[b] \in {"409", "500"})
  <2>1. ~Succeeded(f) /\ b \notin awaited /\ b \in Create /\ b[1] = f
    BY <1>4, Ids DEF Submit
  <2> QED BY <1>1, <1>4, <2>1 DEF Submit, PagesInv, OverInv, Lapsed
<1>5. /\ awaited' = awaited \cup {n} /\ abandoned' = abandoned
      /\ doubled' = doubled \/ doubled' = doubled \cup {n}
  BY DEF Submit
<1>6. Succeeds(n)
  BY <1>1, <1>3, <1>4, <1>5 DEF Succeeds
<1> QED BY <1>2, <1>6, PostKeeps DEF Submit

LEMMA RepostKeeps ==
    ASSUME IInv, NEW a \in awaited, Repost(a), faults' \in Nat, abandoned' \subseteq Create,
           abandoned \subseteq abandoned', a \in abandoned' \/ pc[a] = "500"
    PROVE  IInv'
<1> DEFINE n == NewAttempt(a[1])
<1> USE DEF IInv
<1>0. a \in Create /\ a[1] \in Form /\ pc[a] # "new"
  BY Ids DEF TypeOK, PagesInv, AwaitInv
<1>1. n \in Create /\ n[1] = a[1] /\ pc[n] = "new"
  BY <1>0, Ids DEF TypeOK, Repost, Post, Send, Go, NewAttempt
<1>2. /\ awaited' = (awaited \ {a}) \cup {n}
      /\ doubled' = IF a \in doubled THEN doubled \cup {n} ELSE doubled
      /\ UNCHANGED <<submitting, button, message>>
  BY DEF Repost
<1>3. PageType'
  BY <1>1, <1>2 DEF TypeOK, PageType
<1>4. \A g \in Form : Succeeded(g)' <=> Succeeded(g)
  BY <1>2 DEF Succeeded
<1>5. ASSUME n \notin doubled', NEW b \in Attempts(n[1]), pc[b] # "new", b \notin doubled
      PROVE  b \notin awaited' /\ (b \in abandoned' \/ pc[b] \in {"409", "500"})
  <2>1. a \notin doubled /\ b \in Create /\ b[1] = a[1] /\ b # n
    BY <1>0, <1>1, <1>2, <1>5, Ids
  <2>2. CASE b = a
    BY <1>2, <2>1, <2>2
  <2>3. CASE b[2] < a[2]
    <3>1. Single(a, b)
      BY <1>0, <1>5, <2>1, <2>3 DEF Single
    <3>2. Lapsed(b) /\ b \notin awaited
      BY <1>0, <2>1, <3>1 DEF PagesInv, OrderInv, AwaitInv
    <3> QED BY <1>2, <2>1, <3>2 DEF Lapsed
  <2>4. CASE a[2] < b[2]
    <3>1. Single(b, a)
      BY <1>0, <1>5, <2>1, <2>4 DEF Single
    <3> QED BY <2>1, <3>1 DEF PagesInv, AwaitInv
  <2>5. b = a \/ b[2] < a[2] \/ a[2] < b[2]
    BY <1>0, <2>1, Ids
  <2> QED BY <2>2, <2>3, <2>4, <2>5
<1>6. Succeeds(n)
  BY <1>1, <1>2, <1>4, <1>5 DEF Succeeds
<1> QED BY <1>0, <1>3, <1>6, PostKeeps DEF Repost

LEMMA ShowKeeps == ASSUME IInv, NEW f \in Form, ShowButton(f) PROVE IInv'
<1> USE DEF IInv, ShowButton, customersVars, requests
<1>1. TypeOK'
  <2>1. button' \in [Form -> BOOLEAN]
    <3>1. (~submitting[f] /\ ~Closed(f)) \in BOOLEAN
      OBVIOUS
    <3> QED BY <3>1 DEF TypeOK
  <2> QED BY <2>1 DEF TypeOK, seeding, gone
<1>2. RowsKept' /\ SeedKept' /\ FiledInv'
  BY DEF RowsKept, IndexInv, RowsInv, Exists, SeedKept, OnceInv, FirstInv, WholeInv, FiledInv,
         seeding, gone
<1>3. PagesInv'
  BY DEF PagesInv, PostedInv, OverInv, Lapsed, SuccessInv, Succeeded, AwaitInv, OrderInv, Single
<1> QED BY <1>1, <1>2, <1>3

LEMMA PageKeeps ==
    ASSUME IInv, NEW a \in Create, Answer(a) \/ Retry(a) \/ GiveUp(a) PROVE IInv'
<1>0. a[1] \in Form /\ faults \in Nat /\ abandoned \subseteq Create /\ a \in awaited
  BY Ids DEF IInv, TypeOK, Answer, Retry, GiveUp
<1>1. ASSUME NEW what \in SUBSET {"success", "error"}, Told(a[1], what), UNCHANGED <<button, doubled>>,
             awaited' = awaited \ {a}, abandoned' \subseteq Create, faults' \in Nat
      PROVE  PageType'
  <2>1. message' \in [Form -> SUBSET {"success", "error"}]
    BY <1>0, <1>1 DEF Told, IInv, TypeOK
  <2>2. submitting' \in [Form -> BOOLEAN]
    <3>1. \A x : (x /\ kind[a[1]] = "claim" /\ "success" \in what) \in BOOLEAN
      OBVIOUS
    <3> QED BY <1>0, <1>1, <3>1 DEF Told, IInv, TypeOK
  <2> QED BY <1>1, <2>1, <2>2 DEF PageType, IInv, TypeOK
<1>2. CASE Answer(a)
  <2>1. PICK what \in SUBSET {"success", "error"} :
            /\ Told(a[1], what) /\ faults' \in Nat
            /\ "success" \in what <=> pc[a] = "201"
    <3>1. CASE Told(a[1], {IF pc[a] = "201" THEN "success" ELSE "error"}) /\ UNCHANGED faults
      BY <1>0, <3>1
    <3>2. CASE pc[a] = "201" /\ Fault /\ Told(a[1], {"success", "error"})
      BY <1>0, <3>2 DEF Fault
    <3> QED BY <1>2, <3>1, <3>2 DEF Answer
  <2>2. /\ awaited' = awaited \ {a} /\ UNCHANGED <<button, doubled, abandoned>>
        /\ UNCHANGED <<email, seeding, requests, gone, kind, attempt, doubled, filed, unsent>>
        /\ pc[a] \in {"201", "409", "500"}
    BY <1>2 DEF Answer, Answers
  <2>3. PageType'
    BY <1>0, <1>1, <2>1, <2>2
  <2> QED BY <1>0, <2>1, <2>2, <2>3, ToldKeeps
<1>3. CASE Retry(a)
  BY <1>0, <1>3, RepostKeeps DEF Retry
<1>4. CASE GiveUp(a)
  <2>1. /\ faults' \in Nat /\ abandoned' \subseteq Create /\ abandoned \subseteq abandoned'
        /\ a \in abandoned'
    BY <1>0, <1>4 DEF GiveUp, Fault
  <2>2. CASE Repost(a)
    BY <1>0, <2>1, <2>2, RepostKeeps
  <2>3. CASE ~Repost(a)
    <3>1. /\ Told(a[1], {"error"}) /\ awaited' = awaited \ {a}
          /\ UNCHANGED <<email, seeding, requests, gone, kind, button, attempt, doubled, filed, unsent>>
      BY <1>4, <2>3 DEF GiveUp
    <3>2. {"error"} \in SUBSET {"success", "error"} /\ "success" \notin {"error"}
      OBVIOUS
    <3>3. PageType'
      BY <1>1, <2>1, <3>1, <3>2
    <3> QED BY <1>0, <2>1, <3>1, <3>2, <3>3, ToldKeeps
  <2> QED BY <2>2, <2>3
<1> QED BY <1>2, <1>3, <1>4

LEMMA NextIInv == IInv /\ [Next]_vars => IInv'
<1> SUFFICES ASSUME IInv, [Next]_vars PROVE IInv'
  OBVIOUS
<1>1. ASSUME NEW f \in Form, Submit(f) \/ ShowButton(f) PROVE IInv'
  BY <1>1, SubmitKeeps, ShowKeeps
<1>2. ASSUME NEW a \in Create, Answer(a) \/ Retry(a) \/ GiveUp(a) \/ Handle(a) PROVE IInv'
  BY <1>2, PageKeeps, HandleKeeps
<1>3. CASE StartUp /\ UNCHANGED formVars
  BY <1>3, StartUpKeeps DEF StartUp
<1>4. CASE Change /\ UNCHANGED formVars
  BY <1>4, UpdateKeeps, DeleteKeeps DEF Change
<1>5. ASSUME NEW r \in Request, FailRequest(r), UNCHANGED formVars PROVE IInv'
  BY <1>5, FailKeeps
<1>6. CASE UNCHANGED vars
  <2>1. UNCHANGED <<email, seeding, requests, faults, gone, formVars>>
    BY <1>6 DEF vars, customersVars
  <2>2. TypeOK'
    BY <2>1 DEF IInv, TypeOK, seeding, requests, gone, formVars, pageVars
  <2>3. RowsKept' /\ SeedKept' /\ FiledInv'
    BY <2>1 DEF IInv, RowsKept, IndexInv, RowsInv, Exists, SeedKept, OnceInv, FirstInv,
                WholeInv, FiledInv, seeding, requests, gone, formVars
  <2>4. PagesInv'
    BY <2>1, PagesKept DEF requests, formVars
  <2> QED BY <2>2, <2>3, <2>4 DEF IInv
<1> QED BY <1>1, <1>2, <1>3, <1>4, <1>5, <1>6 DEF Next

LEMMA SpecIInv == Spec => []IInv
  BY InitIInv, NextIInv, PTL DEF Spec

-----------------------------------------------------------------------------
(* A set whose cardinality is more than one has two members.               *)
LEMMA TwoMembers == ASSUME NEW S, Cardinality(S) > 1 PROVE \E a, b \in S : a # b
<1> SUFFICES ASSUME \A a, b \in S : a = b PROVE FALSE
  OBVIOUS
<1>1. S # {}
  BY FS_EmptySet
<1>2. PICK a \in S : S = {a}
  BY <1>1
<1> QED BY <1>2, FS_Singleton

(* A set whose members are all equal has at most one.                      *)
LEMMA OneMember == ASSUME NEW S, \A a, b \in S : a = b PROVE Cardinality(S) <= 1
<1>1. CASE S = {}
  BY <1>1, FS_EmptySet
<1>2. CASE S # {}
  <2>1. PICK a \in S : S = {a}
    BY <1>2
  <2>2. Cardinality({a}) = 1
    BY FS_Singleton
  <2> QED BY <2>1, <2>2
<1> QED BY <1>1, <1>2

(* Table, pages and histories are well typed: a row has one e-mail or none,*)
(* and a form never has more attempts than it may.                         *)
THEOREM TypeCorrect == Spec => []TypeOK
<1>1. IInv => TypeOK
  BY DEF IInv
<1> QED BY <1>1, SpecIInv, PTL

(* However many requests and seedings overlap, no two customers share an   *)
(* e-mail.                                                                 *)
THEOREM Index == Spec => []EmailsUnique
<1>1. IInv => EmailsUnique
  <2> SUFFICES ASSUME IInv, NEW e \in Email PROVE Cardinality(Holders(e)) <= 1
    BY DEF EmailsUnique
  <2>1. \A a, b \in Holders(e) : a = b
    BY Ids DEF IInv, RowsKept, IndexInv, Exists, Holders
  <2> QED BY <2>1, OneMember
<1> QED BY <1>1, SpecIInv, PTL

(* However many processes start, together or after one another, and        *)
(* whatever is created, updated and deleted meanwhile: a second seeding    *)
(* gets through only when the first has lost every customer to deletions   *)
(* and other e-mails, and the seed is complete where none was cut short.   *)
THEOREM Seeding == Spec => []SeededOnce
<1>1. IInv => SeededOnce
  <2> SUFFICES ASSUME IInv PROVE SeededOnce
    OBVIOUS
  <2>1. ASSUME ~stopped, NEW q \in Start, phase[q] = "up", \A p \in Start : phase[p] # "seeding"
        PROVE  \E p \in Start : seeded[p] = SeedSaves
    <3>1. PICK p \in Start : seeded[p] # 0
      BY <2>1 DEF IInv, SeedKept, FirstInv
    <3>2. seeded[p] > 0
      BY <3>1, Ids DEF IInv, TypeOK
    <3> QED BY <2>1, <3>2 DEF IInv, SeedKept, WholeInv
  <2> QED BY <2>1 DEF SeededOnce, IInv, SeedKept, OnceInv
<1> QED BY <1>1, SpecIInv, PTL

(* Whatever is clicked twice, repeated, lost or given up: a form that      *)
(* shows success has its customer or its claim, one that does not has none *)
(* but through attempts whose answer it never saw, one that shows a        *)
(* conflict with itself gave up an attempt or was clicked twice, and one   *)
(* has two customers only if one of them was renamed.                      *)
THEOREM Telling == Spec => []FormsToldTruth
<1>1. IInv => FormsToldTruth
  <2> SUFFICES ASSUME IInv, NEW f \in Form
               PROVE  /\ Succeeded(f) => \E a \in Attempts(f) : Made(a)
                      /\ ~Succeeded(f) => \A a \in Attempts(f) :
                            Made(a) => a \in awaited \cup abandoned \cup unsent
                      /\ \A a, b \in Attempts(f) :
                            b[2] < a[2] /\ pc[a] = "409" /\ Exists(b)
                                => b \in abandoned \/ {a, b} \cap doubled # {}
                      /\ Cardinality({a \in Attempts(f) : Exists(a)}) > 1
                            => renamed \cap Attempts(f) # {}
    BY DEF FormsToldTruth
  <2> USE DEF IInv
  <2>0. \A a \in Attempts(f) : a \in Create /\ a[1] = f /\ kind[f] \in {"customer", "claim"}
    BY Ids DEF TypeOK
  <2>1. ASSUME Succeeded(f) PROVE \E a \in Attempts(f) : Made(a)
    <3>1. PICK a \in Attempts(f) : pc[a] = "201"
      BY <2>1 DEF PagesInv, SuccessInv
    <3> QED BY <2>0, <3>1 DEF Made, RowsKept, RowsInv, FiledInv
  <2>2. ASSUME ~Succeeded(f), NEW a \in Attempts(f), Made(a)
        PROVE  a \in awaited \cup abandoned \cup unsent
    <3>1. pc[a] \in {"saved", "201"} \/ a \in unsent
      BY <2>0, <2>2 DEF Made, RowsKept, RowsInv, FiledInv
    <3> QED BY <2>0, <2>2, <3>1 DEF PagesInv, OverInv, Lapsed
  <2>3. ASSUME NEW a \in Attempts(f), NEW b \in Attempts(f), b[2] < a[2], pc[a] = "409", Exists(b)
        PROVE  b \in abandoned \/ {a, b} \cap doubled # {}
    <3>1. pc[b] = "201"
      BY <2>0, <2>3 DEF RowsKept, RowsInv
    <3> QED BY <2>0, <2>3, <3>1 DEF PagesInv, OrderInv, Single, Lapsed
  <2>4. ASSUME Cardinality({a \in Attempts(f) : Exists(a)}) > 1
        PROVE  renamed \cap Attempts(f) # {}
    <3>1. PICK a \in Attempts(f), b \in Attempts(f) : Exists(a) /\ Exists(b) /\ a # b
      BY <2>4, TwoMembers
    <3>2. a \in Create /\ b \in Create /\ wanted[a] = wanted[b]
      BY Ids DEF PagesInv, PostedInv
    <3>3. (email[a] = wanted[a] \/ a \in renamed) /\ (email[b] = wanted[b] \/ b \in renamed)
      BY <3>1, <3>2 DEF RowsKept, RowsInv
    <3> QED BY <3>1, <3>2, <3>3, Ids DEF RowsKept, IndexInv
  <2> QED BY <2>1, <2>2, <2>3, <2>4
<1> QED BY <1>1, SpecIInv, PTL

(* Of the claims a form filed, at most one is neither by a double click,   *)
(* nor by an attempt that had no answer in time or failed after its commit.*)
THEOREM Filing == Spec => []FiledTwiceHasCause
<1>1. IInv => FiledTwiceHasCause
  <2> SUFFICES ASSUME IInv, NEW f \in Form
               PROVE  Cardinality((Attempts(f) \cap filed) \ (abandoned \cup unsent \cup doubled)) <= 1
    BY DEF FiledTwiceHasCause
  <2> DEFINE S == (Attempts(f) \cap filed) \ (abandoned \cup unsent \cup doubled)
  <2>1. ASSUME NEW a \in S, NEW b \in S, b[2] < a[2] PROVE FALSE
    <3>1. /\ a \in Create /\ b \in Create /\ a[1] = f /\ b[1] = f
          /\ pc[a] \in {"saved", "201"} /\ pc[b] \in {"saved", "201"}
      BY Ids DEF IInv, FiledInv
    <3>2. Single(a, b)
      BY <2>1, <3>1 DEF Single
    <3> QED BY <3>1, <3>2 DEF IInv, PagesInv, OrderInv, Lapsed
  <2>2. \A a, b \in S : a = b
    <3>1. \A a, b \in S : ~(b[2] < a[2])
      BY <2>1
    <3>2. \A a \in S : a = <<f, a[2]>> /\ a[2] \in Nat
      BY Ids
    <3> QED BY <3>1, <3>2
  <2> QED BY ONLY <2>2, OneMember
<1> QED BY <1>1, SpecIInv, PTL

-----------------------------------------------------------------------------
(* The dialog of a page that lost its server (Reconnect), for any number   *)
(* of attempts, losses and outages.                                        *)

(* The attempts that put the listener back when they throw.                *)
Reconnecting == {a \in Attempt : call[a] \in {"reconnect", "resumeCircuit"}}

ListenerInv == Live /\ connection = "failed" => listening \/ Reconnecting # {}

DialogInv == Live /\ connection # "up" => modal

(* What a page that is paused, or says so, has at the server.              *)
PausedInv ==
    /\ class \in {"paused", "resume-failed"} => connection = "paused"
    /\ connection = "paused" => circuit # "held"

(* What an attempt that no other overlaps knows, until it has its answer.  *)
AloneInv ==
    ~overlapped =>
        /\ \A a, b \in Attempt : call[a] # "none" /\ call[b] # "none" => a = b
        /\ \A a \in Attempt : call[a] = "resume" => connection = "paused"
        /\ \A a \in Attempt :
              call[a] = "resumeCircuit" => connection # "up" /\ circuit # "held"

DialogKept ==
    /\ DialogTypeOK
    /\ ListenerInv
    /\ DialogInv
    /\ PausedInv
    /\ AloneInv
    /\ ReloadLosesNothing

-----------------------------------------------------------------------------
LEMMA InitDialog == DialogInit => DialogKept
<1> SUFFICES ASSUME DialogInit PROVE DialogKept
  OBVIOUS
<1>1. losses \in 0..MaxLoss /\ outages \in 0..MaxOutage
  BY BoundsAssumption DEF DialogInit
<1>2. call \in [Attempt -> Step] /\ \A a \in Attempt : call[a] = "none"
  BY DEF DialogInit, Step
<1>3. DialogTypeOK
  BY <1>1, <1>2 DEF DialogInit, DialogTypeOK
<1>4. ListenerInv /\ DialogInv /\ PausedInv /\ ReloadLosesNothing
  BY DEF DialogInit, ListenerInv, DialogInv, PausedInv, ReloadLosesNothing
<1>5. AloneInv
  BY <1>2 DEF AloneInv
<1> QED BY <1>3, <1>4, <1>5 DEF DialogKept

LEMMA ReportKeeps == DialogKept /\ Report => DialogKept'
<1> SUFFICES ASSUME DialogKept, Report PROVE DialogKept'
  OBVIOUS
<1> USE DEF DialogKept, Live, Report, Show, Pause, Lose,
            Hide, Failed, Rejected, Evict, dialog, bounds
<1>1. call' = call /\ overlapped' = overlapped /\ listening' \in BOOLEAN
  BY DEF DialogTypeOK
<1>2. DialogTypeOK'
  <2>1. losses' \in 0..MaxLoss /\ outages' \in 0..MaxOutage
    BY BoundsAssumption DEF DialogTypeOK
  <2>2. /\ tab' \in {"live", "reloaded", "rejected"}
        /\ connection' \in {"up", "lost", "failed", "paused"}
        /\ circuit' \in {"held", "saved", "gone"}
        /\ modal' \in BOOLEAN /\ visible' \in BOOLEAN
        /\ class' \in {"hide", "show", "failed", "paused", "resume-failed"}
    BY DEF dialog, DialogTypeOK
  <2> QED BY <1>1, <2>1, <2>2 DEF DialogTypeOK
<1>3. ListenerInv'
  BY <1>1 DEF ListenerInv, Reconnecting
<1>4. DialogInv'
  BY DEF DialogInv, dialog
<1>5. PausedInv'
  BY DEF PausedInv, dialog, DialogTypeOK
<1>6. AloneInv'
  BY <1>1 DEF AloneInv, PausedInv
<1>7. ReloadLosesNothing'
  BY <1>1 DEF ReloadLosesNothing
<1> QED BY <1>2, <1>3, <1>4, <1>5, <1>6, <1>7

(* Retry, ChangeVisibility and Resume begin an attempt.                    *)
LEMMA BeginKeeps ==
    ASSUME DialogKept, NEW a \in Attempt, NEW step \in Step, Begin(a, step),
           listening' \in BOOLEAN, visible' \in BOOLEAN,
           step = "resume" \/ (step = "reconnect" /\ ~listening'),
           step = "resume" => listening' = listening /\ connection = "paused"
    PROVE  DialogKept'
<1> USE DEF DialogKept, Live, Begin, bounds, dialog
<1>1. DialogTypeOK'
  BY DEF DialogTypeOK, Step
<1>2. call'[a] = step /\ \A b \in Attempt : b # a => call'[b] = call[b]
  BY DEF DialogTypeOK
<1>3. ListenerInv'
  BY <1>2 DEF ListenerInv, Reconnecting
<1>4. DialogInv' /\ PausedInv'
  BY DEF DialogInv, PausedInv
<1>5. AloneInv'
  BY <1>2 DEF AloneInv, Step
<1>6. ReloadLosesNothing'
  BY DEF ReloadLosesNothing
<1> QED BY <1>1, <1>3, <1>4, <1>5, <1>6

LEMMA SucceedKeeps == ASSUME DialogKept, NEW a \in Attempt, Succeed(a) PROVE DialogKept'
<1> USE DEF DialogKept, Live, Succeed, Done, bounds
<1>1. DialogTypeOK'
  BY DEF DialogTypeOK, Step
<1>2. ListenerInv' /\ DialogInv' /\ PausedInv'
  BY DEF ListenerInv, DialogInv, PausedInv
<1>3. AloneInv'
  BY DEF AloneInv, DialogTypeOK
<1>4. ReloadLosesNothing'
  BY DEF ReloadLosesNothing
<1> QED BY <1>1, <1>2, <1>3, <1>4

LEMMA RefusedKeeps == ASSUME DialogKept, NEW a \in Attempt, Refused(a) PROVE DialogKept'
<1> USE DEF DialogKept, Live, Refused, Done, bounds, dialog
<1>1. DialogTypeOK'
  BY DEF DialogTypeOK, Step
<1>2. /\ \A b \in Attempt : b # a => call'[b] = call[b]
      /\ call'[a] = IF call[a] = "reconnect" THEN "resumeCircuit" ELSE "none"
  BY DEF DialogTypeOK
<1>3. ListenerInv'
  BY <1>2 DEF ListenerInv, Reconnecting
<1>4. DialogInv' /\ PausedInv'
  BY DEF DialogInv, PausedInv
<1>5. AloneInv'
  BY <1>2 DEF AloneInv, Accepts
<1>6. ReloadLosesNothing'
  BY DEF ReloadLosesNothing, AloneInv, PausedInv, Accepts, DialogTypeOK, Step
<1> QED BY <1>1, <1>3, <1>4, <1>5, <1>6

LEMMA ThrowKeeps == ASSUME DialogKept, NEW a \in Attempt, Throw(a) PROVE DialogKept'
<1> USE DEF DialogKept, Live, Throw, Done
<1>1. DialogTypeOK'
  BY BoundsAssumption DEF DialogTypeOK, Step, Unanswered, ListenAgain
<1>2. /\ \A b \in Attempt : b # a => call'[b] = call[b]
      /\ call'[a] = "none"
      /\ circuit' = "gone" \/ circuit' = circuit
  BY DEF DialogTypeOK, Unanswered
<1>3. ListenerInv'
  BY <1>2 DEF ListenerInv, Reconnecting, ListenAgain
<1>4. DialogInv' /\ PausedInv'
  BY <1>2 DEF DialogInv, PausedInv
<1>5. AloneInv'
  BY <1>2 DEF AloneInv
<1>6. ReloadLosesNothing'
  BY <1>2 DEF ReloadLosesNothing
<1> QED BY <1>1, <1>3, <1>4, <1>5, <1>6

LEMMA NextDialog == DialogKept /\ [DialogNext]_dialogVars => DialogKept'
<1> SUFFICES ASSUME DialogKept, [DialogNext]_dialogVars PROVE DialogKept'
  OBVIOUS
<1>1. CASE Report
  BY <1>1, ReportKeeps
<1>2. ASSUME NEW a \in Attempt, RetryClick(a) PROVE DialogKept'
  BY <1>2, BeginKeeps DEF RetryClick, Step, DialogKept, DialogTypeOK
<1>3. ASSUME NEW a \in Attempt, ChangeVisibility(a) PROVE DialogKept'
  <2>1. CASE visible' /\ listening
    BY <1>3, <2>1, BeginKeeps DEF ChangeVisibility, Step
  <2>2. CASE ~(visible' /\ listening)
    <3>1. /\ visible' \in BOOLEAN
          /\ UNCHANGED <<tab, connection, circuit, modal, class, listening, call,
                         losses, outages, overlapped>>
      BY <1>3, <2>2 DEF ChangeVisibility, dialog, bounds, DialogKept,
                           DialogTypeOK
    <3> QED BY <3>1 DEF DialogKept, DialogTypeOK, ListenerInv, DialogInv, PausedInv, AloneInv,
                        ReloadLosesNothing, Live, Reconnecting
  <2> QED BY <2>1, <2>2
<1>4. ASSUME NEW a \in Attempt, ResumeClick(a) PROVE DialogKept'
  BY <1>4, BeginKeeps DEF ResumeClick, Step, DialogKept, DialogTypeOK, PausedInv
<1>5. ASSUME NEW a \in Attempt, CallEnds(a) PROVE DialogKept'
  BY <1>5, SucceedKeeps, RefusedKeeps, ThrowKeeps DEF CallEnds
<1>6. CASE UNCHANGED dialogVars
  BY <1>6 DEF dialogVars, bounds, dialog, DialogKept, DialogTypeOK,
              ListenerInv, DialogInv, PausedInv, AloneInv, ReloadLosesNothing, Live, Reconnecting
<1> QED BY <1>1, <1>2, <1>3, <1>4, <1>5, <1>6 DEF DialogNext

LEMMA SpecDialog == DialogSpec => []DialogKept
  BY InitDialog, NextDialog, PTL DEF DialogSpec

-----------------------------------------------------------------------------
(* The state of the dialog is well typed.                                  *)
THEOREM DialogTypeCorrect == DialogSpec => []DialogTypeOK
<1>1. DialogKept => DialogTypeOK
  BY DEF DialogKept
<1> QED BY <1>1, SpecDialog, PTL

(* However many attempts overlap, a page whose connection failed has one   *)
(* under way or tries again once it is visible, with its dialog open.      *)
THEOREM Trying == DialogSpec => []NeverStuck
<1>1. DialogKept => NeverStuck
  BY DEF DialogKept, ListenerInv, DialogInv, NeverStuck, Reconnecting, UnderWay
<1> QED BY <1>1, SpecDialog, PTL

(* Attempts that do not overlap reload the page only when nothing of it is *)
(* left at the server.                                                     *)
THEOREM Reloading == DialogSpec => []ReloadLosesNothing
<1>1. DialogKept => ReloadLosesNothing
  BY DEF DialogKept
<1> QED BY <1>1, SpecDialog, PTL

-----------------------------------------------------------------------------
(* The portal.                                                             *)

MessageState == {"DeadLetter", "Retried", "Reprocessed"}
PageStatus == PortalQuoteStatus \cup ClaimStatus \cup MessageState

(* A browser shows a status that its subject went through.                 *)
PageTypes ==
    /\ trail \in [Subject -> Seq(PageStatus)]
    /\ shown \in [User -> [Subject -> Nat]]
    /\ \A u \in User : \A s \in Subject : shown[u][s] \in 1..Len(trail[s])
    /\ raced \in [Pages -> Nat]

(* The latest status of a subject; a click made on it is no race.          *)
Latest(s) == trail[s][Len(trail[s])]
Fresh(u, s) == shown[u][s] = Len(trail[s])

QuoteTypes ==
    /\ quote \in [status : PortalQuoteStatus, accepted : BOOLEAN,
                  number : Number \cup {Unbound}]
    /\ conversions \in Seq(Number)

(* A conversion in store: of a quote that is not bound or declined. A fresh*)
(* click can convert it, and only a race brings that back.                 *)
InStore == IF quote.status \in {"Review", "Approved"} THEN 1 ELSE 0
ConvertedOnce == Len(conversions) + InStore <= 1 + raced["quote"]

ClaimTypes ==
    claims \in [Claim -> [status : ClaimStatus, dated : BOOLEAN, assignee : Adjuster]]

TrailEnds == \A c \in Claim : Latest(c) = claims[c].status

QueueTypes ==
    /\ entry \in [Message -> MessageState]
    /\ counts \in [ready : Nat, inFlight : Nat]

(* Nothing makes a message a dead letter again.                            *)
DeadAtFirst ==
    \A i \in Message : Latest(i) = entry[i] /\ (entry[i] = "DeadLetter" => Len(trail[i]) = 1)

QuoteInv == QuoteTypes /\ Latest("quote") = quote.status /\ ConvertedOnce /\ QuoteIsWhole

ClaimInv == ClaimTypes /\ TrailEnds /\ ClaimFollowsPages

QueueInv == QueueTypes /\ DeadAtFirst /\ DepthGrowsByRaces

PortalInv == PageTypes /\ QuoteInv /\ ClaimInv /\ QueueInv

-----------------------------------------------------------------------------
(* The page of a quote or claim is its own; messages share one.            *)
LEMMA PagesOf ==
  ASSUME NEW s \in Subject
  PROVE  /\ PageOf(s) \in Pages
         /\ \A t \in {"quote"} \cup Claim : t \in Pages /\ t \in Subject /\ (PageOf(s) = t <=> s = t)
         /\ s \in Message <=> PageOf(s) = "queue"
         /\ "queue" \in Pages
  BY SubjectAssumption DEF PageOf, Pages, Subject

(* What a click on s leaves: one more status of s, which the browser does  *)
(* not show yet, and a race if it did not show the one before.             *)
LEMMA Clicking ==
  ASSUME PageTypes, NEW u \in User, NEW s \in Subject, NEW status \in PageStatus,
         Click(u, s, status)
  PROVE  /\ PageTypes'
         /\ trail'[s] = Append(trail[s], status) /\ Latest(s)' = status
         /\ \A t \in Subject \ {s} : trail'[t] = trail[t] /\ Latest(t)' = Latest(t)
         /\ raced'[PageOf(s)] = IF Fresh(u, s) THEN raced[PageOf(s)] ELSE raced[PageOf(s)] + 1
         /\ \A p \in Pages \ {PageOf(s)} : raced'[p] = raced[p]
         /\ Fresh(u, s) => Shown(u, s) = Latest(s)
<1>1. PageOf(s) \in Pages
  BY PagesOf
<1>2. trail' = [trail EXCEPT ![s] = Append(trail[s], status)] /\ shown' = shown
  BY DEF Click
<1>3. trail'[s] = Append(trail[s], status) /\ \A t \in Subject \ {s} : trail'[t] = trail[t]
  BY <1>2 DEF PageTypes
<1>4. /\ trail[s] \in Seq(PageStatus) /\ Len(trail[s]) \in Nat
      /\ Append(trail[s], status) \in Seq(PageStatus)
      /\ Len(trail'[s]) = Len(trail[s]) + 1 /\ trail'[s][Len(trail[s]) + 1] = status
  BY <1>3 DEF PageTypes
<1>5. Latest(s)' = status /\ \A t \in Subject \ {s} : Latest(t)' = Latest(t)
  BY <1>3, <1>4 DEF Latest
<1>6. raced' = IF Fresh(u, s) THEN raced ELSE [raced EXCEPT ![PageOf(s)] = @ + 1]
  BY DEF Click, Fresh
<1>7. /\ raced' \in [Pages -> Nat]
      /\ raced'[PageOf(s)] = IF Fresh(u, s) THEN raced[PageOf(s)] ELSE raced[PageOf(s)] + 1
      /\ \A p \in Pages \ {PageOf(s)} : raced'[p] = raced[p]
  BY <1>1, <1>6 DEF PageTypes
<1>8. trail' \in [Subject -> Seq(PageStatus)]
  BY <1>2, <1>4 DEF PageTypes
<1>9. ASSUME NEW v \in User, NEW t \in Subject
      PROVE  shown'[v][t] \in 1..Len(trail'[t])
  <2>1. shown[v][t] \in 1..Len(trail[t])
    BY DEF PageTypes
  <2>2. CASE t = s
    BY <1>2, <1>4, <2>1, <2>2
  <2>3. CASE t # s
    BY <1>2, <1>3, <2>1, <2>3
  <2> QED
    BY <2>2, <2>3
<1>10. PageTypes'
  BY <1>2, <1>7, <1>8, <1>9 DEF PageTypes
<1> QED
  BY <1>3, <1>5, <1>7, <1>10 DEF Shown, Latest, Fresh

(* The columns an approval or a refusal writes.                            *)
LEMMA StatusWritten ==
  ASSUME QuoteTypes, NEW s \in PortalQuoteStatus, NEW a \in BOOLEAN,
         quote' = [quote EXCEPT !.status = s, !.accepted = a]
  PROVE  /\ quote' \in [status : PortalQuoteStatus, accepted : BOOLEAN,
                       number : Number \cup {Unbound}]
         /\ quote'.status = s /\ quote'.accepted = a /\ quote'.number = quote.number
  BY DEF QuoteTypes

-----------------------------------------------------------------------------
LEMMA InitPortal == PortalInit => PortalInv
<1> SUFFICES ASSUME PortalInit
             PROVE  PortalInv
  OBVIOUS
<1>1. /\ conversions = <<>> /\ quote.number = Unbound
      /\ quote.status \in {"Review", "Approved", "Declined"}
      /\ quote.accepted <=> quote.status \in {"Approved", "Bound"}
  <2>1. PICK s \in {"Review", "Approved", "Declined"} :
           quote = [status |-> s, accepted |-> s = "Approved", number |-> Unbound]
    BY DEF PortalInit
  <2>2. quote.status = s /\ quote.number = Unbound
    BY <2>1
  <2>3. quote.accepted = (s = "Approved")
    BY <2>1
  <2> QED
    BY <2>2, <2>3 DEF PortalInit
<1>2. QuoteTypes
  BY DEF PortalInit, QuoteTypes, PortalQuoteStatus
<1>3. ClaimTypes
  <2>1. claims \in [Claim -> [status : ClaimStatus, dated : BOOLEAN, assignee : Adjuster]]
    BY DEF PortalInit, ClaimStatus
  <2> QED
    BY <2>1 DEF ClaimTypes
<1>4. QueueTypes
  BY DEF PortalInit, QueueTypes, MessageState
<1> DEFINE First(s) == IF s = "quote" THEN quote.status
                       ELSE IF s \in Claim THEN claims[s].status ELSE entry[s]
<1>5. \A s \in Subject : trail[s] = <<First(s)>> /\ First(s) \in PageStatus
  BY <1>2, <1>3, <1>4 DEF PortalInit, QuoteTypes, ClaimTypes, QueueTypes, PageStatus, Subject
<1>6. \A s \in Subject : Len(trail[s]) = 1 /\ Latest(s) = First(s) /\ trail[s] \in Seq(PageStatus)
  <2> HIDE DEF First
  <2>1. \A x \in PageStatus : Len(<<x>>) = 1 /\ <<x>>[1] = x /\ <<x>> \in Seq(PageStatus)
    OBVIOUS
  <2> QED
    BY <1>5, <2>1 DEF Latest
<1>7. /\ Latest("quote") = quote.status
      /\ \A c \in Claim : Latest(c) = claims[c].status /\ Len(trail[c]) = 1
      /\ \A i \in Message : Latest(i) = entry[i] /\ Len(trail[i]) = 1
  BY <1>6, SubjectAssumption DEF Subject
<1>8. raced \in [Pages -> Nat] /\ \A p \in Pages : raced[p] = 0
  BY DEF PortalInit
<1>9. PageTypes
  <2>1. trail = [s \in Subject |-> IF s = "quote" THEN <<quote.status>>
                                   ELSE IF s \in Claim THEN <<claims[s].status>>
                                   ELSE <<entry[s]>>]
    BY DEF PortalInit
  <2>3. trail \in [Subject -> Seq(PageStatus)]
    <3> HIDE DEF First
    <3> QED
      BY <1>6, <2>1
  <2>4. shown \in [User -> [Subject -> Nat]] /\ \A u \in User : \A s \in Subject : shown[u][s] = 1
    BY DEF PortalInit
  <2>5. \A u \in User : \A s \in Subject : shown[u][s] \in 1..Len(trail[s])
    BY <1>6, <2>4
  <2> QED
    BY <1>8, <2>3, <2>4, <2>5 DEF PageTypes
<1>10. QuoteInv
  <2>1. Len(conversions) = 0 /\ DOMAIN conversions = {}
    BY <1>1
  <2>2. raced["quote"] = 0
    BY <1>8 DEF Pages
  <2>3. ConvertedOnce
    BY <2>1, <2>2 DEF ConvertedOnce, InStore
  <2>4. QuoteIsWhole
    BY <1>1, <2>1, <2>2 DEF QuoteIsWhole
  <2> QED
    BY <1>2, <1>7, <2>3, <2>4 DEF QuoteInv
<1>11. ClaimInv
  <2>1. \A c \in Claim : claims[c].status \in {"Submitted", "UnderReview", "Approved", "Paid"}
    BY DEF PortalInit
  <2>2. \A c \in Claim : claims[c].dated <=> claims[c].status = "Paid"
    BY DEF PortalInit
  <2>3. ASSUME NEW c \in Claim
        PROVE  Cardinality(Breaks(c)) <= raced[c]
    <3>1. raced[c] = 0
      BY <1>8 DEF Pages
    <3>2. Len(trail[c]) = 1
      BY <1>7
    <3>3. 2..1 = {}
      OBVIOUS
    <3>4. Breaks(c) = {}
      BY <3>2, <3>3 DEF Breaks
    <3>5. Cardinality(Breaks(c)) = 0
      BY <3>4, FS_EmptySet
    <3> QED
      BY <3>1, <3>5
  <2> QED
    BY <1>3, <1>7, <2>1, <2>2, <2>3 DEF ClaimInv, TrailEnds, ClaimFollowsPages, Resolved
<1>12. QueueInv
  <2>1. raced["queue"] = 0
    BY <1>8 DEF Pages
  <2>2. {m \in Message : entry[m] = "DeadLetter"} = Message
    BY DEF PortalInit
  <2>3. Cardinality(Message) \in Nat
    BY MessageAssumption, FS_CardinalityType
  <2>4. counts.ready = 0 /\ counts.inFlight = 0
    BY DEF PortalInit
  <2>5. DepthGrowsByRaces
    BY <2>1, <2>2, <2>3, <2>4 DEF DepthGrowsByRaces, TotalDepth
  <2> QED
    BY <1>4, <1>7, <2>5 DEF QueueInv, DeadAtFirst
<1> QED
  BY <1>9, <1>10, <1>11, <1>12 DEF PortalInv

-----------------------------------------------------------------------------
(* What does not touch the quote, a claim or the queue.                    *)
LEMMA QuoteElsewhere ==
  ASSUME PortalInv, UNCHANGED <<quote, conversions>>,
         trail'["quote"] = trail["quote"], raced'["quote"] = raced["quote"]
  PROVE  QuoteInv'
<1>1. QuoteTypes' /\ Latest("quote")' = quote'.status
  BY DEF PortalInv, QuoteInv, QuoteTypes, Latest
<1>2. ConvertedOnce' /\ QuoteIsWhole'
  BY DEF PortalInv, QuoteInv, ConvertedOnce, InStore, QuoteIsWhole
<1> QED
  BY <1>1, <1>2 DEF QuoteInv

LEMMA ClaimsElsewhere ==
  ASSUME PortalInv, claims' \in [Claim -> [status : ClaimStatus, dated : BOOLEAN, assignee : Adjuster]],
         \A c \in Claim : /\ claims'[c].status = claims[c].status
                          /\ claims'[c].dated = claims[c].dated
                          /\ trail'[c] = trail[c] /\ raced'[c] = raced[c]
  PROVE  ClaimInv'
<1>1. ClaimTypes'
  BY DEF ClaimTypes
<1>2. \A c \in Claim : Latest(c)' = Latest(c) /\ Breaks(c)' = Breaks(c)
  BY DEF Latest, Breaks
<1>3. TrailEnds' /\ ClaimFollowsPages'
  BY <1>2 DEF PortalInv, ClaimInv, TrailEnds, ClaimFollowsPages
<1> QED
  BY <1>1, <1>3 DEF ClaimInv

LEMMA QueueElsewhere ==
  ASSUME PortalInv, UNCHANGED <<entry, counts>>,
         \A i \in Message : trail'[i] = trail[i], raced'["queue"] = raced["queue"]
  PROVE  QueueInv'
<1>1. QueueTypes' /\ DeadAtFirst'
  BY DEF PortalInv, QueueInv, QueueTypes, DeadAtFirst, Latest
<1>2. DepthGrowsByRaces'
  BY DEF PortalInv, QueueInv, DepthGrowsByRaces, TotalDepth
<1> QED
  BY <1>1, <1>2 DEF QueueInv

(* A render batch changes nothing but what a browser shows.                *)
LEMMA RenderKeeps ==
  ASSUME PortalInv, NEW u \in User, NEW s \in Subject, Render(u, s)
  PROVE  PortalInv'
<1>1. PICK k \in (shown[u][s] + 1)..Len(trail[s]) : shown' = [shown EXCEPT ![u][s] = k]
  BY DEF Render
<1>2. UNCHANGED <<quote, conversions, claims, entry, counts, trail, raced>>
  BY DEF Render, rows
<1>3. shown[u][s] \in 1..Len(trail[s]) /\ Len(trail[s]) \in Nat
  BY DEF PortalInv, PageTypes
<1>4. k \in 1..Len(trail[s]) /\ k \in Nat
  BY <1>1, <1>3
<1>5. shown' \in [User -> [Subject -> Nat]]
  BY <1>1, <1>4 DEF PortalInv, PageTypes
<1>6. \A v \in User : \A t \in Subject : shown'[v][t] \in 1..Len(trail'[t])
  BY <1>1, <1>2, <1>4 DEF PortalInv, PageTypes
<1>7. PageTypes'
  BY <1>2, <1>5, <1>6 DEF PortalInv, PageTypes
<1>8. QuoteInv' /\ QueueInv'
  BY <1>2, QuoteElsewhere, QueueElsewhere
<1>9. ClaimInv'
  BY <1>2, ClaimsElsewhere DEF PortalInv, ClaimInv, ClaimTypes
<1> QED
  BY <1>7, <1>8, <1>9 DEF PortalInv

(* What a click on a subject of one kind leaves of the others.             *)
LEMMA Others ==
  ASSUME PortalInv, NEW u \in User, NEW s \in Subject, NEW status \in PageStatus,
         Click(u, s, status)
  PROVE  /\ PageTypes'
         /\ s # "quote" /\ UNCHANGED <<quote, conversions>> => QuoteInv'
         /\ s \notin Claim /\ UNCHANGED claims => ClaimInv'
         /\ s \notin Message /\ UNCHANGED <<entry, counts>> => QueueInv'
<1>1. /\ PageTypes'
      /\ \A t \in Subject \ {s} : trail'[t] = trail[t]
      /\ \A p \in Pages \ {PageOf(s)} : raced'[p] = raced[p]
  BY Clicking DEF PortalInv
<1>2. "quote" \in Subject /\ Claim \subseteq Subject /\ Message \subseteq Subject
  BY DEF Subject
<1>3. ASSUME NEW t \in {"quote"} \cup Claim, s # t
      PROVE  trail'[t] = trail[t] /\ raced'[t] = raced[t]
  <2>1. t \in Subject /\ t \in Pages /\ t # PageOf(s)
    BY <1>3, PagesOf
  <2> QED
    BY <1>1, <1>3, <2>1
<1>4. s # "quote" /\ UNCHANGED <<quote, conversions>> => QuoteInv'
  BY <1>3, QuoteElsewhere
<1>5. s \notin Claim /\ UNCHANGED claims => ClaimInv'
  <2> SUFFICES ASSUME s \notin Claim, UNCHANGED claims
               PROVE  ClaimInv'
    OBVIOUS
  <2>1. claims' \in [Claim -> [status : ClaimStatus, dated : BOOLEAN, assignee : Adjuster]]
    BY DEF PortalInv, ClaimInv, ClaimTypes
  <2>2. \A c \in Claim : trail'[c] = trail[c] /\ raced'[c] = raced[c]
    BY <1>3
  <2> QED
    BY <2>1, <2>2, ClaimsElsewhere
<1>6. s \notin Message /\ UNCHANGED <<entry, counts>> => QueueInv'
  <2> SUFFICES ASSUME s \notin Message, UNCHANGED <<entry, counts>>
               PROVE  QueueInv'
    OBVIOUS
  <2>1. raced'["queue"] = raced["queue"]
    BY <1>1, PagesOf
  <2>2. \A i \in Message : trail'[i] = trail[i]
    BY <1>1, <1>2
  <2> QED
    BY <2>1, <2>2, QueueElsewhere
<1> QED
  BY <1>1, <1>4, <1>5, <1>6

(* Moving a dead letter: it leaves the dead letters if it was one still,   *)
(* and who clicked was shown an older status if it was not.                *)
LEMMA MoveKeeps ==
  ASSUME PortalInv, NEW u \in User, NEW i \in Message, NEW to \in MessageState \ {"DeadLetter"},
         Shown(u, i) = "DeadLetter", Click(u, i, to), entry' = [entry EXCEPT ![i] = to],
         counts' \in [ready : Nat, inFlight : Nat],
         counts'.ready + counts'.inFlight = counts.ready + counts.inFlight + 1
  PROVE  QueueInv'
<1> DEFINE Dead == {m \in Message : entry[m] = "DeadLetter"}
<1>1. i \in Subject /\ PageOf(i) = "queue" /\ to \in PageStatus
  BY DEF Subject, PageOf, PageStatus
<1>2. /\ entry' \in [Message -> MessageState] /\ entry'[i] = to /\ to # "DeadLetter"
      /\ \A m \in Message : m # i => entry'[m] = entry[m]
  BY DEF PortalInv, QueueInv, QueueTypes
<1>3. /\ Latest(i)' = to
      /\ \A m \in Message : m # i => trail'[m] = trail[m] /\ Latest(m)' = Latest(m)
      /\ raced'["queue"] = IF Fresh(u, i) THEN raced["queue"] ELSE raced["queue"] + 1
      /\ Fresh(u, i) => Shown(u, i) = Latest(i)
  BY <1>1, Clicking DEF PortalInv, Subject
<1>4. DeadAtFirst'
  BY <1>2, <1>3 DEF PortalInv, QueueInv, DeadAtFirst
<1>5. i \in Dead <=> Fresh(u, i)
  <2>1. Latest(i) = entry[i] /\ (entry[i] = "DeadLetter" => Len(trail[i]) = 1)
    BY DEF PortalInv, QueueInv, DeadAtFirst
  <2>2. shown[u][i] \in 1..Len(trail[i])
    BY <1>1 DEF PortalInv, PageTypes
  <2>3. ASSUME entry[i] = "DeadLetter"
        PROVE  Fresh(u, i)
    <3>1. Len(trail[i]) = 1
      BY <2>1, <2>3
    <3>2. shown[u][i] \in 1..1
      BY <2>2, <3>1
    <3> QED
      BY <3>1, <3>2 DEF Fresh
  <2>4. Fresh(u, i) => entry[i] = "DeadLetter"
    BY <1>3, <2>1
  <2> QED
    BY <2>3, <2>4
<1>6. Dead' = Dead \ {i}
  BY <1>2
<1>7. /\ Cardinality(Dead) \in Nat
      /\ Cardinality(Dead') = IF i \in Dead THEN Cardinality(Dead) - 1 ELSE Cardinality(Dead)
  <2>1. IsFiniteSet(Dead)
    BY MessageAssumption, FS_Subset
  <2> HIDE DEF Dead
  <2> QED
    BY <1>6, <2>1, FS_RemoveElement, FS_CardinalityType
<1>8. raced["queue"] \in Nat /\ Cardinality(Message) \in Nat
  BY MessageAssumption, FS_CardinalityType DEF PortalInv, PageTypes, Pages
<1>9. /\ counts.ready \in Nat /\ counts.inFlight \in Nat
      /\ counts'.ready \in Nat /\ counts'.inFlight \in Nat
  BY DEF PortalInv, QueueInv, QueueTypes
<1>10. counts.ready + counts.inFlight + Cardinality(Dead) = Cardinality(Message) + raced["queue"]
  BY DEF PortalInv, QueueInv, DepthGrowsByRaces, TotalDepth
<1>11. counts'.ready + counts'.inFlight + Cardinality(Dead')
          = Cardinality(Message) + raced'["queue"]
  <2> HIDE DEF Dead
  <2> QED
    BY <1>3, <1>5, <1>7, <1>8, <1>9, <1>10
<1>12. DepthGrowsByRaces'
  BY <1>11 DEF DepthGrowsByRaces, TotalDepth
<1> QED
  BY <1>2, <1>4, <1>12 DEF QueueInv, QueueTypes

LEMMA MessageKeeps ==
  ASSUME PortalInv, NEW u \in User, NEW i \in Message,
         RetryQueueMessage(u, i) \/ ReprocessQueueMessage(u, i)
  PROVE  PortalInv'
<1>1. i \in Subject /\ i # "quote" /\ i \notin Claim
  BY SubjectAssumption DEF Subject
<1>2. counts \in [ready : Nat, inFlight : Nat]
  BY DEF PortalInv, QueueInv, QueueTypes
<1>3. CASE RetryQueueMessage(u, i)
  <2>1. /\ Shown(u, i) = "DeadLetter" /\ Click(u, i, "Retried")
        /\ entry' = [entry EXCEPT ![i] = "Retried"]
        /\ counts' = [counts EXCEPT !.ready = @ + 1]
        /\ UNCHANGED <<quote, conversions, claims>>
    BY <1>3 DEF RetryQueueMessage
  <2>2. /\ counts' \in [ready : Nat, inFlight : Nat]
        /\ counts'.ready + counts'.inFlight = counts.ready + counts.inFlight + 1
    BY <1>2, <2>1
  <2>3. "Retried" \in MessageState \ {"DeadLetter"} /\ "Retried" \in PageStatus
    BY DEF MessageState, PageStatus
  <2>4. QueueInv'
    BY <2>1, <2>2, <2>3, MoveKeeps
  <2> QED
    BY <1>1, <2>1, <2>3, <2>4, Others DEF PortalInv
<1>4. CASE ReprocessQueueMessage(u, i)
  <2>1. /\ Shown(u, i) = "DeadLetter" /\ Click(u, i, "Reprocessed")
        /\ entry' = [entry EXCEPT ![i] = "Reprocessed"]
        /\ counts' = [counts EXCEPT !.inFlight = @ + 1]
        /\ UNCHANGED <<quote, conversions, claims>>
    BY <1>4 DEF ReprocessQueueMessage
  <2>2. /\ counts' \in [ready : Nat, inFlight : Nat]
        /\ counts'.ready + counts'.inFlight = counts.ready + counts.inFlight + 1
    BY <1>2, <2>1
  <2>3. "Reprocessed" \in MessageState \ {"DeadLetter"} /\ "Reprocessed" \in PageStatus
    BY DEF MessageState, PageStatus
  <2>4. QueueInv'
    BY <2>1, <2>2, <2>3, MoveKeeps
  <2> QED
    BY <1>1, <2>1, <2>3, <2>4, Others DEF PortalInv
<1> QED
  BY <1>3, <1>4

(* What a click on the quote leaves: a race, or a click on its status.     *)
LEMMA QuoteClicked ==
  ASSUME PortalInv, NEW u \in User, NEW status \in PortalQuoteStatus, Click(u, "quote", status)
  PROVE  /\ Latest("quote")' = status
         /\ raced["quote"] \in Nat
         /\ \/ raced'["quote"] = raced["quote"] + 1
            \/ raced'["quote"] = raced["quote"] /\ Shown(u, "quote") = quote.status
<1>1. "quote" \in Subject /\ PageOf("quote") = "quote" /\ "quote" \in Pages /\ status \in PageStatus
  BY SubjectAssumption DEF Subject, PageOf, Pages, PageStatus
<1>2. /\ Latest("quote")' = status
      /\ raced'["quote"] = IF Fresh(u, "quote") THEN raced["quote"] ELSE raced["quote"] + 1
      /\ Fresh(u, "quote") => Shown(u, "quote") = Latest("quote")
  BY <1>1, Clicking DEF PortalInv
<1>3. raced["quote"] \in Nat
  BY <1>1 DEF PortalInv, PageTypes
<1> QED
  BY <1>2, <1>3 DEF PortalInv, QuoteInv

(* Approving or declining.                                                 *)
LEMMA SetKeeps ==
  ASSUME PortalInv, NEW u \in User, NEW status \in {"Approved", "Declined"},
         SetQuoteStatus(u, status)
  PROVE  QuoteInv'
<1>1. /\ Shown(u, "quote") = "Review" /\ Click(u, "quote", status)
      /\ quote' = [quote EXCEPT !.status = status,
                                !.accepted = status \in {"Approved", "Bound"}]
      /\ conversions' = conversions
  BY DEF SetQuoteStatus
<1>2. /\ quote'.status = status /\ quote'.number = quote.number
      /\ quote'.accepted <=> status \in {"Approved", "Bound"}
      /\ QuoteTypes'
  <2> DEFINE a == status \in {"Approved", "Bound"}
  <2>1. a \in BOOLEAN /\ status \in PortalQuoteStatus /\ QuoteTypes
    BY DEF PortalInv, QuoteInv, PortalQuoteStatus
  <2>2. quote' = [quote EXCEPT !.status = status, !.accepted = a]
    BY <1>1, Zenon
  <2>3. a <=> status \in {"Approved", "Bound"}
    OBVIOUS
  <2> HIDE DEF a
  <2>4. /\ quote' \in [status : PortalQuoteStatus, accepted : BOOLEAN,
                       number : Number \cup {Unbound}]
        /\ quote'.status = status /\ quote'.accepted = a /\ quote'.number = quote.number
    BY <2>1, <2>2, StatusWritten
  <2> QED
    BY <1>1, <2>1, <2>3, <2>4, Zenon DEF QuoteTypes
<1>3. /\ Latest("quote")' = status /\ raced["quote"] \in Nat
      /\ \/ raced'["quote"] = raced["quote"] + 1
         \/ raced'["quote"] = raced["quote"] /\ quote.status = "Review"
  BY <1>1, QuoteClicked DEF PortalQuoteStatus
<1>4. Len(conversions) \in Nat
  BY DEF PortalInv, QuoteInv, QuoteTypes
<1>5. ConvertedOnce'
  BY <1>1, <1>2, <1>3, <1>4 DEF PortalInv, QuoteInv, ConvertedOnce, InStore
<1>6. QuoteIsWhole'
  <2>1. Len(conversions') <= 1 + raced'["quote"]
    BY <1>1, <1>3, <1>4 DEF PortalInv, QuoteInv, QuoteIsWhole
  <2>2. raced'["quote"] = 0 => (quote'.number # Unbound <=> quote'.status = "Bound")
    BY <1>2, <1>3 DEF PortalInv, QuoteInv, QuoteIsWhole
  <2> QED
    BY <1>1, <1>2, <2>1, <2>2 DEF PortalInv, QuoteInv, QuoteIsWhole
<1> QED
  BY <1>2, <1>3, <1>5, <1>6 DEF QuoteInv

(* Converting: a quote without a number was never converted, and one with  *)
(* a number keeps it.                                                      *)
LEMMA ConvertKeeps ==
  ASSUME PortalInv, NEW u \in User, NEW drawn \in Number, ConvertQuoteToPolicy(u, drawn)
  PROVE  QuoteInv'
<1> DEFINE n == PolicyNumber(drawn)
<1>1. /\ Shown(u, "quote") = "Approved" /\ Click(u, "quote", "Bound")
      /\ quote' = [status |-> "Bound", accepted |-> TRUE, number |-> n]
      /\ conversions' = Append(conversions, n)
  BY DEF ConvertQuoteToPolicy
<1>2. n \in Number /\ (quote.number # Unbound => n = quote.number)
  BY DEF PolicyNumber, PortalInv, QuoteInv, QuoteTypes
<1> HIDE DEF n
<1>3. QuoteTypes'
  BY <1>1, <1>2 DEF PortalInv, QuoteInv, QuoteTypes, PortalQuoteStatus
<1>4. /\ Latest("quote")' = "Bound" /\ raced["quote"] \in Nat
      /\ \/ raced'["quote"] = raced["quote"] + 1
         \/ raced'["quote"] = raced["quote"] /\ quote.status = "Approved"
  BY <1>1, QuoteClicked DEF PortalQuoteStatus
<1>5. /\ conversions \in Seq(Number) /\ Len(conversions) \in Nat
      /\ Len(conversions') = Len(conversions) + 1
  BY <1>1, <1>2 DEF PortalInv, QuoteInv, QuoteTypes
<1>6. \A k \in 1 .. Len(conversions) : conversions[k] = quote.number
  BY DEF PortalInv, QuoteInv, QuoteTypes, QuoteIsWhole
<1>7. quote.number = Unbound => Len(conversions) = 0
  <2>1. Len(conversions) > 0 => conversions[1] \in Number /\ conversions[1] = quote.number
    BY <1>5, <1>6
  <2> QED
    BY <1>5, <2>1, NumberAssumption
<1>8. \A k \in DOMAIN conversions' : conversions'[k] = n
  BY <1>1, <1>2, <1>5, <1>6, <1>7
<1>9. ConvertedOnce' /\ Len(conversions') <= 1 + raced'["quote"]
  BY <1>1, <1>4, <1>5 DEF PortalInv, QuoteInv, ConvertedOnce, InStore
<1>10. QuoteIsWhole'
  BY <1>1, <1>2, <1>8, <1>9, NumberAssumption DEF QuoteIsWhole
<1> QED
  BY <1>1, <1>3, <1>4, <1>9, <1>10 DEF QuoteInv

(* A transition: without a race it starts from the status the claim has,   *)
(* which its audit trail ends with, and a race adds one break at most.     *)
LEMMA TransitionKeeps ==
  ASSUME PortalInv, NEW u \in User, NEW c \in Claim, NEW next \in ClaimStatus,
         TransitionClaim(u, c, next)
  PROVE  ClaimInv'
<1>1. /\ <<Shown(u, c), next>> \in ClaimTransition /\ Click(u, c, next)
      /\ claims' = [claims EXCEPT ![c] = WithStatus(claims[c], next)]
  BY DEF TransitionClaim, AvailableTransitions
<1>2. /\ c \in Subject /\ PageOf(c) = c /\ next \in PageStatus
      /\ \A d \in Claim : d \in Subject /\ d \in Pages
  BY SubjectAssumption DEF Subject, PageOf, Pages, PageStatus
<1>3. claims[c] \in [status : ClaimStatus, dated : BOOLEAN, assignee : Adjuster]
  BY DEF PortalInv, ClaimInv, ClaimTypes
<1>4. /\ WithStatus(claims[c], next) \in
            [status : ClaimStatus, dated : BOOLEAN, assignee : Adjuster]
      /\ WithStatus(claims[c], next).status = next
      /\ WithStatus(claims[c], next).dated <=> claims[c].dated \/ next \in Resolved
  BY <1>3 DEF WithStatus
<1>5. ClaimTypes'
  BY <1>1, <1>3, <1>4 DEF PortalInv, ClaimInv, ClaimTypes
<1>6. /\ \A d \in Claim : d # c => claims'[d] = claims[d]
      /\ claims'[c].status = next
      /\ claims'[c].dated <=> claims[c].dated \/ next \in Resolved
  BY <1>1, <1>4 DEF PortalInv, ClaimInv, ClaimTypes
<1>7. /\ trail'[c] = Append(trail[c], next) /\ Latest(c)' = next
      /\ \A d \in Claim : d # c => trail'[d] = trail[d] /\ Latest(d)' = Latest(d)
                                   /\ raced'[d] = raced[d]
      /\ raced'[c] = IF Fresh(u, c) THEN raced[c] ELSE raced[c] + 1
      /\ Fresh(u, c) => Shown(u, c) = Latest(c)
  BY <1>1, <1>2, Clicking DEF PortalInv
<1>8. TrailEnds'
  BY <1>6, <1>7 DEF PortalInv, ClaimInv, TrailEnds
<1>9. /\ trail[c] \in Seq(PageStatus) /\ Len(trail[c]) \in Nat /\ raced[c] \in Nat
      /\ Latest(c) = claims[c].status
  BY <1>2 DEF PortalInv, PageTypes, ClaimInv, TrailEnds
<1>10. Cardinality(Breaks(c)') <= raced'[c]
  <2>1. /\ Len(trail'[c]) = Len(trail[c]) + 1 /\ trail'[c][Len(trail[c]) + 1] = next
        /\ \A k \in 1..Len(trail[c]) : trail'[c][k] = trail[c][k]
    BY <1>2, <1>7, <1>9
  <2>2. Breaks(c)' \subseteq Breaks(c) \cup {Len(trail[c]) + 1}
    <3> SUFFICES ASSUME NEW k \in 2..Len(trail'[c]), k # Len(trail[c]) + 1,
                        <<trail'[c][k - 1], trail'[c][k]>> \notin ClaimTransition
                 PROVE  k \in Breaks(c)
      BY DEF Breaks
    <3>1. k \in 2..Len(trail[c]) /\ k \in 1..Len(trail[c]) /\ k - 1 \in 1..Len(trail[c])
      BY <1>9, <2>1
    <3>2. trail'[c][k] = trail[c][k] /\ trail'[c][k - 1] = trail[c][k - 1]
      BY <2>1, <3>1
    <3> QED
      BY <3>1, <3>2 DEF Breaks
  <2>3. Fresh(u, c) => Len(trail[c]) + 1 \notin Breaks(c)'
    <3> SUFFICES ASSUME Fresh(u, c), Len(trail[c]) + 1 \in 2..Len(trail'[c])
                 PROVE  <<trail'[c][Len(trail[c]) + 1 - 1], trail'[c][Len(trail[c]) + 1]>>
                           \in ClaimTransition
      BY DEF Breaks
    <3>1. Len(trail[c]) + 1 - 1 = Len(trail[c]) /\ Len(trail[c]) \in 1..Len(trail[c])
      BY <1>9, <2>1
    <3>2. trail'[c][Len(trail[c])] = Shown(u, c)
      BY <1>7, <2>1, <3>1 DEF Latest
    <3>3. /\ trail'[c][Len(trail[c]) + 1 - 1] = Shown(u, c)
          /\ trail'[c][Len(trail[c]) + 1] = next
      BY <2>1, <3>1, <3>2
    <3> QED
      BY <1>1, <3>3
  <2>4. IsFiniteSet(2..Len(trail[c]))
    <3>1. 2 \in Int /\ Len(trail[c]) \in Int
      BY <1>9
    <3> QED
      BY ONLY <3>1, FS_Interval
  <2>5. IsFiniteSet(Breaks(c)) /\ Cardinality(Breaks(c)) \in Nat
    BY <2>4, FS_Subset, FS_CardinalityType DEF Breaks
  <2>6. Cardinality(Breaks(c)) <= raced[c]
    BY DEF PortalInv, ClaimInv, ClaimFollowsPages
  <2>7. CASE Fresh(u, c)
    <3>1. Breaks(c)' \subseteq Breaks(c)
      BY <2>2, <2>3, <2>7
    <3>2. Cardinality(Breaks(c)') <= Cardinality(Breaks(c)) /\ Cardinality(Breaks(c)') \in Nat
      BY <2>5, <3>1, FS_Subset, FS_CardinalityType
    <3> QED
      BY <1>7, <1>9, <2>5, <2>6, <2>7, <3>2
  <2>8. CASE ~Fresh(u, c)
    <3> DEFINE S == Breaks(c) \cup {Len(trail[c]) + 1}
    <3>1. /\ IsFiniteSet(S) /\ Cardinality(S) \in Nat
          /\ Cardinality(S) = IF Len(trail[c]) + 1 \in Breaks(c) THEN Cardinality(Breaks(c))
                              ELSE Cardinality(Breaks(c)) + 1
      BY <2>5, FS_AddElement, FS_CardinalityType
    <3>2. Cardinality(Breaks(c)') <= Cardinality(S) /\ Cardinality(Breaks(c)') \in Nat
      BY <2>2, <3>1, FS_Subset, FS_CardinalityType
    <3> HIDE DEF S
    <3> QED
      BY <1>7, <1>9, <2>5, <2>6, <2>8, <3>1, <3>2
  <2> QED
    BY <2>7, <2>8
<1>11. ASSUME raced'[c] = 0, claims'[c].dated
       PROVE  next \in Resolved
  <2>1. Fresh(u, c) /\ raced[c] = 0
    BY <1>7, <1>9, <1>11
  <2>2. <<claims[c].status, next>> \in ClaimTransition
    BY <1>1, <1>7, <1>9, <2>1
  <2>3. claims[c].dated => claims[c].status \in Resolved
    BY <2>1 DEF PortalInv, ClaimInv, ClaimFollowsPages
  <2>4. claims[c].status \in Resolved => next \in Resolved
    BY <2>2 DEF Resolved, ClaimTransition
  <2> QED
    BY <1>6, <1>11, <2>3, <2>4
<1>12. ClaimFollowsPages'
  <2> SUFFICES ASSUME NEW d \in Claim
               PROVE  /\ claims'[d].status \in Resolved => claims'[d].dated
                      /\ Cardinality(Breaks(d)') <= raced'[d]
                      /\ raced'[d] = 0 /\ claims'[d].dated => claims'[d].status \in Resolved
    BY DEF ClaimFollowsPages
  <2>1. CASE d = c
    BY <1>6, <1>10, <1>11, <2>1
  <2>2. CASE d # c
    <3>1. Breaks(d)' = Breaks(d)
      BY <1>7, <2>2 DEF Breaks
    <3> QED
      BY <1>6, <1>7, <2>2, <3>1 DEF PortalInv, ClaimInv, ClaimFollowsPages
  <2> QED
    BY <2>1, <2>2
<1> QED
  BY <1>5, <1>8, <1>12 DEF ClaimInv

(* An assignment leaves status, date and pages as they are.                *)
LEMMA AssignKeeps ==
  ASSUME PortalInv, NEW c \in Claim, NEW assignee \in Adjuster, AssignClaim(c, assignee)
  PROVE  PortalInv'
<1>1. /\ claims' = [claims EXCEPT ![c].assignee = assignee]
      /\ UNCHANGED <<quote, conversions, entry, counts, trail, shown, raced>>
  BY DEF AssignClaim
<1>2. /\ claims' \in [Claim -> [status : ClaimStatus, dated : BOOLEAN, assignee : Adjuster]]
      /\ \A d \in Claim : claims'[d].status = claims[d].status /\ claims'[d].dated = claims[d].dated
  BY <1>1 DEF PortalInv, ClaimInv, ClaimTypes
<1>3. ClaimInv'
  BY <1>1, <1>2, ClaimsElsewhere
<1>4. QuoteInv' /\ QueueInv'
  BY <1>1, QuoteElsewhere, QueueElsewhere
<1>5. PageTypes'
  BY <1>1 DEF PortalInv, PageTypes
<1> QED
  BY <1>3, <1>4, <1>5 DEF PortalInv

LEMMA NextPortal == PortalInv /\ [PortalNext]_portalVars => PortalInv'
<1> SUFFICES ASSUME PortalInv, [PortalNext]_portalVars
             PROVE  PortalInv'
  OBVIOUS
<1>1. CASE UNCHANGED portalVars
  <2>1. UNCHANGED <<quote, conversions, claims, entry, counts, trail, shown, raced>>
    BY <1>1 DEF portalVars, rows
  <2>2. PageTypes' /\ QuoteInv' /\ QueueInv'
    BY <2>1, QuoteElsewhere, QueueElsewhere DEF PortalInv, PageTypes
  <2>3. ClaimInv'
    BY <2>1, ClaimsElsewhere DEF PortalInv, ClaimInv, ClaimTypes
  <2> QED
    BY <2>2, <2>3 DEF PortalInv
<1>2. /\ "quote" \in Subject /\ "quote" \notin Claim /\ "quote" \notin Message
      /\ \A c \in Claim : c \in Subject /\ c # "quote" /\ c \notin Message
  BY SubjectAssumption DEF Subject
<1>3. PortalQuoteStatus \subseteq PageStatus /\ ClaimStatus \subseteq PageStatus
  BY DEF PageStatus
<1>4. ASSUME NEW u \in User, NEW status \in {"Approved", "Declined"},
             SetQuoteStatus(u, status)
      PROVE  PortalInv'
  <2>1. Click(u, "quote", status) /\ UNCHANGED <<claims, entry, counts>> /\ status \in PageStatus
    BY <1>3, <1>4 DEF SetQuoteStatus, PortalQuoteStatus
  <2> QED
    BY <1>2, <1>4, <2>1, SetKeeps, Others DEF PortalInv
<1>5. ASSUME NEW u \in User, NEW drawn \in Number, ConvertQuoteToPolicy(u, drawn)
      PROVE  PortalInv'
  <2>1. Click(u, "quote", "Bound") /\ UNCHANGED <<claims, entry, counts>> /\ "Bound" \in PageStatus
    BY <1>3, <1>5 DEF ConvertQuoteToPolicy, PortalQuoteStatus
  <2> QED
    BY <1>2, <1>5, <2>1, ConvertKeeps, Others DEF PortalInv
<1>6. ASSUME NEW u \in User, NEW c \in Claim, NEW next \in ClaimStatus,
             TransitionClaim(u, c, next)
      PROVE  PortalInv'
  <2>1. Click(u, c, next) /\ UNCHANGED <<quote, conversions, entry, counts>> /\ next \in PageStatus
    BY <1>3, <1>6 DEF TransitionClaim
  <2> QED
    BY <1>2, <1>6, <2>1, TransitionKeeps, Others DEF PortalInv
<1> QED
  BY <1>1, <1>4, <1>5, <1>6, RenderKeeps, MessageKeeps, AssignKeeps DEF PortalNext

LEMMA PortalKept == PortalSpec => []PortalInv
  BY InitPortal, NextPortal, PTL DEF PortalSpec

-----------------------------------------------------------------------------
(* However many users work on the quote, and however often they click      *)
(* before their pages are rendered, it keeps the one policy number that    *)
(* every conversion reported, and is converted more than once only by      *)
(* clicks on what had changed, one for each further conversion.            *)
THEOREM Converting == PortalSpec => []QuoteIsWhole
<1>1. PortalInv => QuoteIsWhole
  BY DEF PortalInv, QuoteInv
<1> QED
  BY <1>1, PortalKept, PTL

(* However many users work on the claims, what is resolved is dated, and   *)
(* an audit trail breaks the state machine of the services at most once    *)
(* for every click on what had changed since it was rendered.              *)
THEOREM Following == PortalSpec => []ClaimFollowsPages
<1>1. PortalInv => ClaimFollowsPages
  BY DEF PortalInv, ClaimInv
<1> QED
  BY <1>1, PortalKept, PTL

(* The depth the queue monitor shows grows by one for each click on a      *)
(* message that had been moved already, by the same user or another, and   *)
(* by nothing else.                                                        *)
THEOREM Depth == PortalSpec => []DepthGrowsByRaces
<1>1. PortalInv => DepthGrowsByRaces
  BY DEF PortalInv, QueueInv
<1> QED
  BY <1>1, PortalKept, PTL
=============================================================================
