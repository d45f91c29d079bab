# Verification of ContosoInsurance

TLA+ models of ContosoInsurance, TLC configurations that check them on small
instances, and TLAPS proofs of what matters most for instances of any size.
Paths below are relative to the repository's `src/` directory.

The business logic of the system is simple; what is hard about it is that the
life of one claim is spread over five processes that share a database and a
message broker, with at-least-once delivery in both directions and optimistic
read–decide–save handlers without concurrency tokens.  Around that core are
clients that repeat what may have been done already, pages that are stale when
a button on them is clicked, and, in the repository itself, workflows that
triage issues while people do the same.  That is what the models are about.

## 1. The system

    web ──HTTP──> public API ──┐                         ┌──> claims worker ──┐
                  (2 replicas) │ outbox ──> RabbitMQ ────┤                    │
                               │                         └──> quotes worker ──┤
                               │                                              │
                  backend API ─┤ outbox ──> RabbitMQ <─────────── outbox ─────┘
                  (2 replicas) │               │
                               ▼               ▼
                        one SQL database <── projections worker

    portal: sample data in memory        web and portal: the reconnect dialog
    .squad/, .github/workflows/: triage of the repository's issues

| Component | State it keeps | Operations | Interacts through |
|---|---|---|---|
| Public API: claims (`ContosoInsurance.Api/Services/ClaimService.cs`) | `Claims` rows | submit, change status, queries | reads `Policies`; writes a *claim submitted* command to the outbox |
| Public API: policies, customers, quotes (`PolicyService.cs`, `CustomerService.cs`, `QuoteService.cs`) | `Policies`, `Customers`, `Quotes` | create, update, activate, cancel, renew, delete (cascading), accept a quote | database; quotes write a command to the outbox |
| Transactional outbox (`*/Messaging/MessagingInfrastructure.cs`, four copies) | `OutboxMessages` | insert with a business transaction; `DispatchPendingAsync` from a 2 s loop and after each request or delivery | shared table; RabbitMQ |
| Claims worker (`Worker.Claims/ClaimsWorker.cs`) | `PrivateClaimCases`, audit entries, `ProcessedMessages` | take in a claim | intake queue; reads `Policies`; writes a projection event to the outbox |
| Quotes worker (`Worker.Quotes/QuotesWorker.cs`) | `PrivateQuoteCases`, … | underwrite a quote request | as the claims worker |
| Backend API (`BackendApi/Services/*WorkflowService.cs`) | private cases, notes, audit entries | change status, assign, add a note, queries | database; status changes write a projection event to the outbox |
| Projections worker (`Worker.Projections/ProjectionWorker.cs`) | `ClaimStatusProjections`, `QuoteStatusProjections`, `ProcessedMessages` | copy an announced status into the row the public side shows | projection queues; database |
| RabbitMQ (external) | queues, unacknowledged deliveries, dead-letter queues | publish, deliver, ack, nack, redeliver | — |
| Seeding (`Data/SeedData.cs`) | the tables, once | check for any customer, five saves | run by API replicas and workers whenever they start |
| Web front end (`ContosoInsurance.Web`) | the state of a form | post, show the answer | the HTTP client of `ServiceDefaults`, which repeats requests |
| Portal (`ContosoInsurance.BackendPortal/Services/PortalOperationsService.cs`) | quotes, claims and queues, in memory | decide and convert a quote, move and assign a claim, retry and reprocess a dead letter | pages, each as the browser shows it |
| Reconnect dialog (`ReconnectModal.razor.js`, in both web applications) | what it shows, one listener | react to Blazor's reports, clicks and visibility | Blazor's circuit at the server |
| Squad triage (`.squad/templates/ralph-triage.js`, `squad-heartbeat.yml`, `squad-triage.yml`) | labels and comments on issues | decide who gets an issue, label, comment | GitHub's issues; `team.md`, `routing.md` |
| Legacy worker, authentication, telemetry, app host, other workflows | — | — | see "What is not modelled" |

Behaviours that are hard to get right, and where they bite (the complete list,
line by line, is `hazards` in `PROJECT.json`):

* **Outbox**: every copy of the dispatcher reads the same pending rows without
  claiming them; a publish may fail in the middle of a batch; the process may
  stop between a publish and the save of the mark; stamps are taken before the
  transaction commits.
* **Queues**: no mandatory flag and no publisher confirms; redelivery after a
  lost connection while the first handler still runs; every exception rejects
  without requeue, so the dead-letter queue is the end of the line.
* **Handlers**: check, load and save are separate database calls; two handlers
  of the same message are kept apart by unique keys only.
* **Requests**: status changes are validated against the row as it was loaded.
* **Policy and customer**: checked when a claim or quote is requested and again
  when it is taken in; either may change or be deleted in between.
* **Clients**: a request whose answer was lost is sent again, and carries no
  identity; the service that was given up on goes on with the first.
* **Forms**: no handler reads `isSubmitting`; until the rendering that disables the
  button reaches the browser, a second click posts the form again.
* **Start**: several processes seed an empty database at the same time, and one that
  starts after all customers were deleted seeds again.
* **Pages**: neither the portal's service nor its pages check anything; which buttons a
  user has is decided by the last render batch the browser applied, so that a page is
  stale after the user's own clicks as well as after those of others.
* **Dialog**: attempts to reconnect overlap, and the one listener that starts
  the next is removed and added by each.
* **Triage**: issues are listed page by page while their labels change; two
  workflows with different rules and people decide at the same time; label and
  comment are two calls.

Correctness per component: the outbox loses nothing and marks nothing falsely;
a claim is taken in at most once and in one piece, and no command vanishes; a
private case agrees with its audit trail and with what was announced; a
projection neither repeats an event nor, while events arrive in order, goes
back, and it catches up; a claim's status moves along the state machine; a quote
is underwritten once, declined for a reason, and never made cheaper than the
estimate that was accepted; a policy is priced as its coverage asks for, ends
after it starts, is activated only as a draft, and does not outlive its customer;
a form is told the truth, and a claim is filed twice only for a named cause; a
page never stops trying to get its connection back; an issue is triaged once,
and leaves the inbox.

## 2. Modules

| Module | What it is | Code |
|---|---|---|
| `AtLeastOnce` | abstract promise of the outbox | (specification) |
| `Outbox` | any number of dispatchers over one table | `RabbitMqOutboxDispatcher`, `OutboxPublisherService`, `OutboxMessageFactory` |
| `ClaimRules` | statuses, transitions, the policy checks | `ValidateStatusTransition`, `ValidateClaimTransition`, `SubmitClaimAsync`, `DetermineStatusAsync` |
| `ClaimLedger` | abstract life of a claim | (specification) |
| `WorkQueue` | a RabbitMQ queue as the workers use it | external |
| `ClaimIntake` | filing a claim, its command, the queue and the claims worker, composed with `WorkQueue` and `ClaimRules` | `ClaimService.SubmitClaimAsync`, `ClaimsWorker`, `DeleteCustomerAsync`, `UpdatePolicyAsync` |
| `PublicClaims` | status requests on a public claim | `ClaimService.UpdateClaimStatusAsync` |
| `CaseWork` | staff requests on a private case, of a claim or of a quote | `ClaimWorkflowService`, `QuoteWorkflowService` |
| `QuoteRules` | statuses and transitions of quotes, both premium calculations, the underwriting limits | `CalculatePremium`, `EvaluateUnderwritingAsync`, `ValidateQuoteTransition` |
| `QuoteIntake` | requesting a quote, its command, the queue and the quotes worker, composed with `WorkQueue` and `QuoteRules` | `QuoteService.CreateQuoteAsync`, `QuotesWorker` |
| `PublicQuotes` | acceptances of a quote | `QuoteService.AcceptQuoteAsync` |
| `QuoteFlow` | `QuoteIntake` and `PublicQuotes` over one `Quotes` table, with seeded quotes | the same |
| `PublicPolicies` | requests on the policies of a customer, and its deletion | `PolicyService`, `CustomerService.DeleteCustomerAsync` |
| `Projection` | the projections worker, composed with `WorkQueue` | `ProjectionWorker` |
| `Customers` | seeding, creation, update and deletion of customers | `SeedData`, `CustomerService` |
| `Forms` | the forms that post, and the client that posts again, over `Customers` | `Customers.razor`, `FileClaim.razor`, `ServiceDefaults/Extensions.cs` |
| `Portal` | the operations portal and its pages | `PortalOperationsService`, `QuoteDetail`, `ClaimDetail`, `Queues` |
| `Reconnect` | the reconnect dialog | both `ReconnectModal.razor.js` |
| `SquadFiles`, `TriageRules` | how the squad's tables are read, and who gets an issue | `ralph-triage.js`, `squad-triage.yml` |
| `Heartbeat` | heartbeat runs, triage jobs and people on one board | `ralph-triage.js`, `squad-heartbeat.yml`, `squad-triage.yml` |
| `OutboxProofs`, `ClaimIntakeProofs`, `CaseWorkProofs`, `ProjectionProofs`, `QuoteFlowProofs`, `HeartbeatProofs` | theorems and proofs about the module of that name | |
| `PublicApiProofs` | theorems and proofs about `PublicPolicies` and `PublicClaims` | |
| `WebProofs` | theorems and proofs about `Customers` and `Forms`, `Reconnect`, and `Portal` | |
| `MC*` | instances for TLC: model values, symmetry | |

The `map` of `PROJECT.json` gives the source lines of every definition.
Definitions called "mutated forms" in comments describe plausible bugs; they are
not part of any specification, and show that each property notices one.

### Outbox

State: `committed`, `occurredAt`, `published` are the `OutboxMessages` table
(`published` = rows with `PublishedAtUtc`); `pc`, `todo`, `sent`, `failed` are
the locals of one running `DispatchPendingAsync`; `handed` counts the copies
given to the broker; `seen` is history.  Actions: `Commit` (a business
transaction), `Read` (query, order, `Take(50)`), `PublishOk` / `PublishFail` (one
iteration of the loop, whose `catch` goes on), `Save` (`SaveChangesAsync` after
the loop) and `Abort` (the process stops or the save throws).  A dispatcher is
any running call: a background loop, a request or a delivery, of any replica.
`Save` adds to `published` and never removes: EF Core writes only the columns
the loop changed.

### ClaimIntake

One claim has one policy and one command, so the claim names its message.
`request` is the position of `POST /claims`: `CheckPolicy`, then `SaveClaim` (claim
and command in one transaction), then `AcceptClaim`; or `ForeignKeyViolation` or
`FailRequest`, which after the save returns an error for a claim that *was*
filed.  `PublishCommand` is the promise of `AtLeastOnce`: at least once, up to
`MaxCopies` times.  A handler goes through `Receive`, `CheckProcessed`, `LoadCase`,
`Determine`, `SaveCase` or `KeyViolation`, `Dispatch`, `Acknowledge`; any of
these calls may `Throw`, which leads to `Reject`.  `LoseConnection` lets the broker
redeliver while the handler keeps running, `Crash` also forgets the handler.
`ChangePolicy`, `CheckCustomer` and `DeletePolicy` change the policy meanwhile; the
deletion of a customer checks for active policies and deletes in two steps, as
the code does.  The claim's policy is the only policy of its customer.

### CaseWork, PublicClaims and PublicQuotes

One action per database call: `Load`, then one save per operation (status,
assignment, note) or a refusal with 409, then `Respond`; `Fail` is an error
before or after the save.  Nothing in the code keeps requests on one row apart
between load and save, so they overlap freely.  The history variable
`overlapped` of `CaseWork` (`contended` in `PublicClaims`) holds the rows that two requests had loaded at a time; a property
that needs exclusion is stated of the other rows, and so says exactly what the
rules of the code guarantee without a concurrency token.

`CaseWork` takes the statuses, the transitions and what the worker may have decided
as constants, per case: the two workflow services differ in nothing else that is
modelled.  `MCCaseWork` has one case of a claim, with the transitions of
`ClaimRules`, and one of a quote, with those of `QuoteRules`.  In
`PublicQuotes` nothing needs exclusion, and there is no such variable.

### QuoteRules, QuoteIntake and QuoteFlow

`QuoteIntake` has the shape of `ClaimIntake`, with the customer in the place of the
policy: `CheckCustomer` when the quote is requested, `EvaluateUnderwriting` when it
is taken in, and `DeleteCustomer`, which removes the quote and leaves the case, at
any time.  `SaveCase` commits the two audit entries of underwriting (three for a
new case), the processed message and the events at once.  Coverage is in dollars
and premiums in cents, so `Math.Round(…, 2)` is `RoundHalfEven` on integers; the
two rate tables are two definitions, as in the code.

`QuoteFlow` puts `PublicQuotes` beside it over the same rows: `CreateQuote`,
`SeedQuote` and `DeleteBoth` are steps of both, every other step is one of either.
A customer may accept the estimate before, while or after the worker decides.
Seeded quotes have no command, and so are never underwritten.

### PublicPolicies

`row` is the `Policies` table for one customer, with coverage, premium and dates;
`now` is the clock in months.  The five operations are `Create`, `Update`,
`Activate`, `Cancel` and `Renew`: each refuses or puts into `wanted` the columns it
modified with their values.  An update asks for a status, a coverage or none, and an
end date or none, in any combination; which statuses it may name is the constant
`StatusAsked`.  `SavePolicy` writes exactly those; `SaveNew` inserts;
`CheckCustomer` and `DeleteCustomer` are the two halves of the deletion.
`overlapped` tells whether two requests of any kind had loaded at a time, since a
deletion loads every policy of the customer; `alone` holds the policies of which some
save wrote a coverage without its premium, because the premium that was loaded was that
of the new coverage already; `shortened` those whose end was last saved by a renewal of
less than a month.

### Projection

`Announce` is a transaction of the private side, `PublishEvent` the outbox
(`troubled` records that an event overtook an earlier one), and the rest is the
handler: `CheckProcessed`, `LoadRow`, `SaveRow` or `KeyViolation`, `Acknowledge`,
`Throw`, `Reject`, `LoseConnection`, `Crash`.  `overlapped` records that two events
of a subject were handled at once, which takes more than the one replica that is
deployed.  The two handlers of the worker have the same shape, so `Subject` stands
for claims or for quotes.

### Customers and Forms

`Start` is a set of starts of processes, restarts included: one that fails while it
seeds is "stopped", and what is started in its place, or any time later, is another
member.  `SeedCheck` finds a customer or goes on to seed: `SeedCustomers` is one save that
the unique index on the e-mail accepts, `SeedMore` the later ones, of which the next, of
the policies, needs every seeded customer.  `SeedViolation` is the save that the index or a
foreign key refuses, `SeedStop` a stop in between.  API replicas and the three workers
seed alike.  Creation, update and deletion check and then save, each in an action of its
own; `LoadToDelete` leaves open whether the customer has an active policy, and
`RemoveCustomer` frees the e-mail and, with the last customer, lets the next start seed.

`Forms` puts the pages in front.  `submitting` is `isSubmitting` on the server, `button` what
the browser has: `Submit` needs the button and nothing else, since the handlers check
nothing, and `ShowButton` is the render batch that takes the button away or brings it
back.  So several posts of a form may be `awaited` at once; `doubled` are those by a click
that came while another was awaited or had succeeded, and what the client repeats of them.
(A click that is on its way when the form of a customer is emptied posts an empty form: that
is a post of another form.)  Each attempt is a request of its own, as the code gives none of
them an identity.  `Retry` is the resilience handler after an answer 500, `GiveUp` after no
answer in time: the request goes on at the server and the next attempt overlaps with it.
`Answer` ends a handler; after a 201 the page of the customers loads its list in the same
`try`, and shows an error beside the success if that fails.  `FailDispatch` is the dispatch
that throws when it opens its channel (`CreateChannelAsync`, outside of any `try`) after the
claim was committed.  When creations with the same e-mail overlap, the loser is answered 500,
not the 409 that `CustomerEndpointTests.cs:64` expects of one after the other; the
client then repeats it and is told 409.

### Portal

`trail` has the statuses each subject (the quote, a claim, a dead letter) went through, for a
claim its audit trail, and `shown` tells, per user and subject, which of them the browser
shows.  The guard of an action is a condition on what is shown, never on the rows, since
neither the service nor the page checks anything.  `Click` is what the handlers share, and
leaves `shown` as it is: the render batch that follows is the action `Render`, which any
other click, the second of a double click too, may precede.  `raced` counts, per page, the
clicks on what had changed since it was rendered, by whomever (`PageOf` says on which page a
subject is).  The sample claims have assignees, and a page that is open from the start goes
on offering all of them.

### Reconnect

`connection` is what the page knows of its circuit, `circuit` what the server has.
`Show`, `Pause`, `Failed`, `Rejected`, `Hide` are the reports of Blazor; clicks and
`ChangeVisibility` begin an attempt (`reconnect`, `resumeCircuit` after it, or
`resume`), and its answer is an action of its own, so that attempts overlap.  An
answer may be lost after the server acted on the call.  Blazor is external: the
script's own comments say what its calls return.

### SquadFiles, TriageRules and Heartbeat

`SquadFiles` reads the tables of `team.md` and `routing.md` as the script does (a
section up to the next heading, columns found by candidates for their titles, rows
without a cell left out), and `TriageRules` decides: module, rule, role keyword, then
lead, for the heartbeat; its own keywords, then lead, for the triage workflow.
`Heartbeat` has the board.  A run fetches page after page (`FetchPage`), and then puts
`AddLabel` and `CreateComment` one by one; a failed call is caught per issue
(`GiveUpIssue`), a lost runner is not (`AbortRun`).  What a run has decided is a set of
pairs of a page and an issue, handled in the order of `Precedes`: an issue that shifted
to the next page is decided twice, as in the code.  `Squad` is what each `version` of
`team.md` says: the labels of the members, and to whom each workflow gives each issue.
It is a constant that must be what the rules compute (`SquadAssumption`): `MCHeartbeat`
states it, and TLC compares.  A job is started when a person puts
the label *squad*, works with the roster of that time, and any failed call ends it.
`disturbed` records the issues whose labels a person changed, or on which two decisions
were pending at once.

Three things about this part of the repository that the model makes visible:

* `parseRoutingRules` looks for a section "## Work Type → Agent" and
  `parseModuleOwnership` for "## Module Ownership" (`ralph-triage.js:59`, `:81`); this
  repository's `routing.md` has "## Routing Table" and neither of the two.  So in practice only role keywords and
  the lead decide, although `squad-heartbeat.yml` speaks of routing rules.
  `MCHeartbeat` uses the repository's `team.md`, shortened to the sections and columns that
  are read, and a `routing.md` that has the two sections, so that all four ways to find a member are taken.
* Putting the label *squad* starts both workflows.  Their rules differ, and they may
  assign the issue to two members; `TriagedOnce` therefore exempts an issue on which
  both were at work.
* The branches about @copilot need a member that is not on this team.

### Assumptions about Entity Framework and RabbitMQ

* An update writes only the columns whose value differs from the loaded one.
* `SaveChangesAsync` is atomic: it commits all, or throws and commits nothing.
  Child entities that are added with a preset key to a tracked parent may make
  it throw; that is one of the outcomes of `Throw` and `Fail`.
* The dispatch that follows a save shares the request's database context; its
  effect on rows is the module `Outbox`, and in the other modules its only
  effects are the copies `PublishCommand` and `PublishEvent` make.
* The broker keeps what a declared queue accepted, and redelivers a message that
  was not acknowledged when its connection ends, at the front of the queue.

## 3. What the runs check

| Run | Question | Bounds | Result |
|---|---|---|---|
| `outbox` | Can racing dispatchers lose, falsely mark or reorder rows, is every committed row published, and do the dispatchers implement `AtLeastOnce`?  `MarkedWasHanded`, `DuplicateBound`, `PublishedForGood`, `OrderedHandover`, `EveryRowPublished`, `KeepsPromise` | 3 rows, 2 dispatchers, batches of 2, 2 stamps, 1 fault | holds |
| `intake` | Is a claim taken in once and in one piece, without losing copies, and denied only for a reason; is every command settled, and what fills the dead-letter queue?  `IntakeOnce`, `NothingVanishes`, `DenialHasCause`, `DeadLetterHasCause`, `KeepsLedger`, `EveryCommandSettled` | 1 claim, 2 handlers, 3 copies, 2 faults, 2 policy changes, 3 policy rows | holds |
| `casework` | With overlapping requests, do row, audit trail and announcements of a case agree (`TrailIsWhole`), and is its assignee one the trail names, the last one without overlap (`AssigneeIsAudited`)?  Is the state machine followed, by a claim without overlap and by a quote always (`FollowsStateMachine`)? | a claim's case and a quote's, 3 requests, 2 users | holds |
| `projection` | Is an event applied at most once (`AppliedOnce`)?  While events of a subject are not handled together: does the status shown never go back, is the row in one piece, does it catch up?  `NeverGoesBack`, `RowIsWhole`, `CatchesUp` | 1 subject, 2 events, 2 statuses, 2 handlers, 2 copies, 2 faults | holds |
| `public_claims` | Is a decided claim dated, and without overlap never opened again?  `ResolutionFits` | 1 claim, 3 requests, deletion | holds |
| `public_claims_race` | With overlap: `FollowsStateMachine` | same | **violated** |
| `quote_flow` | Is a quote underwritten once and in one piece, declined for a reason, approved and accepted as one, and does what was accepted hold?  `UnderwrittenOnce`, `DeclineHasCause`, `ApprovedIsAccepted`, `AcceptanceHolds` | 1 quote, 2 handlers, 2 acceptances, 2 copies, 2 faults; offers of the highest coverage that is approved, at the end of the first risk tier, and of a type that is never insured | holds |
| `public_policies` | With overlapping requests: `NoOrphan`, and `PremiumFits` of every policy whose coverage was never saved without its premium; without: `PremiumFits` of all, `EndAfterStart` unless a renewal of less than a month was last, and only drafts are activated and no customer is deleted with an active policy (`RulesHoldInTurn`) | 1 policy, 3 requests of any kind, 3 coverages of which two round to the same premium, 2 statuses to ask for, 2 months of clock, renewals by a month and by a month back | holds |
| `heartbeat` | Is an issue triaged once, do its label and its comment go together, does it leave the inbox?  `TriagedOnce`, `TriageIsWhole`, `InboxEmpties` | 2 issues in pages of 1, 2 runs, 2 acts of people, 2 rosters | holds |
| `reconnect` | Is a page never stuck, reloaded only when nothing is left to lose, and connected again without a click?  `NeverStuck`, `ReloadLosesNothing`, `FailedPageRecovers` | 3 attempts, 3 losses, 2 outages | holds |
| `portal` | With stale pages and double clicks: is a quote in one piece, and converted again only by a click on what had changed (`QuoteIsWhole`)?  Does a claim's trail break the transitions at most once per such click (`ClaimFollowsPages`), and is every message the monitor counts too many such a click (`DepthGrowsByRaces`)? | 2 users, 2 claims, 2 adjusters, 1 dead letter, 2 numbers, 4 clicks | holds |
| `forms` | Does one process seed, is a form told the truth, is a claim filed twice only for a cause?  `SeededOnce`, `FormsToldTruth`, `FiledTwiceHasCause` | 2 starts of API replicas, together or one after the other, 1 form with 2 attempts, 1 update, 1 deletion, 2 e-mails, 3 of the 5 saves of seeding, 1 fault | holds |

`CHECK_DEADLOCK FALSE` is set because every instance stops when its bounded work
is done: no rows left to commit, no requests left to send, no clicks left.
Type invariants (`TypeOK`) are conjuncts of the inductive invariants of section 4; no
run spends time on them.

**Why the bounds are enough.**  Claims, cases, rows of different claims and
subjects do not read one another's state, so one of each exercises every
interaction.  (A worker that is busy with another claim only delays a delivery,
which every interleaving of one claim includes.)  Two dispatchers or handlers
give every pairwise race; a third would only repeat a role.  Three outbox rows
with batches of two leave one row outside the batch, and two stamps allow ties
and both orders.  Three copies let two be handled together and a third arrive
after the winner committed.  Two faults allow a redelivery and then a failure of
the handler that received it; in the outbox every call may fail or stop
independently of any history, and one fault is enough for each of the two named
exceptions to the order.  Three requests let a stale one save after two others
did.  Two events give an old duplicate that comes after a newer one.
One policy is enough for every race between requests; a request may also create
it while the customer is being deleted.  Pages of one issue are the smallest that
shift, and two runs overlap as any two do.  Three attempts let one end, one go on
and one begin.  Four clicks let both users click twice, whether on one another's changes or on
their own.  Two attempts are a double click, or a post that the client repeats; two
starts are every race between two seedings, and one after a deletion.  Forms do not read one
another's state but for the e-mails, which the update shares too.  The theorems of
`WebProofs` are for any number of each.  Three saves of seeding are the customers, the policies that
refer to them, and one that stands for the rest.

**Numbers that are bounds of the model, not of the code**: `MaxFault`, `MaxOutage`
(failures do not go on for ever; liveness needs this), `MaxCopies`, `MaxPolicyChange`,
`MaxTime`, `MaxEvents`, `MaxEvent` (people act on the board so often), `MaxLoss`,
`MaxClick`, `SeedSaves` (five in the code, three in the run), `MaxAttempt` (the resilience handler has a limit of its own, of three
retries).  `DuplicateBound` shows that copies are in fact bounded, by the running
dispatchers plus the dispatches that were not saved.

**Symmetry** is used only in runs without liveness, over sets whose elements differ
by nothing.

### Fairness

* `Outbox`: weak fairness of `Read`, of trying the next row, and of ending a
  dispatch.  `OutboxPublisherService` calls `DispatchPendingAsync` every two
  seconds until the process is stopped, catches every exception, and is
  restarted with its deployment.  No fairness says that a publish *succeeds*;
  that follows from the bound on faults.
* `ClaimIntake`, `Projection`: weak fairness of declaring the queue (the worker's
  hosted service does it at start), of handing each row over for the *first*
  time (which `outbox` shows of `Outbox`), of receiving, and of the
  handler's next step.  None of it is assumed of staff requests, policy changes,
  duplicates, crashes, or of the API going on with a request.
* `Heartbeat`: weak fairness of each run's next step and of each job's.  The
  workflow is scheduled every half hour, so there is always a later run, and a run
  whose runner is not lost goes on.  None of it is assumed of people.
* `Reconnect`: weak fairness of answers (a promise is settled in the end) and of a
  change of visibility: a user who left the page looks at it again, or a user who
  looks at it leaves it and comes back.  Without the latter nothing in the script
  starts another attempt.

`EveryCommandSettled` and `CatchesUp` are conditional, and the conditions are the
content: a command may end in the dead-letter queue, from where no code brings it
back, or be lost because it was published before the worker declared its queue;
a projection may be left behind by events that overtook each other.

### Findings

* `public_claims_race`: `ClaimService.UpdateClaimStatusAsync` validates against
  the status it loaded and saves without a concurrency token.  Two overlapping
  requests both answer 200, and the claim moves for example from Denied to
  UnderReview.  `.squad/decisions.md:39` says that transitions are validated and
  invalid ones return 409.

The missing token has the same consequence elsewhere.  Where a property is
conditional on `overlapped`, dropping the condition makes it false:

* a claim's case moves from Approved to Denied, with two audit entries that both
  start from UnderReview (`FollowsStateMachine` of `CaseWork`); a quote's case
  cannot, since no transition leads out of a decision;
* assigning the user that was loaded leaves another assignee in the row than the
  audit trail names last (`AssigneeIsAudited`);
* a claim that was decided is opened again and keeps its date of resolution
  (`ResolutionFits`);
* an activation that loaded a draft overwrites a cancellation, and a policy
  activated between the check and the delete goes with its claims
  (`RulesHoldInTurn`);
* an update of the end date combined with a renewal leaves a policy that ends
  before it starts (`EndAfterStart`).

What survives every race is what the unconditional parts say: the audit trail
always ends with the status of the row, everything audited is announced, and a
decided claim always has its date.

Observations that no document contradicts:

* The months of a renewal are not checked (`PolicyService.cs:150`): a negative number
  leaves a policy that ends before it starts, which creation and update refuse
  (`PolicyService.cs:103`).  `EndAfterStart` exempts a policy until something else than such
  a renewal saves its end (`shortened`).
* Between coverages with the same premium, such as 50,000 and 50,001, an update writes the
  coverage alone.  Combined with an overlapping update that leaves a coverage with
  another one's premium: `PremiumFits` exempts policies with such a save and an overlap,
  and needs both.
* A quote may be accepted by two overlapping requests, both of which are told that
  they accepted it; the row is the same as after one.  The worker may still
  decline a quote that was accepted, but only for limits the public API
  could have checked (`AcceptanceHolds`), and the public row then stays Approved.
* A double click on the button of a form posts it twice: two claims (`FileClaim.razor:212`),
  or a customer and a conflict with itself (`Customers.razor:166`).  `FiledTwiceHasCause` and
  `FormsToldTruth` say that these, lost answers and failures after a commit are the only ways.
* A customer that was created is reported as failed, beside the message of success, when the
  list that is loaded next fails (`Customers.razor:190`).
* In the portal a second click on what a first one removes is a call like any other: Convert
  twice reports the same policy number twice, a status is entered twice in the trail of a
  claim, and a dead letter retried twice is counted twice (`DepthGrowsByRaces`).
* When all customers are deleted, the next process that starts seeds the database again
  (`SeedData.cs:11`); `SeededOnce` says that this and changed e-mails are the only ways.

## 4. What is proved

All theorems are about the specifications as they stand, for every value of the
constants allowed by the named assumptions of their modules:

* sizes of batches and pages and the bound on the clock are positive, stamps, amounts,
  numbers of issues and bounds on faults and copies are natural numbers, and what stands
  for "none" (`None`, `Nobody`, `Unbound`, the status of `Absent`) is not a member of the
  set it is added to;
* rows and offers are rows and offers (`PoliciesAssumption`, `OffersAssumption`), and
  statuses a case starts with, or a request asks for, are statuses (`StatusAssumption`);
* the things on the portal's pages are distinct from the pages and from one another
  (`SubjectAssumption`), and so are the ids of requests and of seeded rows
  (`CustomersAssumption`, `FormsAssumption`), as GUIDs are;
* dispatchers and the portal's messages are finitely many, since they are counted;
* whoever is given an issue is a member to the script, and no member's label is "squad"
  (`TeamAssumption`).  Of the members the heartbeat gives issues to, the former is so by
  construction; of those the triage workflow gives them to, it is a fact about
  `team.md`, which the two read with different code.

TLC evaluates each assumption in the run of its module; the run `heartbeat` evaluates
`TeamAssumption` on a shortened copy of this repository's `team.md`, and `SquadAssumption`, which says that `Squad`
is what the rules compute.  Every proof has the same outline: an inductive invariant `IInv`, a
lemma that the initial states satisfy it, one lemma or step per action that it is
preserved, and the theorem from both.

**`OutboxProofs`**: `TypeCorrect` (`TypeOK`), `Marking` (`MarkedWasHanded`),
`PublishedStays` (`PublishedForGood`), `Ordering` (`OrderedHandover`), and `Refinement`:
the safety part of `AtLeastOnce` is implemented.  `MarkedWasHanded` is not inductive:
`Save` marks whatever is in `sent`, so the invariant adds `BatchInv` (the rows of a
batch are rows of the table, and those in `sent` were handed over).  `Ordering`
needs `BatchIsEarliest`: every row of `seen` that was never handed over, by anyone,
and that is earlier than a row still to do, is itself still to do or has failed.
`Duplicating` (`DuplicateBound`) is a counting argument, with `TriedInv` (a dispatch tries
a row once) and `CopiesInv`: every copy of a pending row is owed to a dispatcher that has
not saved, or to one that stopped; once the row is marked nobody reads it again, and only
those that have it still to do may add one copy each.

**`ClaimIntakeProofs`**: `TypeCorrect`, `TakenInOnce` (`IntakeOnce`), `Conservation`
(`NothingVanishes`), `Denials` (`DenialHasCause`), `DeadLetters` (`DeadLetterHasCause`),
and `Refinement` (`KeepsLedger`): filing and intake are steps of `ClaimLedger`.  `IInv == TypeOK /\ CommandsInv /\ HandlerInv /\ IntakeOnce /\ NothingVanishes`.
`HandlerInv` ties the step a handler is at to what it holds: it has a delivery,
a case was found only if the claim is processed, a status has been determined
before it is saved, and an acknowledgement is sent only for a processed
command.  Without the last, `Acknowledge` could drop the only copy.
`CommandsInv` says that only committed commands travel, that a delivery the
broker counts as held is the one its handler works on, and that a request that
has not saved has no command.
For `Denials`, `CauseInv` says that the policy of a request that passed its check covers
the amount until it wavers, that commands come from such requests, and that a handler
about to save a denial determined it after the policy wavered.  For `DeadLetters`,
`CalmInv` describes the runs without a fault: a handler has the delivery it works on, a
command handed over once has one copy in the queue and its handlers, and a handler
beyond its duplicate check finds the command processed only in a race of two.

**`CaseWorkProofs`**: `TypeCorrect`, `OneStory` (`TrailIsWhole`), `StaysAssigned`
(`AssigneeIsAudited`), `Following` (`FollowsStateMachine`), for every transition relation,
so that the same proof covers claims and quotes.  A save is about what was loaded, some
steps earlier; `LoadedInv` carries what is still true of it: the status loaded is one the
trail has named, and is the status of the row if no other request had it loaded.
`OverlapInv` says that the history variable misses no overlap, and `DecidedInv` that
what has no way out was never left.

**`PublicApiProofs`**, about policies: `TypeCorrect`, `Orphans` (`NoOrphan`), `Pricing`
(`PremiumFits`), `Rules` (`RulesHoldInTurn`), `Dating` (`EndAfterStart`).  Two histories
meet in one row when updates overlap, since each writes only the columns it changed;
`WantedInv` says which columns a request may be about to write, and `OverlapInv` that the
history variable misses no overlap.  `PremiumInv` has both sides of `PremiumFits`: a request
that is about to write a premium writes the coverage that asks for it too, so that any order
of saves leaves a pair that fits as long as no save writes a coverage alone; and while
requests do not overlap, a coverage goes alone only where the row has its premium already
(`LeavesPriced`).  `TurnInv` and `DateInv` carry what a request checked to its save, `DateInv`
together with `shortened`.  None of the theorems asks anything of the coverages or the months
that requests name.
About claims: `ClaimsTypeCorrect` and `Resolution` (`ResolutionFits`), by `LoadedInv`
and `ClaimOverlapInv`.  The date must be in `LoadedInv`: a request that loaded an approved
claim pays it without writing the date, and relies on the one that approved it, even
when the row has moved on since.

**`ProjectionProofs`**: `TypeCorrect`, `AppliesOnce` (`AppliedOnce`), `RowsAreWhole`
(`RowIsWhole`) and `Order` (`NeverGoesBack`).  `AppliedInv` says that what is applied is
processed, and `RowInv` that the row a handler loaded is still the row, unless two were at
it.  `OrderInv` follows the events of one subject on their way: one that was handed over is
processed, with a handler or in the queue; the earlier events of one in the queue are
processed, with a handler or before it; those of one that is handled, or processed, are
all processed.  A handler that is given its delivery back to the queue, by a crash
or a lost connection, puts it first, so that the second clause survives; a rejection does
not, and is why the theorem excludes subjects with a dead letter.

**`QuoteFlowProofs`**, about the composition of quotes worker and acceptances:
`Underwritten` (`UnderwrittenOnce`), `Declining` (`DeclineHasCause`), `Approving`
(`ApprovedIsAccepted`) and `Accepting` (`AcceptanceHolds`, by `EstimateIsLowest`).
`RowsInv` is about the public row: it has its customer (`OwnedInv`), and what an
acceptance loaded has not gone back to being requested since (`PendingInv`).
`WorkInv` is about the case: whatever a handler is about to save, and whatever is
saved, is `Sound`: what the rules say of a quote with its customer, or of one without,
provided the customer is gone by now.  That is what makes an accepted quote
proof against being declined for want of its customer.
The module also proves two facts about the rates, for every type and every coverage:
`EstimateIsLowest` (the worker's premium is the estimate up to the first risk tier, and
above the estimate beyond) and `PremiumGrows` (more coverage never costs less).  Both
rest on what rounding half to even can lose, at most half a cent, and on the products of
the two rate tables.

**`WebProofs`**, about customers and forms: `TypeCorrect`, `Index` (no two customers share
an e-mail), `Seeding` (`SeededOnce`), `Telling` (`FormsToldTruth`) and `Filing`
(`FiledTwiceHasCause`).  `Seeding` needs `IndexInv`, the unique index: of two processes that
seeded, one must have lost all its customers, or their e-mails, before the other came
(`OnceInv`); `FirstInv` says that nothing is served before a process seeded, and
`WholeInv` that a process that did not stop goes on to the end.  The forms need that their
attempts are posted in order and ask for the same (`PostedInv`), that an attempt that is over
was refused, given up or has succeeded (`OverInv`), that success is shown of an attempt that
succeeded (`SuccessInv`), and what a saved row says of its attempt (`RowsInv`, `FiledInv`).
What a double click puts in doubt is the order of attempts, so that order is stated of the
others: of two attempts neither of which is by a double click, the earlier one is not awaited
any more, and has failed (`AwaitInv`, `OrderInv`).
About the dialog: `DialogTypeCorrect`, `Trying` (`NeverStuck`), `Reloading`
(`ReloadLosesNothing`).  The one listener may be removed while another attempt runs;
`ListenerInv` says that then one of the attempts that put it back is under way.
`AloneInv` says what an attempt that no other overlaps knows of the circuit until it
has its answer, and `PausedInv` when a circuit may be resumed.
About the portal: `Converting` (`QuoteIsWhole`), `Following` (`ClaimFollowsPages`) and
`Depth` (`DepthGrowsByRaces`).  The service checks nothing, so the invariant must tie pages to
rows: a browser shows a status its subject went through (`PageTypes`), the last of them is
the status of the row (`TrailEnds`, and its likes for the quote and the messages), and so a
click that is no race is on the row as it is.  The counts follow: a conversion that is in
store, of a quote that is in review or approved, is counted with those that were made
(`ConvertedOnce`, `InStore`), each break of a claim's trail is by the click that entered it,
and a message is a dead letter only in its first status (`DeadAtFirst`).

**`HeartbeatProofs`**: `TypeCorrect`, `Triaging` (`TriagedOnce`) and `Whole`
(`TriageIsWhole`), for any number of issues, runs and versions of the team, any pages and any
text.  Neither property is inductive; `StoryInv` tells the story of every issue that is not
`disturbed`.  Whoever has a label to put decided so while the issue had none (`Fresh`): a
page that was fetched before somebody labelled the issue does not put that in doubt, since
the two decisions would have been pending together.  Whoever owes a comment put the label,
and it is the only comment (`Owed`, `OneReply`); a label has its comment, or somebody owes
it, unless there was a fault (`Answered`).  A change of the team disturbs every issue, so that
there the team is the first one (`SameTeam`).  Of the pages the proof uses only that they
are sets of listed issues: that they shift and overlap is not excluded.

**Only model-checked.**  Liveness (`EveryRowPublished`, `KeepsPromise` with its fairness,
`EveryCommandSettled`, `CatchesUp`, `InboxEmpties`, `FailedPageRecovers`) is out of the
prover's reach, and so is, by induction over their data, what the readers of tables and the
rules of `SquadFiles` and `TriageRules` compute.  Every invariant and every safety
property of a passing run is a theorem.

## 5. What is not modelled

* Authentication, telemetry, health checks and the app host: configuration of
  libraries.  Endpoints and DTOs: routes delegate to the services, and responses
  are modelled where a service is.  Queries and pages that only render: no
  state.
* Lengths and formats of columns, and every column no decision reads;
  `PublishAttempts` and `LastError`, which no code reads.
* Messages that cannot be deserialized: nothing in the repository publishes one.
* The legacy worker: nothing publishes to its queue and no manifest deploys it.  It
  would requeue a delivery it cannot read for ever (`ClaimEventConsumer.cs:51`).
* Of a quote's case: the premium a status request may set, since no status
  request on a quote is ever valid (`FollowsStateMachine`).
* Of `Customers`: the numbers of seeded policies, claims and quotes, which are unique too, so
  that the model seeds a second time in more states than the code; and whether a customer has
  an active policy (`PublicPolicies` has it).  Of `Forms`: the form of quotes, which posts as
  that of claims does.
* Rows of the outbox whose publish fails for ever: fifty of them would fill every batch.
  `EveryRowPublished` is about faults that end.
* Of the portal: notes and the override of a premium, one assignment each that
  nothing reads; the refresh of the queues from `operations/queues`, an
  endpoint the backend API does not have.
* Of the squad: the branches about @copilot, who is not on the team; the workflows
  `squad-issue-assign` and `sync-squad-labels`, which write one comment and create
  labels, and neither read nor write what triage decides on.  A pull request gets no
  triage job, as the workflow is started by issues only.
* The resilience handler's delays and its circuit breaker: an attempt may come at any
  time, and there are `MaxAttempt` of them.

## 6. Plan

What is left, in this order:

1. Proofs: that `QuoteIntake` implements a ledger of quotes as `ClaimIntake` implements
   `ClaimLedger`, and that a row of the public side only ever shows a status its case had.
2. `ClaimFlow`: `ClaimIntake`, `CaseWork`, `Projection` and `AtLeastOnce` composed,
   with the end-to-end property that the status shown is one the case had, and
   the last one when nothing went astray.
