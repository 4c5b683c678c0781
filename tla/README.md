# Formal models of the Bidding server

TLA+ models of the parts of this repository in which several processes, an
unreliable partner or a crash can spoil shared state, checked with TLC on small
instances and, as far as they are safety properties, proved with TLAPS for all
instances. Paths are relative to the root of the repository; a module's
comments name the functions they are about, and `PROJECT.json` maps every
definition to its source.

1. [The system](#1-the-system)
2. [Modules and their code](#2-modules-and-their-code)
3. [Runs](#3-runs)
4. [Bounds](#4-bounds)
5. [Fairness](#5-fairness)
6. [Proofs](#6-proofs)
7. [Disagreements between code and text](#7-disagreements-between-code-and-text)
8. [Abstractions and assumptions](#8-abstractions-and-assumptions)
9. [What is not modelled, and the plan](#9-what-is-not-modelled-and-the-plan)

## 1. The system

A Starlette server over PostgreSQL with a browser client. A company plans and runs
public tenders in it: it reads records of the procurement portals, edits plans
and packages together, exports documents, and buys credits for the portal reads.

| Component | State it keeps | Operations | What is hard | What makes it correct |
|---|---|---|---|---|
| Usage credits (`backend/usage_credits`) | grants with `remaining` and `reserved` counters, one reservation row per owner and source revision, an append-only ledger | grant, reserve a batch under a policy, consume, release, sweep expired leases | transactions of several requests and of the sweep on the same counters | counters equal the rows and the ledger; no grant overdrawn; a charge is final and the owner's own |
| Procurement lookup (`backend/procurement_lookup`, `procurement_raw.py`) | snapshot rows per revision and part, their age | plan from cache, reserve, fetch, save and settle | three transactions and an external call per request, shared reservations, a process that dies in between, bundles only partly obtained | charge and snapshot commit together; what an import serves has been paid; every request is settled |
| Billing orders (`backend/billing/service.py`, `activation.py`, `webhook.py`, `routes.py`) | orders, provider commands, webhook inbox, activation rows, payment facts, refund intents | checkout, cancel, query, refund, review, complete and fail a command, apply an event, activate | provider calls outside any transaction; answers that are old when applied; claims whose lease ran out; repeated webhooks; second, partial and late transfers | one grant per order, earned by an exact payment; closed checkouts stay closed; reconciliation does not stop early |
| Billing worker (`backend/billing/worker.py`) | none of its own | six queues looked into in a fixed order, one piece of work per turn | starvation of the later queues | every queue is served |
| Payment provider (`backend/billing/providers`) | payment links (external) | create, read, cancel a link | lost answers | - |
| Document jobs (`backend/documents/document_worker.py`, `document_job_*.py`) | durable jobs with leases and attempts, an exchange directory per job, provenance of artifacts | create, claim, render, publish, fail, cancel, retry, download, consume, sweep | a worker that overran its lease shares the directory with its successor; a job whose last attempt dies; the record is edited while its export is rendered | the life cycle a submitter is promised; a finished job keeps its result; no export of an edited record; every job ends |
| Template catalogue (`backend/documents/template_catalog`) | versions, draft and publication of a template, retention, projection outbox, legacy alias | draft, restore, preflight, publish, sweep, project | editors at work on one template, references from five tables, retried projections | nobody replaces what he has not seen; what was published is kept |
| Synchronisation (`backend/sync`) | rows with versions, mutation receipts, change counter, tombstones | push with idempotent replay, full and delta pulls, delete, purge tombstones | repeated and late pushes, concurrent edits, pages read while rows change, purged tombstones | an edit is written once; a pull misses no committed change |
| Browser sync (`frontend/app`) | replica, outbox, cursor, conflict state | edit, push, pull, reload after a conflict, restore a rejected record | edits during a push, superseded pulls, lost answers | local edits are shown and accounted for; the replica never goes back; it converges |
| Event broker (`backend/sync/websocket.py`) | events, receipts and failures per process, sockets | enqueue, dispatch, retry, give up after five failures, revoke, re-authenticate | events commit out of the order of their ids; a socket registers after its session was revoked | no process passes over an event; sockets of a revoked session close |
| E-mails (`backend/auth/email_delivery_service.py`) | outbox rows with claims | insert, claim, send, fail, sweep | a thread that dies with a claim, or outlives it | every e-mail is sent or given up |
| Organisations (`backend/api/org_*.py`, `backend/auth/admin_user_routes.py`) | members, roles, invitations, seats, accounts | invite, accept, add, remove, change role, leave, deactivate | authority that ended before it is used, seats taken through several doors | a manager remains; no seat is filled twice |
| Plan imports (`backend/procurement_import`) | import sessions, operations with leases, committed revisions | prepare, enrich in the background, bind decisions, open drafts, push, finalise, apply or resume a whole history | an enricher that overran its lease; status and data in different transactions | what is committed was decided on; a completed import stays complete, each revision once |
| Authentication (`backend/auth`), monitor (`procurement_monitor`), commercial policy, lots, calendar | sessions, one-time codes, polled records, price books, life-cycle states | issue, verify, merge, publish, transitions | see section 9 | not modelled |
| Rendering, portals, AI, partners, notifications, reports, user interface | rows without a protocol, or none | - | - | - |

How they interact. A paid order of a credit pack ends in `grant` of the credit
store, in the transaction that marks it applied. A lookup or an import reserves
and settles credits around its portal call. The billing worker serves the webhook
inbox, the command queue, activation, expiry and reconciliation of orders and,
last of all, the lease sweep of the credit store: this is the one place where
the reservations of a request that died are released, so a wedged order in
billing withholds credits from lookups. A revision of an import session reaches
the plan as an ordinary push of the browser, inside whose transaction the session
is checked and moved on. A committed push is announced to other browsers by an
event of the broker; a lost hint costs time only, because the browser's pulls go
by its cursor. The document queue is used by the web requests for exports and
for work a request waits for.

## 2. Modules and their code

```
UsageCredits <--- ProcurementLookup <--- MCCredits
                     '--- UsageCreditsProofs

BillingOrder <--- Billing <--- BillingWorker <--- MCBillingWorker
                     |--- MCBilling <--- MCOrders
                     |--- MCBillingQueues <----------------.
                     '--- BillingProofs <--- BillingPaymentProofs (with BillingWorker)
                                                           |
JobLifecycle <== DocumentJobs <--- DocumentJobsProofs      |
                                                           |
EmailOutbox, EventBroker, Sync (INSTANCE) <----------- MCQueues
  |--- EmailOutboxProofs
  '--- Sync <--- MCReplica, SyncProofs

TemplateCatalog, Organization, EventBroker,
ImportSession, ImportOperation <---------------------- MCServices
  '-- ServicesProofs
```

`<---` is EXTENDS, `<==` a refinement (`INSTANCE ... WITH`).

**UsageCredits** models `UsageCreditService`. `grants`, `reservations` and
`ledger` are the three tables; `now` is the clock that decides expiry and
leases. An action is a transaction (`Grant`, `Reserve`, `Consume`, `Release`,
`ReleaseExpired`), because the service locks reservation rows and then grant
rows before it changes a counter. The three partial-batch policies, the
first-expired-first-out allocation over several grants, the reuse of rows by
later batches, and the guards of the counter updates whose row count nobody
checks are kept.

**ProcurementLookup** models `fetch_procurement_snapshot` on top of it. A job is
one run of the handler; its steps are the handler's transactions and the call of
the portal. `raw` holds, for each revision and part, which responses were stored
and which is the newest, which is what `ON CONFLICT DO NOTHING` and the cache
query tell apart; `fresh` says which are younger than the cache's time to live.
`persist`, chosen in `PlanLookup`, is the flag in which a lookup (an incomplete
bundle is saved) and an import (it is not) differ.

**BillingOrder** holds the pure part of `BillingActivationService`: each operator
takes the locked order and returns the one that is committed. **Billing** models
orders, provider commands, the webhook inbox and the threads that serve them. A
thread claims (`ClaimCommand`, `ClaimWebhook`), calls (`CallProvider`,
`CallFails`) and applies (`Complete`, `Fail`, `CommitFails`, `ApplyEvent`,
`FailEvent`); it may die at any point. Commands are fenced by the lock token of
the claim (`OwnsClaim`), webhook events only by their status, as in the code.
`links` is the provider, modelled from how `payos.py` uses it. **BillingWorker**
puts the six queues of `process_next` in their order around the thread of the
loop.

**DocumentJobs** models the durable queue. `row` is `document_jobs`, `store` the
exchange directory, `prov` the provenance of the artifact. A worker claims a row
(token = number of the claim), prepares, renders, reads the result, verifies the
source a second time and completes the row by its token; each is a step of its
own, so that a lease may run out, a cancellation, a sweep or a crash may come in
between, and each may raise (`StepFails`). An exception leads to `UnlinkFailed`,
which removes the result files unfenced, and then to `FinishError`, which is
fenced. This includes a finish whose commit took effect and whose answer was lost:
`row.unsure` remembers a row completed that way. `may` is what the policy of an
export is checked against: account and permission, the revision of the record, its
dependencies. `request` and `reader` are the web requests; `doomed` are directories
a process has found to remove, by a purge, after a consumed result, or in the scan
at start-up (`StartupScan`), which unlinks them one after the other (`RemoveDir`).
**JobLifecycle** is the promise: a job waits, is done with one document, failed,
cancelled, or gone. `KeepsLifecycle` is its specification under a refinement
mapping that reads the status off the row and the document off what was offered
to the user and not what lies in the directory.

**TemplateCatalog** models one template: `versions` with their preflight,
`template.draft`, `template.published` and its row version, `cited` (publication
events), the projection `outbox` and what each process's projection worker is
doing (`hosts`), the `alias` file, and the `page` of each editor, who acts on what
his page shows. A draft is uploaded, restored from an older version, or made by the
standardiser (`CreateStandardizedDraft`), which renders outside the transaction.

**Sync** models one workspace on the server and in one browser. Server: `version`
(the counter every commit takes under its row lock), `minAvail` (below it a
cursor is too old), `row` (a record or its tombstone, with row version and sync
version), `open` (a transaction that has written and not committed), `recorded`
(the outcome of a `clientMutationId`). Browser: `local`, `cursor`, the outbox
(`pending`, `base`, `key`), `blocked` after a conflict, `restoring`. Network: the
push in flight, `late` pushes the browser gave up on, the pull in flight, and the
`stray` answer to a superseded one.

An edit takes one of three ways to the outbox. `Save` and `PatchDraft` change
replica and outbox at once (`mutatePersistAndSync`, the draft workflow).
`BeginRecord` changes the replica, and `EndRecord` queues the intent when the record
is in IndexedDB (`BiddingModel`). `BeginBatch` computes the table it will set, and
`EndBatch` sets it after the write, over whatever came in between
(`AssignmentBatch`). `BeginImport` stages at once and then awaits its push
(`WorkspaceDataStore.patch`). The last two kinds and the import take a checkpoint of
the whole outbox: when the write fails (`StoreFails`) or the push is refused
(`ImportRefused`), records and outbox are put back (`PutBack`, `RollBack`,
`RestoreOutbox`), and with the queue of the checkpoint its identity comes back.
`mutation` is the one that pauses.

A queued intent is a whole record, a deletion or a patch. A patch becomes a whole
record when it is pushed (`Materialised`), with the row version the replica then
has, so the same identity can be presented with two payloads; the server refuses
the second (`IDEMPOTENCY_KEY_REUSED`) and the browser takes a new identity
(`PushReused`). `PushSucceeds`, `PushConflicts`, `PushRejected` and `PushReused` are
the four answers; `ApplyFull` and `ApplyDelta` merge a pull under the waiting
edits; `ListPage` merges a page of a list the same way, and `AskRecord` and
`StoreRecord` store a record fetched on its own as it was read, over waiting edits
and newer pulls, as `fetchRecordByLookup` does. `Remote` writes stand for every
other client and route. The rest is history: `edits` and what came of each
(`settled`; `undone` by a rollback; `revived`, queued again by a rollback while it
was being pushed; `applied`), and `owed`, the records that a rollback, a table set
from an older copy or a stale lookup may have left behind the cursor until the next
full pull.

**EventBroker** models `websocket_events` and one consumer per process:
`Enqueue` takes an id, `Commit_` comes later and out of order, `Dispatch`,
`DispatchFails`, `Cleanup`, `Restart`; and one socket with its session:
`Authenticate`, `Register`, `Revoke`, `Recheck`. **EmailOutbox** models
`email_delivery_status`, the threads that claim rows and the sweep.
**Organization** models members, invitations (authorised before the lock of the
organisation is taken, stored under it), seats and accounts. While `trial` is on
(`trial_full_access_enabled`) no quota is enforced; `SwitchTrial` is the operator
who turns it on or off, so an organisation may have more members than seats when it
ends.

**ImportSession** models one plan session: `CreateOperation` and the enrichers
(`Start`, `Claim`, `ReadSession`, `Progress`, `Fetch`, `Finish`, `Fail`), which
are threads of any server process fenced by the `updated_at` of the operation's
row; the browser's `Refresh`, `Bind`, `OpenDraft`; and the commits,
`PushRevision` (a push of one revision) and `FinalizeDraft` (the command that
writes every revision of a new plan). `plan` names the latest version of the
plan, which others edit (`EditPlan`). The commit that stores a bundle may fail, and
the portal may fail while the plan stays as it was (`Fetch`, `StoreBundle`,
`Finish`). **ImportOperation** models the import of a whole history: `Apply` and
`Resume` start a call, `WriteBatch` is the transaction of all revisions,
`MarkCompleted` and `MarkBatchFailed` the one after it. `observed` is the digest in
the evidence of a revision and `numbered` the plan that has its number. A revision
with the digest of the operation is a NOOP; one observed with another digest is a
resync, which archives its plan and inserts another under the same root and number;
the unique index of the table covers archived plans, so the transaction is rolled
back (section 7). `OtherImport` brings a revision with this digest or a later one.
The commit of `WriteBatch` may take effect without its call learning of it.

The MC modules choose the part of the next-state relation a run is about and
bound what would grow for ever. `MCCredits`, `MCOrders`, `MCServices`, `MCReplica`
and `MCQueues` hold several independent questions in one state space: a variable
(`load`, `story`, `active`) is chosen in the initial state and never changes, and
only that part moves. The parts of `MCServices` and `MCQueues` share no state in
the code either, so nothing is lost. The slices of `MCReplica` are of one machine;
what is lost are behaviours that need the ways of two slices at once.

## 3. Runs

| Run | Checks | Shows | Distinct states |
|---|---|---|---|
| `credits` | `CountersMatchRows` `LedgerExplainsCounters` `NoOverReservation` `ChargedToOwnGrant` `ChargedOnlyIfSaved` `ImportsServeOnlyCharged` `ConsumedIsFinal` `RequestsAreSettled` | Three loads: the store's transactions in every order for two owners; two imports of two revisions; two requests, lookups or imports, of one revision whose parts fail one by one. Counters, rows and ledger agree; a debit implies a complete record; an import's record is served only if charged; every request is settled or swept. | 294 845 |
| `orders` | `CancelledAtProvider` `ReconciliationGoesOn` `PaidOnceGrantedOnce` `AppliedIsPaid` `GrantIsEarned` `ClosedStaysClosed` `SettledEventIsFinal` | Three stories of two threads: create, cancel, query and expire one checkout; webhook, query, creation, review and activation retry racing for one order with one transfer; and partial, exact, excessive, second and late transfers with the refund, of which only an exact on-time one without a pending refund is granted, however stale the answer. | 1 663 134 |
| `worker_loop` | `LeasesAreReleasedUnlessWedged` | The loop comes to its last queue whatever fails before it, unless an order is paid, applied and pending at once. | 26 508 |
| `documents` | `CompletedHasResult` `ServedAsPublished` `KeepsLifecycle` `EditedNeverPublished` `EveryJobSettles` | One job, an export or an internal one, two workers, two attempts: leases run out, workers crash, the user cancels, edits and retries, sweeps run. The job keeps its life cycle, its document and its policy, and ends. | 252 323 |
| `services` | `CurrentPageIsTrue` `PublishedIsKept`; `ManagerRemains` `NoSeatIsOverfilled`; `NoEventIsSkipped`; `CommitsFollowDecisions`; `CompletedImportIsKept` | Safety of five parts: a template, an organisation, the events of two processes, a plan session with two enrichers, an import called three times. | 1 094 493 |
| `replica` | `ReplicaIsCurrent` `NoEditIsLost` `KeyNamesOnePayload` `AppliedOnce` `ReadsAreMonotonic` | Seven slices of one browser: delta pages, repeated pushes, batches, imports, failing mutations, opened and refreshed records. The cursor tells the truth of every light record that owes nothing to a rollback, a batch or a stale lookup; every edit has an outcome; a queued record is written once. | 1 759 759 |
| `queues` | `CommandsAreSettled` `EventsAreSettled` `EveryEventIsHandled` `RevokedSocketsClose` `EmailsAreSettled` `ReplicaConverges` | With finitely many faults every command, webhook, event and e-mail comes to its end, and the replica converges or waits for the user. | 88 566 |
| `lookup_uncharged` | `ServedRevisionIsCharged` (violated) | See section 7. | |
| `overpaid` | `GrantedOnce` (violated) | See section 7. | |
| `final_read` | `FinalReadSeesPayment` (violated) | See section 7. | |
| `worker_wedged` | `LeasesAreReleased` (violated) | See section 7. | |
| `template_alias` | `AliasIsPublished` (violated) | See section 7. | |

The type invariants are no property of a run: they are conjuncts of the inductive
invariants and proved for every module but `Sync`.

Every property of a passing run has a mutant: an operator next to the one it
replaces, changed as a plausible bug would change it, under which TLC finds the
property violated. The mutants are marked `Mutant:` in the modules and occur in
no specification.

Deadlock is not checked where the system may stop: all orders closed, all jobs
ended, or a bound reached. The loop of the worker never stops, and its two runs
check that.

## 4. Bounds

- `credits`: 2 owners, 2 revisions, 2 grants of up to 2 credits, lease 1. Two
  owners are needed to charge the wrong one, two grants to allocate across a
  boundary, two revisions to have a batch. The store's transactions run with a
  clock up to `StoreTime` 2 and at most 2 reserve entries per grant
  (`MaxReserves`; two are needed to reuse a released row, and the ledger grows
  for ever otherwise). Requests (2 jobs, clock up to `MaxTime` 3, 2 parts) reserve
  in time for their lease to end within `MaxTime` (`ReserveInTime`), so that the
  sweep is not cut off by the end of the clock.
- Billing runs: 1 order, since no transaction touches two; 2 interchangeable
  threads, the holder of a claim and the one that takes it over (symmetry, except
  under liveness); `MaxAttempts` 2, so that there is a first, a repeated and a
  last attempt. In `orders` the price is 2 and a transfer is 1 or 2; `checkout`
  and `payment` have at most one transfer, of the price, and `transfers` two, in
  which the sum may be less than the price, the price, or up to twice the price. Elsewhere the price is 1 and the
  transfers one, in `overpaid` two. Attempt counters stop at `AttemptCap`: the code
  asks only whether an attempt is the first and whether it is the last. `checkout`
  leaves out webhooks and administrators, `payment` leaves out cancellation,
  expiry and refunds, `transfers` leaves out administrators, eligibility and activation retry.
  Every action is in some run, and the proofs are about the whole relation.
- Worker runs: 1 order and the worker's thread alone, `MaxAttempts` 1.
- `documents`: 1 job, since jobs share nothing but the capacity; 2 workers, the
  one that overran its lease and its successor; `MaxAttempts` 2 and `MaxClaims` 2;
  external mode (the embedded mode deletes directories at start-up as well; all
  proofs but that of `CompletedHasResult` hold for both).
- `replica`: two light records, 1 and 2, and one, 3, of a table read page by page;
  pages of one item, 2 versions, up to 2 local edits, 1 fault (a lost answer, an
  aborted pull, a failed write, a restart) and one mutation that pauses at a time.
  A slice leaves records alone that it does not need and bounds edits and faults
  together (`Slice` in `MCReplica`): an edit during a push, a late push, a page
  between two commits, a purged tombstone, a rollback of a checkpoint that another
  edit has passed, a lookup overtaken by a pull all occur.
- `services`: a template with 2 contents, 2 editors, 1 process, 2 versions and row
  versions up to 4, so that a published version can be superseded and then come
  before the sweep; 2 users and the platform's administrator, up to 2 seats; 2
  events, 2 processes, 2 failures, 1 crash. The session has 2 revisions, 2 enrichers
  (one whose lease ran out and the one that took over), 2 possible decisions, 1
  foreign edit of the plan and 2 faults (`MaxCuts`: a failed transaction or a dead
  thread); the history import 2 revisions, 3 calls (one that reports completion and
  two that may race after it), 1 foreign edit and 2 faults (`MaxBreaks`: a failed or
  unanswered transaction, a dead call, another import).
- `queues`: `MaxMishaps` 2 crashes or overruns in billing, one process and two
  events of the broker, one e-mail with two senders and two deliveries, one record
  with one edit and one fault; records fetched on their own are left out.
- `template_alias`: 1 editor, 1 process, 2 contents, row versions up to 4, no
  crash: the disagreement needs none.

## 5. Fairness

No property rests on a request, a user or a crashed thread going on.

- `credits`: weak fairness of the sweep and of the clock, none of a request.
  `run_billing_worker` never ends and a swept row is always eligible. That the
  loop comes to its sweep is what `worker_loop` examines, and where it does not,
  `worker_wedged`.
- `queues` (`AllFairness`, the conjunction of what the modules state, asked only
  of the part that is active): weak fairness of claiming a row that stays due
  (the billing queues are ordered by `available_at`, so none is passed over for
  ever) and of each step of a thread that was not killed; of a dispatch attempt
  (the consumer's loop) and of the re-authentication of a socket (a timer); of the
  e-mail sweep, of claims and of the end of a claim's lease; of the server's
  answers, of open transactions committing, of the browser's pulls and of applying
  what came, answers to pushes and fetched records included; and of writes to
  IndexedDB and rollbacks ending, in one way or another. Pushes are strongly fair: the outbox is taken up by a timer,
  but a pull that is being applied holds it off again and again. Crashes, lost
  answers and foreign edits are finite; with infinitely many nothing is promised.
- `documents`: weak fairness of a worker's steps (a dead worker is restarted), of
  the passage of time and of the sweep, which `document_worker.py` runs
  periodically.
- Worker runs: strong fairness of each step of the loop, because a turn may fail
  (`TurnFails`: an exception, the timeout of `run_blocking_io`, a restart)
  any number of times but not always. `LoopFairness`, used for the property that
  holds, does not ask that a claim is ever made; `WorkerFairness`, used for the
  one that fails, asks it as well, so the counterexample is no matter of
  unfairness.

## 6. Proofs

All theorems hold for every value of the constants under the named assumptions
(`ConstantsAssumption`, `LookupAssumption`, `PriceAssumption`,
`BillingAssumption`, `WorkerAssumption`, `JobsAssumption`, `EmailAssumption`,
`TemplateAssumption`, `OrganizationAssumption`, `BrokerAssumption`,
`SyncAssumption`, `SessionAssumption`, `OperationAssumption`), which say that sets
are finite where something is counted, quantities are natural numbers, and null
values are not members. One theorem has a hypothesis of its own and says so
in its statement (`External`, below).

Every safety invariant and every action property that a passing run checks is a
theorem, but for three of `replica` (`ReplicaIsCurrent`, `AppliedOnce`,
`ReadsAreMonotonic`); the runs found them plausible on small instances, the proofs
say why they hold.

### Credits

**UsageCreditsProofs** proves, for `UsageCredits!Spec`, the type invariant
(`TypeCorrect`), the four invariants of the counters and that charges are final.
The inductive invariant is `IInv`, the types and `Books`, the conjunction
of `CountersMatchRows`, `NoOverReservation`, `ChargedToOwnGrant` and
`LedgerExplainsCounters`. None of these is inductive alone. The updates of the
counters are guarded (`remaining > 0 AND reserved > 0`) and a guard that fails
is not noticed, so a debit agrees with its row only because the counters cover
all rows; a new grant starts from zero only because no row refers to it; the
ledger follows the counters. The core is `AllocationFits`: the candidates a
batch charges to one grant are mapped injectively, by their place in the stable
order, into the interval of the grant's free credits, hence never exceed it,
although the code compares only the sum over all grants.

The second half is about the requests. `LookupImplementsCredits` shows that the
lookup service drives the store through its own transactions only: each of its
steps is a step of `UsageCredits` or leaves the store alone, so what was proved of
the store holds under it (`LookupKeepsBooks`). `ChargedRevisionsAreSaved` and
`ImportsAreCharged` are the two promises of the settlement. `LookupInv` adds to
them what a request may still believe after another has swept, released or taken
over its rows (`RequestsAreSound`), and `CompleteIsCharged`: as long as all
requests are imports, a revision whose responses all succeeded was charged. The
latter speaks of revisions on record, fresh or not, because a stale one may be
read again.

### Orders

**BillingProofs** proves for `Billing!Spec`: the types (`BillingTypeCorrect`);
that an applied order is paid and granted (`ActivationIsPaid`); that closed
checkouts stay closed (`CheckoutsStayClosed`); that a processed or dead event
keeps its outcome (`EventsAreDecidedOnce`). `Sound` adds to the types that
neither the activation state nor the activation row says `applied` without
payment and grant: the row must be included because it outlives the state, and
`_mark_applied` is not the only writer. That a checkout whose creation was given
up is not reopened needs `CreationIsOver`: its creation command is dead, so no
thread owns its claim. The lemma `CheckoutSteps` lists the ways in which one step
can change a checkout state; `CheckoutsStayClosed` and `CancelledMeansCancelled`
rest on it.

**BillingPaymentProofs** is about old answers. The invariant `Remembered`
adds to `Sound` that only the first attempt of a creation creates and that at
most one thread makes it (`CreatedOnce`, without which a late creation would
reopen a cancelled link); that what a thread has heard (a cancellation, an exact
on-time single payment) is still true of the link (`AnswersHold`); that an order
awaiting activation was paid in time (`PendingIsPaid`), since the retry of the
worker asks nobody; and that the amount received is the sum of the transfers as
far as it matters (`AddsUp`). `CancelledMeansCancelled` and `GrantsAreEarned`
follow.

- `ReconciliationIsNeverDropped`: the invariant is `Reconciling`. The query of an
  order is the one command that a failure puts back for ever; that a completed one
  is queued again rests on the answer being one (`AnswersSaySomething`), on the
  order being there before its first query (`NoEarlyQuery`), and on the deadline,
  a payment and a decision not being taken back (`DecisionsStay`). With two
  threads on one order, the one that settles the query has read the order that
  the other changes; `OrderSteps` lists what it can have changed.
- `SecondGrantNeedsSecondTransfer`: `PaidOnceGrantedOnce`, wherever an order was
  granted twice its link received two transfers. That there is no second grant at
  all is false (section 7, the run `overpaid`). The invariant `Single` says why one
  transfer is not enough: an answer that a link with one transfer is paid is still
  what the link says (`PaidAnswersAreCurrent`), so no thread with such an answer
  sends the order to review, and the activation row, once `applied`, stays the
  witness of the grant (`GrantIsOnRow`); events are of transfers that were made
  (`EventsAreOfTransfers`), and a cancelled link was not paid (`CancelledIsUnpaid`).
- `LoopIsBilling`: `BillingWorker` implements `Billing`. Whatever queue the loop is
  at, however a turn ends, what it does to the rows is a step of `Billing` by one
  thread, or none; so the loop keeps its types and the orders safe (`LoopTypeCorrect`,
  `LoopKeepsOrders`). It is the
  liveness of the loop that the wedged order breaks, and nothing else.

### Documents

**DocumentJobsProofs** proves that the queue keeps `Orderly`
(`QueueIsOrderly`), that it implements `JobLifecycle` (`QueueKeepsLifecycle`) and
that an edited export stays unpublished (`EditedStaysUnpublished`), for any number
of workers, attempts and claims and in both execution modes. `Orderly` adds to the
types, among them that a row is locked exactly while it is processed, what the
refinement rests on: a row exists only after its request enqueued it, so a status
is not `none` again; a cancelled job is out of the queue, so `cancelled` is not
left; and a worker about to publish has a document, so `done` comes with one. A
stale worker does write, into the directory and the provenance, but its token is
not the row's. The refinement mapping (`StatusOf`, `DocumentOf`) reads status and
document off the row; every step of the queue is then one step of the life cycle
or none. `ToldStaysTold` is read off the life cycle: a finished job offers its one
document until it is gone, a cancelled job stays cancelled, what is gone stays
gone.

The directory is another matter, since nothing fences it. `JobsAreSettled` proves
`AllSettled`: while no worker of a job has outlasted its lease, one worker at most
is on it, its rendering is untouched in the directory until it is published, and
nothing else is published or served; only a worker whose completing commit was not
answered removes what it published. `ReadersAgree` follows in both modes.
`CompletedKeepsResult` says that a completed job has its files unless its row is
`unsure`, and has the hypothesis `External`: in embedded mode the sweep at start-up
removes directories by age alone (`lifecycle.py:375`), also that of a completed
job, so there the property is false and the run checks the external workers.

### E-mails

**EmailOutboxProofs** proves that the token of a claim fences it: at most one
thread can record the outcome of an e-mail (`ClaimsAreExclusive`); what was sent or
given up is not sent round again (`SettledStaysSettled`); and nothing that can be
sent is given up before its last attempt (`NobodyGivesUpEarly`), though the attempts
of dead threads count. The invariant `Fenced` adds to the types that a token was
drawn when its attempt was counted, hence is not above the count, and by one
thread only (`TokensAreDrawn`).

### Organisations, templates, events, imports

**ServicesProofs** has a section for each of these parts, which share no state.

- `AManagerRemains` and `NewcomersHaveSeats`. The invariant `WellManaged` is the
  types and `ManagerRemains` itself, inductive because every departure, demotion
  and deactivation counts the managers left under the lock of the organisation.
  The seats are a property of the steps: outside a trial no newcomer takes a seat
  the package does not have.
- `EditorsSeeWhatTheyReplace` and `HistoryIsKept`, from `CatalogIsSound`: a page is
  never ahead of the template and one with the same row version shows the same
  draft and publication (`PagesAreBehind`); and every version that an event or a
  projection names is kept (`NamedIsKept`).
- `GapsStayGaps`: no process passes over an event that commits late, from
  `ReceiptsAreEarned` (what a consumer has completed it has dispatched, given up, or
  found done when it started).
- `CompletionIsFinal`: an import that was reported complete stays complete, with the
  digests of the operation, and no revision is made a plan twice, from
  `BatchIsHonest`: an index of `LastStep`, and a call that has written, mean that all
  revisions are observed with their own digest, so that a failure of an overtaken
  call can only move the index up to it or not at all; and a revision once observed
  is not observed otherwise, since a resync never commits.
- `DecisionsAreKept`: the commits of a session follow its decisions, from
  `SessionIsSound`. Its heart is `DecidedIsFenced`: decisions are bound only to a
  bundle that is completed, and from then on no enricher holds the lease of a
  running operation, so none passes `MayFinish`; drafts that are open are of the
  bundle and the decisions the session now has (`DraftsAreCurrent`), and a commit
  is on the plan the session expects (`CommitsAreOwn`).

### Synchronisation

**SyncProofs** proves `OutboxIsAccounted` and from it `EditsAreAccountedFor`
(`NoEditIsLost`) and `IdentitiesKeepTheirPayload` (`KeyNamesOnePayload`). The
invariant `Accounted` is `Shape /\ EditsKept /\ Named`. `EditsKept` adds to the
property that an edit that left the outbox of a mutation under way is in the
outbox or has its outcome already, so that a mutation may end at any time;
`RestoreOutbox` undoes exactly the edits it takes out. `Named` says of the outbox and
of the checkpoint of a mutation that what was presented or recorded under their
identity is their payload, unless it holds a patch; and that the two are equal as
long as they have one identity. The checkpoint must be included because a rollback
brings its identity back. That a fresh identity exists rests on counting: at most
one transmission per fault is late.

### Only model-checked

Liveness (`CommandsAreSettled`, `EventsAreSettled`, `EveryEventIsHandled`,
`RevokedSocketsClose`, `EmailsAreSettled`, `EveryJobSettles`, `RequestsAreSettled`,
`ReplicaConverges`, `LeasesAreReleasedUnlessWedged`): fairness and ENABLED are beyond the proof system.
`ReplicaIsCurrent`, `AppliedOnce` and `ReadsAreMonotonic`: their
invariants would have to follow every row version the browser knows through pages,
snapshots, lookups, checkpoints and answers.
The five properties of section 7 that TLC refutes are no theorems, of course. What a
fold computes for every input would need induction over data and is not stated.

## 7. Disagreements between code and text

With a run:

- **A second grant for one order** (`overpaid`). `_mark_review` overwrites the
  activation row of an order that is already applied (`activation.py:726`), and
  that row is what keeps `_activate_order` from activating again. A thread reads
  the exact payment; the order is activated by another; a second transfer
  arrives and its webhook sends the order to review; the first thread applies
  its answer and grants again. The comment at `activation.py:42` promises that a
  duplicate "never creates a second grant".
- **The final read may come before the payment** (`final_read`).
  `keep_reconciling` compares the deadline with the clock when the query
  completes (`service.py:846`), not with the time of the read. A query that read
  PENDING before the payment and completes after the deadline is the last one,
  contrary to `worker.py:123` ("one final provider read").
- **One order can starve the worker** (`worker_wedged`). An administrator sets an
  applied order aside; the next exact provider read moves its activation state
  to pending, and `_activate_order` leaves it there because the row is applied.
  `process_next` then finds this order on every turn and never comes to expiry,
  reconciliation and the lease sweep, against `worker.py:359` ("worker must
  isolate one bad row"). `worker_loop` shows that nothing else starves it.
- **An uncharged revision is served** (`lookup_uncharged`). A lookup of two
  revisions of which one fails saves the other and releases both reservations
  (`routes.py:236`); the cache then serves the saved one without a charge.
  ADR 0017, line 39, wants exactly one use deducted for a record obtained.
- **A legacy alias may differ from what is published** (`template_alias`).
  Publishing content that was published before adds no projection, and a retried
  projection may be copied after a newer one, so the file under the old name may
  end with a content that is no longer published, against `compatibility.py:230`
  ("Project DB-authoritative published bytes to legacy aliases after cutover").

Met while modelling, without a run of their own:

- `procurement_import/routes.py:878` says that claims are fenced, so that "multiple
  web workers may call this scanner safely". A thread whose claim fails (it lost a
  serialization race, or the database failed) has no lease, and
  `_finish_enrichment_operation` without a lease is unfenced: it marks the
  operation FAILED while the winner is running it, or after it completed. `Fail`
  models this; the winner then cannot store its bundle, and no commit is affected.
- A plan revision the portal published again with another content cannot be
  imported: `command.py:425` classifies it as `SOURCE_RESYNC`, and `_insert_plan`
  (`repository.py:513`) archives the plan of that revision and inserts one with the
  same root and number; the unique index on organisation, root and number
  (`idx_ke_hoach_lcnt_unique_version`, `postgres_schema.py:419`) does not exempt
  archived plans, so the transaction fails every time. The test of the resync
  (`test_procurement_import_command.py:598`) runs on a repository in memory, which
  has no index. `Materializes` and `NumberIsFree` model this, and
  `CompletedImportIsKept` shows that nothing else is harmed by it.
- A lost answer to the commit that completes a document job costs the finished job
  its files (`document_worker.py:1455`): the worker takes the exception for a failed
  finish, unlinks `result.json` and `result.bin`, and its error update matches
  nothing, since the row is completed. `CompletedHasResult` allows exactly this case.
- A failed import takes back the outbox of its beginning
  (`WorkspaceMutationOutbox.js:337`): edits the user made while it awaited its push
  are dropped from the outbox, though they may still be shown
  (`WorkspaceDataStore.js:392`), and edits pushed meanwhile are queued again.
- `get_revision_draft` validates the plan against the predecessor of the session's
  start, so once the first revision is committed the draft of the next one is
  refused as stale. The model's pushes therefore use drafts opened before.
- An enrichment that ended FAILED or PARTIAL leaves the session undecidable until
  it expires: `bind_plan_decisions` wants COMPLETED and nothing starts it again.
- `document_worker.py:1464` calls the retention sweep "the only deletion path";
  `lifecycle.py:375` deletes directories at start-up in embedded mode.
- A stale document worker commits its provenance even when its update of the row
  matches nothing.
- `read_service` pages heavy tables always (`use_server_pagination`), so a full pull
  does not resend them although the cursor is committed; the comment at
  `BiddingModel.js:885` counts on "the next full pull" to replace the records shown.

## 8. Abstractions and assumptions

- Names, addresses, payloads, signatures, hashes, permissions on single records
  and reasons of failures are left out unless a guard asks for them. Wording,
  logging and metrics are left out.
- Leases, backoff and staleness are not timed, except in the credit store: a lease
  may be over, a row due, a preflight stale at any moment. This contains every
  timing the code allows.
- **Billing.** Credit enforcement, checkout and activation are switched on. Orders
  buy credit packs; base plans and renewals share the life of the order up to
  `_activate_order`. A delivery of a webhook whose payload differs from the one on
  record inserts a row in review, which nobody claims: it is left out. A repeated
  cancellation reads the link and then cancels it; the model does both in one
  step, since a payment between the two makes the provider refuse and the attempt
  is repeated. The buyer pays only to an active link and the provider accepts no
  transfer after cancellation or expiry.
- **Documents.** A result is named by the claim that rendered it. Retry bypasses
  the admission limit, as in the code (`document_worker.py`, `Retry`).
  `CompletedHasResult` and `ServedAsPublished` exclude jobs one of whose workers
  outlasted its lease (`late`): such a worker may unlink its successor's files.
- **Templates.** Catalogue mode is cutover. `recover_stale` runs once when a process
  starts, so a projection whose worker died less than 300 s before stays in
  processing; the run of `PublishedIsKept` contains that.
- **Synchronisation.** The lookup of a rejected record and a page of a list are
  read in one snapshot; the replica in memory and in IndexedDB are one, and
  localStorage is durable at once; one tab. One mutation pauses at a time.
  `WorkspaceDataStore.transaction` has no caller outside tests; `patch` has one, the
  import of bidder goods. Intents for whole tables (`dirtyTables`,
  `replace-table`) are left out, and so is a failure to store the outbox after an
  edit was queued in it. `PurgeTombstone` keeps a tombstone longer than the
  insertion of the same record stays unsent. Roles, visibility tokens and aggregate
  versions are left out.
  The properties name what the code does not keep: a rollback drops edits
  (`undone`) and may have one written twice (`revived`); a table set from an older
  copy or a stale lookup hides pulled rows until the next full pull (`owed`); a
  patch of a record that is gone stays in the outbox unsent (`Dangling`); a patch
  whose answer was lost may be written twice, since it takes the newest row version
  with every push, so `AppliedOnce` is about whole records.
- **Organisations.** Checks of roles count managers whose account is deactivated;
  the owner can be removed by another manager; the role update does not ask whether
  the membership is active: all as in the code. Suspended organisations and
  inactive subscriptions are left out.
- **Event broker.** One user and session are watched; presence and typing hints
  keep no state.
- **Imports.** One plan and its session; a bundle is named by who prepared it and
  the preparation of a bundle (preview store, digests of the revisions, package
  targets) is data. A revision is pushed with the content and the decisions of a
  draft the browser has opened. `rowVersion` of `ImportOperation` counts as the
  code compares it: 1 for a new version, plus one for each edit.

## 9. What is not modelled, and the plan

Most of the implementation is not a protocol: the views and forms of the browser,
the parsers of the portals' pages and documents, rendering of Word and Excel,
table definitions and upgrades, portal automation, language-model calls, reports,
analytics and administration views are the larger part of its lines. They are
conversions of data or input and output, and a model of them would be a second
program. The share of lines a definition stands for is therefore small and will
stay so; what is mapped is the code in which steps of several actors meet.

Not modelled although it has a protocol, in the order in which it is worth it:

1. Subscription terms: base plans, renewals and their activation in
   `BillingOrder` (`renewal.py`, `_activate_order` for base plans), with an
   abstract specification of an order that `Billing` with one transfer implements.
2. Sessions, one-time codes and password reset (`backend/auth`): counters of
   attempts, revocation against use.
3. Notice and opening imports (`ImportOperation` for package versions), and the
   merge of clarifications by the monitor against edits of the user.
4. Publication of price books (`commercial_policy`), by compare-and-set like the
   templates.
5. Life cycle of lots, and the legal deadlines of the calendar as operators checked
   against a reference definition.
6. Several tabs of one browser on one outbox; start-up import of old template files.
7. Theorems: the abstract order of item 1, which `Billing` with one transfer
   implements; `AppliedOnce` and `ReplicaIsCurrent` of `Sync`.
