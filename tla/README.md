# Fleetum: TLA+ models, model checking and proofs

This directory specifies and verifies parts of Fleetum's backend, a multi-tenant
fleet and rental management system (TypeScript, Express, Prisma on PostgreSQL,
Stripe for payments, Resend for e-mail). The models are written from the code
under `src/backend/src`; paths below are relative to it unless they start with
`src/`. `PROJECT.json` maps every definition to the lines it models.

Contents: [the system](#the-system), [the models](#the-models),
[runs](#runs), [bounds](#bounds), [fairness](#fairness), [proofs](#proofs),
[findings](#findings), [hazards without a property](#hazards-without-a-property),
[what is not modelled](#what-is-not-modelled),
[plan](#plan).

## The system

Several Node processes serve HTTP requests and run cron jobs against one
PostgreSQL database. Inside a process every `await` lets other requests run; the
database runs at READ COMMITTED, and the code adds advisory locks, `FOR UPDATE`
and compare-and-set updates where it needs more. Stripe and Resend are called
outside transactions and answer late, twice or never.

| Part | State | Operations | Hard because |
|---|---|---|---|
| E-mail queue (`infrastructure/email`) | `EmailQueue` rows: status, attempts, token, lease, receipt; the delivery records of contracts, invoices, reminders, extra charges | enqueue, `processPending` (claim, dispatch, finalise, fail, release) | two workers, expired leases, lost answers and commits, crashes |
| Rental bookings (`rental-bookings-controller.ts`) | `RentalBooking`, its pricing snapshot and contract, the creation-request table | create, update, remove, transition, updatePricing, setContract, setCargosStatus, markContractSigned, generateContract | concurrent requests, half of them without locks |
| Contract documents | `BookingContract`, deliveries, share links | edit, send by e-mail or WhatsApp, revoke | a send races an edit; the queue settles it later |
| Rental payments (`rental-payment-service.ts`) | `RentalDeposit`, `RentalExtraCharge`, payment events; payment intents and idempotency keys at Stripe | create, capture, release, approve, charge, cancel, notice, webhooks | unknown outcomes, duplicated and reordered events, keys that are forgotten |
| SaaS billing and dunning (`billing-service.ts`, `tenant-subscription-service.ts`, `billing-dunning-service.ts`) | `TenantSubscription`, `BillingEvent`; subscriptions at Stripe | checkout, webhooks, console edits, suspension job | handlers that retrieved different states; two writers that do not compare |
| SaaS invoices | invoices and their deliveries | issue, send | numbering; the queue settles the delivery |
| Sessions (`auth-session-service.ts`, `usecases/auth`) | `RefreshSession`, `PasswordResetToken`, invitation, the user's hash and status | login, refresh, logout, reset, change, accept, administer | what was verified before the user lock is stale under it |
| Login throttling | attempt counters | count, reset | a counter read and written in two statements |
| Scheduled reports (`reports-cron.ts`, `report-schedule.ts`) | settings rows, `ScheduledReportCursor`, queued mails | cycle of every process, save of settings, dispatch | two schedulers, two rows that belong together, eligibility that changes |
| Stoppage reminders | reminder counters, queue rows | cron and manual sends | an earlier reminder still in the queue |
| Others | master data, stoppages, uploads, sign-in flows, privacy requests, platform console | CRUD, imports, retention | mostly single transactions |

How they interact: bookings, invoices, reminders, reports and payments put rows
in the e-mail queue in the transaction of the command itself; the queue's worker
later writes back into *their* tables in the transaction that settles the row.
Payments refer to bookings; licences decide whether reminders, reports and
notices may be sent at the moment they are sent.

What makes each part correct, and what can go wrong where, is listed as
`hazards` in `PROJECT.json`, each at its line, with the properties that watch it;
[hazards without a property](#hazards-without-a-property) explains the rest.

## The models

### `EmailQueue` (and `EmailOutbox`)

`EmailQueue.tla` models `email-queue-service.ts` and the three dispatchers it
calls. One worker is one invocation of `processPending`.

| Model | Code |
|---|---|
| `row[r]` | the `EmailQueue` row: status, attempts, `nextAttemptAt` (DUE or BACKOFF), `processingToken`, `leaseExpiresAt` (NONE, LIVE, EXPIRED), the receipt in `meta` (none, with an id, without an id) |
| `local[r]` | the delivery row of a contract or invoice, and how many success and failure records the settlement of the row wrote |
| `target`, `allowed` | whether the stoppage or extra charge still matches the row; whether the dispatcher's checks (tenant, licence, recipient, due date) would pass now |
| `accepted` | idempotency keys Resend has accepted |
| `worker[w]` | where `processPending` is, the candidates left, the row in hand and what was read of it |
| `Claim`, `ReadItem` | the compare-and-set claim and the refresh after it |
| `startDelivery`, `Dispatch...` | the unguarded types; the transaction of the guarded ones, which renews the lease, blocks the row, or starts the request |
| `ProviderAccepts`, `ProviderRejects`, `ReplyArrives`, `ReplyLost` | Resend and `email-sender.ts`; external |
| `Finalize`, `FinalizeAborts`, `PersistReceipt` | the settling transaction, with or without its acknowledgement, and the receipt kept by the catch block |
| `RecordFailure`, `ReleaseRetryable` | the failure transaction and the fallback when it fails as well |
| `Crash` | the process dies at any `await` |

A transaction is one step, since all its writes depend on one compare-and-set of
the row. A committed transaction whose acknowledgement is lost is the same step
with `ack = "LOST"`: the worker goes to the catch block. Time exists only as
"the lease expires" and "the back-off elapses". A malformed `meta` (rejected by
`tenantBoundTarget`) does not occur: the producers write it.

`EmailOutbox.tla` says what the queue promises: a message is queued once, settled
once, SENT only if the provider accepted it, with its delivery record written in
the same step. `ImplementsOutbox` is the refinement (status of the row, number of
success records).

### `RentalBookings`

One request is one HTTP request; each `await` that matters is a step. `create`
and `update` take the key or record lock, then schedule locks in sorted order,
check and write. `transition` and `updatePricing` read, compute, lock, compare
`updatedAt` (the field `fresh`: any write of the booking clears it) and write.
The remaining handlers read and then write by id (`BlindWrite`).

| Model | Code |
|---|---|
| `booking[b]` | status, deletedAt, vehicle, interval, contract and CARGOS status, known kilometres, whether a contract document exists, the snapshotted terms, and the dates and terms `finalTotal` was computed from |
| `request[k]` | `RentalBookingCreateRequest` |
| `req[p]` | the handler, its inputs, what it has read (`seen`, `fresh`, `price`), what that decided, the locks it waits for and holds |
| `revived` | history: bookings a write took from a final status back to an active one |

`Fails(p)` is any error or timeout and rolls back. Left open there: customers,
inactive vehicles, ranges of kilometres and the odometer. Left out: expected
totals, snapshots saved before terms were stored, the row lock on the vehicle and
the lock on the default template (both taken after the schedule locks), document
status, notes, and the anonymisation of bookings by the privacy service. `updatedAt` has millisecond
precision in the database; two writes in the same millisecond are told apart here.
A hand-entered total and no total are the same value (`NoPrice`).

### `RentalPayments` (and `PaymentLedger`)

Deposits and extra charges of one booking, with Stripe as environment. One request
is one HTTP request or one delivery of a webhook; each `await` is a step.

| Model | Code |
|---|---|
| `row[x]` | a `RentalDeposit` or `RentalExtraCharge`: status, `stripePaymentIntentId`, captured amount, `notifiedAt` |
| `intent[i]`, `key[x]` | external: a payment intent with its row, status, received amount and what became of its charge; the intent stored under the row's idempotency key |
| `aged` | deposits older than the 23 hours within which creation is retried |
| `owed` | events without a PROCESSED row in `RentalPaymentEvent`: Stripe delivers them again, in any order, several at a time |
| `req[p]` | where the request is, the row and intent it works on, the write it has decided, and `fresh`: nobody has written the row since it was read |
| `createDeposit`, `chargeExtraCharge`, `ClaimExtra` | the claim of the row before Stripe is asked |
| `StripeCreates`, `StripeReplays`, `StripeRefuses`, `Catch`, `RecordFailure` | the create call under its key, with answers that arrive, name the intent in an error, or are lost; the catch block |
| `LoadAndRetrieve`, `WriteRow` | `reconcileIntent`: read, retrieve, compare and write, up to `MaxAttempts` times |
| `captureDeposit`, `releaseDeposit`, `Before...`, `StripeCaptures`, `StripeCancels` | capture and release, each with its own retrieve before it |
| `approveExtraCharge`, `cancelExtraCharge`, `EditExtra`, `NoticeDelivered` | the edits of an extra charge, and the queue's `finalizeExtraNotice`, which makes every copy stale |
| `handleStripeEvent`, `Mark`, `Acknowledge` | webhooks; refunds and disputes go to `markPaymentIntentLinkedRecord` |
| `IntentChanges`, `ChargeChanges`, `KeyIsPruned`, `DepositAges`, `Dies` | customers, issuers, time and crashes |

REQUIRES_ACTION is FAILED, and some statuses of an intent share a name, where the
code treats them alike. The comparison of all columns and `updatedAt` is `fresh`.
The checks of metadata, customer, method and currency are true of every intent the
service creates and are left out, as are setup sessions and saved methods.

`PaymentLedger.tla` says what the payments promise the accounts: at most one payment
is asked for a charge and none once it is dropped; the book may lag behind the
provider, but what it says of money is so, with the amount; an entry only moves from
open to taken, returned and disputed, and dropped is final. `ImplementsLedger` is the
refinement: an intent is an account (open, taken, void, with its refunds and
disputes), a row an entry. Everything a row goes through before it holds money
(claims, failures, approvals, notices) is one open entry.

### `AccountSessions`

One user: password hash (the number of times it was set), status, invitation,
refresh sessions, reset links. A handler reads and verifies, may spend time in
bcrypt or wait for the user lock, and then decides in one transaction under that
lock; the transaction is one step. `login` and `CreateSession`, `refresh` and
`Rotate`, `logout` and `RevokeChain`, `revokeAll` and `RevokeAll`,
`resetPassword` and `ConsumeLink`, `changePassword` and `ReplaceHash`,
`acceptInvite` and `Activate` are the two halves; `requestPasswordReset` and
`InsertLink` write without the lock; `setStatus` and `remove` are the
administration. Expiry of sessions and links is judged by a time taken before the
lock, and is so in the model. `epoch`, `left`, and the fields `login` and `born`
of a session are history; `born` (`Birth`) is the hash that a password login verified
when it came in, or, of a social login, which verifies none, the hash that was current
when it got its session. Wrong passwords and licence checks only refuse.

### `TenantBilling`

| Model | Code |
|---|---|
| `stripe[s]`, `checkouts` | external: subscriptions with a status, a version and the second they were created in; open checkout sessions |
| `row` | `TenantSubscription`: status, provider, subscription; `of`, `by`, `replaced` are history (the version it was written from, who wrote it, whether a subscription was replaced) |
| `event[s][n]` | event 0 is `checkout.session.completed`, event n the change to version n; OPEN until answered |
| `handleWebhook`, `Load`, `Retrieve`, `Begin`, `Commit`, `Ack` | a delivery: snapshot of the row, retrieve, the transaction of `upsertStripeTenantSubscriptionIfCurrent` under its advisory lock, the answer |
| `canCheckoutReplaceSubscription`, `Replaced` | which subscription may take the place of another |
| `HandlerFails`, `HandlerDies` | FAILED and repeated; a crash |
| `DunningReads`, `DunningWrites`, `setLicense`, `setLicenseWrites` | the two writers that neither lock nor compare |

`Commit` is apart from `Begin` because the blind writers need no advisory lock.

### `ScheduledReports`

One tenant; processes scan each minute. An instant is an integer, a schedule the
set of its slots, so calendars and the hours skipped by summer time are sets that
differ. `Start`, `ListTenants`, `ReadSettings`, `BootstrapCursor` / `ReadCursor`,
`Check` and `Commit` are one process's cycle: `now` is read once, settings and
cursor in two statements, the licence and the existing mails before the
transaction, everything that matters again inside it. `SaveSettings`,
`setTenantActive`, `LicenceChanges` and `dispatchScheduledReport` happen at any
time in between; `Dies` at any `await`. `latestDueOccurrence`,
`nextScheduledOccurrence`, `initialReportNextRunAt` and `bootstrapNextRunAt` are
those of `report-schedule.ts` over sets. `fate` is history: from which instant on the
settings answer for their slots, which of those were queued and which recorded as
skipped. After a save that instant is the first one whose minute is not over, stated
without `initialReportNextRunAt`, so that `EverySlotHasOneFate` judges that function
too. The licence and the count of existing mails are two statements and one step
(`Check`), because the transaction decides both again.

## Runs

| Run | Config | Checks |
|---|---|---|
| `email_queue` | `MCEmailQueue.cfg` | types; records and row settled together (`LocalMatchesQueue`); SENT implies accepted; the owner's copy stays fresh; retry budget; terminal rows are final; no resend after a receipt; refinement of `EmailOutbox` |
| `email_live` | `MCEmailQueueLive.cfg` | every queued e-mail is eventually settled |
| `booking_schedule` | `MCBookingSchedule.cfg` | no clash unless a booking was revived; the idempotency key is unused until the insert; lock waits form no cycle |
| `booking_life` | `MCBookingLife.cfg` | types; a committed transition is allowed from the row it overwrites |
| `booking_pricing` | `MCBookingPricing.cfg` | a computed total belongs to the dates and terms the booking has |
| `booking_live` | `MCBookingLive.cfg` | every request ends |
| `rental_payments` | `MCRentalPayments.cfg` | types; one payment intent per row; rows say what Stripe did; settled rows stay settled; what Stripe took is recorded again and again; refinement of `PaymentLedger` |
| `account_sessions` | `MCAccountSessions.cfg` | types; no session of before, and no password verified before, outlives a password change that ends all sessions; one session per login; a logout reaches successors; suspension wins |
| `tenant_billing` | `MCTenantBilling.cfg` | types; the row is as new as every processed event; it agrees with Stripe when all is quiet; only newer subscriptions replace |
| `scheduled_reports` | `MCScheduledReports.cfg` | types; cursor and settings fit; every slot is queued or skipped, once; every recipient gets a mail; nothing is sent across a suspension; the cursor catches up |
| `booking_double` | `MCBookingDouble.cfg` | finds two active bookings on one vehicle (see [findings](#findings)) |
| `booking_handover` | `MCBookingHandover.cfg` | finds a handover without a signed contract |

Run one with `tlc -workers 2 -config MCEmailQueue.cfg MCEmailQueue`. The mutants
listed in `PROJECT.json` are operators beside the definitions they replace
("Mutant of ..."): a dropped guard, a missing lock, an ignored result. Each one
breaks the property it is listed for.

## Bounds

- `email_queue`: two rows of different kinds, two workers, `MaxAttempts = 2`,
  batches of two, one fault (`MaxFaults`: crashes, failed or unacknowledged
  transactions, lost answers, stalls of a live owner). Two workers and one stall
  are what it takes for a lease to be taken over; an attempt more adds nothing
  but counting. Larger values of every constant are covered by the proofs.
- `email_live`: one row, three faults, so that a row can crash, be put back and
  lose its answer in one behaviour.
- `booking_schedule`: two bookings, vehicles, overlapping intervals, keys and
  requests: a clash and a deadlock need two of each. Requests, keys and bookings
  are symmetric; vehicles are not (they are ordered).
- `booking_life`, `booking_pricing`: one booking, two requests: these properties
  relate a request to the last other writer of one row. Each configuration's
  `Ops`, `Values` and `NewValues` name the handlers and inputs its clients use.
- `booking_live`: no symmetry; two requests, bookings and vehicles.
- `rental_payments`: two deposits, one extra charge, two intents, two requests, one
  status change per intent besides its creation, one crash, an amount of two so that
  a capture can be partial. Two constraints keep it small: deposits and extra charges
  are not mixed (`OneKind`; they share nothing but request slots), and two deposits
  compete only without crashes and ageing (`TwoDeposits`). The safety properties are
  proved without bounds or constraints.
- `account_sessions`: three sessions (a login, its successor and its successor), one
  link, two requests, two password changes, one edit by an administrator.
- `tenant_billing`: two subscriptions, three states each, two deliveries, two
  attempts instead of three, three changes or faults together.
- `scheduled_reports`: one schedule whose slots fall on the first instant, on the last
  one and beyond it, or none; three instants, a minute of one instant, two
  processes, two recipients of whom the worker serves one, two changes.

`CHECK_DEADLOCK` is off: these systems come to rest when every row is settled, every
key is used and every booking deleted, or the bounds are exhausted. Requests that wait
for each other are caught by `NoDeadlock` and `RequestsEnd` instead; requests of the
other modules wait for nobody in the model, since a transaction under a lock is one
step (or, in `TenantBilling`, two that always can be taken).

## Fairness

`EmailQueue!FairSpec`: a live worker goes on (weak fairness of its steps), the
cron, every five minutes, calls `processPending` again, leases of dead owners and
back-offs run out. Faults are bounded. Nothing is assumed of the provider or of
the authorisation checks.

`RentalBookings!FairSpec`: strong fairness of the steps of a request. PostgreSQL
serves its lock queues in order, so a request that waits for a lock released again
and again does get it. Nothing is assumed of `Fails` or of clients.

`RentalPayments!Spec`: a request being served goes on (weak fairness of its steps),
and an event that was not answered with a 200 is delivered again (strong fairness of
the delivery, because it needs an idle request slot, which the model bounds).
Clients, customers, refusals and crashes are not fair.

`ScheduledReports!FairSpec`: weak fairness of each process's cycle; node-cron starts
one every minute and it runs to its end unless the process dies.

`AccountSessions` and `TenantBilling` state no fairness and no liveness.

## Proofs

All theorems hold for every value of the constants, from the named assumptions of
the modules (rows are natural numbers, null values are not ids, intervals are not
empty, at least one attempt).

`EmailQueue_proofs.tla` proves `TypeOK`, `LocalMatchesQueue`, `SentWasAccepted`,
`OwnerCopyFresh` and `RetryBudget` from one inductive invariant. The properties
are not inductive alone: that a worker may finalise rests on the receipt in its
hand having been accepted (`SentWasAccepted` for workers), that its failure path
counts right rests on its copy of `attempts` being fresh while it owns the row,
which rests on a token belonging to at most the worker it names and on that worker
having this row in hand.

`EmailQueueRefinement_proofs.tla` uses it to prove the two action properties,
`TerminalIsFinal` and `NoResendAfterReceipt`, and the refinement: initial states
map to initial states and every action maps to an outbox step or a stutter.

`RentalBookings_proofs.tla` proves `TypeOK`, `NoClashUnlessRevived` and
`InsertIsFirst`. The inductive invariant adds, for every request past a lock,
which locks it holds (`Shape`), that nobody else holds them (`Exclusive`), what it
decided (`Decided`), and that what it checked still holds when it writes
(`Checked`): the interval it is about to take is free of active bookings, except
revived ones, because whoever could take it needs the same schedule lock.

`RentalBookingsOrder_proofs.tla` proves `TransitionsAreGuarded`, `PricedAsBooked` and
`NoDeadlock`, for any number of requests, vehicles and bookings, and pins down the two
findings. Its invariant `RInv`, on top of the first, says of a request that

- while its copy is fresh, the checks of `transition` hold of the row as it is now and
  the price it computed is the one of the row's present dates and terms (`Copy`); every
  writer of the row takes the freshness away. This is what makes the comparison of
  `updatedAt` under the locks enough;
- schedules are locked upwards: what it holds comes before what it still needs, and it
  holds none before it is past the record or key lock (`Order`).

`NoDeadlock` then follows without counting. Take a set of requests in which each waits
for another: whoever waits for a key or a record waits for one that waits for a
schedule, and among those that wait for schedules there is one that waits for the
greatest; its holder waits for a greater one still. That a greatest exists needs a
bound on the vehicles in use (`Bounded`; the set of vehicles may be infinite) and the
least-number principle, which comes from the library's `WFMin`. Two more theorems take
the findings apart: clients that never call `setContract`, `setCargosStatus` or
`markContractSigned` never see a double booking (`DoubleBookingNeedsPromotion`), and
without `setCargosStatus` no handover lacks a signed contract (`HandoverNeedsCargos`).
The hypothesis of both is about the constant `Ops`, the handlers clients call.

`RentalPayments_proofs.tla` proves `TypeOK`, `OneIntentPerRow`, `RowsTellTheTruth` and
`SettledStaysSettled`, for any number of deposits, charges, intents, requests and
crashes. That Stripe is asked for a new intent only when there is none has two
reasons, one for each kind, and both are part of the invariant: a key of a deposit
is forgotten only after the deposit may no longer be retried and while no create
call is on its way (`DepositKeys`); an extra charge is claimed by at most one request,
and while that request has no answer the row is PAYMENT_PROCESSING and unbound
(`ClaimedExtras`). That rows stay true rests on what a request has decided to write:
it speaks of an intent bound to its row whose final statuses do not change
(`Truth`), and while the request's copy is fresh it may follow the row (`MayFollow`).

The same module proves the refinement of `PaymentLedger` (`LedgerRefinement`). It needs
a second invariant, `LInv`, which the other properties do not: a refund or a dispute is
in a row, an event or a pending write only after it happened (`Warranted`, `Reported`);
an intent that has not succeeded has received nothing, and one of an extra charge
receives everything (`Paid`); a request that may still write does not know its row as
released or canceled, and captures something (`Fit`). Each action is then shown to be
one ledger action or a stutter: `WriteRow` is an entry (`Enter`), a cancellation
without an intent a `Drop`, `StripeCreates` an `Ask`, a change of an intent a `Take`, a
`Void` or nothing, a refund or a dispute a `Claim`; all else is invisible.

`AccountSessions_proofs.tla` proves `TypeOK`, `OldLoginsAreGone`, `OneSessionPerLogin`,
`LoggedOutStaysOut` and `SuspensionWins`. `OldLoginsAreGone` is about sessions that
existed at the change, their refreshes, and passwords verified before it; a social
login that waits for the lock gets past it (see
[below](#hazards-without-a-property)). The properties speak of live sessions; the
invariant speaks of all that are not revoked, because a session that expires while its
refresh waits is still replaced, and says that every set of sessions that contains one
session of a login and its successors contains the open one (`ChainReaches`), which is
why following `replacedById` suffices for a logout.

`TenantBilling_proofs.tla` proves `TypeOK`, `ProcessedIsReflected`, `Converged` and
`NewerReplacesOlder`. As long as a handler's snapshot is fresh, or it holds the lock
after a fresh one, no event was stored PROCESSED that is newer than the state it
retrieved (`IsNew`), and between `Begin` and `Commit` only a writer that does not
compare changes the row (`MayCommit`). The proof showed that a copy which
dunning or the console writes back can bring a replaced subscription back, beyond
the bounds of the run; the properties therefore speak of rows webhooks wrote last.

`ScheduledReports_proofs.tla` proves `TypeOK`, `CursorFitsSettings`,
`EverySlotHasOneFate`, `QueuedForEveryRecipient` and `NothingSentAcrossASuspension`.
The invariant says what a process may rely on between its statements: settings of the
current revision are the current settings, the slots it handles are slots of its
settings, its mails are queued or exist (`ProcessOK`); and that a pending mail created
after the last suspension has a slot after it too (`MailOK`), which is why the
dispatcher may compare with `createdAt` although the promise is about the slot. That a
save starts with the slot of its minute, and with the next one otherwise, needs the
slots of a schedule to be at least a minute apart (`SchedulesAssumption`,
`FirstAfterSave`).

Only model-checked: liveness (`EventuallySettled`, `RequestsEnd`, `MoneyIsRecorded`,
`CatchesUp`; fairness and `ENABLED` are out of the prover's reach). Every invariant,
action property and refinement of the passing runs is stated by a theorem.

## Findings

1. **A cancelled booking comes back** (`booking_double`). `setContract` reads a
   booking and later writes `status = CONTRACT_SIGNED` by id. A cancellation and a
   new booking of the same vehicle fit in between; both bookings are then active on
   one vehicle. `NoClashUnlessRevived`, checked and proved, says that this is the
   only way: creations and moves alone never clash. `markContractSigned` and
   `setCargosStatus` revive bookings in the same manner, and nothing else does
   (`DoubleBookingNeedsPromotion`, proved): guarding these three writes is enough.
2. **Handover without a signature** (`booking_handover`). `setCargosStatus` promotes
   a CONTRACT_SIGNED booking to READY_FOR_HANDOVER without looking at the contract,
   whose status can be taken back independently; `transition` refuses that step.
   Without `setCargosStatus` it cannot happen (`HandoverNeedsCargos`, proved).

## Hazards without a property

These are listed in `PROJECT.json` with a note. The steps are in the models unless
said otherwise; no line of the repository says which outcome is right, so no property
forbids one.

- `generateContract` sets `contractStatus` READY by id after its transaction; a
  contract signed in between loses the status.
- A deposit whose first create call was executed and lost, retried and then refused,
  becomes FAILED without an intent while Stripe holds an authorisation.
- A notice finalised between the claim and a refusal makes the refusal's write stale;
  the extra stays in PAYMENT_PROCESSING until a person looks at it.
- The dunning job writes back rows it read before its loop, over a payment that
  arrived in between; the row is wrong until Stripe's next event.
- An event of a new subscription handled between the retrieve and the write of its
  checkout is answered IGNORED and not repeated.
- A reminder is enqueued while an earlier one for the stoppage is still in the queue
  (the producers of reminders are not modelled).
- A social login that came in before a reset and waits for the user lock gets its
  session after it: `login-usecase.ts:66` passes no `expectedPasswordHash`, and
  `auth-session-service.ts:68` then compares nothing. A password login in the same
  place is refused (`OldLoginsAreGone`); `auth-account-session-security.test.ts:247`
  speaks of password logins only.

Beside the models, reading showed:

- `reports-cron.ts:252` says that a revision mismatch "means a direct writer bypassed
  that contract". A save between the cycle's reads of the settings and of the cursor
  gives one too, without any bypass; the next cycle resolves it (`CursorFitsSettings`,
  `CatchesUp`).
- `DELETE /vehicle-booklets` reads the path of the file before its transaction
  (`uploads-routes.ts`, about line 480): a replacement in between leaves the new stored
  object live and unlinked, against `docs/deployment/storage.md` ("When a file is
  replaced or removed, the row is marked with `deletedAt`").
- The catch block of `markContractSigned` (`rental-bookings-controller.ts:2808`)
  compensates an upload after any error of the transaction, a lost acknowledgement
  of its commit included, against the comment in `upload-persistence.ts` that an
  incomplete receipt must never authorise deletion.

The last two are candidates for an uploads module; nothing here checks them.

## What is not modelled

- Contract documents and their deliveries, share links; SaaS invoices; the producers
  of stoppage reminders; uploads and quotas; social sign-in; privacy and retention:
  stateful, in the plan. What they share with the models is there as far as it
  matters (the e-mail queue settles their rows).
- Login throttling: a counter that may lose concurrent failures, with no statement of
  how exact it has to be.
- Rental pricing: a pure calculation; the bookings model keeps what a total was
  computed from, not the total.
- Stoppages, master data, imports, platform screens: single-transaction CRUD without
  a protocol of their own; the licence edits of the console are in `TenantBilling`,
  the suspension of tenants in `ScheduledReports`.
- Templates, PDF and parsers: text. Frontend, website, deployment and operations:
  outside the backend's transactions. They are the greater part of the repository's
  lines, so the map covers a small share of it.

## Plan

1. `Reminders` and `ScheduledReports` composed with `EmailQueue`: one pending reminder
   per stoppage.
2. `BookingContracts`: document status and deliveries, composed with the queue.
3. `Uploads`: quota, create-only objects and tombstones, starting from the two
   observations above.
4. Abstract specifications of the sessions (what a login may still do) and of the
   subscription row (a copy that follows Stripe), with their refinements.
5. Invoices, sign-in flows, retention; pricing against a reference definition.
