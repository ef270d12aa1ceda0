---------------------------- MODULE TenantBilling ----------------------------
(***************************************************************************)
(* The subscription of one tenant, kept in step with Stripe:               *)
(* backend/src/application/services/billing-service.ts,                    *)
(* tenant-subscription-service.ts, billing-dunning-service.ts and the      *)
(* licence edits of platform-admin-service.ts.                             *)
(*                                                                         *)
(* A webhook event only says that something happened: the handler reads    *)
(* the tenant's row, retrieves the subscription from Stripe, and writes    *)
(* what it retrieved in a transaction that holds an advisory lock and      *)
(* refuses to write if the row is not the one it read.  The dunning job    *)
(* and the platform console write the same row without lock or comparison. *)
(*                                                                         *)
(* updatedAt tells any two writes of the row apart, so the comparison of   *)
(* snapshots is a flag per reader: fresh until the row is written.  Each   *)
(* checkout makes its own Stripe customer and carries the tenant's id in   *)
(* its metadata, so tenant and customer follow from the subscription, and  *)
(* the checks of the bindings (resolveAuthoritativeTenantId and            *)
(* CUSTOMER_MISMATCH) agree with the check of the subscription.  Plans,    *)
(* seats and prices travel with the status.  Audit rows, funnel events and *)
(* e-mails are appended after the write and read by nothing modelled here. *)
(***************************************************************************)
EXTENDS Integers, FiniteSets

CONSTANTS
  Subs,         \* ids of Stripe subscriptions of the tenant
  Requests,     \* webhook deliveries handled at a time
  Statuses,     \* the Stripe statuses considered
  MaxVersion,   \* bound: states a subscription goes through
  MaxAttempts,  \* how often a handler reads the row (3 in the code)
  MaxChanges,   \* bound: changes at Stripe, writes by others and faults, all together
  NoSub

ASSUME SubsAssumption == NoSub \notin Subs /\ IsFiniteSet(Subs)
ASSUME StatusesAssumption == /\ "active" \in Statuses
                             /\ Statuses \subseteq {"incomplete", "trialing", "active", "past_due",
                                                    "unpaid", "canceled", "incomplete_expired"}
ASSUME BoundsAssumption == MaxVersion \in Nat \ {0} /\ MaxAttempts \in Nat \ {0} /\ MaxChanges \in Nat

VARIABLES
  stripe,     \* the subscriptions at Stripe (external)
  checkouts,  \* checkout sessions that the customer has not completed (external)
  row,        \* the TenantSubscription row
  event,      \* the BillingEvent rows, and what Stripe has yet to deliver
  req,        \* the webhook handlers
  dunning,    \* the row the dunning job has read, while it is under way
  console,    \* the row setLicense has read, while it is under way
  changes

vars == <<stripe, checkouts, row, event, req, dunning, console, changes>>

Licences == {"PENDING", "ACTIVE", "SUSPENDED", "EXPIRED", "TRIAL", "PAST_DUE", "CANCELED"}
ManagedStatuses == {"ACTIVE", "TRIAL", "PAST_DUE", "SUSPENDED"}
Versions == 0..MaxVersion

Subscription == [status: Statuses \cup {"none"}, version: Versions, created: 0..Cardinality(Subs)]

\* of: the version of the subscription the row was written from; by: who wrote it last;
\* replaced: whether the handler that wrote it last replaced another subscription (all history).
Row == [status: Licences \cup {"ABSENT"}, provider: {"stripe", "local"}, sub: Subs \cup {NoSub},
        of: Versions, by: {"signup", "stripe", "dunning", "console"}, replaced: {"YES", "NO"}]

\* OPEN: emitted by Stripe and not answered with success; the BillingEvent is missing,
\* RECEIVED or FAILED, which the code treats alike.
EventStatus == {"NONE", "OPEN", "PROCESSED", "IGNORED"}

PCs == {"idle", "load", "retrieve", "begin", "commit", "ack"}

\* n: the event, 0 for checkout.session.completed, else the version that caused it.
Request == [pc: PCs, s: Subs \cup {NoSub}, n: Versions, fresh: {"YES", "NO"}, replace: {"YES", "NO"},
            got: Statuses \cup {"none"}, version: Versions, attempt: 1..MaxAttempts, result: {"PROCESSED", "IGNORED"}]

NoSubscription == [status |-> "none", version |-> 0, created |-> 0]
NewRow == [status |-> "PENDING", provider |-> "stripe", sub |-> NoSub, of |-> 0,
           by |-> "signup", replaced |-> "NO"]
NoRow  == [NewRow EXCEPT !.status = "ABSENT"]

NoRequest == [pc |-> "idle", s |-> NoSub, n |-> 0, fresh |-> "NO", replace |-> "NO",
              got |-> "none", version |-> 0, attempt |-> 1, result |-> "IGNORED"]

\* A tenant that signed up, an older one with a local licence, or one with an active
\* subscription whose events were all processed.
Init == /\ \/ /\ row \in {NewRow, [NewRow EXCEPT !.status = "ACTIVE", !.provider = "local"]}
              /\ stripe = [s \in Subs |-> NoSubscription]
              /\ event = [s \in Subs |-> [n \in Versions |-> "NONE"]]
           \/ \E b \in Subs :
                /\ row = [NewRow EXCEPT !.status = "ACTIVE", !.sub = b, !.of = 1, !.by = "stripe"]
                /\ stripe = [s \in Subs |-> IF s = b THEN [status |-> "active", version |-> 1, created |-> 1]
                                           ELSE NoSubscription]
                /\ event = [s \in Subs |-> [n \in Versions |->
                               IF s = b /\ n < 2 THEN "PROCESSED" ELSE "NONE"]]
        /\ checkouts = 0
        /\ req = [p \in Requests |-> NoRequest]
        /\ dunning = NoRow
        /\ console = NoRow
        /\ changes = 0

\* One more of the events that MaxChanges bounds.
Counts == changes < MaxChanges /\ changes' = changes + 1

-----------------------------------------------------------------------------
(* Stripe.                                                                 *)

stripeStatusToLicense(status) ==
  CASE status = "active"             -> "ACTIVE"
    [] status = "trialing"           -> "TRIAL"
    [] status = "incomplete"         -> "PENDING"
    [] status = "past_due"           -> "PAST_DUE"
    [] status = "canceled"           -> "CANCELED"
    [] status = "incomplete_expired" -> "EXPIRED"
    [] OTHER                         -> "SUSPENDED"

\* The statuses that can follow a status.
Follow(status) ==
  CASE status = "incomplete" -> {"active", "incomplete_expired"}
    [] status = "trialing"   -> {"active", "past_due", "canceled"}
    [] status = "active"     -> {"past_due", "canceled"}
    [] status = "past_due"   -> {"active", "unpaid", "canceled"}
    [] status = "unpaid"     -> {"active", "canceled"}
    [] OTHER                 -> {}

Emits(s, N) == event' = [event EXCEPT ![s] = [n \in Versions |-> IF n \in N THEN "OPEN" ELSE @[n]]]

\* The second in which the newest subscription was created, or the one after it.
Now(c) == /\ \A s \in Subs : stripe[s].created <= c
          /\ c = 1 \/ \E s \in Subs : stripe[s].created \in {c - 1, c}

\* The customer completes a checkout: a subscription, in the same second as another or later,
\* and the events of the session and of the subscription.
CheckoutCompletes(s) ==
  /\ Counts
  /\ checkouts > 0 /\ checkouts' = checkouts - 1
  /\ stripe[s].status = "none"
  /\ \E status \in Statuses \cap {"incomplete", "trialing", "active"}, c \in 1..Cardinality(Subs) :
       /\ Now(c)
       /\ stripe' = [stripe EXCEPT ![s] = [status |-> status, version |-> 1, created |-> c]]
  /\ Emits(s, {0, 1})
  /\ UNCHANGED <<row, req, dunning, console>>

\* A payment, a failure, the portal or the end of a period.
StripeChanges(s) ==
  /\ Counts
  /\ stripe[s].version < MaxVersion
  /\ \E status \in Statuses \cap Follow(stripe[s].status) :
       stripe' = [stripe EXCEPT ![s].status = status, ![s].version = @ + 1]
  /\ Emits(s, {stripe[s].version + 1})
  /\ UNCHANGED <<checkouts, row, req, dunning, console>>

-----------------------------------------------------------------------------
(* Webhooks.                                                               *)

Becomes(p, r) == req' = [req EXCEPT ![p] = r]

\* createCheckoutSession: refused while the row names a managed subscription.
createCheckoutSession ==
  /\ ~(row.provider = "stripe" /\ row.sub # NoSub /\ row.status \in ManagedStatuses)
  /\ checkouts < Cardinality({s \in Subs : stripe[s].status = "none"})
  /\ checkouts' = checkouts + 1
  /\ UNCHANGED <<stripe, row, event, req, dunning, console, changes>>

\* handleWebhook up to the first read.  Stripe repeats an event that was not answered; one
\* that was already PROCESSED would be answered at once.
handleWebhook(p, s, n) ==
  /\ req[p].pc = "idle"
  /\ event[s][n] = "OPEN"
  /\ Becomes(p, [NoRequest EXCEPT !.pc = "load", !.s = s, !.n = n])
  /\ UNCHANGED <<stripe, checkouts, row, event, dunning, console, changes>>

\* Mutant of canCheckoutReplaceSubscription: the seconds are compared with >=.
canCheckoutReplaceEqual(s, n) ==
  /\ n = 0
  /\ row.provider = "stripe" /\ row.sub \notin {NoSub, s}
  /\ row.status \notin ManagedStatuses
  /\ stripe[s].created >= stripe[row.sub].created

\* canCheckoutReplaceSubscription: only a completed checkout, only an ended subscription, and
\* only one created in an earlier second.
canCheckoutReplaceSubscription(s, n) ==
  /\ n = 0
  /\ row.provider = "stripe" /\ row.sub \notin {NoSub, s}
  /\ row.status \notin ManagedStatuses
  /\ stripe[s].created > stripe[row.sub].created

\* findSubscriptionByTenantId.  What the snapshot is used for is decided here: it is compared
\* later, and whether it may be replaced depends on it and on times that do not change.
Load(p) ==
  /\ req[p].pc = "load"
  /\ Becomes(p, [req[p] EXCEPT !.pc = "retrieve", !.fresh = "YES",
                  !.replace = IF canCheckoutReplaceSubscription(req[p].s, req[p].n) THEN "YES" ELSE "NO"])
  /\ UNCHANGED <<stripe, checkouts, row, event, dunning, console, changes>>

\* subscriptions.retrieve.
Retrieve(p) ==
  /\ req[p].pc = "retrieve"
  /\ Becomes(p, [req[p] EXCEPT !.pc = "begin", !.got = stripe[req[p].s].status,
                               !.version = stripe[req[p].s].version])
  /\ UNCHANGED <<stripe, checkouts, row, event, dunning, console, changes>>

\* The row names another subscription, which this event may not replace.
Replaced(p) == row.provider = "stripe" /\ row.sub \notin {NoSub, req[p].s} /\ req[p].replace = "NO"

\* Mutant of Stale: the row is not compared with the one that was read.
StaleNever(p) == FALSE

\* sameSubscriptionSnapshot fails.
Stale(p) == req[p].fresh = "NO"

\* Mutant of Retries: one time more.
RetriesOnceMore(p) == req[p].attempt <= MaxAttempts

\* The loop of three attempts goes on.
Retries(p) == req[p].attempt < MaxAttempts

\* STRIPE_SUBSCRIPTION_SYNC_CONFLICT: the event is stored as FAILED, Stripe repeats it.
SyncConflict(p) ==
  /\ event' = [event EXCEPT ![req[p].s][req[p].n] = "OPEN"]
  /\ Becomes(p, NoRequest)

\* The transaction of upsertStripeTenantSubscriptionIfCurrent up to its write; the advisory
\* lock is held from here to Commit.  A stale snapshot is read again, MaxAttempts times in all.
Begin(p) ==
  /\ req[p].pc = "begin"
  /\ \A q \in Requests : req[q].pc # "commit"
  /\ \/ /\ Stale(p) /\ Retries(p)
        /\ Becomes(p, [NoRequest EXCEPT !.pc = "load", !.s = req[p].s, !.n = req[p].n,
                                        !.attempt = req[p].attempt + 1])
        /\ UNCHANGED event
     \/ Stale(p) /\ ~Retries(p) /\ SyncConflict(p)
     \/ /\ ~Stale(p) /\ Replaced(p)
        /\ Becomes(p, [NoRequest EXCEPT !.pc = "ack", !.s = req[p].s, !.n = req[p].n])
        /\ UNCHANGED event
     \/ /\ ~Stale(p) /\ ~Replaced(p)
        /\ Becomes(p, [req[p] EXCEPT !.pc = "commit"])
        /\ UNCHANGED event
  /\ UNCHANGED <<stripe, checkouts, row, dunning, console, changes>>

\* Every reader's snapshot is stale once the row is written.
AllStale == [q \in Requests |-> [req[q] EXCEPT !.fresh = "NO"]]

\* The upsert and the end of the transaction.
Commit(p) ==
  /\ req[p].pc = "commit"
  /\ row' = [status |-> stripeStatusToLicense(req[p].got), provider |-> "stripe",
             sub |-> req[p].s, of |-> req[p].version, by |-> "stripe", replaced |-> req[p].replace]
  /\ req' = [AllStale EXCEPT ![p] = [NoRequest EXCEPT !.pc = "ack", !.s = req[p].s, !.n = req[p].n,
                                                      !.result = "PROCESSED"]]
  /\ UNCHANGED <<stripe, checkouts, event, dunning, console, changes>>

\* Mutant of Ack: an event that was not applied is stored as PROCESSED.
AckAll(p) ==
  /\ req[p].pc = "ack"
  /\ event' = [event EXCEPT ![req[p].s][req[p].n] = "PROCESSED"]
  /\ Becomes(p, NoRequest)
  /\ UNCHANGED <<stripe, checkouts, row, dunning, console, changes>>

\* updateBillingEvent and the answer.
Ack(p) ==
  /\ req[p].pc = "ack"
  /\ event' = [event EXCEPT ![req[p].s][req[p].n] = req[p].result]
  /\ Becomes(p, NoRequest)
  /\ UNCHANGED <<stripe, checkouts, row, dunning, console, changes>>

\* Stripe or the database fails, or the audit row cannot be written after the row was: the
\* event is stored as FAILED and answered with an error.
HandlerFails(p) ==
  /\ Counts
  /\ req[p].pc # "idle"
  /\ event' = [event EXCEPT ![req[p].s][req[p].n] = "OPEN"]
  /\ Becomes(p, NoRequest)
  /\ UNCHANGED <<stripe, checkouts, row, dunning, console>>

\* The process dies: an open transaction is rolled back, the event is not answered.
HandlerDies(p) ==
  /\ Counts
  /\ req[p].pc # "idle"
  /\ Becomes(p, NoRequest)
  /\ UNCHANGED <<stripe, checkouts, row, event, dunning, console>>

-----------------------------------------------------------------------------
(* Writers that do not compare.                                            *)

\* findOverduePastDueSubscriptions: the row has been PAST_DUE for the days of grace.
DunningReads ==
  /\ Counts
  /\ dunning = NoRow
  /\ row.provider = "stripe" /\ row.status = "PAST_DUE"
  /\ dunning' = row
  /\ UNCHANGED <<stripe, checkouts, row, event, req, console>>

\* The upsert of suspendOverduePastDueSubscriptions: the row as it was read, SUSPENDED.
DunningWrites ==
  /\ dunning # NoRow
  /\ row' = [dunning EXCEPT !.status = "SUSPENDED", !.by = "dunning"]
  /\ dunning' = NoRow
  /\ req' = AllStale
  /\ UNCHANGED <<stripe, checkouts, event, console, changes>>

\* setLicense reads the link to Stripe of the row (updateLicense, executeQuickAction).
setLicense ==
  /\ Counts
  /\ console = NoRow
  /\ console' = row
  /\ UNCHANGED <<stripe, checkouts, row, event, req, dunning>>

\* Its upsert: the licence the administrator chose with the link that was read.
setLicenseWrites ==
  /\ console # NoRow
  /\ \E status \in Licences :
       row' = [console EXCEPT !.status = status, !.by = "console"]
  /\ console' = NoRow
  /\ req' = AllStale
  /\ UNCHANGED <<stripe, checkouts, event, dunning, changes>>

-----------------------------------------------------------------------------
Step(p) == Load(p) \/ Retrieve(p) \/ Begin(p) \/ Commit(p) \/ Ack(p)

Next == \/ createCheckoutSession
        \/ \E s \in Subs : CheckoutCompletes(s) \/ StripeChanges(s)
        \/ \E p \in Requests, s \in Subs, n \in Versions : handleWebhook(p, s, n)
        \/ \E p \in Requests : Step(p) \/ HandlerFails(p) \/ HandlerDies(p)
        \/ DunningReads \/ DunningWrites \/ setLicense \/ setLicenseWrites

Spec == Init /\ [][Next]_vars

-----------------------------------------------------------------------------
TypeOK == /\ stripe \in [Subs -> Subscription]
          /\ checkouts \in 0..Cardinality(Subs)
          /\ row \in Row
          /\ event \in [Subs -> [Versions -> EventStatus]]
          /\ req \in [Requests -> Request]
          /\ dunning \in Row
          /\ console \in Row
          /\ changes \in 0..MaxChanges

\* While Stripe's word is the last one, the row is as new as every event of its subscription
\* that was stored as PROCESSED: a handler that retrieved an older state never overwrites a
\* newer one, whatever the order of the events.
ProcessedIsReflected ==
  row.by = "stripe" => \A n \in Versions : event[row.sub][n] = "PROCESSED" => row.of >= n

\* Nothing is under way and every event was answered.
Quiet == /\ \A p \in Requests : req[p].pc = "idle"
         /\ \A s \in Subs, n \in Versions : event[s][n] # "OPEN"

\* When all is quiet and the row was last written by a webhook that replaced no other
\* subscription, it tells what Stripe tells: events that arrive late, twice or out of order
\* leave nothing behind.
Converged ==
  Quiet /\ row.by = "stripe" /\ row.replaced = "NO"
    => row.status = stripeStatusToLicense(stripe[row.sub].status)

\* A webhook replaces the subscription that a webhook wrote only by one created in a later
\* second: a late checkout event never brings an older subscription back.
NewerReplacesOlder ==
  [][row.by = "stripe" /\ row'.by = "stripe" /\ row'.sub # row.sub
       => stripe[row'.sub].created > stripe[row.sub].created]_vars
=============================================================================
