--------------------------- MODULE RentalPayments ---------------------------
(***************************************************************************)
(* Deposits and extra charges of one rental booking:                       *)
(* backend/src/application/services/rental-payment-service.ts, run as      *)
(* concurrent requests and webhook deliveries, with Stripe as environment. *)
(*                                                                         *)
(* A deposit is an authorisation that is later captured or released, an    *)
(* extra charge is approved and then charged.  Both create one Stripe      *)
(* payment intent under an idempotency key, may lose the answer, and copy  *)
(* the intent's status into their row with reconcileIntent: read the row,  *)
(* retrieve the intent, and write only if the row is still the one read.   *)
(*                                                                         *)
(* An await between two statements is a step of its own.  `fresh` stands   *)
(* for the comparison of every column and of updatedAt in                  *)
(* compareAndUpdateDeposit and compareAndUpdateExtraCharge: every write of *)
(* a row makes the copies other requests hold of it stale.  The identity   *)
(* checks of validateIntent on metadata, customer, method and currency are *)
(* true of every intent this service creates and are left out; which       *)
(* intent a row may be bound to is kept.                                   *)
(***************************************************************************)
EXTENDS Integers, FiniteSets

CONSTANTS
  Deposits,      \* ids of RentalDeposit rows, all of one booking
  Extras,        \* ids of RentalExtraCharge rows
  Intents,       \* ids Stripe gives to payment intents, in this order
  Requests,      \* concurrent HTTP requests and webhook deliveries
  Amount,        \* amountCents, totalAmountCents
  MaxAttempts,   \* attempts of reconcileIntent (5 in the code)
  MaxEvents,     \* bound: status changes of one intent
  MaxCrashes,    \* bound: crashes of the backend
  NoRow, NoIntent

Rows == Deposits \cup Extras

ASSUME RowsAssumption == Deposits \cap Extras = {} /\ NoRow \notin Rows
ASSUME IntentsAssumption == Intents \subseteq Nat /\ NoIntent \notin Intents
ASSUME NumbersAssumption == /\ Amount \in Nat \ {0} /\ MaxAttempts \in Nat \ {0}
                            /\ MaxEvents \in Nat /\ MaxCrashes \in Nat

VARIABLES
  row,      \* the RentalDeposit and RentalExtraCharge tables
  intent,   \* external: the payment intents at Stripe
  key,      \* external: the intent stored under the idempotency key of a row's create call
  aged,     \* deposits whose createdAt is 23 hours old
  owed,     \* Stripe events not yet recorded as PROCESSED in RentalPaymentEvent
  req,      \* the requests being served
  crashes

vars == <<row, intent, key, aged, owed, req, crashes>>

ACTIVE_DEPOSIT_STATUSES    == {"AUTHORIZING", "AUTHORIZED"}
CAPTURABLE_DEPOSIT_STATUSES == {"AUTHORIZED"}
RELEASABLE_DEPOSIT_STATUSES == {"AUTHORIZING", "AUTHORIZED"}
Captured == {"CAPTURED", "PARTIALLY_CAPTURED"}
DepositStatuses == ACTIVE_DEPOSIT_STATUSES \cup Captured \cup {"RELEASED", "FAILED"}

\* "FAILED" stands for REQUIRES_ACTION too: both can be charged again and both say that the
\* intent, if there is one, waits for the customer.
CHARGEABLE_EXTRA_STATUSES     == {"APPROVED", "NOTIFIED", "FAILED"}
APPROVABLE_EXTRA_STATUSES     == {"PENDING_APPROVAL"}
NON_CANCELABLE_EXTRA_STATUSES == {"PAYMENT_PROCESSING", "PAID", "REFUNDED", "DISPUTED"}
Settled == {"PAID", "REFUNDED", "DISPUTED"}
ExtraStatuses == CHARGEABLE_EXTRA_STATUSES \cup APPROVABLE_EXTRA_STATUSES
                   \cup NON_CANCELABLE_EXTRA_STATUSES \cup {"CANCELED"}

Row == [status: DepositStatuses \cup ExtraStatuses \cup {"ABSENT"},
        intent: Intents \cup {NoIntent},   \* stripePaymentIntentId
        captured: 0..Amount,               \* capturedAmountCents
        notice: {"NO", "YES"}]             \* notifiedAt

AbsentRow == [status |-> "ABSENT", intent |-> NoIntent, captured |-> 0, notice |-> "NO"]

\* Statuses of an intent; "processing" stands for requires_confirmation too, and
\* "requires_payment_method" for requires_action.
Open == {"requires_payment_method", "processing", "requires_capture"}
Intent == [of: Rows \cup {NoRow}, status: Open \cup {"succeeded", "canceled"},
           received: 0..Amount, charge: SUBSET {"refunded", "disputed"}, changes: 0..MaxEvents]

NotCreated == [of |-> NoRow, status |-> "processing", received |-> 0, charge |-> {}, changes |-> 0]

\* Event ids: the n-th status change of an intent, or the refund or the dispute of its charge.
Events == (Intents \X {"intent"} \X (0..MaxEvents)) \cup (Intents \X {"refund", "dispute"} \X {0})
NoEvent == <<NoIntent, "none", 0>>

PCs == {"idle", "claim", "create", "catch", "fail", "load", "write", "precapture",
        "capture", "prerelease", "release", "edit", "mark", "ack"}

\* i: the intent a request knows of.  fresh: nobody has written the row since the request
\* read it.  to: the row it wants to write.  reply: how a create call ended.
Request == [pc: PCs, x: Rows \cup {NoRow}, i: Intents \cup {NoIntent}, fresh: {"NO", "YES"},
            to: Row, amount: 0..Amount, tries: 0..MaxAttempts,
            reply: {"none", "unknown", "refused"}, event: Events \cup {NoEvent}]

NoRequest == [pc |-> "idle", x |-> NoRow, i |-> NoIntent, fresh |-> "NO",
              to |-> AbsentRow, amount |-> 0, tries |-> 0, reply |-> "none", event |-> NoEvent]

Init == /\ row     = [x \in Rows |-> AbsentRow]
        /\ intent  = [i \in Intents |-> NotCreated]
        /\ key     = [x \in Rows |-> NoIntent]
        /\ aged    = {}
        /\ owed    = {}
        /\ req     = [p \in Requests |-> NoRequest]
        /\ crashes = 0

-----------------------------------------------------------------------------
(* Helpers.                                                                *)

Exists(x) == row[x].status # "ABSENT"
IntentsOf(x) == {i \in Intents : intent[i].of = x}

\* The status of a row that has been claimed and may be bound to its first intent.
Claiming(x) == IF x \in Extras THEN "PAYMENT_PROCESSING" ELSE "AUTHORIZING"

\* validateIntent: a bound row keeps its intent, a claimed one may take its first.
validateIntent(x, r, i) == /\ intent[i].of = x
                           /\ IF r.intent # NoIntent THEN r.intent = i ELSE r.status = Claiming(x)

Becomes(p, r) == req' = [req EXCEPT ![p] = r]
Ends(p) == Becomes(p, NoRequest)

\* reconcileIntent and markPaymentIntentLinkedRecord returned: a webhook is acknowledged.
Returns(p) == IF req[p].event = NoEvent THEN Ends(p)
              ELSE Becomes(p, [NoRequest EXCEPT !.pc = "ack", !.event = req[p].event])

\* Start of reconcileIntent(x, i) in request p.
Reconciles(p, x, i) == Becomes(p, [NoRequest EXCEPT !.pc = "load", !.x = x, !.i = i,
                                                    !.event = req[p].event])

\* RentalDeposit_one_active_per_booking_uidx.
NoOtherActive(x, r) ==
  x \in Deposits /\ r.status \in ACTIVE_DEPOSIT_STATUSES =>
    \A d \in Deposits \ {x} : row[d].status \notin ACTIVE_DEPOSIT_STATUSES

\* Row x is written, request p goes on as n: the copies the others hold are stale.
Writes(p, x, r, n) ==
  /\ row' = [row EXCEPT ![x] = r]
  /\ req' = [q \in Requests |->
               IF q = p THEN n
               ELSE IF req[q].x = x THEN [req[q] EXCEPT !.fresh = "NO"] ELSE req[q]]

Stripe == <<intent, key, owed>>
Time   == <<aged, crashes>>

-----------------------------------------------------------------------------
(* Stripe (external).                                                      *)

Changes(i, status, received) ==
  /\ intent[i].changes < MaxEvents
  /\ intent' = [intent EXCEPT ![i].status = status, ![i].received = received, ![i].changes = @ + 1]
  /\ owed' = owed \cup {<<i, "intent", intent[i].changes + 1>>}

\* What the issuer, the customer or a timer can make of an open intent.  An authorisation
\* is captured by this service only; it can be canceled elsewhere, and it expires.
IntentChanges(i) ==
  /\ intent[i].of # NoRow
  /\ intent[i].status \in Open
  /\ \/ /\ intent[i].of \in Deposits /\ intent[i].status # "requires_capture"
        /\ \E s \in Open \cup {"canceled"} : Changes(i, s, 0)
     \/ /\ intent[i].of \in Deposits /\ intent[i].status = "requires_capture"
        /\ Changes(i, "canceled", 0)
     \/ /\ intent[i].of \in Extras
        /\ \/ \E s \in (Open \ {"requires_capture"}) \cup {"canceled"} : Changes(i, s, 0)
           \/ Changes(i, "succeeded", Amount)
  /\ UNCHANGED <<row, key, req, Time>>

\* The charge of an extra is refunded or disputed at Stripe.
ChargeChanges(i, what) ==
  /\ intent[i].of \in Extras /\ intent[i].status = "succeeded"
  /\ what[1] \notin intent[i].charge
  /\ intent' = [intent EXCEPT ![i].charge = @ \cup {what[1]}]
  /\ owed' = owed \cup {<<i, what[2], 0>>}
  /\ UNCHANGED <<row, key, req, Time>>

\* Idempotency keys live at least 24 hours.  A deposit's key is not older than its row, and
\* no request is an hour on its way from the check of createdAt to Stripe.
KeyIsPruned(x) ==
  /\ key[x] # NoIntent
  /\ x \in Deposits => x \in aged
  /\ \A p \in Requests : ~(req[p].x = x /\ req[p].pc = "create")
  /\ key' = [key EXCEPT ![x] = NoIntent]
  /\ UNCHANGED <<row, intent, owed, req, Time>>

DepositAges(x) == /\ x \in Deposits \ aged /\ Exists(x)
                  /\ aged' = aged \cup {x}
                  /\ UNCHANGED <<row, req, crashes, Stripe>>

\* The answer of a create call reaches the caller, as the intent or as an error that names
\* it, or is lost.
Answers(p, i) == \/ Reconciles(p, req[p].x, i)
                 \/ Becomes(p, [req[p] EXCEPT !.pc = "catch", !.i = i])
                 \/ Becomes(p, [req[p] EXCEPT !.pc = "catch", !.reply = "unknown"])

FirstStatuses(x) == {"requires_payment_method", "processing"}
                      \cup {IF x \in Extras THEN "succeeded" ELSE "requires_capture"}

\* paymentIntents.create with a key not seen before: a new intent.
StripeCreates(p) ==
  /\ req[p].pc = "create"
  /\ key[req[p].x] = NoIntent
  /\ \E i \in Intents, s \in FirstStatuses(req[p].x) :
       /\ intent[i].of = NoRow /\ \A j \in Intents : j < i => intent[j].of # NoRow
       /\ intent' = [intent EXCEPT ![i] = [NotCreated EXCEPT !.of = req[p].x, !.status = s,
                       !.received = IF s = "succeeded" THEN Amount ELSE 0]]
       /\ key' = [key EXCEPT ![req[p].x] = i]
       /\ owed' = owed \cup {<<i, "intent", 0>>}
       /\ Answers(p, i)
  /\ UNCHANGED <<row, Time>>

\* paymentIntents.create with a stored key: the first call's intent again.
StripeReplays(p) ==
  /\ req[p].pc = "create"
  /\ key[req[p].x] # NoIntent
  /\ Answers(p, key[req[p].x])
  /\ UNCHANGED <<row, Stripe, Time>>

\* The call is not executed: refused for good (400, 401, 403, 404), or never arrived.
StripeRefuses(p) ==
  /\ req[p].pc = "create"
  /\ \E reply \in {"refused", "unknown"} : Becomes(p, [req[p] EXCEPT !.pc = "catch", !.reply = reply])
  /\ UNCHANGED <<row, Stripe, Time>>

-----------------------------------------------------------------------------
(* Deposits and extra charges: creating the intent.                        *)

\* Mutant of createDeposit: a claim without an intent is retried at any age.
createDepositAtAnyAge(p, d) ==
  /\ req[p].pc = "idle"
  /\ row[d].status \in ACTIVE_DEPOSIT_STATUSES \cup {"ABSENT"} /\ row[d].intent = NoIntent
  /\ LET r == [AbsentRow EXCEPT !.status = "AUTHORIZING"]
     IN Writes(p, d, r, [NoRequest EXCEPT !.pc = "create", !.x = d, !.fresh = "YES"])
  /\ UNCHANGED <<Stripe, Time>>

\* claimActiveDeposit, then what createDeposit makes of a claim it did not create.
createDeposit(p, d) ==
  /\ req[p].pc = "idle"
  /\ \/ /\ ~Exists(d)
        /\ \A e \in Deposits : row[e].status \notin ACTIVE_DEPOSIT_STATUSES
        /\ LET r == [AbsentRow EXCEPT !.status = "AUTHORIZING"]
           IN Writes(p, d, r, [NoRequest EXCEPT !.pc = "create", !.x = d, !.fresh = "YES"])
     \/ /\ row[d].status \in ACTIVE_DEPOSIT_STATUSES /\ row[d].intent # NoIntent
        /\ Reconciles(p, d, row[d].intent)
        /\ UNCHANGED row
     \/ /\ row[d].status \in ACTIVE_DEPOSIT_STATUSES /\ row[d].intent = NoIntent
        /\ d \notin aged
        /\ Becomes(p, [NoRequest EXCEPT !.pc = "create", !.x = d, !.fresh = "YES"])
        /\ UNCHANGED row
  /\ UNCHANGED <<Stripe, Time>>

createExtraCharge(p, x) ==
  /\ req[p].pc = "idle"
  /\ ~Exists(x)
  /\ Writes(p, x, [AbsentRow EXCEPT !.status = "PENDING_APPROVAL"], NoRequest)
  /\ UNCHANGED <<Stripe, Time>>

\* chargeExtraCharge up to the claim.  A known intent is reconciled, never replaced.
chargeExtraCharge(p, x) ==
  /\ req[p].pc = "idle"
  /\ row[x].status \in CHARGEABLE_EXTRA_STATUSES \cup {"PAYMENT_PROCESSING"}
  /\ IF row[x].intent # NoIntent THEN Reconciles(p, x, row[x].intent)
     ELSE /\ row[x].status \in CHARGEABLE_EXTRA_STATUSES
          /\ Becomes(p, [NoRequest EXCEPT !.pc = "claim", !.x = x, !.fresh = "YES",
                                          !.to = [row[x] EXCEPT !.status = "PAYMENT_PROCESSING"]])
  /\ UNCHANGED <<row, Stripe, Time>>

\* The claim of chargeExtraCharge: the only winner goes on to Stripe.
ClaimExtra(p) ==
  /\ req[p].pc = "claim"
  /\ IF req[p].fresh = "YES"
     THEN Writes(p, req[p].x, req[p].to,
                 [req[p] EXCEPT !.pc = "create", !.to = AbsentRow])
     ELSE Ends(p) /\ UNCHANGED row
  /\ UNCHANGED <<Stripe, Time>>

\* The catch of a failed create call: the row is read again; a known intent is reconciled,
\* an unknown outcome leaves the claim in place, a refusal is about to be recorded.
Catch(p) ==
  /\ req[p].pc = "catch"
  /\ LET x == req[p].x
         i == IF row[x].intent # NoIntent THEN row[x].intent ELSE req[p].i
     IN IF i # NoIntent THEN Reconciles(p, x, i)
        ELSE IF req[p].reply = "unknown" THEN Ends(p)
        ELSE Becomes(p, [req[p] EXCEPT !.pc = "fail", !.to = [row[x] EXCEPT !.status = "FAILED"]])
  /\ UNCHANGED <<row, Stripe, Time>>

\* The refusal is recorded unless the row has changed since it was claimed.
RecordFailure(p) ==
  /\ req[p].pc = "fail"
  /\ IF req[p].fresh = "YES" THEN Writes(p, req[p].x, req[p].to, NoRequest)
                             ELSE Ends(p) /\ UNCHANGED row
  /\ UNCHANGED <<Stripe, Time>>

-----------------------------------------------------------------------------
(* reconcileIntent.                                                        *)

\* The row's status for an intent's status.
ExtraStatus(i) ==
  CASE intent[i].status = "succeeded"               -> "PAID"
    [] intent[i].status = "canceled"                -> "CANCELED"
    [] intent[i].status = "requires_payment_method" -> "FAILED"
    [] OTHER                                        -> "PAYMENT_PROCESSING"

DepositStatus(i) ==
  CASE intent[i].status = "succeeded" /\ intent[i].received < Amount -> "PARTIALLY_CAPTURED"
    [] intent[i].status = "succeeded" /\ intent[i].received = Amount -> "CAPTURED"
    [] intent[i].status = "requires_capture" -> "AUTHORIZED"
    [] intent[i].status = "canceled"         -> "RELEASED"
    [] intent[i].status = "processing"       -> "AUTHORIZING"
    [] OTHER                                 -> "FAILED"

\* Statuses a payment intent no longer changes.
Terminal(x, r) == IF x \in Extras THEN r.status \in Settled
                  ELSE r.captured > 0 \/ r.status \in Captured

\* The row x as reconcileIntent wants it, from its copy r and the intent i.
Reconciled(x, r, i) ==
  IF Terminal(x, r) THEN r
  ELSE IF x \in Extras THEN [r EXCEPT !.intent = i, !.status = ExtraStatus(i)]
  ELSE [r EXCEPT !.intent = i, !.status = DepositStatus(i),
                 !.captured = IF intent[i].status = "succeeded" THEN intent[i].received ELSE @]

\* The row is read, the intent is retrieved and checked against the copy of the row: binding
\* error (the request fails), nothing to write (it returns), or a write to attempt.  A write
\* of the row between the two reads has the effect of one right after them: a conflict.
LoadAndRetrieve(p) ==
  /\ req[p].pc = "load"
  /\ LET x == req[p].x
         r == row[x]
         i == req[p].i
         n == Reconciled(x, r, i)
     IN IF \/ ~validateIntent(x, r, i)
           \/ ~Terminal(x, r) /\ r.status \in {"CANCELED", "RELEASED"} /\ intent[i].status # "canceled"
        THEN Ends(p)
        ELSE IF n = r THEN Returns(p)
        ELSE Becomes(p, [req[p] EXCEPT !.pc = "write", !.fresh = "YES", !.to = n])
  /\ UNCHANGED <<row, Stripe, Time>>

\* Mutant of WriteRow: the write does not compare the row with the copy.
WriteRowBlindly(p) ==
  /\ req[p].pc = "write"
  /\ IF NoOtherActive(req[p].x, req[p].to)
     THEN Writes(p, req[p].x, req[p].to,
                 IF req[p].event = NoEvent THEN NoRequest
                 ELSE [NoRequest EXCEPT !.pc = "ack", !.event = req[p].event])
     ELSE Ends(p) /\ UNCHANGED row
  /\ UNCHANGED <<Stripe, Time>>

\* compareAndUpdateDeposit, compareAndUpdateExtraCharge: the write and its audit, an error
\* of the unique index, or a conflict: read everything again, or give up with a 503.
WriteRow(p) ==
  /\ req[p].pc = "write"
  /\ \/ /\ req[p].fresh = "YES" /\ NoOtherActive(req[p].x, req[p].to)
        /\ Writes(p, req[p].x, req[p].to,
                  IF req[p].event = NoEvent THEN NoRequest
                  ELSE [NoRequest EXCEPT !.pc = "ack", !.event = req[p].event])
     \/ /\ req[p].fresh = "YES" /\ ~NoOtherActive(req[p].x, req[p].to)
        /\ Ends(p) /\ UNCHANGED row
     \/ /\ req[p].fresh = "NO"
        /\ IF req[p].tries + 1 >= MaxAttempts THEN Ends(p)
           ELSE Becomes(p, [req[p] EXCEPT !.tries = @ + 1, !.to = AbsentRow,
                              !.pc = IF req[p].event[2] \in {"refund", "dispute"} THEN "mark" ELSE "load"])
        /\ UNCHANGED row
  /\ UNCHANGED <<Stripe, Time>>

-----------------------------------------------------------------------------
(* Capture and release of a deposit.                                       *)

\* Mutant of captureDeposit: the amount is not compared with what remains.
captureMoreThanHeld(p, d) ==
  /\ req[p].pc = "idle"
  /\ row[d].intent # NoIntent /\ row[d].status \in CAPTURABLE_DEPOSIT_STATUSES
  /\ \E a \in 1..(Amount + 1) :
       Becomes(p, [NoRequest EXCEPT !.pc = "precapture", !.x = d, !.i = row[d].intent, !.amount = a])
  /\ UNCHANGED <<row, Stripe, Time>>

captureDeposit(p, d) ==
  /\ req[p].pc = "idle"
  /\ row[d].intent # NoIntent /\ row[d].status \in CAPTURABLE_DEPOSIT_STATUSES
  /\ \E a \in 1..(Amount - row[d].captured) :
       Becomes(p, [NoRequest EXCEPT !.pc = "precapture", !.x = d, !.i = row[d].intent, !.amount = a])
  /\ UNCHANGED <<row, Stripe, Time>>

releaseDeposit(p, d) ==
  /\ req[p].pc = "idle"
  /\ row[d].intent # NoIntent /\ row[d].status \in RELEASABLE_DEPOSIT_STATUSES
  /\ Becomes(p, [NoRequest EXCEPT !.pc = "prerelease", !.x = d, !.i = row[d].intent])
  /\ UNCHANGED <<row, Stripe, Time>>

\* The intent is retrieved first: what cannot be captured or released any more is reconciled.
BeforeCapture(p) ==
  /\ req[p].pc = "precapture"
  /\ IF intent[req[p].i].status = "requires_capture" THEN Becomes(p, [req[p] EXCEPT !.pc = "capture"])
     ELSE Reconciles(p, req[p].x, req[p].i)
  /\ UNCHANGED <<row, Stripe, Time>>

BeforeRelease(p) ==
  /\ req[p].pc = "prerelease"
  /\ IF intent[req[p].i].status \in Open THEN Becomes(p, [req[p] EXCEPT !.pc = "release"])
     ELSE Reconciles(p, req[p].x, req[p].i)
  /\ UNCHANGED <<row, Stripe, Time>>

\* paymentIntents.capture: executed if the intent still waits for it; repeated under the
\* same key and amount it answers as before, anything else is an error.  The answer or the
\* error may be lost: the request fails.
StripeCaptures(p) ==
  /\ req[p].pc = "capture"
  /\ LET i == req[p].i IN
     \/ /\ intent[i].status = "requires_capture" /\ Changes(i, "succeeded", req[p].amount)
        /\ Reconciles(p, req[p].x, i) \/ Ends(p)
     \/ /\ intent[i].status = "succeeded" /\ intent[i].received = req[p].amount
        /\ Reconciles(p, req[p].x, i)
        /\ UNCHANGED <<intent, owed>>
     \/ Ends(p) /\ UNCHANGED <<intent, owed>>
  /\ UNCHANGED <<row, key, Time>>

\* paymentIntents.cancel, likewise.
StripeCancels(p) ==
  /\ req[p].pc = "release"
  /\ LET i == req[p].i IN
     \/ /\ intent[i].status \in Open /\ Changes(i, "canceled", 0)
        /\ Reconciles(p, req[p].x, i) \/ Ends(p)
     \/ /\ intent[i].status = "canceled"
        /\ Reconciles(p, req[p].x, i)
        /\ UNCHANGED <<intent, owed>>
     \/ Ends(p) /\ UNCHANGED <<intent, owed>>
  /\ UNCHANGED <<row, key, Time>>

-----------------------------------------------------------------------------
(* Approval, cancellation and notice of an extra charge.                   *)

approveExtraCharge(p, x) ==
  /\ req[p].pc = "idle"
  /\ row[x].status \in APPROVABLE_EXTRA_STATUSES
  /\ Becomes(p, [NoRequest EXCEPT !.pc = "edit", !.x = x, !.fresh = "YES",
                                  !.to = [row[x] EXCEPT !.status = "APPROVED"]])
  /\ UNCHANGED <<row, Stripe, Time>>

\* Mutant of cancelExtraCharge: a charge being processed may be canceled.
cancelAnyExtraCharge(p, x) ==
  /\ req[p].pc = "idle"
  /\ row[x].status \notin Settled \cup {"CANCELED", "ABSENT"} /\ row[x].intent = NoIntent
  /\ Becomes(p, [NoRequest EXCEPT !.pc = "edit", !.x = x, !.fresh = "YES",
                                  !.to = [row[x] EXCEPT !.status = "CANCELED"]])
  /\ UNCHANGED <<row, Stripe, Time>>

cancelExtraCharge(p, x) ==
  /\ req[p].pc = "idle"
  /\ row[x].status \notin NON_CANCELABLE_EXTRA_STATUSES /\ row[x].intent = NoIntent
  /\ row[x].status \notin {"CANCELED", "ABSENT"}
  /\ Becomes(p, [NoRequest EXCEPT !.pc = "edit", !.x = x, !.fresh = "YES",
                                  !.to = [row[x] EXCEPT !.status = "CANCELED"]])
  /\ UNCHANGED <<row, Stripe, Time>>

\* The conditional write of an approval or a cancellation; a conflict is a 409.
EditExtra(p) ==
  /\ req[p].pc = "edit"
  /\ IF req[p].fresh = "YES" THEN Writes(p, req[p].x, req[p].to, NoRequest)
                             ELSE Ends(p) /\ UNCHANGED row
  /\ UNCHANGED <<Stripe, Time>>

\* finalizeExtraNotice, when the queue has delivered the one notice of the charge: notifiedAt
\* is set whatever the status is by now, which makes every copy of the row stale.
NoticeDelivered(x) ==
  /\ row[x].status \notin {"ABSENT", "PENDING_APPROVAL"} /\ row[x].notice = "NO"
  /\ row' = [row EXCEPT ![x].notice = "YES", ![x].status = IF @ = "APPROVED" THEN "NOTIFIED" ELSE @]
  /\ req' = [q \in Requests |-> IF req[q].x = x THEN [req[q] EXCEPT !.fresh = "NO"] ELSE req[q]]
  /\ UNCHANGED <<Stripe, Time>>

-----------------------------------------------------------------------------
(* Webhooks.                                                               *)

\* Mutant of handleStripeEvent: the event is PROCESSED before it is processed.
handleStripeEventOnce(p, e) ==
  /\ req[p].pc = "idle"
  /\ e \in owed
  /\ validateIntent(intent[e[1]].of, row[intent[e[1]].of], e[1])
  /\ Becomes(p, [NoRequest EXCEPT !.pc = IF e[2] = "intent" THEN "load" ELSE "mark",
                                  !.x = intent[e[1]].of, !.i = e[1], !.event = e])
  /\ owed' = owed \ {e}
  /\ UNCHANGED <<row, intent, key, Time>>

\* handleStripeEvent up to the journal: the intent and its row are verified; an event that
\* fails here is delivered again, one that is already PROCESSED is not in `owed`.
handleStripeEvent(p, e) ==
  LET i == e[1]
      x == intent[i].of
  IN /\ req[p].pc = "idle"
     /\ e \in owed
     /\ validateIntent(x, row[x], i)
     /\ Becomes(p, [NoRequest EXCEPT !.pc = IF e[2] = "intent" THEN "load" ELSE "mark",
                                     !.x = x, !.i = i, !.event = e])
     /\ UNCHANGED <<row, Stripe, Time>>

\* Mutant of MarkedStatus: whatever the customer got back was disputed.
MarkedDisputed(e, r, i) ==
  IF e[2] = "dispute" \/ intent[i].charge # {} \/ r.status = "DISPUTED" THEN "DISPUTED" ELSE "REFUNDED"

\* DISPUTED prevails over REFUNDED, whichever event comes last.
MarkedStatus(e, r, i) ==
  IF e[2] = "dispute" \/ "disputed" \in intent[i].charge \/ r.status = "DISPUTED"
  THEN "DISPUTED" ELSE "REFUNDED"

\* markPaymentIntentLinkedRecord: the charge, its intent and the row are read and verified.
Mark(p) ==
  /\ req[p].pc = "mark"
  /\ LET x == req[p].x
         n == [row[x] EXCEPT !.intent = req[p].i, !.status = MarkedStatus(req[p].event, row[x], req[p].i)]
     IN IF ~validateIntent(x, row[x], req[p].i) THEN Ends(p)
        ELSE IF row[x].status = n.status THEN Returns(p)
        ELSE Becomes(p, [req[p] EXCEPT !.pc = "write", !.fresh = "YES", !.to = n])
  /\ UNCHANGED <<row, Stripe, Time>>

\* updateRentalPaymentEvent: the event is PROCESSED and Stripe gets its 200.
Acknowledge(p) ==
  /\ req[p].pc = "ack"
  /\ owed' = owed \ {req[p].event}
  /\ Ends(p)
  /\ UNCHANGED <<row, intent, key, Time>>

\* The process dies, or an error of the database ends the request at an await.
Dies(p) ==
  /\ req[p].pc # "idle"
  /\ crashes < MaxCrashes
  /\ crashes' = crashes + 1
  /\ Ends(p)
  /\ UNCHANGED <<row, aged, Stripe>>

-----------------------------------------------------------------------------
\* What a request being served does next.
Step(p) == \/ StripeCreates(p) \/ StripeReplays(p) \/ StripeRefuses(p)
           \/ ClaimExtra(p) \/ Catch(p) \/ RecordFailure(p)
           \/ LoadAndRetrieve(p) \/ WriteRow(p)
           \/ BeforeCapture(p) \/ BeforeRelease(p) \/ StripeCaptures(p) \/ StripeCancels(p)
           \/ EditExtra(p) \/ Mark(p) \/ Acknowledge(p)

\* A client calls the API.
Call(p) == \/ \E d \in Deposits : createDeposit(p, d) \/ captureDeposit(p, d) \/ releaseDeposit(p, d)
           \/ \E x \in Extras : \/ createExtraCharge(p, x) \/ approveExtraCharge(p, x)
                                \/ chargeExtraCharge(p, x) \/ cancelExtraCharge(p, x)

Environment == \/ \E i \in Intents : \/ IntentChanges(i)
                                     \/ ChargeChanges(i, <<"refunded", "refund">>)
                                     \/ ChargeChanges(i, <<"disputed", "dispute">>)
               \/ \E x \in Rows : KeyIsPruned(x)
               \/ \E d \in Deposits : DepositAges(d)
               \/ \E x \in Extras : NoticeDelivered(x)

Next == \/ \E p \in Requests : \/ Call(p) \/ Step(p) \/ Dies(p)
                               \/ \E e \in owed : handleStripeEvent(p, e)
        \/ Environment

\* A request that has started goes on, and Stripe does not stop delivering while it is owed
\* a 200.  Strong fairness of the delivery: it needs an idle slot of Requests, a bound of the
\* model.
Fairness == /\ \A p \in Requests : WF_vars(Step(p))
            /\ SF_vars(\E p \in Requests, e \in owed : handleStripeEvent(p, e))

Spec == Init /\ [][Next]_vars /\ Fairness

-----------------------------------------------------------------------------
TypeOK == /\ row \in [Rows -> Row]
          /\ intent \in [Intents -> Intent]
          /\ key \in [Rows -> Intents \cup {NoIntent}]
          /\ aged \subseteq Deposits
          /\ owed \subseteq Events
          /\ req \in [Requests -> Request]
          /\ crashes \in 0..MaxCrashes

\* Stripe never holds two payment intents for one deposit or one extra charge, whatever
\* answers were lost, however often the creation was retried and whenever the idempotency
\* key was forgotten: nobody is charged twice.
OneIntentPerRow == \A i, j \in Intents : intent[i].of # NoRow /\ intent[i].of = intent[j].of => i = j

\* A row never claims what Stripe did not do: captured deposits were captured, with that
\* amount; released ones were canceled; a settled extra was paid; and an extra that is
\* CANCELED, or FAILED without an intent, has no charge at Stripe that the row does not
\* know of.
RowsTellTheTruth ==
  /\ \A d \in Deposits :
       /\ row[d].status \in Captured => /\ intent[row[d].intent].status = "succeeded"
                                        /\ intent[row[d].intent].received = row[d].captured
       /\ row[d].status = "RELEASED" => intent[row[d].intent].status = "canceled"
  /\ \A x \in Extras :
       /\ row[x].status \in Settled => intent[row[x].intent].status = "succeeded"
       /\ row[x].status = "CANCELED" => \A i \in IntentsOf(x) : intent[i].status = "canceled"
       /\ row[x].status = "FAILED" /\ row[x].intent = NoIntent => IntentsOf(x) = {}

\* No late event, answer or error takes back what is settled: money captured stays captured,
\* PAID can only become REFUNDED or DISPUTED, REFUNDED only DISPUTED, DISPUTED is final, and
\* the intent of a row is never replaced.
SettledStaysSettled ==
  [][\A x \in Rows :
       /\ row[x].status \in Captured => row'[x] = row[x]
       /\ row[x].status = "PAID" => row'[x].status \in Settled
       /\ row[x].status = "REFUNDED" => row'[x].status \in {"REFUNDED", "DISPUTED"}
       /\ row[x].status = "DISPUTED" => row'[x].status = "DISPUTED"
       /\ row[x].intent # NoIntent => row'[x].intent = row[x].intent]_vars

\* What Stripe has taken ends up in the rows, by the answer or, after a lost answer or a
\* crash, by a webhook: again and again, nothing taken is missing.
Recorded(i) == \E x \in Rows : row[x].intent = i /\ row[x].status \in Settled \cup Captured
MoneyIsRecorded == []<>(\A i \in Intents : intent[i].status = "succeeded" => Recorded(i))

-----------------------------------------------------------------------------
(* The abstract specification.                                             *)

\* What an intent and a row mean to the ledger.
AccountOf(n) ==
  [of |-> n.of, amount |-> n.received, claims |-> n.charge,
   state |-> CASE n.status = "succeeded" -> "TAKEN" [] n.status = "canceled" -> "VOID" [] OTHER -> "OPEN"]

EntryOf(r) ==
  [payment |-> r.intent,
   amount  |-> CASE r.status \in Captured -> r.captured [] r.status \in Settled -> Amount [] OTHER -> 0,
   state   |-> CASE r.status \in Captured \cup {"PAID"}     -> "TAKEN"
                 [] r.status = "REFUNDED"                  -> "RETURNED"
                 [] r.status = "DISPUTED"                  -> "DISPUTED"
                 [] r.status \in {"RELEASED", "CANCELED"}  -> "DROPPED"
                 [] OTHER                                  -> "OPEN"]

Ledger == INSTANCE PaymentLedger WITH
            Charges <- Rows, Whole <- Extras, Payments <- Intents,
            NoCharge <- NoRow, NoPayment <- NoIntent,
            account <- [i \in Intents |-> AccountOf(intent[i])],
            book    <- [x \in Rows |-> EntryOf(row[x])]

\* Deposits and extra charges implement the ledger: seen from the accounts, all the requests,
\* retries, lost answers, webhooks and crashes are single entries that follow Stripe.  In
\* particular nothing is asked of Stripe for a charge that was canceled or released, a
\* refund or a dispute is entered only after it happened, and CANCELED and RELEASED are final.
ImplementsLedger == Ledger!Spec
=============================================================================
