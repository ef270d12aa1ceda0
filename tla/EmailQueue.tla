----------------------------- MODULE EmailQueue -----------------------------
(***************************************************************************)
(* The durable e-mail queue of Fleetum's backend:                          *)
(* backend/src/infrastructure/email/email-queue-service.ts and the three   *)
(* guarded dispatchers it calls (scheduled-report-dispatch.ts,             *)
(* reminder-email-dispatch.ts, extra-charge-notice.ts).                    *)
(*                                                                         *)
(* A row of the EmailQueue table is claimed by a compare-and-set that      *)
(* writes a fresh processingToken and a 15 minute lease.  Every later      *)
(* write of that attempt is conditional on (PENDING, token).  The provider *)
(* is called outside any transaction; the row and the local records that   *)
(* follow from a delivery are then finalised in one transaction.           *)
(*                                                                         *)
(* A worker is one invocation of processPending: the five-minute cron,     *)
(* a cron in another process, or the immediate dispatch after a command.   *)
(* Wall-clock time appears only through its two effects, "the lease has    *)
(* expired" and "the back-off has elapsed".  A token is the name of the    *)
(* worker that drew it: a worker has one claim at a time, so equality of   *)
(* names is equality of the random UUIDs.                                  *)
(***************************************************************************)
EXTENDS Integers, FiniteSets

CONSTANTS
  Rows,         \* ids of queue rows, numbered in createdAt order
  Workers,      \* concurrent invocations of processPending
  TypeOf,       \* the declared type of each row
  MaxAttempts,  \* EmailQueue.maxAttempts
  BatchSize,    \* options.take
  MaxFaults,    \* bound on crashes, failed transactions, lost answers and stalls
  NoWorker,     \* processingToken IS NULL
  NoRow         \* no row in hand

Document == {"BOOKING_CONTRACT", "SAAS_INVOICE_EMAIL"}
Guarded  == {"REMINDER_EMAIL", "SCHEDULED_REPORT", "RENTAL_EXTRA_CHARGE_NOTICE"}
Types    == Document \cup Guarded \cup {"PLAIN"}

ASSUME RowsAssumption == Rows \subseteq Nat /\ IsFiniteSet(Rows)
ASSUME TypeAssumption == TypeOf \in [Rows -> Types]
ASSUME BoundAssumption == /\ MaxAttempts \in Nat \ {0}
                          /\ BatchSize \in Nat \ {0}
                          /\ MaxFaults \in Nat
ASSUME NullAssumption == NoWorker \notin Workers /\ NoRow \notin Rows

VARIABLES
  row,       \* the EmailQueue table
  local,     \* what the domain tables say about the delivery of each row
  target,    \* rows whose stoppage / extra charge still matches them
  allowed,   \* rows for which the dispatcher's authorisation checks would pass now
  accepted,  \* idempotency keys (row ids) the provider has accepted
  worker,    \* program counter and local variables of every worker
  faults     \* crashes, aborts, lost answers and stalls so far

vars == <<row, local, target, allowed, accepted, worker, faults>>

Statuses == {"ABSENT", "PENDING", "SENT", "FAILED"}
Leases   == {"NONE", "LIVE", "EXPIRED"}
Receipts == {"NONE", "ID", "NULL_ID"}
Row == [status: Statuses, attempts: Nat, next: {"DUE", "BACKOFF"},
        token: Workers \cup {NoWorker}, lease: Leases, receipt: Receipts,
        reason: {"NONE", "BLOCKED"}]

\* delivery: the BookingContractDelivery / InvoiceDelivery row; ok and ko count the
\* records a success and a failure leave behind (events, Reminder rows, audit rows).
Local == [delivery: {"PENDING", "SENT", "FAILED"}, ok: Nat, ko: Nat]

PCs == {"idle", "next", "read", "dispatch", "inflight", "accepted", "finalize",
        "persist", "failed", "release"}
Worker == [pc: PCs, todo: SUBSET Rows, item: Rows \cup {NoRow}, attempts: Nat,
           receipt: Receipts, sent: Receipts, request: {"NONE", "STARTED"}]

Idle == [pc |-> "idle", todo |-> {}, item |-> NoRow, attempts |-> 0,
         receipt |-> "NONE", sent |-> "NONE", request |-> "NONE"]

AbsentRow == [status |-> "ABSENT", attempts |-> 0, next |-> "DUE", token |-> NoWorker,
              lease |-> "NONE", receipt |-> "NONE", reason |-> "NONE"]

Init == /\ row      = [r \in Rows |-> AbsentRow]
        /\ local    = [r \in Rows |-> [delivery |-> "PENDING", ok |-> 0, ko |-> 0]]
        /\ target   = Rows
        /\ allowed  = Rows
        /\ accepted = {}
        /\ worker   = [w \in Workers |-> Idle]
        /\ faults   = 0

-----------------------------------------------------------------------------
(* Helpers.                                                                *)

IsGuarded(r) == TypeOf[r] \in Guarded

\* Mutant of leaseIsAvailable: an expired lease is never taken over.
leaseIsFree(r) == row[r].lease = "NONE"

leaseIsAvailable(r) == row[r].lease # "LIVE"

\* Mutant of Owns: the token is left out of the predicate.
OwnsByStatus(w, r) == row[r].status = "PENDING"

\* The predicate of every write of an attempt: id, status PENDING, this token.
Owns(w, r) == row[r].status = "PENDING" /\ row[r].token = w

PutRow(r, x) == row' = [row EXCEPT ![r] = x]
PutLocal(r, x) == local' = [local EXCEPT ![r] = x]
PutWorker(w, x) == worker' = [worker EXCEPT ![w] = x]

Goto(w, pc) == PutWorker(w, [worker[w] EXCEPT !.pc = pc])

\* A worker that goes through a list of candidates and has no row in hand.
Scanning(todo) == [Idle EXCEPT !.pc = "next", !.todo = todo]

\* `continue`: go on with the next candidate of the batch.
Continue(w) == PutWorker(w, Scanning(worker[w].todo))

\* How the client of a transaction that committed learns of it.
Acks == {"ACK", "LOST"}

Fault == faults < MaxFaults /\ faults' = faults + 1

\* The row after an attempt that gives it back to the queue, with what is known of a receipt;
\* after one that was finalised; after the last one; and after a refused dispatch.
Released(r, receipt) ==
  [row[r] EXCEPT !.attempts = row[r].attempts + 1, !.next = "BACKOFF",
                 !.token = NoWorker, !.lease = "NONE", !.receipt = receipt]
Sent(r, receipt) ==
  [row[r] EXCEPT !.status = "SENT", !.attempts = row[r].attempts + 1,
                 !.token = NoWorker, !.lease = "NONE", !.receipt = receipt]
GivenUp(r) ==
  [row[r] EXCEPT !.status = "FAILED", !.attempts = row[r].attempts + 1,
                 !.token = NoWorker, !.lease = "NONE"]
Blocked(r) ==
  [row[r] EXCEPT !.status = "FAILED", !.token = NoWorker, !.lease = "NONE",
                 !.reason = "BLOCKED"]

-----------------------------------------------------------------------------
(* Producers and the environment.                                          *)

enqueue(r) ==
  /\ row[r].status = "ABSENT"
  /\ \A q \in Rows : q < r => row[q].status # "ABSENT"
  /\ PutRow(r, [row[r] EXCEPT !.status = "PENDING"])
  /\ UNCHANGED <<local, target, allowed, accepted, worker, faults>>

\* A worker whose claim is still the current one is active on the row.
Active(r) == row[r].token \in Workers /\ worker[row[r].token].item = r

\* Fifteen minutes pass.  While the owner is alive that is a stall, and counts as a fault.
LeaseExpires(r) ==
  /\ row[r].lease = "LIVE"
  /\ IF Active(r) THEN Fault ELSE UNCHANGED faults
  /\ PutRow(r, [row[r] EXCEPT !.lease = "EXPIRED"])
  /\ UNCHANGED <<local, target, allowed, accepted, worker>>

BackoffElapses(r) ==
  /\ row[r].status = "PENDING" /\ row[r].next = "BACKOFF"
  /\ PutRow(r, [row[r] EXCEPT !.next = "DUE"])
  /\ UNCHANGED <<local, target, allowed, accepted, worker, faults>>

\* The tenant is suspended, the licence lapses, the recipient changes ... or is restored.
AuthorisationChanges(r) ==
  /\ IsGuarded(r) /\ row[r].status = "PENDING"
  /\ allowed' = IF r \in allowed THEN allowed \ {r} ELSE allowed \cup {r}
  /\ UNCHANGED <<row, local, target, accepted, worker, faults>>

\* The stoppage is removed, the extra charge is deleted or re-assigned.
TargetChanges(r) ==
  /\ TypeOf[r] \in {"REMINDER_EMAIL", "RENTAL_EXTRA_CHARGE_NOTICE"}
  /\ row[r].status = "PENDING" /\ r \in target
  /\ target' = target \ {r}
  /\ UNCHANGED <<row, local, allowed, accepted, worker, faults>>

-----------------------------------------------------------------------------
(* processPending: discovery, claim and refresh.                           *)

\* The rows findMany returns: PENDING, due, not leased, restricted to options.ids when
\* that list is not empty, oldest first, at most BatchSize.
Candidates(ids) ==
  LET match == {r \in Rows : /\ row[r].status = "PENDING" /\ row[r].next = "DUE"
                             /\ leaseIsAvailable(r)
                             /\ ids = {} \/ r \in ids}
  IN {r \in match : Cardinality({q \in match : q <= r}) <= BatchSize}

processPending(w, ids) ==
  /\ worker[w].pc = "idle"
  /\ Candidates(ids) # {}
  /\ PutWorker(w, Scanning(Candidates(ids)))
  /\ UNCHANGED <<row, local, target, allowed, accepted, faults>>

Oldest(w, r) == r \in worker[w].todo /\ \A q \in worker[w].todo : r <= q

\* Mutant of Claimable: the claim relies on the status findMany saw.
ClaimableStale(r) == row[r].next = "DUE" /\ leaseIsAvailable(r)

Claimable(r) == row[r].status = "PENDING" /\ row[r].next = "DUE" /\ leaseIsAvailable(r)

Claim(w, r) ==
  /\ worker[w].pc = "next" /\ Oldest(w, r) /\ Claimable(r)
  /\ PutRow(r, [row[r] EXCEPT !.token = w, !.lease = "LIVE"])
  /\ PutWorker(w, [Scanning(worker[w].todo \ {r}) EXCEPT !.pc = "read", !.item = r])
  /\ UNCHANGED <<local, target, allowed, accepted, faults>>

SkipCandidate(w, r) ==
  /\ worker[w].pc = "next" /\ Oldest(w, r) /\ ~Claimable(r)
  /\ PutWorker(w, Scanning(worker[w].todo \ {r}))
  /\ UNCHANGED <<row, local, target, allowed, accepted, faults>>

BatchDone(w) ==
  /\ worker[w].pc = "next" /\ worker[w].todo = {}
  /\ PutWorker(w, Idle)
  /\ UNCHANGED <<row, local, target, allowed, accepted, faults>>

\* Mutant of hasStoredProviderReceipt: a stored receipt is not looked at.
ReceiptIgnored(r) == FALSE

\* findFirstOrThrow after the claim.  A stored receipt skips the provider; a claim that is
\* already gone throws outside the try block and ends the whole batch.
hasStoredProviderReceipt(r) == row[r].receipt = "ID"

Refreshed(w, r) ==
  [worker[w] EXCEPT !.attempts = row[r].attempts, !.receipt = row[r].receipt,
                    !.sent = IF hasStoredProviderReceipt(r) THEN "ID" ELSE "NONE",
                    !.pc = IF hasStoredProviderReceipt(r) THEN "finalize" ELSE "dispatch"]

ReadItem(w) ==
  /\ worker[w].pc = "read"
  /\ PutWorker(w, IF Owns(w, worker[w].item) THEN Refreshed(w, worker[w].item) ELSE Idle)
  /\ UNCHANGED <<row, local, target, allowed, accepted, faults>>

-----------------------------------------------------------------------------
(* Dispatch.  Unguarded types call the provider at once.  The guarded types  *)
(* first run a transaction that re-checks the authorisation and renews the  *)
(* lease if it is still theirs and has not expired.                         *)

InFlight(w) == PutWorker(w, [worker[w] EXCEPT !.pc = "inflight", !.request = "STARTED"])

startDelivery(w) ==
  /\ worker[w].pc = "dispatch" /\ ~IsGuarded(worker[w].item)
  /\ InFlight(w)
  /\ UNCHANGED <<row, local, target, allowed, accepted, faults>>

HoldsLease(w, r) == Owns(w, r) /\ row[r].lease = "LIVE"

\* owned.count !== 1: the dispatcher returns null.
DispatchNotOwned(w) ==
  /\ worker[w].pc = "dispatch" /\ IsGuarded(worker[w].item)
  /\ ~HoldsLease(w, worker[w].item)
  /\ Continue(w)
  /\ UNCHANGED <<row, local, target, allowed, accepted, faults>>

\* A reason not to send: the row is FAILED for good.  If the commit is acknowledged the
\* dispatcher returns null, otherwise it throws and the failure path follows.
DispatchBlocked(w, ack) ==
  LET r == worker[w].item
  IN /\ worker[w].pc = "dispatch" /\ IsGuarded(r) /\ HoldsLease(w, r) /\ r \notin allowed
     /\ PutRow(r, Blocked(r))
     /\ IF ack = "ACK" THEN Continue(w) /\ UNCHANGED faults ELSE Goto(w, "failed") /\ Fault
     /\ UNCHANGED <<local, target, allowed, accepted>>

\* The request starts inside the authorising transaction, which renews the lease (it was
\* LIVE and stays so).  A rollback or a lost acknowledgement after that point is tolerated:
\* the request is awaited all the same.
DispatchStarts(w, ack) ==
  LET r == worker[w].item
  IN /\ worker[w].pc = "dispatch" /\ IsGuarded(r) /\ HoldsLease(w, r) /\ r \in allowed
     /\ IF ack = "ACK" THEN UNCHANGED faults ELSE Fault
     /\ InFlight(w)
     /\ UNCHANGED <<row, local, target, allowed, accepted>>

\* The authorising transaction fails before the request started.
DispatchAborts(w) ==
  /\ worker[w].pc = "dispatch" /\ IsGuarded(worker[w].item)
  /\ Fault /\ Goto(w, "failed")
  /\ UNCHANGED <<row, local, target, allowed, accepted>>

-----------------------------------------------------------------------------
(* The provider (external: Resend), and the answers the worker may see.    *)

ProviderAccepts(w) ==
  /\ worker[w].pc = "inflight"
  /\ accepted' = accepted \cup {worker[w].item}
  /\ Goto(w, "accepted")
  /\ UNCHANGED <<row, local, target, allowed, faults>>

\* Mutant of ProviderRejects: the error the provider returns is not thrown.
RejectionIgnored(w) ==
  /\ worker[w].pc = "inflight"
  /\ Goto(w, "accepted")
  /\ UNCHANGED <<row, local, target, allowed, accepted, faults>>

ProviderRejects(w) ==
  /\ worker[w].pc = "inflight"
  /\ Goto(w, "failed")
  /\ UNCHANGED <<row, local, target, allowed, accepted, faults>>

\* send returns { provider, id: data?.id ?? null }.
ReplyArrives(w, id) ==
  /\ worker[w].pc = "accepted"
  /\ PutWorker(w, [worker[w] EXCEPT !.pc = "finalize", !.sent = id])
  /\ UNCHANGED <<row, local, target, allowed, accepted, faults>>

ReplyLost(w) ==
  /\ worker[w].pc = "accepted"
  /\ Fault /\ Goto(w, "failed")
  /\ UNCHANGED <<row, local, target, allowed, accepted>>

-----------------------------------------------------------------------------
(* Finalisation after the provider accepted.                               *)

\* Mutant of AppliesLocally: a receipt without an id records nothing for any type.
AppliesOnlyWithId(r, sent) ==
  sent = "ID" /\ (TypeOf[r] \in Document \/ (IsGuarded(r) /\ r \in target))

\* Does the finalisation of row r write domain records?  A reminder whose stoppage is gone
\* and an extra notice whose target changed or whose receipt has no id are SENT without.
AppliesLocally(r, sent) ==
  \/ TypeOf[r] \in Document
  \/ TypeOf[r] = "REMINDER_EMAIL" /\ r \in target
  \/ TypeOf[r] = "RENTAL_EXTRA_CHARGE_NOTICE" /\ r \in target /\ sent = "ID"

Delivered(r) ==
  [local[r] EXCEPT !.ok = local[r].ok + 1,
                   !.delivery = IF TypeOf[r] \in Document THEN "SENT" ELSE local[r].delivery]

\* Mutant of Finalize: the result of the compare-and-set is not looked at.
FinalizeUnchecked(w, ack) ==
  LET r == worker[w].item
      s == worker[w].sent
  IN /\ worker[w].pc = "finalize"
     /\ PutRow(r, IF Owns(w, r) THEN Sent(r, s) ELSE row[r])
     /\ PutLocal(r, IF AppliesLocally(r, s) THEN Delivered(r) ELSE local[r])
     /\ IF ack = "ACK" THEN Continue(w) /\ UNCHANGED faults ELSE Goto(w, "persist") /\ Fault
     /\ UNCHANGED <<target, allowed, accepted>>

\* One transaction: the queue row and every local side effect.  ack = "LOST": committed,
\* but the acknowledgement is lost and the worker enters the catch block.
Finalize(w, ack) ==
  LET r == worker[w].item
      s == worker[w].sent
  IN /\ worker[w].pc = "finalize" /\ Owns(w, r)
     /\ PutRow(r, Sent(r, s))
     /\ PutLocal(r, IF AppliesLocally(r, s) THEN Delivered(r) ELSE local[r])
     /\ IF ack = "ACK" THEN Continue(w) /\ UNCHANGED faults ELSE Goto(w, "persist") /\ Fault
     /\ UNCHANGED <<target, allowed, accepted>>

\* markedSent.count !== 1: return false, continue.
FinalizeNotOwned(w) ==
  /\ worker[w].pc = "finalize" /\ ~Owns(w, worker[w].item)
  /\ Continue(w)
  /\ UNCHANGED <<row, local, target, allowed, accepted, faults>>

FinalizeAborts(w) ==
  /\ worker[w].pc = "finalize"
  /\ Fault /\ Goto(w, "persist")
  /\ UNCHANGED <<row, local, target, allowed, accepted>>

\* Mutant of PersistReceipt: the state of the request is stored instead of its receipt.
PersistRequestState(w) ==
  LET r == worker[w].item
  IN /\ worker[w].pc = "persist"
     /\ PutRow(r, IF Owns(w, r) THEN Released(r, worker[w].request) ELSE row[r])
     /\ Continue(w)
     /\ UNCHANGED <<local, target, allowed, accepted, faults>>

\* catch, `sent` set: keep the receipt on the retryable row.
PersistReceipt(w) ==
  LET r == worker[w].item
  IN /\ worker[w].pc = "persist"
     /\ PutRow(r, IF Owns(w, r) THEN Released(r, worker[w].sent) ELSE row[r])
     /\ Continue(w)
     /\ UNCHANGED <<local, target, allowed, accepted, faults>>

-----------------------------------------------------------------------------
(* catch, `sent` not set: the attempt failed before any receipt.           *)

\* Mutant of hasAttemptsLeft: one attempt too many.
hasOneMoreAttempt(w) == worker[w].attempts + 1 <= MaxAttempts

hasAttemptsLeft(w) == worker[w].attempts + 1 < MaxAttempts

\* The local records a failed attempt leaves: a delivery goes back to PENDING or to FAILED,
\* a reminder that reached the provider call gets a Reminder row with success = false.
Undelivered(w, r) ==
  CASE TypeOf[r] \in Document ->
         [local[r] EXCEPT !.delivery = IF hasAttemptsLeft(w) THEN "PENDING" ELSE "FAILED",
                          !.ko = IF hasAttemptsLeft(w) THEN local[r].ko ELSE local[r].ko + 1]
    [] TypeOf[r] = "REMINDER_EMAIL" /\ worker[w].request = "STARTED" /\ r \in target ->
         [local[r] EXCEPT !.ko = local[r].ko + 1]
    [] OTHER -> local[r]

RecordFailure(w, ack) ==
  LET r == worker[w].item
  IN /\ worker[w].pc = "failed" /\ Owns(w, r)
     /\ PutRow(r, IF hasAttemptsLeft(w) THEN Released(r, row[r].receipt) ELSE GivenUp(r))
     /\ PutLocal(r, Undelivered(w, r))
     /\ IF ack = "ACK" THEN Continue(w) /\ UNCHANGED faults ELSE Goto(w, "release") /\ Fault
     /\ UNCHANGED <<target, allowed, accepted>>

FailureNotOwned(w) ==
  /\ worker[w].pc = "failed" /\ ~Owns(w, worker[w].item)
  /\ Continue(w)
  /\ UNCHANGED <<row, local, target, allowed, accepted, faults>>

RecordFailureAborts(w) ==
  /\ worker[w].pc = "failed"
  /\ Fault /\ Goto(w, "release")
  /\ UNCHANGED <<row, local, target, allowed, accepted>>

\* The failure could not be recorded either: leave a retryable row, whatever the count.
ReleaseRetryable(w) ==
  LET r == worker[w].item
  IN /\ worker[w].pc = "release"
     /\ PutRow(r, IF Owns(w, r) THEN Released(r, row[r].receipt) ELSE row[r])
     /\ Continue(w)
     /\ UNCHANGED <<local, target, allowed, accepted, faults>>

\* The process dies, or a statement outside a try block throws: the batch is abandoned,
\* claimed rows keep token and lease until the lease expires.
Crash(w) ==
  /\ worker[w].pc # "idle"
  /\ Fault
  /\ PutWorker(w, Idle)
  /\ UNCHANGED <<row, local, target, allowed, accepted>>

-----------------------------------------------------------------------------
WorkerStep(w) ==
  \/ \E r \in Rows : Claim(w, r) \/ SkipCandidate(w, r)
  \/ BatchDone(w) \/ ReadItem(w)
  \/ startDelivery(w) \/ DispatchNotOwned(w) \/ DispatchAborts(w)
  \/ \E ack \in Acks : DispatchBlocked(w, ack) \/ DispatchStarts(w, ack)
  \/ ProviderAccepts(w) \/ ProviderRejects(w)
  \/ \E id \in {"ID", "NULL_ID"} : ReplyArrives(w, id)
  \/ ReplyLost(w)
  \/ \E ack \in Acks : Finalize(w, ack) \/ RecordFailure(w, ack)
  \/ FinalizeNotOwned(w) \/ FinalizeAborts(w) \/ PersistReceipt(w)
  \/ FailureNotOwned(w) \/ RecordFailureAborts(w) \/ ReleaseRetryable(w)

Environment(r) == \/ enqueue(r) \/ LeaseExpires(r) \/ BackoffElapses(r)
                  \/ AuthorisationChanges(r) \/ TargetChanges(r)

Next == \/ \E r \in Rows : Environment(r)
        \/ \E w \in Workers, ids \in SUBSET Rows : processPending(w, ids)
        \/ \E w \in Workers : WorkerStep(w) \/ Crash(w)

Spec == Init /\ [][Next]_vars

\* The cron fires every five minutes, a live process keeps running its steps, time passes.
\* Nothing is assumed of the provider's answers or of the authorisation checks.
FairSpec ==
  /\ Spec
  /\ \A w \in Workers : WF_vars(WorkerStep(w)) /\ WF_vars(processPending(w, {}))
  /\ \A r \in Rows : /\ WF_vars(LeaseExpires(r) /\ ~Active(r))
                      /\ WF_vars(BackoffElapses(r))

-----------------------------------------------------------------------------
(* Properties.                                                             *)

Outbox == INSTANCE EmailOutbox WITH
            MustRecord <- {r \in Rows : TypeOf[r] \in Document},
            status  <- [r \in Rows |-> row[r].status],
            records <- [r \in Rows |-> local[r].ok]

\* The queue with its workers, leases, retries and crashes implements the outbox.
ImplementsOutbox == Outbox!Spec

\* Every variable keeps its shape.
TypeOK == /\ row \in [Rows -> Row]
          /\ local \in [Rows -> Local]
          /\ target \subseteq Rows /\ allowed \subseteq Rows
          /\ accepted \subseteq Rows
          /\ worker \in [Workers -> Worker]
          /\ faults \in 0..MaxFaults

\* "The queue transition and every local side effect commit together": the success records
\* of a row are written at most once, only with the row SENT, and a contract or invoice
\* delivery is SENT (FAILED) exactly when its queue row is, whatever crashes, lost commit
\* acknowledgements or second owners interleave (email-queue-service.ts:245-376, 410-498).
LocalMatchesQueue ==
  \A r \in Rows :
    /\ local[r].ok <= 1
    /\ local[r].ok = 1 => row[r].status = "SENT"
    /\ TypeOf[r] \in Document =>
         /\ row[r].status = "SENT" <=> local[r].delivery = "SENT"
         /\ row[r].status = "FAILED" <=> local[r].delivery = "FAILED"
         /\ row[r].status = "SENT" => local[r].ok = 1
         /\ local[r].ko = IF row[r].status = "FAILED" THEN 1 ELSE 0

\* A row is SENT, or carries a receipt, only if the provider accepted that very message.
SentWasAccepted ==
  \A r \in Rows : row[r].status = "SENT" \/ row[r].receipt # "NONE" => r \in accepted

\* While a worker still owns the row in its hand, the attempt count and the receipt it read
\* after the claim are those of the table: nobody else wrote the row in between
\* (the refresh of lines 139-143 is enough, no later re-read is needed).
OwnerCopyFresh ==
  \A w \in Workers :
    LET r == worker[w].item
    IN worker[w].pc \notin {"idle", "next", "read"} /\ Owns(w, r) =>
         worker[w].attempts = row[r].attempts /\ worker[w].receipt = row[r].receipt

\* A row is given up only after maxAttempts attempts, and one that is still PENDING has
\* used fewer, unless a local failure kept it alive (lines 384-408 and 499-517).
RetryBudget ==
  \A r \in Rows :
    /\ row[r].status = "FAILED" /\ row[r].reason = "NONE" => row[r].attempts >= MaxAttempts
    /\ row[r].status = "PENDING" => row[r].attempts < MaxAttempts + faults
    /\ row[r].attempts <= MaxAttempts + faults

\* SENT and FAILED are final, for the row and for the records that follow from it: a worker
\* that lost its lease writes nothing any more.
TerminalIsFinal ==
  [][\A r \in Rows : row[r].status \in {"SENT", "FAILED"} =>
        row'[r] = row[r] /\ local'[r] = local[r]]_vars

RequestStarts(w) == worker[w].pc = "dispatch" /\ worker'[w].pc = "inflight"

\* Once a receipt is stored, or the row is settled, a guarded dispatcher never calls the
\* provider for it again; an unguarded type can only do so from a worker that stalled past
\* its lease and whose claim was taken over ("later workers only retry local finalization").
NoResendAfterReceipt ==
  [][\A w \in Workers :
       LET r == worker[w].item
       IN RequestStarts(w) /\ (row[r].receipt = "ID" \/ row[r].status # "PENDING") =>
            ~IsGuarded(r) /\ row[r].token # w]_vars

\* Every queued e-mail is eventually settled: crashes, stalls and failed transactions
\* (finitely many of them) only delay it.
EventuallySettled ==
  \A r \in Rows : row[r].status = "PENDING" ~> row[r].status \in {"SENT", "FAILED"}
=============================================================================
