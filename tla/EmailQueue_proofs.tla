------------------------- MODULE EmailQueue_proofs --------------------------
(***************************************************************************)
(* Proofs about EmailQueue, for any set of rows, workers, declared types   *)
(* and any bounds.                                                         *)
(*                                                                         *)
(* Every step changes at most one row (with its local records) and at most *)
(* one worker.  The inductive invariant is therefore a conjunction of a    *)
(* predicate per row and a predicate per worker, and the proof of a step   *)
(* has two parts: what it changes satisfies its predicate again, and what  *)
(* it does not change keeps it (RowKept, WorkerKept).                      *)
(***************************************************************************)
EXTENDS EmailQueue, TLAPS

\* Shape: the type invariant, and a worker past the claim has a row in its hand.
HasItem(w) == worker[w].pc \notin {"idle", "next"} => worker[w].item \in Rows
Shape == TypeOK /\ \A w \in Workers : HasItem(w)

-----------------------------------------------------------------------------
(* The values that steps write.                                            *)

LEMMA PutRowEffect ==
  ASSUME row \in [Rows -> Row], NEW r \in Rows, NEW x \in Row, PutRow(r, x)
  PROVE  /\ row' \in [Rows -> Row] /\ row'[r] = x
         /\ \A q \in Rows : q # r => row'[q] = row[q]
  BY DEF PutRow

LEMMA PutLocalEffect ==
  ASSUME local \in [Rows -> Local], NEW r \in Rows, NEW x \in Local, PutLocal(r, x)
  PROVE  /\ local' \in [Rows -> Local] /\ local'[r] = x
         /\ \A q \in Rows : q # r => local'[q] = local[q]
  BY DEF PutLocal

LEMMA PutWorkerEffect ==
  ASSUME worker \in [Workers -> Worker], NEW w \in Workers, NEW x \in Worker, PutWorker(w, x)
  PROVE  /\ worker' \in [Workers -> Worker] /\ worker'[w] = x
         /\ \A v \in Workers : v # w => worker'[v] = worker[v]
  BY DEF PutWorker

\* The fields of a record of each type, so that later steps need not open the types.
LEMMA RowFields ==
  ASSUME NEW x \in Row
  PROVE  /\ x.attempts \in Nat /\ x.attempts + 1 \in Nat /\ x.receipt \in Receipts
         /\ x.status \in Statuses
  BY DEF Row

LEMMA LocalFields ==
  ASSUME NEW x \in Local
  PROVE  /\ x.ok \in Nat /\ x.ko \in Nat /\ x.ok + 1 \in Nat /\ x.ko + 1 \in Nat
         /\ x.delivery \in {"PENDING", "SENT", "FAILED"}
  BY DEF Local

LEMMA WorkerFields ==
  ASSUME NEW x \in Worker
  PROVE  /\ x.todo \subseteq Rows /\ x.attempts \in Nat
         /\ x.receipt \in Receipts /\ x.sent \in Receipts
  BY DEF Worker

LEMMA ReleasedValue ==
  ASSUME row \in [Rows -> Row], NEW r \in Rows, NEW s \in Receipts
  PROVE  /\ Released(r, s) \in Row
         /\ Released(r, s).status = row[r].status
         /\ Released(r, s).attempts = row[r].attempts + 1
         /\ Released(r, s).token = NoWorker
         /\ Released(r, s).receipt = s
         /\ Released(r, s).reason = row[r].reason
<1>1. row[r] \in Row /\ row[r].attempts + 1 \in Nat
  BY RowFields
<1> QED BY <1>1 DEF Released, Row, Leases

LEMMA SentValue ==
  ASSUME row \in [Rows -> Row], NEW r \in Rows, NEW s \in Receipts
  PROVE  /\ Sent(r, s) \in Row
         /\ Sent(r, s).status = "SENT"
         /\ Sent(r, s).attempts = row[r].attempts + 1
         /\ Sent(r, s).token = NoWorker /\ Sent(r, s).lease = "NONE"
         /\ Sent(r, s).receipt = s
<1>1. row[r] \in Row /\ row[r].attempts + 1 \in Nat
  BY RowFields
<1> QED BY <1>1 DEF Sent, Row, Leases, Statuses

LEMMA GivenUpValue ==
  ASSUME row \in [Rows -> Row], NEW r \in Rows
  PROVE  /\ GivenUp(r) \in Row
         /\ GivenUp(r).status = "FAILED"
         /\ GivenUp(r).attempts = row[r].attempts + 1
         /\ GivenUp(r).token = NoWorker /\ GivenUp(r).lease = "NONE"
         /\ GivenUp(r).receipt = row[r].receipt
<1>1. row[r] \in Row /\ row[r].attempts + 1 \in Nat
  BY RowFields
<1> QED BY <1>1 DEF GivenUp, Row, Leases, Statuses

LEMMA BlockedValue ==
  ASSUME row \in [Rows -> Row], NEW r \in Rows
  PROVE  /\ Blocked(r) \in Row
         /\ Blocked(r).status = "FAILED" /\ Blocked(r).reason = "BLOCKED"
         /\ Blocked(r).attempts = row[r].attempts
         /\ Blocked(r).token = NoWorker /\ Blocked(r).lease = "NONE"
         /\ Blocked(r).receipt = row[r].receipt
<1>1. row[r] \in Row
  OBVIOUS
<1> QED BY <1>1 DEF Blocked, Row, Leases, Statuses

LEMMA DeliveredValue ==
  ASSUME local \in [Rows -> Local], NEW r \in Rows
  PROVE  /\ Delivered(r) \in Local
         /\ Delivered(r).ok = local[r].ok + 1
         /\ Delivered(r).ko = local[r].ko
         /\ Delivered(r).delivery =
              IF TypeOf[r] \in Document THEN "SENT" ELSE local[r].delivery
<1>1. local[r] \in Local /\ local[r].ok + 1 \in Nat
  BY LocalFields
<1> QED BY <1>1 DEF Delivered, Local

LEMMA UndeliveredValue ==
  ASSUME local \in [Rows -> Local], NEW r \in Rows, NEW w \in Workers
  PROVE  /\ Undelivered(w, r) \in Local
         /\ Undelivered(w, r).ok = local[r].ok
         /\ TypeOf[r] \in Document /\ hasAttemptsLeft(w) =>
              Undelivered(w, r).delivery = "PENDING" /\ Undelivered(w, r).ko = local[r].ko
         /\ TypeOf[r] \in Document /\ ~hasAttemptsLeft(w) =>
              Undelivered(w, r).delivery = "FAILED" /\ Undelivered(w, r).ko = local[r].ko + 1
<1>1. local[r] \in Local /\ local[r].ko + 1 \in Nat /\ local[r].ko \in Nat
  BY LocalFields
<1> DEFINE a == [local[r] EXCEPT !.delivery = IF hasAttemptsLeft(w) THEN "PENDING" ELSE "FAILED",
                          !.ko = IF hasAttemptsLeft(w) THEN local[r].ko ELSE local[r].ko + 1]
           b == [local[r] EXCEPT !.ko = local[r].ko + 1]
<1>2. /\ a \in Local /\ a.ok = local[r].ok
      /\ hasAttemptsLeft(w) => a.delivery = "PENDING" /\ a.ko = local[r].ko
      /\ ~hasAttemptsLeft(w) => a.delivery = "FAILED" /\ a.ko = local[r].ko + 1
  BY <1>1 DEF Local
<1>3. b \in Local /\ b.ok = local[r].ok
  BY <1>1 DEF Local
<1>4. CASE TypeOf[r] \in Document
  <2>1. TypeOf[r] # "REMINDER_EMAIL"
    BY <1>4 DEF Document
  <2>2. Undelivered(w, r) = a
    BY <1>4, <2>1 DEF Undelivered
  <2> QED BY <1>2, <1>4, <2>2
<1>5. CASE TypeOf[r] \notin Document
  <2>1. Undelivered(w, r) = b \/ Undelivered(w, r) = local[r]
    BY <1>5 DEF Undelivered
  <2> QED BY <1>1, <1>3, <1>5, <2>1
<1> QED BY <1>4, <1>5

LEMMA IdleValue == Idle \in Worker /\ Idle.pc = "idle" /\ Idle.sent = "NONE"
  BY DEF Idle, Worker, PCs, Receipts

LEMMA ScanningValue ==
  ASSUME NEW todo \in SUBSET Rows
  PROVE  Scanning(todo) \in Worker /\ Scanning(todo).pc = "next" /\ Scanning(todo).sent = "NONE"
  BY DEF Scanning, Idle, Worker, PCs, Receipts

LEMMA GotoValue ==
  ASSUME NEW x \in Worker, NEW pc \in PCs
  PROVE  LET y == [x EXCEPT !.pc = pc]
         IN  /\ y \in Worker /\ y.pc = pc /\ y.item = x.item /\ y.attempts = x.attempts
             /\ y.receipt = x.receipt /\ y.sent = x.sent
  BY DEF Worker

LEMMA RefreshedValue ==
  ASSUME worker \in [Workers -> Worker], row \in [Rows -> Row], NEW w \in Workers, NEW r \in Rows
  PROVE  LET y == Refreshed(w, r)
         IN  /\ y \in Worker /\ y.item = worker[w].item
             /\ y.attempts = row[r].attempts /\ y.receipt = row[r].receipt
             /\ row[r].receipt = "ID" => y.pc = "finalize" /\ y.sent = "ID"
             /\ row[r].receipt # "ID" => y.pc = "dispatch" /\ y.sent = "NONE"
<1>1. row[r].attempts \in Nat /\ row[r].receipt \in Receipts /\ worker[w] \in Worker
  BY RowFields
<1> QED BY <1>1 DEF Refreshed, hasStoredProviderReceipt, Worker, PCs, Receipts

-----------------------------------------------------------------------------
(* The inductive invariant.                                                *)

\* A settled row belongs to nobody, and has no lease left to expire.
SettledIsFree(r) ==
  row[r].status # "PENDING" => row[r].token = NoWorker /\ row[r].lease = "NONE"

\* What ties a worker's program counter to its local variables.
InHand(w) ==
  /\ worker[w].pc \in {"finalize", "persist"} => worker[w].sent # "NONE"
  /\ worker[w].sent # "NONE" => worker[w].item \in accepted
  /\ worker[w].pc = "accepted" => worker[w].item \in accepted
  /\ worker[w].pc = "dispatch" => worker[w].receipt # "ID"

\* OwnerCopyFresh, for one worker.
Fresh(w) ==
  worker[w].pc \notin {"idle", "next", "read"} /\ Owns(w, worker[w].item) =>
    /\ worker[w].attempts = row[worker[w].item].attempts
    /\ worker[w].receipt = row[worker[w].item].receipt

\* A worker in a catch block that re-queues the row has paid for it with a fault.
Paid(w) ==
  worker[w].pc \in {"persist", "release"} /\ Owns(w, worker[w].item) =>
    row[worker[w].item].attempts + 1 < MaxAttempts + faults

\* LocalMatchesQueue, SentWasAccepted and RetryBudget, for one row.
LocalMatches(r) ==
  /\ local[r].ok <= 1
  /\ local[r].ok = 1 => row[r].status = "SENT"
  /\ TypeOf[r] \in Document =>
       /\ row[r].status = "SENT" <=> local[r].delivery = "SENT"
       /\ row[r].status = "FAILED" <=> local[r].delivery = "FAILED"
       /\ row[r].status = "SENT" => local[r].ok = 1
       /\ local[r].ko = IF row[r].status = "FAILED" THEN 1 ELSE 0
WasAccepted(r) == row[r].status = "SENT" \/ row[r].receipt # "NONE" => r \in accepted
Budget(r) ==
  /\ row[r].status = "FAILED" /\ row[r].reason = "NONE" => row[r].attempts >= MaxAttempts
  /\ row[r].status = "PENDING" => row[r].attempts < MaxAttempts + faults
  /\ row[r].attempts <= MaxAttempts + faults
  /\ row[r].status = "ABSENT" => row[r].attempts = 0

RowInv(r) == SettledIsFree(r) /\ LocalMatches(r) /\ WasAccepted(r) /\ Budget(r)
WorkerInv(w) == InHand(w) /\ Fresh(w) /\ Paid(w)

IInv == /\ Shape
        /\ \A r \in Rows : RowInv(r)
        /\ \A w \in Workers : WorkerInv(w)

\* The inductive invariant implies the invariants the model checker checks.
LEMMA IInvImplies ==
  IInv => TypeOK /\ LocalMatchesQueue /\ SentWasAccepted /\ OwnerCopyFresh /\ RetryBudget
<1> SUFFICES ASSUME IInv
             PROVE  TypeOK /\ LocalMatchesQueue /\ SentWasAccepted /\ OwnerCopyFresh /\ RetryBudget
  OBVIOUS
<1>1. TypeOK
  BY DEF IInv, Shape
<1>2. LocalMatchesQueue
  BY DEF IInv, RowInv, LocalMatches, LocalMatchesQueue
<1>3. SentWasAccepted
  BY DEF IInv, RowInv, WasAccepted, SentWasAccepted
<1>4. OwnerCopyFresh
  BY DEF IInv, WorkerInv, Fresh, OwnerCopyFresh
<1>5. RetryBudget
  BY DEF IInv, RowInv, Budget, RetryBudget
<1> QED BY <1>1, <1>2, <1>3, <1>4, <1>5

LEMMA InitIInv == Init => IInv
<1> SUFFICES ASSUME Init PROVE IInv
  OBVIOUS
<1>1. Shape
  <2>1. AbsentRow \in Row
    BY DEF AbsentRow, Row, Statuses, Leases, Receipts
  <2>2. [delivery |-> "PENDING", ok |-> 0, ko |-> 0] \in Local
    BY DEF Local
  <2> QED BY <2>1, <2>2, IdleValue, BoundAssumption DEF Init, Shape, TypeOK, HasItem
<1>2. ASSUME NEW r \in Rows PROVE RowInv(r)
  BY BoundAssumption DEF Init, AbsentRow, RowInv, SettledIsFree, LocalMatches, WasAccepted, Budget
<1>3. ASSUME NEW w \in Workers PROVE WorkerInv(w)
  BY DEF Init, Idle, WorkerInv, InHand, Fresh, Paid
<1> QED BY <1>1, <1>2, <1>3 DEF IInv

-----------------------------------------------------------------------------
(* What a step does not change keeps its predicate.                        *)

LEMMA RowKept ==
  ASSUME NEW r \in Rows, Shape, Shape', RowInv(r), row'[r] = row[r], local'[r] = local[r],
         accepted \subseteq accepted', faults <= faults'
  PROVE  RowInv(r)'
<1>1. row[r].attempts \in Nat /\ faults \in Nat /\ faults' \in Nat
  BY RowFields, BoundAssumption DEF Shape, TypeOK
<1>2. SettledIsFree(r)' /\ LocalMatches(r)' /\ WasAccepted(r)'
  BY DEF RowInv, SettledIsFree, LocalMatches, WasAccepted
<1>3. Budget(r)'
  BY <1>1, BoundAssumption DEF RowInv, Budget
<1> QED BY <1>2, <1>3 DEF RowInv

\* The part of a row a claim depends on.
SameClaim(r) == /\ row'[r].status = row[r].status /\ row'[r].token = row[r].token
                /\ row'[r].attempts = row[r].attempts /\ row'[r].receipt = row[r].receipt

LEMMA WorkerKept ==
  ASSUME NEW w \in Workers, Shape, Shape', WorkerInv(w), worker'[w] = worker[w],
         accepted \subseteq accepted', faults <= faults',
         \A r \in Rows : SameClaim(r) \/ row'[r].token # w \/ row'[r].status # "PENDING"
  PROVE  WorkerInv(w)'
<1>1. InHand(w)'
  BY DEF WorkerInv, InHand
<1>2. CASE worker[w].pc \in {"idle", "next"}
  BY <1>1, <1>2 DEF WorkerInv, Fresh, Paid
<1>3. CASE worker[w].pc \notin {"idle", "next"}
  <2> DEFINE r == worker[w].item
  <2>1. r \in Rows
    BY <1>3 DEF Shape, HasItem
  <2>2. row[r].attempts \in Nat /\ faults \in Nat /\ faults' \in Nat
    BY <2>1, RowFields, BoundAssumption DEF Shape, TypeOK
  <2>3. Owns(w, r)' => Owns(w, r) /\ SameClaim(r)
    BY <2>1 DEF Owns, SameClaim
  <2>4. Fresh(w)'
    BY <2>3 DEF WorkerInv, Fresh, SameClaim, Owns
  <2>5. Paid(w)'
    BY <2>2, <2>3, BoundAssumption DEF WorkerInv, Paid, SameClaim, Owns
  <2> QED BY <1>1, <2>4, <2>5 DEF WorkerInv
<1> QED BY <1>2, <1>3

\* A step of worker w that writes at most the row r.
LEMMA StepOfWorker ==
  ASSUME IInv, Shape', NEW w \in Workers, NEW r \in Rows,
         \A q \in Rows : q # r => row'[q] = row[q] /\ local'[q] = local[q],
         \A v \in Workers : v # w => worker'[v] = worker[v],
         accepted \subseteq accepted', faults <= faults',
         row'[r] = row[r] \/ row'[r].token \in {w, NoWorker},
         RowInv(r)', WorkerInv(w)'
  PROVE  IInv'
<1>1. ASSUME NEW q \in Rows PROVE RowInv(q)'
  BY RowKept DEF IInv
<1>2. ASSUME NEW v \in Workers PROVE WorkerInv(v)'
  <2>1. CASE v # w
    <3>1. \A q \in Rows : SameClaim(q) \/ row'[q].token # v
      BY <2>1, NullAssumption DEF SameClaim
    <3> QED BY <2>1, <3>1, WorkerKept DEF IInv
  <2> QED BY <2>1
<1> QED BY <1>1, <1>2 DEF IInv

\* A step of worker w that writes no row.
LEMMA MoveOfWorker ==
  ASSUME IInv, Shape', NEW w \in Workers, UNCHANGED <<row, local>>,
         \A v \in Workers : v # w => worker'[v] = worker[v],
         accepted \subseteq accepted', faults <= faults', WorkerInv(w)'
  PROVE  IInv'
<1>1. ASSUME NEW q \in Rows PROVE RowInv(q)'
  BY RowKept DEF IInv
<1>2. ASSUME NEW v \in Workers PROVE WorkerInv(v)'
  <2>1. CASE v # w
    <3>1. \A q \in Rows : SameClaim(q)
      BY DEF SameClaim
    <3> QED BY <2>1, <3>1, WorkerKept DEF IInv
  <2> QED BY <2>1
<1> QED BY <1>1, <1>2 DEF IInv

-----------------------------------------------------------------------------
(* How the moves of a worker change its record.                            *)

LEMMA PutWorkerShape ==
  ASSUME Shape, NEW w \in Workers, NEW x \in Worker, PutWorker(w, x),
         x.pc \notin {"idle", "next"} => x.item \in Rows
  PROVE  /\ worker' \in [Workers -> Worker] /\ worker'[w] = x
         /\ \A v \in Workers : v # w => worker'[v] = worker[v]
         /\ \A v \in Workers : HasItem(v)'
<1>1. /\ worker' \in [Workers -> Worker] /\ worker'[w] = x
      /\ \A v \in Workers : v # w => worker'[v] = worker[v]
  BY PutWorkerEffect DEF Shape, TypeOK
<1>2. ASSUME NEW v \in Workers PROVE HasItem(v)'
  BY <1>1 DEF Shape, HasItem
<1> QED BY <1>1, <1>2

LEMMA ContinueEffect ==
  ASSUME Shape, NEW w \in Workers, Continue(w)
  PROVE  /\ worker' \in [Workers -> Worker]
         /\ worker'[w].pc = "next" /\ worker'[w].sent = "NONE"
         /\ \A v \in Workers : v # w => worker'[v] = worker[v]
         /\ \A v \in Workers : HasItem(v)'
<1> DEFINE x == Scanning(worker[w].todo)
<1>1. x \in Worker /\ x.pc = "next" /\ x.sent = "NONE"
  BY ScanningValue, WorkerFields DEF Shape, TypeOK
<1>2. PutWorker(w, x)
  BY DEF Continue
<1> HIDE DEF x
<1> QED BY <1>1, <1>2, PutWorkerShape

LEMMA GotoEffect ==
  ASSUME Shape, NEW w \in Workers, NEW pc \in PCs, Goto(w, pc), worker[w].item \in Rows
  PROVE  /\ worker' \in [Workers -> Worker]
         /\ worker'[w].pc = pc /\ worker'[w].item = worker[w].item
         /\ worker'[w].attempts = worker[w].attempts /\ worker'[w].receipt = worker[w].receipt
         /\ worker'[w].sent = worker[w].sent
         /\ \A v \in Workers : v # w => worker'[v] = worker[v]
         /\ \A v \in Workers : HasItem(v)'
<1> DEFINE x == [worker[w] EXCEPT !.pc = pc]
<1>1. /\ x \in Worker /\ x.pc = pc /\ x.item = worker[w].item /\ x.attempts = worker[w].attempts
      /\ x.receipt = worker[w].receipt /\ x.sent = worker[w].sent
  BY GotoValue DEF Shape, TypeOK
<1>2. PutWorker(w, x)
  BY DEF Goto
<1> HIDE DEF x
<1> QED BY <1>1, <1>2, PutWorkerShape

LEMMA IdleEffect ==
  ASSUME Shape, NEW w \in Workers, PutWorker(w, Idle)
  PROVE  /\ worker' \in [Workers -> Worker]
         /\ worker'[w].pc = "idle" /\ worker'[w].sent = "NONE"
         /\ \A v \in Workers : v # w => worker'[v] = worker[v]
         /\ \A v \in Workers : HasItem(v)'
  BY IdleValue, PutWorkerShape

LEMMA InFlightEffect ==
  ASSUME Shape, NEW w \in Workers, InFlight(w), worker[w].item \in Rows
  PROVE  /\ worker' \in [Workers -> Worker]
         /\ worker'[w].pc = "inflight" /\ worker'[w].item = worker[w].item
         /\ worker'[w].attempts = worker[w].attempts /\ worker'[w].receipt = worker[w].receipt
         /\ worker'[w].sent = worker[w].sent
         /\ \A v \in Workers : v # w => worker'[v] = worker[v]
         /\ \A v \in Workers : HasItem(v)'
<1> DEFINE x == [worker[w] EXCEPT !.pc = "inflight", !.request = "STARTED"]
<1>1. /\ x \in Worker /\ x.pc = "inflight" /\ x.item = worker[w].item
      /\ x.attempts = worker[w].attempts /\ x.receipt = worker[w].receipt /\ x.sent = worker[w].sent
  BY DEF Shape, TypeOK, Worker, PCs
<1>2. PutWorker(w, x)
  BY DEF InFlight
<1> HIDE DEF x
<1> QED BY <1>1, <1>2, PutWorkerShape

LEMMA FaultEffect ==
  ASSUME Shape, Fault
  PROVE  faults' \in 0..MaxFaults /\ faults' = faults + 1 /\ faults <= faults'
  BY BoundAssumption DEF Shape, TypeOK, Fault

\* A worker that has nothing in hand, or has just claimed.
LEMMA QuietWorker ==
  ASSUME NEW w \in Workers, worker'[w].pc \in {"idle", "next", "read"}, worker'[w].sent = "NONE"
  PROVE  WorkerInv(w)'
  BY DEF WorkerInv, InHand, Fresh, Paid

LEMMA FaultsNat == ASSUME Shape PROVE faults \in Nat /\ faults <= faults
  BY BoundAssumption DEF Shape, TypeOK

-----------------------------------------------------------------------------
(* One lemma per group of actions.                                         *)

\* A step that only writes the row r, and not as a claim.
LEMMA StepOfEnvironment ==
  ASSUME IInv, Shape', NEW r \in Rows, UNCHANGED <<local, accepted, worker>>,
         \A q \in Rows : q # r => row'[q] = row[q],
         SameClaim(r) \/ row'[r].token = NoWorker, faults <= faults', RowInv(r)'
  PROVE  IInv'
<1>1. ASSUME NEW q \in Rows PROVE RowInv(q)'
  BY RowKept DEF IInv
<1>2. ASSUME NEW v \in Workers PROVE WorkerInv(v)'
  <2>1. \A q \in Rows : SameClaim(q) \/ row'[q].token # v
    BY NullAssumption DEF SameClaim
  <2> QED BY <2>1, WorkerKept DEF IInv
<1> QED BY <1>1, <1>2 DEF IInv

LEMMA enqueueStep == ASSUME IInv, NEW r \in Rows, enqueue(r) PROVE IInv'
<1>1. row[r] \in Row /\ row \in [Rows -> Row] /\ faults \in Nat /\ RowInv(r) /\ Shape
  BY FaultsNat DEF IInv, Shape, TypeOK
<1> DEFINE x == [row[r] EXCEPT !.status = "PENDING"]
<1>2. /\ x \in Row /\ x.status = "PENDING" /\ x.token = row[r].token
      /\ x.attempts = row[r].attempts /\ x.receipt = row[r].receipt
  BY <1>1 DEF Row, Statuses
<1>3. /\ PutRow(r, x) /\ row[r].status = "ABSENT"
      /\ UNCHANGED <<local, target, allowed, accepted, worker, faults>>
  BY DEF enqueue
<1> HIDE DEF x
<1>4. row' \in [Rows -> Row] /\ row'[r] = x /\ \A q \in Rows : q # r => row'[q] = row[q]
  BY <1>1, <1>2, <1>3, PutRowEffect
<1>5. Shape'
  BY <1>1, <1>3, <1>4 DEF Shape, TypeOK, HasItem
<1>6. row[r].token = NoWorker
  BY <1>1, <1>3 DEF RowInv, SettledIsFree
<1>7. RowInv(r)'
  <2>1. SettledIsFree(r)' /\ WasAccepted(r)'
    BY <1>1, <1>2, <1>3, <1>4 DEF RowInv, SettledIsFree, WasAccepted
  <2>2. LocalMatches(r)'
    BY <1>1, <1>2, <1>3, <1>4 DEF RowInv, LocalMatches
  <2>3. Budget(r)'
    BY <1>1, <1>2, <1>3, <1>4, BoundAssumption DEF RowInv, Budget
  <2> QED BY <2>1, <2>2, <2>3 DEF RowInv
<1> QED BY <1>1, <1>2, <1>3, <1>4, <1>5, <1>6, <1>7, StepOfEnvironment

\* The passage of time: a field no claim depends on.
LEMMA TimeStep ==
  ASSUME IInv, NEW r \in Rows, LeaseExpires(r) \/ BackoffElapses(r) PROVE IInv'
<1>1. row[r] \in Row /\ row \in [Rows -> Row] /\ faults \in Nat /\ RowInv(r) /\ Shape
  BY FaultsNat DEF IInv, Shape, TypeOK
<1> DEFINE l == [row[r] EXCEPT !.lease = "EXPIRED"]
           b == [row[r] EXCEPT !.next = "DUE"]
<1>2. ASSUME NEW x, x = l \/ x = b
      PROVE  /\ x \in Row /\ x.status = row[r].status /\ x.token = row[r].token
             /\ x.attempts = row[r].attempts /\ x.receipt = row[r].receipt
             /\ x.reason = row[r].reason
  BY <1>1, <1>2 DEF Row, Leases
<1>3. PICK x \in {l, b} : PutRow(r, x)
  BY DEF LeaseExpires, BackoffElapses
<1>4. /\ UNCHANGED <<local, target, allowed, accepted, worker>>
      /\ faults' \in 0..MaxFaults /\ faults <= faults'
  BY <1>1, FaultEffect, FaultsNat DEF LeaseExpires, BackoffElapses, Shape, TypeOK
<1> HIDE DEF l, b
<1>5. /\ x \in Row /\ x.status = row[r].status /\ x.token = row[r].token
      /\ x.attempts = row[r].attempts /\ x.receipt = row[r].receipt
      /\ x.reason = row[r].reason
  BY <1>2, <1>3
<1>6. row' \in [Rows -> Row] /\ row'[r] = x /\ \A q \in Rows : q # r => row'[q] = row[q]
  BY <1>1, <1>3, <1>5, PutRowEffect
<1>7. Shape'
  BY <1>1, <1>4, <1>6 DEF Shape, TypeOK, HasItem
<1>8. RowInv(r)'
  <2>0. row[r].status = "PENDING"
    BY <1>1 DEF LeaseExpires, BackoffElapses, RowInv, SettledIsFree
  <2>1. SettledIsFree(r)' /\ WasAccepted(r)' /\ LocalMatches(r)'
    BY <1>1, <1>4, <1>5, <1>6, <2>0 DEF RowInv, SettledIsFree, WasAccepted, LocalMatches
  <2>2. row[r].attempts \in Nat /\ faults' \in Nat
    BY <1>1, <1>4, RowFields, BoundAssumption
  <2>3. Budget(r)'
    BY <1>1, <1>4, <1>5, <1>6, <2>2, BoundAssumption DEF RowInv, Budget
  <2> QED BY <2>1, <2>3 DEF RowInv
<1>9. SameClaim(r)
  BY <1>5, <1>6 DEF SameClaim
<1> QED BY <1>1, <1>4, <1>6, <1>7, <1>8, <1>9, StepOfEnvironment

LEMMA EnvironmentStep == ASSUME IInv, NEW r \in Rows, Environment(r) PROVE IInv'
<1>1. CASE enqueue(r)
  BY <1>1, enqueueStep
<1>2. CASE LeaseExpires(r) \/ BackoffElapses(r)
  BY <1>2, TimeStep
<1>3. CASE AuthorisationChanges(r) \/ TargetChanges(r)
  <2>1. UNCHANGED <<row, local, accepted, worker, faults>> /\ target' \subseteq Rows /\ allowed' \subseteq Rows
    BY <1>3 DEF AuthorisationChanges, TargetChanges, IInv, Shape, TypeOK
  <2>2. Shape'
    BY <2>1 DEF IInv, Shape, TypeOK, HasItem
  <2>3. faults <= faults'
    BY <2>1, FaultsNat DEF IInv
  <2>4. SameClaim(r)
    BY <2>1 DEF SameClaim
  <2>5. RowInv(r)'
    BY <2>1, <2>2, <2>3, RowKept DEF IInv
  <2> QED BY <2>1, <2>2, <2>3, <2>4, <2>5, StepOfEnvironment
<1> QED BY <1>1, <1>2, <1>3 DEF Environment

\* The counter of faults after a step that leaves it alone or adds one.
LEMMA FaultsKept ==
  ASSUME Shape, Fault \/ UNCHANGED faults
  PROVE  faults' \in 0..MaxFaults /\ faults <= faults' /\ faults \in Nat /\ faults' \in Nat
  BY BoundAssumption DEF Shape, TypeOK, Fault

\* A worker without a row in hand, or one that drops it, moves on.
LEMMA QuietMove ==
  ASSUME IInv, NEW w \in Workers, NEW x \in Worker, x.pc \in {"idle", "next"}, x.sent = "NONE",
         PutWorker(w, x), UNCHANGED <<row, local, target, allowed, accepted>>,
         Fault \/ UNCHANGED faults
  PROVE  IInv'
<1>1. Shape /\ faults' \in 0..MaxFaults /\ faults <= faults'
  BY FaultsKept DEF IInv
<1>2. /\ worker' \in [Workers -> Worker] /\ worker'[w] = x
      /\ \A v \in Workers : v # w => worker'[v] = worker[v]
      /\ \A v \in Workers : HasItem(v)'
  BY <1>1, PutWorkerShape
<1>3. Shape'
  BY <1>1, <1>2 DEF Shape, TypeOK
<1>4. WorkerInv(w)'
  BY <1>2, QuietWorker
<1> QED BY <1>1, <1>2, <1>3, <1>4, MoveOfWorker

LEMMA QuietSteps ==
  ASSUME IInv, NEW w \in Workers,
         \/ \E ids \in SUBSET Rows : processPending(w, ids)
         \/ \E r \in Rows : SkipCandidate(w, r)
         \/ BatchDone(w) \/ DispatchNotOwned(w) \/ FinalizeNotOwned(w) \/ FailureNotOwned(w)
         \/ Crash(w)
  PROVE  IInv'
<1>1. worker[w].todo \in SUBSET Rows
  BY WorkerFields DEF IInv, Shape, TypeOK
<1>2. CASE \E ids \in SUBSET Rows : processPending(w, ids)
  <2>1. PICK ids \in SUBSET Rows : processPending(w, ids)
    BY <1>2
  <2>2. Candidates(ids) \in SUBSET Rows
    BY DEF Candidates
  <2> QED BY <2>1, <2>2, ScanningValue, QuietMove DEF processPending
<1>3. CASE \E r \in Rows : SkipCandidate(w, r)
  <2>1. PICK r \in Rows : SkipCandidate(w, r)
    BY <1>3
  <2>2. worker[w].todo \ {r} \in SUBSET Rows
    BY <1>1
  <2> QED BY <2>1, <2>2, ScanningValue, QuietMove DEF SkipCandidate
<1>4. CASE BatchDone(w) \/ Crash(w)
  BY <1>4, IdleValue, QuietMove DEF BatchDone, Crash
<1>5. CASE DispatchNotOwned(w) \/ FinalizeNotOwned(w) \/ FailureNotOwned(w)
  BY <1>1, <1>5, ScanningValue, QuietMove
     DEF DispatchNotOwned, FinalizeNotOwned, FailureNotOwned, Continue
<1> QED BY <1>2, <1>3, <1>4, <1>5

\* A claim: the row passes to w, which holds no copy of it yet.
LEMMA ClaimStep == ASSUME IInv, NEW w \in Workers, NEW r \in Rows, Claim(w, r) PROVE IInv'
<1>1. row[r] \in Row /\ row \in [Rows -> Row] /\ faults \in Nat /\ RowInv(r) /\ Shape
  BY FaultsNat DEF IInv, Shape, TypeOK
<1> DEFINE x == [row[r] EXCEPT !.token = w, !.lease = "LIVE"]
           y == [Scanning(worker[w].todo \ {r}) EXCEPT !.pc = "read", !.item = r]
<1>2. /\ x \in Row /\ x.status = row[r].status /\ x.token = w
      /\ x.attempts = row[r].attempts /\ x.receipt = row[r].receipt /\ x.reason = row[r].reason
  BY <1>1 DEF Row, Leases
<1>3. worker[w].todo \ {r} \in SUBSET Rows
  BY <1>1, WorkerFields DEF Shape, TypeOK
<1>4. y \in Worker /\ y.pc = "read" /\ y.item = r /\ y.sent = "NONE"
  BY <1>3 DEF Scanning, Idle, Worker, PCs, Receipts
<1>5. /\ PutRow(r, x) /\ PutWorker(w, y) /\ row[r].status = "PENDING"
      /\ UNCHANGED <<local, target, allowed, accepted, faults>>
  BY DEF Claim, Claimable
<1> HIDE DEF x, y
<1>6. row' \in [Rows -> Row] /\ row'[r] = x /\ \A q \in Rows : q # r => row'[q] = row[q]
  BY <1>1, <1>2, <1>5, PutRowEffect
<1>7. /\ worker' \in [Workers -> Worker] /\ worker'[w] = y
      /\ \A v \in Workers : v # w => worker'[v] = worker[v]
      /\ \A v \in Workers : HasItem(v)'
  BY <1>1, <1>4, <1>5, PutWorkerShape
<1>8. Shape'
  BY <1>1, <1>5, <1>6, <1>7 DEF Shape, TypeOK
<1>9. RowInv(r)'
  BY <1>1, <1>2, <1>5, <1>6 DEF RowInv, SettledIsFree, WasAccepted, LocalMatches, Budget
<1>10. WorkerInv(w)'
  BY <1>4, <1>7, QuietWorker
<1> QED BY <1>1, <1>2, <1>5, <1>6, <1>7, <1>8, <1>9, <1>10, StepOfWorker

\* The refresh after the claim: the worker's copy is that of the table, and a receipt it
\* finds there stands for an accepted message.
LEMMA ReadItemStep == ASSUME IInv, NEW w \in Workers, ReadItem(w) PROVE IInv'
<1> DEFINE r == worker[w].item
           y == Refreshed(w, r)
<1>1. Shape /\ worker \in [Workers -> Worker] /\ row \in [Rows -> Row] /\ faults <= faults
  BY FaultsNat DEF IInv, Shape, TypeOK
<1>2. /\ worker[w].pc = "read" /\ UNCHANGED <<row, local, target, allowed, accepted, faults>>
      /\ PutWorker(w, IF Owns(w, r) THEN y ELSE Idle)
  BY DEF ReadItem
<1>3. r \in Rows
  BY <1>1, <1>2 DEF Shape, HasItem
<1>4. RowInv(r)
  BY <1>3 DEF IInv
<1>5. CASE ~Owns(w, r)
  BY <1>2, <1>5, IdleValue, QuietMove
<1>6. CASE Owns(w, r)
  <2>1. /\ y \in Worker /\ y.item = r
        /\ y.attempts = row[r].attempts /\ y.receipt = row[r].receipt
        /\ row[r].receipt = "ID" => y.pc = "finalize" /\ y.sent = "ID"
        /\ row[r].receipt # "ID" => y.pc = "dispatch" /\ y.sent = "NONE"
    BY <1>1, <1>3, RefreshedValue
  <2>2. PutWorker(w, y)
    BY <1>2, <1>6
  <2>3. row[r].receipt # "NONE" => r \in accepted
    BY <1>4 DEF RowInv, WasAccepted
  <2> HIDE DEF y
  <2>4. /\ worker' \in [Workers -> Worker] /\ worker'[w] = y
        /\ \A v \in Workers : v # w => worker'[v] = worker[v]
        /\ \A v \in Workers : HasItem(v)'
    BY <1>1, <1>3, <2>1, <2>2, PutWorkerShape
  <2>5. Shape'
    BY <1>1, <1>2, <2>4 DEF Shape, TypeOK
  <2>6. WorkerInv(w)'
    BY <1>2, <1>3, <2>1, <2>3, <2>4 DEF WorkerInv, InHand, Fresh, Paid
  <2> QED BY <1>1, <1>2, <2>4, <2>5, <2>6, MoveOfWorker
<1> QED BY <1>5, <1>6

\* A worker with a fresh copy moves on and writes no row; p is where it goes.
LEMMA BusyMove ==
  ASSUME IInv, NEW w \in Workers, NEW p \in PCs \ {"idle", "next", "read", "dispatch"},
         worker[w].pc \notin {"idle", "next", "read"},
         worker' \in [Workers -> Worker], worker'[w].pc = p,
         worker'[w].item = worker[w].item, worker'[w].attempts = worker[w].attempts,
         worker'[w].receipt = worker[w].receipt,
         \A v \in Workers : v # w => worker'[v] = worker[v],
         \A v \in Workers : HasItem(v)',
         UNCHANGED <<row, local, target, allowed>>,
         accepted \subseteq accepted', accepted' \subseteq Rows,
         Fault \/ UNCHANGED faults, p \in {"persist", "release"} => Fault,
         p \in {"finalize", "persist"} => worker'[w].sent # "NONE",
         p = "accepted" \/ worker'[w].sent # "NONE" => worker[w].item \in accepted'
  PROVE  IInv'
<1> DEFINE r == worker[w].item
<1>1. /\ Shape /\ faults' \in 0..MaxFaults /\ faults <= faults'
      /\ faults \in Nat /\ faults' \in Nat
  BY FaultsKept DEF IInv
<1>2. r \in Rows
  BY <1>1 DEF Shape, HasItem
<1>3. RowInv(r) /\ WorkerInv(w) /\ row[r].attempts \in Nat
  BY <1>1, <1>2, RowFields DEF IInv, Shape, TypeOK
<1>4. Shape'
  BY <1>1 DEF Shape, TypeOK
<1>5. InHand(w)'
  BY DEF InHand
<1>6. Fresh(w)'
  BY <1>3 DEF WorkerInv, Fresh, Owns
<1>7. Paid(w)'
  <2> SUFFICES ASSUME p \in {"persist", "release"}, Owns(w, r)
               PROVE  row[r].attempts + 1 < MaxAttempts + faults'
    BY DEF Paid, Owns
  <2>1. faults' = faults + 1
    BY <1>1, FaultEffect
  <2>2. row[r].attempts < MaxAttempts + faults
    BY <1>3 DEF RowInv, Budget, Owns
  <2> QED BY <1>1, <1>3, <2>1, <2>2, BoundAssumption
<1>8. WorkerInv(w)'
  BY <1>5, <1>6, <1>7 DEF WorkerInv
<1> QED BY <1>1, <1>4, <1>8, MoveOfWorker

\* The same when only the program counter changes.
LEMMA BusyGoto ==
  ASSUME IInv, NEW w \in Workers, NEW p \in {"accepted", "failed", "persist", "release"}, Goto(w, p),
         worker[w].pc \notin {"idle", "next", "read"},
         UNCHANGED <<row, local, target, allowed>>,
         accepted \subseteq accepted', accepted' \subseteq Rows,
         Fault \/ UNCHANGED faults, p \in {"persist", "release"} => Fault,
         p = "persist" => worker[w].pc = "finalize",
         p = "accepted" => worker[w].item \in accepted'
  PROVE  IInv'
<1>1. Shape /\ WorkerInv(w) /\ p \in PCs
  BY DEF IInv, PCs
<1>2. worker[w].item \in Rows
  BY <1>1 DEF Shape, HasItem
<1>3. /\ worker' \in [Workers -> Worker]
      /\ worker'[w].pc = p /\ worker'[w].item = worker[w].item
      /\ worker'[w].attempts = worker[w].attempts /\ worker'[w].receipt = worker[w].receipt
      /\ worker'[w].sent = worker[w].sent
      /\ \A v \in Workers : v # w => worker'[v] = worker[v]
      /\ \A v \in Workers : HasItem(v)'
  BY <1>1, <1>2, GotoEffect
<1>4. /\ p = "persist" => worker[w].sent # "NONE"
      /\ worker[w].sent # "NONE" => worker[w].item \in accepted
  BY <1>1 DEF WorkerInv, InHand
<1> QED BY <1>1, <1>3, <1>4, BusyMove DEF PCs

\* sent is set no earlier than the provider's reply.
LEMMA DispatchSteps ==
  ASSUME IInv, NEW w \in Workers,
         startDelivery(w) \/ DispatchAborts(w) \/ \E ack \in Acks : DispatchStarts(w, ack)
  PROVE  IInv'
<1>1. Shape /\ WorkerInv(w) /\ accepted \subseteq Rows
  BY DEF IInv, Shape, TypeOK
<1>2. /\ worker[w].pc = "dispatch" /\ UNCHANGED <<row, local, target, allowed, accepted>>
      /\ Fault \/ UNCHANGED faults
      /\ InFlight(w) \/ Goto(w, "failed")
  BY DEF startDelivery, DispatchAborts, DispatchStarts
<1>3. worker[w].item \in Rows
  BY <1>1, <1>2 DEF Shape, HasItem
<1>4. worker[w].sent # "NONE" => worker[w].item \in accepted
  BY <1>1 DEF WorkerInv, InHand
<1>5. CASE InFlight(w)
  <2>1. /\ worker' \in [Workers -> Worker]
        /\ worker'[w].pc = "inflight" /\ worker'[w].item = worker[w].item
        /\ worker'[w].attempts = worker[w].attempts /\ worker'[w].receipt = worker[w].receipt
        /\ worker'[w].sent = worker[w].sent
        /\ \A v \in Workers : v # w => worker'[v] = worker[v]
        /\ \A v \in Workers : HasItem(v)'
    BY <1>1, <1>3, <1>5, InFlightEffect
  <2>2. "inflight" \in PCs \ {"idle", "next", "read", "dispatch"}
    BY DEF PCs
  <2> QED BY <1>1, <1>2, <1>4, <2>1, <2>2, BusyMove
<1>6. CASE Goto(w, "failed")
  BY <1>1, <1>2, <1>6, BusyGoto
<1> QED BY <1>2, <1>5, <1>6

LEMMA ProviderSteps ==
  ASSUME IInv, NEW w \in Workers, ProviderAccepts(w) \/ ProviderRejects(w) \/ ReplyLost(w)
  PROVE  IInv'
<1>1. Shape /\ accepted \subseteq Rows
  BY DEF IInv, Shape, TypeOK
<1>2. CASE ProviderAccepts(w)
  <2>1. worker[w].item \in Rows
    BY <1>1, <1>2 DEF ProviderAccepts, Shape, HasItem
  <2>2. accepted \subseteq accepted' /\ accepted' \subseteq Rows /\ worker[w].item \in accepted'
    BY <1>1, <1>2, <2>1 DEF ProviderAccepts
  <2> QED BY <1>2, <2>2, BusyGoto DEF ProviderAccepts
<1>3. CASE ProviderRejects(w)
  BY <1>1, <1>3, BusyGoto DEF ProviderRejects
<1>4. CASE ReplyLost(w)
  BY <1>1, <1>4, BusyGoto DEF ReplyLost
<1> QED BY <1>2, <1>3, <1>4

LEMMA ReplyArrivesStep ==
  ASSUME IInv, NEW w \in Workers, NEW id \in {"ID", "NULL_ID"}, ReplyArrives(w, id) PROVE IInv'
<1>1. Shape /\ worker[w] \in Worker /\ WorkerInv(w) /\ accepted \subseteq Rows
  BY DEF IInv, Shape, TypeOK
<1> DEFINE x == [worker[w] EXCEPT !.pc = "finalize", !.sent = id]
<1>2. /\ x \in Worker /\ x.pc = "finalize" /\ x.item = worker[w].item /\ x.sent = id
      /\ x.attempts = worker[w].attempts /\ x.receipt = worker[w].receipt
  BY <1>1 DEF Worker, PCs, Receipts
<1>3. /\ PutWorker(w, x) /\ worker[w].pc = "accepted"
      /\ UNCHANGED <<row, local, target, allowed, accepted, faults>>
  BY DEF ReplyArrives
<1> HIDE DEF x
<1>4. worker[w].item \in Rows /\ worker[w].item \in accepted
  BY <1>1, <1>3 DEF Shape, HasItem, WorkerInv, InHand
<1>5. /\ worker' \in [Workers -> Worker] /\ worker'[w] = x
      /\ \A v \in Workers : v # w => worker'[v] = worker[v]
      /\ \A v \in Workers : HasItem(v)'
  BY <1>1, <1>2, <1>3, <1>4, PutWorkerShape
<1>6. "finalize" \in PCs \ {"idle", "next", "read", "dispatch"}
  BY DEF PCs
<1> QED BY <1>1, <1>2, <1>3, <1>4, <1>5, <1>6, BusyMove

LEMMA AbortSteps ==
  ASSUME IInv, NEW w \in Workers, FinalizeAborts(w) \/ RecordFailureAborts(w)
  PROVE  IInv'
<1>1. accepted \subseteq Rows
  BY DEF IInv, Shape, TypeOK
<1> QED BY <1>1, BusyGoto DEF FinalizeAborts, RecordFailureAborts

\* The owner of a row writes it for the last time in this attempt and gives it back: nobody
\* owns it afterwards, whatever the worker does next.
LEMMA WriteStep ==
  ASSUME IInv, NEW w \in Workers, NEW r \in Rows, r = worker[w].item, NEW x \in Row,
         worker[w].pc \notin {"idle", "next", "read"},
         PutRow(r, x), x.token = NoWorker,
         local' \in [Rows -> Local], \A q \in Rows : q # r => local'[q] = local[q],
         UNCHANGED <<target, allowed, accepted>>, Fault \/ UNCHANGED faults,
         Continue(w) \/ \E p \in {"failed", "persist", "release"} :
                           Goto(w, p) /\ (p = "persist" => worker[w].pc = "finalize"),
         RowInv(r)'
  PROVE  IInv'
<1>1. /\ Shape /\ faults' \in 0..MaxFaults /\ faults <= faults' /\ WorkerInv(w)
      /\ row \in [Rows -> Row]
  BY FaultsKept DEF IInv, Shape, TypeOK
<1>3. row' \in [Rows -> Row] /\ row'[r] = x /\ \A q \in Rows : q # r => row'[q] = row[q]
  BY <1>1, PutRowEffect
<1>4. ASSUME worker' \in [Workers -> Worker], \A v \in Workers : v # w => worker'[v] = worker[v],
             \A v \in Workers : HasItem(v)', WorkerInv(w)'
      PROVE  IInv'
  <2>1. Shape'
    BY <1>1, <1>3, <1>4 DEF Shape, TypeOK
  <2> QED BY <1>1, <1>3, <1>4, <2>1, StepOfWorker
<1>5. CASE Continue(w)
  BY <1>1, <1>4, <1>5, ContinueEffect, QuietWorker
<1>6. CASE \E p \in {"failed", "persist", "release"} :
              Goto(w, p) /\ (p = "persist" => worker[w].pc = "finalize")
  <2>1. PICK p \in {"failed", "persist", "release"} :
              Goto(w, p) /\ (p = "persist" => worker[w].pc = "finalize")
    BY <1>6
  <2>2. /\ worker' \in [Workers -> Worker]
        /\ worker'[w].pc = p /\ worker'[w].item = worker[w].item
        /\ worker'[w].attempts = worker[w].attempts /\ worker'[w].receipt = worker[w].receipt
        /\ worker'[w].sent = worker[w].sent
        /\ \A v \in Workers : v # w => worker'[v] = worker[v]
        /\ \A v \in Workers : HasItem(v)'
    BY <1>1, <2>1, GotoEffect DEF PCs
  <2>3. InHand(w)'
    BY <1>1, <2>1, <2>2 DEF WorkerInv, InHand
  <2>4. ~Owns(w, r)'
    BY <1>3, NullAssumption DEF Owns
  <2>5. Fresh(w)' /\ Paid(w)'
    BY <2>2, <2>4 DEF Fresh, Paid, Owns
  <2> QED BY <1>4, <2>2, <2>3, <2>5 DEF WorkerInv
<1> QED BY <1>5, <1>6

\* What the actions below start from.
LEMMA Owner ==
  ASSUME IInv, NEW w \in Workers, worker[w].pc \notin {"idle", "next", "read"}
  PROVE  LET r == worker[w].item
         IN  /\ r \in Rows /\ row \in [Rows -> Row] /\ local \in [Rows -> Local]
             /\ Shape /\ RowInv(r) /\ WorkerInv(w)
             /\ row[r].attempts \in Nat /\ local[r].ok \in Nat /\ local[r].ko \in Nat
             /\ worker[w].attempts \in Nat /\ worker[w].sent \in Receipts
             /\ row[r].receipt \in Receipts /\ faults \in Nat
<1>1. Shape /\ worker[w].item \in Rows /\ faults \in Nat
  BY FaultsNat DEF IInv, Shape, HasItem
<1> QED BY <1>1, RowFields, LocalFields, WorkerFields DEF IInv, Shape, TypeOK

LEMMA DispatchBlockedStep ==
  ASSUME IInv, NEW w \in Workers, NEW ack \in Acks, DispatchBlocked(w, ack) PROVE IInv'
<1>0. PICK r \in Rows : r = worker[w].item
  BY Owner DEF DispatchBlocked
<1>1. /\ worker[w].pc = "dispatch" /\ Owns(w, r) /\ TypeOf[r] \in Guarded
      /\ PutRow(r, Blocked(r)) /\ UNCHANGED <<local, target, allowed, accepted>>
      /\ Continue(w) \/ Goto(w, "failed")
  BY <1>0 DEF DispatchBlocked, HoldsLease, IsGuarded
<1>2. /\ r \in Rows /\ row \in [Rows -> Row] /\ local \in [Rows -> Local] /\ Shape
      /\ RowInv(r) /\ row[r].attempts \in Nat
  BY <1>0, <1>1, Owner
<1>3. Fault \/ UNCHANGED faults
  BY DEF DispatchBlocked
<1>4. faults \in Nat /\ faults' \in Nat /\ faults <= faults'
  BY <1>2, <1>3, FaultsKept
<1> DEFINE x == Blocked(r)
<1>5. /\ x \in Row /\ x.status = "FAILED" /\ x.reason = "BLOCKED" /\ x.token = NoWorker /\ x.lease = "NONE"
      /\ x.attempts = row[r].attempts /\ x.receipt = row[r].receipt
  BY <1>2, BlockedValue
<1> HIDE DEF x
<1>6. row'[r] = x
  BY <1>1, <1>2, <1>5, PutRowEffect DEF x
<1>7. TypeOf[r] \notin Document
  BY <1>1 DEF Guarded, Document
<1>8. RowInv(r)'
  <2>1. SettledIsFree(r)' /\ WasAccepted(r)'
    BY <1>1, <1>2, <1>5, <1>6 DEF SettledIsFree, WasAccepted, RowInv
  <2>2. LocalMatches(r)'
    BY <1>1, <1>2, <1>5, <1>6, <1>7 DEF LocalMatches, RowInv, Owns
  <2>3. Budget(r)'
    BY <1>2, <1>4, <1>5, <1>6, BoundAssumption DEF Budget, RowInv
  <2> QED BY <2>1, <2>2, <2>3 DEF RowInv
<1> QED BY <1>0, <1>1, <1>2, <1>3, <1>5, <1>8, WriteStep DEF x

LEMMA FinalizeStep ==
  ASSUME IInv, NEW w \in Workers, NEW ack \in Acks, Finalize(w, ack) PROVE IInv'
<1>0. PICK r \in Rows : r = worker[w].item
  BY Owner DEF Finalize
<1> DEFINE s == worker[w].sent
           x == Sent(r, s)
           y == IF AppliesLocally(r, s) THEN Delivered(r) ELSE local[r]
<1>1. /\ worker[w].pc = "finalize" /\ Owns(w, r)
      /\ PutRow(r, x) /\ PutLocal(r, y) /\ UNCHANGED <<target, allowed, accepted>>
      /\ Continue(w) \/ Goto(w, "persist")
      /\ Fault \/ UNCHANGED faults
  BY <1>0 DEF Finalize
<1>2. /\ r \in Rows /\ row \in [Rows -> Row] /\ local \in [Rows -> Local] /\ Shape
      /\ RowInv(r) /\ WorkerInv(w) /\ row[r].attempts \in Nat /\ s \in Receipts
      /\ local[r].ok \in Nat /\ local[r].ko \in Nat
  BY <1>0, <1>1, Owner
<1>3. faults \in Nat /\ faults' \in Nat /\ faults <= faults'
  BY <1>1, <1>2, FaultsKept
<1>4. /\ x \in Row /\ x.status = "SENT" /\ x.token = NoWorker /\ x.lease = "NONE"
      /\ x.attempts = row[r].attempts + 1 /\ x.receipt = s
  BY <1>2, SentValue
<1>5. /\ Delivered(r) \in Local /\ Delivered(r).ok = local[r].ok + 1
      /\ Delivered(r).ko = local[r].ko
      /\ TypeOf[r] \in Document => Delivered(r).delivery = "SENT"
  BY <1>2, DeliveredValue
<1>6. local[r].ok = 0 /\ (TypeOf[r] \in Document => local[r].ko = 0)
  BY <1>1, <1>2 DEF RowInv, LocalMatches, Owns
<1>7. /\ y \in Local /\ y.ok \in {0, 1}
      /\ TypeOf[r] \in Document => y.ok = 1 /\ y.ko = 0 /\ y.delivery = "SENT"
  BY <1>2, <1>5, <1>6 DEF AppliesLocally
<1>8. r \in accepted
  BY <1>0, <1>1, <1>2 DEF WorkerInv, InHand
<1> HIDE DEF x, y
<1>9. /\ row'[r] = x /\ local'[r] = y /\ local' \in [Rows -> Local]
      /\ \A q \in Rows : q # r => local'[q] = local[q]
  BY <1>1, <1>2, <1>4, <1>7, PutRowEffect, PutLocalEffect
<1>10. RowInv(r)'
  <2>1. SettledIsFree(r)' /\ WasAccepted(r)'
    BY <1>1, <1>4, <1>8, <1>9 DEF SettledIsFree, WasAccepted
  <2>2. LocalMatches(r)'
    BY <1>4, <1>7, <1>9 DEF LocalMatches
  <2>3. Budget(r)'
    BY <1>1, <1>2, <1>3, <1>4, <1>9, BoundAssumption DEF Budget, RowInv, Owns
  <2> QED BY <2>1, <2>2, <2>3 DEF RowInv
<1> QED BY <1>0, <1>1, <1>2, <1>4, <1>9, <1>10, WriteStep

\* The catch blocks that re-queue the row: it has been paid for with a fault.
LEMMA RequeueSteps ==
  ASSUME IInv, NEW w \in Workers, PersistReceipt(w) \/ ReleaseRetryable(w) PROVE IInv'
<1>0. worker[w].pc \in {"persist", "release"}
  BY DEF PersistReceipt, ReleaseRetryable
<1>1. PICK r \in Rows : r = worker[w].item
  BY <1>0, Owner
<1>2. /\ row \in [Rows -> Row] /\ local \in [Rows -> Local] /\ Shape
      /\ RowInv(r) /\ WorkerInv(w) /\ row[r].attempts \in Nat /\ worker[w].sent \in Receipts
      /\ row[r].receipt \in Receipts /\ faults \in Nat
  BY <1>0, <1>1, Owner
<1>3. /\ Continue(w) /\ UNCHANGED <<local, target, allowed, accepted, faults>>
      /\ ~Owns(w, r) => PutRow(r, row[r])
      /\ Owns(w, r) /\ worker[w].pc = "persist" => PutRow(r, Released(r, worker[w].sent))
      /\ Owns(w, r) /\ worker[w].pc = "release" => PutRow(r, Released(r, row[r].receipt))
  BY <1>1 DEF PersistReceipt, ReleaseRetryable
<1>4. CASE ~Owns(w, r)
  <2>1. row' = row
    BY <1>2, <1>3, <1>4 DEF PutRow
  <2>2. worker[w].todo \in SUBSET Rows
    BY <1>2, WorkerFields DEF Shape, TypeOK
  <2> QED BY <1>3, <2>1, <2>2, ScanningValue, QuietMove DEF Continue
<1>5. CASE Owns(w, r)
  <2>1. PICK s \in Receipts : /\ PutRow(r, Released(r, s))
                              /\ s = row[r].receipt \/ r \in accepted
    <3>1. CASE worker[w].pc = "persist"
      <4>1. worker[w].sent # "NONE" /\ r \in accepted
        BY <1>1, <1>2, <3>1 DEF WorkerInv, InHand
      <4> QED BY <1>2, <1>3, <1>5, <3>1, <4>1
    <3>2. CASE worker[w].pc = "release"
      BY <1>2, <1>3, <1>5, <3>2
    <3> QED BY <1>0, <3>1, <3>2
  <2> DEFINE x == Released(r, s)
  <2>2. /\ x \in Row /\ x.status = row[r].status /\ x.attempts = row[r].attempts + 1
        /\ x.token = NoWorker /\ x.receipt = s /\ x.reason = row[r].reason
    BY <1>2, ReleasedValue
  <2>3. PutRow(r, x)
    BY <2>1
  <2> HIDE DEF x
  <2>4. row'[r] = x
    BY <1>2, <2>2, <2>3, PutRowEffect
  <2>5. row[r].attempts + 1 < MaxAttempts + faults
    BY <1>0, <1>1, <1>2, <1>5 DEF WorkerInv, Paid
  <2>6. RowInv(r)'
    <3>1. SettledIsFree(r)' /\ WasAccepted(r)'
      BY <1>2, <1>3, <1>5, <2>1, <2>2, <2>4 DEF SettledIsFree, WasAccepted, RowInv, Owns
    <3>2. LocalMatches(r)'
      BY <1>2, <1>3, <2>2, <2>4 DEF LocalMatches, RowInv
    <3>3. Budget(r)'
      BY <1>2, <1>3, <1>5, <2>2, <2>4, <2>5, BoundAssumption DEF Budget, Owns
    <3> QED BY <3>1, <3>2, <3>3 DEF RowInv
  <2> QED BY <1>0, <1>1, <1>2, <1>3, <2>2, <2>3, <2>6, WriteStep
<1> QED BY <1>4, <1>5

LEMMA RecordFailureStep ==
  ASSUME IInv, NEW w \in Workers, NEW ack \in Acks, RecordFailure(w, ack) PROVE IInv'
<1>0. PICK r \in Rows : r = worker[w].item
  BY Owner DEF RecordFailure
<1> DEFINE y == Undelivered(w, r)
<1>1. /\ worker[w].pc = "failed" /\ Owns(w, r)
      /\ hasAttemptsLeft(w) => PutRow(r, Released(r, row[r].receipt))
      /\ ~hasAttemptsLeft(w) => PutRow(r, GivenUp(r))
      /\ PutLocal(r, y) /\ UNCHANGED <<target, allowed, accepted>>
      /\ Continue(w) \/ Goto(w, "release")
      /\ Fault \/ UNCHANGED faults
  BY <1>0 DEF RecordFailure
<1>2. /\ row \in [Rows -> Row] /\ local \in [Rows -> Local] /\ Shape
      /\ RowInv(r) /\ WorkerInv(w) /\ row[r].attempts \in Nat /\ row[r].receipt \in Receipts
      /\ local[r].ok \in Nat /\ local[r].ko \in Nat
  BY <1>0, <1>1, Owner
<1>3. faults \in Nat /\ faults' \in Nat /\ faults <= faults'
  BY <1>1, <1>2, FaultsKept
<1>4. worker[w].attempts = row[r].attempts
  BY <1>0, <1>1, <1>2 DEF WorkerInv, Fresh
<1>5. /\ local[r].ok = 0
      /\ TypeOf[r] \in Document => local[r].ko = 0
      /\ WasAccepted(r) /\ row[r].status = "PENDING"
      /\ row[r].attempts < MaxAttempts + faults
  BY <1>1, <1>2 DEF RowInv, LocalMatches, Owns, Budget
<1>6. /\ y \in Local /\ y.ok = 0
      /\ TypeOf[r] \in Document /\ hasAttemptsLeft(w) => y.delivery = "PENDING" /\ y.ko = 0
      /\ TypeOf[r] \in Document /\ ~hasAttemptsLeft(w) => y.delivery = "FAILED" /\ y.ko = 1
  BY <1>2, <1>5, UndeliveredValue
<1> HIDE DEF y
<1>7. /\ local'[r] = y /\ local' \in [Rows -> Local]
      /\ \A q \in Rows : q # r => local'[q] = local[q]
  BY <1>1, <1>2, <1>6, PutLocalEffect
<1>8. ASSUME NEW x \in Row, PutRow(r, x), x.token = NoWorker, RowInv(r)' PROVE IInv'
  BY <1>0, <1>1, <1>7, <1>8, WriteStep
<1>9. CASE hasAttemptsLeft(w)
  <2> DEFINE x == Released(r, row[r].receipt)
  <2>1. /\ x \in Row /\ x.status = "PENDING" /\ x.attempts = row[r].attempts + 1
        /\ x.token = NoWorker /\ x.receipt = row[r].receipt
    BY <1>2, <1>5, ReleasedValue
  <2>2. row[r].attempts + 1 < MaxAttempts
    BY <1>4, <1>9 DEF hasAttemptsLeft
  <2>3. PutRow(r, x)
    BY <1>1, <1>9
  <2> HIDE DEF x
  <2>4. row'[r] = x
    BY <1>2, <2>1, <2>3, PutRowEffect
  <2>5. SettledIsFree(r)' /\ WasAccepted(r)'
    BY <1>1, <1>5, <2>1, <2>4 DEF SettledIsFree, WasAccepted
  <2>6. LocalMatches(r)'
    BY <1>6, <1>7, <1>9, <2>1, <2>4 DEF LocalMatches
  <2>7. Budget(r)'
    BY <1>2, <1>3, <2>1, <2>2, <2>4, BoundAssumption DEF Budget
  <2> QED BY <1>8, <2>1, <2>3, <2>5, <2>6, <2>7 DEF RowInv
<1>10. CASE ~hasAttemptsLeft(w)
  <2> DEFINE x == GivenUp(r)
  <2>1. /\ x \in Row /\ x.status = "FAILED" /\ x.attempts = row[r].attempts + 1
        /\ x.token = NoWorker /\ x.lease = "NONE" /\ x.receipt = row[r].receipt
    BY <1>2, GivenUpValue
  <2>2. row[r].attempts + 1 >= MaxAttempts
    BY <1>2, <1>4, <1>10, BoundAssumption DEF hasAttemptsLeft
  <2>3. PutRow(r, x)
    BY <1>1, <1>10
  <2> HIDE DEF x
  <2>4. row'[r] = x
    BY <1>2, <2>1, <2>3, PutRowEffect
  <2>5. SettledIsFree(r)' /\ WasAccepted(r)'
    BY <1>1, <1>5, <2>1, <2>4 DEF SettledIsFree, WasAccepted
  <2>6. LocalMatches(r)'
    BY <1>6, <1>7, <1>10, <2>1, <2>4 DEF LocalMatches
  <2>7. Budget(r)'
    BY <1>2, <1>3, <1>5, <2>1, <2>2, <2>4, BoundAssumption DEF Budget
  <2> QED BY <1>8, <2>1, <2>3, <2>5, <2>6, <2>7 DEF RowInv
<1> QED BY <1>9, <1>10

-----------------------------------------------------------------------------
(* The theorems.                                                           *)

LEMMA NextIInv == IInv /\ [Next]_vars => IInv'
<1> SUFFICES ASSUME IInv, [Next]_vars PROVE IInv'
  OBVIOUS
<1>1. CASE UNCHANGED vars
  <2>1. IInv' <=> IInv
    BY <1>1 DEF vars, IInv, Shape, TypeOK, HasItem, RowInv, WorkerInv, SettledIsFree, LocalMatches,
                WasAccepted, Budget, InHand, Fresh, Paid, Owns
  <2> QED BY <2>1
<1>2. ASSUME NEW r \in Rows, Environment(r) PROVE IInv'
  BY <1>2, EnvironmentStep
<1>3. ASSUME NEW w \in Workers, NEW ids \in SUBSET Rows, processPending(w, ids) PROVE IInv'
  BY <1>3, QuietSteps
<1>4. ASSUME NEW w \in Workers, WorkerStep(w) PROVE IInv'
  <2>1. CASE \E r \in Rows : Claim(w, r) \/ SkipCandidate(w, r)
    BY <2>1, ClaimStep, QuietSteps
  <2>2. CASE BatchDone(w) \/ DispatchNotOwned(w) \/ FinalizeNotOwned(w) \/ FailureNotOwned(w)
    BY <2>2, QuietSteps
  <2>3. CASE ReadItem(w)
    BY <2>3, ReadItemStep
  <2>4. CASE startDelivery(w) \/ DispatchAborts(w)
    BY <2>4, DispatchSteps
  <2>5. CASE \E ack \in Acks : DispatchBlocked(w, ack) \/ DispatchStarts(w, ack)
    BY <2>5, DispatchBlockedStep, DispatchSteps
  <2>6. CASE ProviderAccepts(w) \/ ProviderRejects(w) \/ ReplyLost(w)
    BY <2>6, ProviderSteps
  <2>7. CASE \E id \in {"ID", "NULL_ID"} : ReplyArrives(w, id)
    BY <2>7, ReplyArrivesStep
  <2>8. CASE \E ack \in Acks : Finalize(w, ack) \/ RecordFailure(w, ack)
    BY <2>8, FinalizeStep, RecordFailureStep
  <2>9. CASE FinalizeAborts(w) \/ RecordFailureAborts(w)
    BY <2>9, AbortSteps
  <2>10. CASE PersistReceipt(w) \/ ReleaseRetryable(w)
    BY <2>10, RequeueSteps
  <2> QED BY <1>4, <2>1, <2>2, <2>3, <2>4, <2>5, <2>6, <2>7, <2>8, <2>9, <2>10 DEF WorkerStep
<1>5. ASSUME NEW w \in Workers, Crash(w) PROVE IInv'
  BY <1>5, QuietSteps
<1> QED BY <1>1, <1>2, <1>3, <1>4, <1>5 DEF Next

\* The inductive invariant holds throughout.
THEOREM Invariance == Spec => []IInv
<1> QED BY InitIInv, NextIInv, PTL DEF Spec

\* Every variable of the queue keeps its shape, for any rows, workers and bounds.
THEOREM TypeCorrect == Spec => []TypeOK
<1> QED BY Invariance, IInvImplies, PTL

\* The domain records of a delivery always agree with its queue row.
THEOREM LocalAlwaysMatches == Spec => []LocalMatchesQueue
<1> QED BY Invariance, IInvImplies, PTL

\* No row is SENT, and none carries a receipt, for a message the provider never accepted.
THEOREM SentOnlyIfAccepted == Spec => []SentWasAccepted
<1> QED BY Invariance, IInvImplies, PTL

\* The copy a worker reads after its claim stays that of the table while it owns the row.
THEOREM CopyStaysFresh == Spec => []OwnerCopyFresh
<1> QED BY Invariance, IInvImplies, PTL

\* A row is given up after maxAttempts attempts, never before; faults alone extend its life.
THEOREM BudgetKept == Spec => []RetryBudget
<1> QED BY Invariance, IInvImplies, PTL
=============================================================================
