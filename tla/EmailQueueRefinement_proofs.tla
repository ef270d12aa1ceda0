-------------------- MODULE EmailQueueRefinement_proofs ---------------------
(***************************************************************************)
(* What a step of EmailQueue may do, for any rows, workers and bounds: the *)
(* action properties TerminalIsFinal and NoResendAfterReceipt, and that    *)
(* the queue implements the transactional outbox of EmailOutbox.           *)
(*                                                                         *)
(* All three rest on two descriptions of a step that follow from the       *)
(* inductive invariant: what it may do to the tables (Footprint) and what  *)
(* it may do to the workers (WorkerFootprint).                             *)
(***************************************************************************)
EXTENDS EmailQueue_proofs

\* The status of a row, with the records that follow from it, goes one way.
Progress(r) ==
  \/ row'[r].status = row[r].status /\ local'[r].ok = local[r].ok
  \/ /\ row[r].status = "ABSENT" /\ row'[r].status = "PENDING"
     /\ local'[r].ok = local[r].ok
  \/ /\ row[r].status = "PENDING" /\ row'[r].status = "FAILED"
     /\ local'[r].ok = local[r].ok
  \/ /\ row[r].status = "PENDING" /\ row'[r].status = "SENT" /\ r \in accepted
     /\ local'[r].ok \in {local[r].ok, local[r].ok + 1}
     /\ TypeOf[r] \in Document => local'[r].ok = local[r].ok + 1

\* A step that writes the row r, or the records that follow from it, and nothing else.
Touches(r) ==
  /\ row[r].status \notin {"SENT", "FAILED"} /\ row'[r].status # "ABSENT"
  /\ \A q \in Rows : q # r => row'[q] = row[q] /\ local'[q] = local[q]
  /\ UNCHANGED accepted
  /\ Progress(r)

\* A step that records the provider's acceptance of a message in some worker's hand.
Accepts == /\ UNCHANGED <<row, local>>
           /\ \E w \in Workers : /\ worker[w].pc = "inflight"
                                 /\ accepted' = accepted \cup {worker[w].item}

Footprint == UNCHANGED <<row, local, accepted>> \/ Accepts \/ \E r \in Rows : Touches(r)

LEMMA EnvironmentFootprint ==
  ASSUME IInv, NEW r \in Rows, Environment(r) PROVE Footprint
<1>1. row \in [Rows -> Row] /\ row[r] \in Row /\ RowInv(r)
  BY DEF IInv, Shape, TypeOK
<1>2. CASE AuthorisationChanges(r) \/ TargetChanges(r)
  BY <1>2 DEF AuthorisationChanges, TargetChanges, Footprint
<1>3. CASE enqueue(r)
  <2> DEFINE x == [row[r] EXCEPT !.status = "PENDING"]
  <2>1. x \in Row /\ x.status = "PENDING"
    BY <1>1 DEF Row, Statuses
  <2>2. PutRow(r, x) /\ row[r].status = "ABSENT" /\ UNCHANGED <<local, accepted>>
    BY <1>3 DEF enqueue
  <2> HIDE DEF x
  <2>3. row'[r] = x /\ \A q \in Rows : q # r => row'[q] = row[q]
    BY <1>1, <2>1, <2>2, PutRowEffect
  <2> QED BY <2>1, <2>2, <2>3 DEF Footprint, Touches, Progress
<1>4. CASE LeaseExpires(r) \/ BackoffElapses(r)
  <2> DEFINE l == [row[r] EXCEPT !.lease = "EXPIRED"]
             b == [row[r] EXCEPT !.next = "DUE"]
  <2>1. ASSUME NEW x, x = l \/ x = b PROVE x \in Row /\ x.status = row[r].status
    BY <1>1, <2>1 DEF Row, Leases
  <2>2. PICK x \in {l, b} : PutRow(r, x)
    BY <1>4 DEF LeaseExpires, BackoffElapses
  <2>3. UNCHANGED <<local, accepted>>
    BY <1>4 DEF LeaseExpires, BackoffElapses
  <2>4. row[r].status = "PENDING"
    BY <1>1, <1>4 DEF LeaseExpires, BackoffElapses, RowInv, SettledIsFree
  <2> HIDE DEF l, b
  <2>5. /\ row'[r].status = row[r].status
        /\ \A q \in Rows : q # r => row'[q] = row[q]
    BY <1>1, <2>1, <2>2, PutRowEffect
  <2> QED BY <2>3, <2>4, <2>5 DEF Footprint, Touches, Progress
<1> QED BY <1>2, <1>3, <1>4 DEF Environment

\* A worker writes a row it owns, or claims one.
LEMMA WriteFootprint ==
  ASSUME IInv, NEW r \in Rows, NEW x \in Row, PutRow(r, x), row[r].status = "PENDING",
         x.status # "ABSENT", \A q \in Rows : q # r => local'[q] = local[q],
         UNCHANGED accepted,
         \/ x.status = "PENDING" /\ local'[r].ok = local[r].ok
         \/ x.status = "FAILED" /\ local'[r].ok = local[r].ok
         \/ /\ x.status = "SENT" /\ r \in accepted
            /\ local'[r].ok \in {local[r].ok, local[r].ok + 1}
            /\ TypeOf[r] \in Document => local'[r].ok = local[r].ok + 1
  PROVE  Footprint
<1>1. row'[r] = x /\ \A q \in Rows : q # r => row'[q] = row[q]
  BY PutRowEffect DEF IInv, Shape, TypeOK
<1> QED BY <1>1 DEF Footprint, Touches, Progress

LEMMA ClaimFootprint ==
  ASSUME IInv, NEW w \in Workers, NEW r \in Rows, Claim(w, r) PROVE Footprint
<1> DEFINE x == [row[r] EXCEPT !.token = w, !.lease = "LIVE"]
<1>1. row[r] \in Row
  BY DEF IInv, Shape, TypeOK
<1>2. x \in Row /\ x.status = row[r].status
  BY <1>1 DEF Row, Leases
<1>3. PutRow(r, x) /\ row[r].status = "PENDING" /\ UNCHANGED <<local, accepted>>
  BY DEF Claim, Claimable
<1> HIDE DEF x
<1> QED BY <1>2, <1>3, WriteFootprint

LEMMA FinalizeFootprint ==
  ASSUME IInv, NEW w \in Workers, NEW ack \in Acks, Finalize(w, ack) PROVE Footprint
<1>0. PICK r \in Rows : r = worker[w].item
  BY Owner DEF Finalize
<1> DEFINE s == worker[w].sent
           x == Sent(r, s)
           y == IF AppliesLocally(r, s) THEN Delivered(r) ELSE local[r]
<1>1. /\ worker[w].pc = "finalize" /\ Owns(w, r)
      /\ PutRow(r, x) /\ PutLocal(r, y) /\ UNCHANGED accepted
  BY <1>0 DEF Finalize
<1>2. /\ row \in [Rows -> Row] /\ local \in [Rows -> Local] /\ WorkerInv(w) /\ s \in Receipts
  BY <1>1, Owner
<1>3. x \in Row /\ x.status = "SENT"
  BY <1>2, SentValue
<1>4. y \in Local /\ y.ok \in {local[r].ok, local[r].ok + 1}
  BY <1>2, DeliveredValue
<1>5. TypeOf[r] \in Document => y.ok = local[r].ok + 1
  BY <1>2, DeliveredValue DEF AppliesLocally
<1>6. r \in accepted
  BY <1>0, <1>1, <1>2 DEF WorkerInv, InHand
<1>7. row[r].status = "PENDING"
  BY <1>1 DEF Owns
<1> HIDE DEF x, y
<1>8. local'[r] = y /\ \A q \in Rows : q # r => local'[q] = local[q]
  BY <1>1, <1>2, <1>4, PutLocalEffect
<1> QED BY <1>1, <1>3, <1>4, <1>5, <1>6, <1>7, <1>8, WriteFootprint

LEMMA RecordFailureFootprint ==
  ASSUME IInv, NEW w \in Workers, NEW ack \in Acks, RecordFailure(w, ack) PROVE Footprint
<1>0. PICK r \in Rows : r = worker[w].item
  BY Owner DEF RecordFailure
<1> DEFINE y == Undelivered(w, r)
<1>1. /\ worker[w].pc = "failed" /\ row[r].status = "PENDING" /\ PutLocal(r, y) /\ UNCHANGED accepted
      /\ PutRow(r, Released(r, row[r].receipt)) \/ PutRow(r, GivenUp(r))
  BY <1>0 DEF RecordFailure, Owns
<1>2. row \in [Rows -> Row] /\ local \in [Rows -> Local] /\ row[r].receipt \in Receipts
  BY <1>0, <1>1, Owner
<1>3. y \in Local /\ y.ok = local[r].ok
  BY <1>2, UndeliveredValue
<1> HIDE DEF y
<1>4. local'[r].ok = local[r].ok /\ \A q \in Rows : q # r => local'[q] = local[q]
  BY <1>1, <1>2, <1>3, PutLocalEffect
<1>5. CASE PutRow(r, Released(r, row[r].receipt))
  <2>1. Released(r, row[r].receipt) \in Row /\ Released(r, row[r].receipt).status = "PENDING"
    BY <1>1, <1>2, ReleasedValue
  <2> QED BY <1>1, <1>4, <1>5, <2>1, WriteFootprint
<1>6. CASE PutRow(r, GivenUp(r))
  <2>1. GivenUp(r) \in Row /\ GivenUp(r).status = "FAILED"
    BY <1>2, GivenUpValue
  <2> QED BY <1>1, <1>4, <1>6, <2>1, WriteFootprint
<1> QED BY <1>1, <1>5, <1>6

LEMMA RequeueFootprint ==
  ASSUME IInv, NEW w \in Workers, PersistReceipt(w) \/ ReleaseRetryable(w) PROVE Footprint
<1>0. worker[w].pc \in {"persist", "release"}
  BY DEF PersistReceipt, ReleaseRetryable
<1>1. PICK r \in Rows : r = worker[w].item
  BY <1>0, Owner
<1>2. /\ row \in [Rows -> Row] /\ worker[w].sent \in Receipts /\ row[r].receipt \in Receipts
  BY <1>0, <1>1, Owner
<1>3. /\ UNCHANGED <<local, accepted>>
      /\ \/ PutRow(r, row[r])
         \/ Owns(w, r) /\ \E s \in Receipts : PutRow(r, Released(r, s))
  BY <1>1, <1>2 DEF PersistReceipt, ReleaseRetryable
<1>4. CASE PutRow(r, row[r])
  <2>1. row' = row
    BY <1>2, <1>4 DEF PutRow
  <2> QED BY <1>3, <2>1 DEF Footprint
<1>5. ASSUME Owns(w, r), NEW s \in Receipts, PutRow(r, Released(r, s)) PROVE Footprint
  <2>1. Released(r, s) \in Row /\ Released(r, s).status = "PENDING" /\ row[r].status = "PENDING"
    BY <1>2, <1>5, ReleasedValue DEF Owns
  <2> QED BY <1>3, <1>5, <2>1, WriteFootprint
<1> QED BY <1>3, <1>4, <1>5

LEMMA DispatchBlockedFootprint ==
  ASSUME IInv, NEW w \in Workers, NEW ack \in Acks, DispatchBlocked(w, ack) PROVE Footprint
<1>0. PICK r \in Rows : r = worker[w].item
  BY Owner DEF DispatchBlocked
<1>1. /\ worker[w].pc = "dispatch" /\ row[r].status = "PENDING"
      /\ PutRow(r, Blocked(r)) /\ UNCHANGED <<local, accepted>>
  BY <1>0 DEF DispatchBlocked, HoldsLease, Owns
<1>2. Blocked(r) \in Row /\ Blocked(r).status = "FAILED"
  BY <1>0, <1>1, Owner, BlockedValue
<1> QED BY <1>1, <1>2, WriteFootprint

\* Every step of the queue leaves the tables alone, records an acceptance, or moves one row on.
LEMMA NextFootprint == ASSUME IInv, Next PROVE Footprint
<1>1. ASSUME NEW r \in Rows, Environment(r) PROVE Footprint
  BY <1>1, EnvironmentFootprint
<1>2. ASSUME NEW w \in Workers, NEW ids \in SUBSET Rows, processPending(w, ids) PROVE Footprint
  BY <1>2 DEF processPending, Footprint
<1>3. ASSUME NEW w \in Workers, Crash(w) PROVE Footprint
  BY <1>3 DEF Crash, Footprint
<1>4. ASSUME NEW w \in Workers, WorkerStep(w) PROVE Footprint
  <2>1. CASE \E r \in Rows : Claim(w, r) \/ SkipCandidate(w, r)
    BY <2>1, ClaimFootprint DEF SkipCandidate, Footprint
  <2>2. CASE BatchDone(w) \/ DispatchNotOwned(w) \/ FinalizeNotOwned(w) \/ FailureNotOwned(w)
    BY <2>2 DEF BatchDone, DispatchNotOwned, FinalizeNotOwned, FailureNotOwned, Footprint
  <2>3. CASE ReadItem(w) \/ startDelivery(w) \/ DispatchAborts(w)
    BY <2>3 DEF ReadItem, startDelivery, DispatchAborts, Footprint
  <2>4. CASE \E ack \in Acks : DispatchBlocked(w, ack) \/ DispatchStarts(w, ack)
    BY <2>4, DispatchBlockedFootprint DEF DispatchStarts, Footprint
  <2>5. CASE ProviderAccepts(w)
    BY <2>5 DEF ProviderAccepts, Footprint, Accepts
  <2>6. CASE ProviderRejects(w) \/ ReplyLost(w) \/ FinalizeAborts(w) \/ RecordFailureAborts(w)
    BY <2>6 DEF ProviderRejects, ReplyLost, FinalizeAborts, RecordFailureAborts, Footprint
  <2>7. CASE \E id \in {"ID", "NULL_ID"} : ReplyArrives(w, id)
    BY <2>7 DEF ReplyArrives, Footprint
  <2>8. CASE \E ack \in Acks : Finalize(w, ack) \/ RecordFailure(w, ack)
    BY <2>8, FinalizeFootprint, RecordFailureFootprint
  <2>9. CASE PersistReceipt(w) \/ ReleaseRetryable(w)
    BY <2>9, RequeueFootprint
  <2> QED BY <1>4, <2>1, <2>2, <2>3, <2>4, <2>5, <2>6, <2>7, <2>8, <2>9 DEF WorkerStep
<1> QED BY <1>1, <1>2, <1>3, <1>4 DEF Next

\* SENT and FAILED are final, for the row and for the records that follow from it.
THEOREM TerminalStaysFinal == Spec => TerminalIsFinal
<1> DEFINE Final == \A r \in Rows : row[r].status \in {"SENT", "FAILED"} =>
                       row'[r] = row[r] /\ local'[r] = local[r]
<1>1. IInv /\ [Next]_vars => [Final]_vars
  BY NextFootprint DEF Footprint, Accepts, Touches
<1> QED BY <1>1, Invariance, PTL DEF Spec, TerminalIsFinal

-----------------------------------------------------------------------------
(* What a step may do to the workers.                                      *)

\* A worker drops its row, keeps it, or has just claimed one; it calls the provider for a
\* row of a guarded type only while it owns that row.
Moves(v) ==
  \/ worker'[v].pc \in {"idle", "next"}
  \/ /\ worker[v].pc \notin {"idle", "next"} /\ worker'[v].item = worker[v].item
     /\ RequestStarts(v) => ~IsGuarded(worker[v].item) \/ Owns(v, worker[v].item)
  \/ /\ worker'[v].pc = "read" /\ worker'[v].item \in Rows
     /\ row'[worker'[v].item].status = "PENDING"

LEMMA OneMoves ==
  ASSUME NEW w \in Workers, \A v \in Workers : v # w => worker'[v] = worker[v], Moves(w)
  PROVE  \A v \in Workers : Moves(v)
  BY DEF Moves, RequestStarts

LEMMA GotoMoves ==
  ASSUME Shape, NEW w \in Workers, NEW p \in PCs, p # "inflight", Goto(w, p),
         worker[w].pc \notin {"idle", "next"}
  PROVE  \A v \in Workers : Moves(v)
<1>1. worker[w].item \in Rows
  BY DEF Shape, HasItem
<1>2. /\ worker'[w].pc = p /\ worker'[w].item = worker[w].item
      /\ \A v \in Workers : v # w => worker'[v] = worker[v]
  BY <1>1, GotoEffect
<1> QED BY <1>2, OneMoves DEF Moves, RequestStarts

LEMMA InFlightMoves ==
  ASSUME Shape, NEW w \in Workers, InFlight(w), worker[w].pc = "dispatch",
         ~IsGuarded(worker[w].item) \/ Owns(w, worker[w].item)
  PROVE  \A v \in Workers : Moves(v)
<1>1. worker[w].item \in Rows
  BY DEF Shape, HasItem
<1>2. /\ worker'[w].item = worker[w].item
      /\ \A v \in Workers : v # w => worker'[v] = worker[v]
  BY <1>1, InFlightEffect
<1> QED BY <1>2, OneMoves DEF Moves

LEMMA DropMoves ==
  ASSUME Shape, NEW w \in Workers,
         \/ PutWorker(w, Idle)
         \/ \E todo \in SUBSET Rows : PutWorker(w, Scanning(todo))
  PROVE  \A v \in Workers : Moves(v)
<1>1. worker'[w].pc \in {"idle", "next"} /\ \A v \in Workers : v # w => worker'[v] = worker[v]
  <2>1. CASE PutWorker(w, Idle)
    BY <2>1, IdleEffect
  <2>2. ASSUME NEW todo \in SUBSET Rows, PutWorker(w, Scanning(todo))
        PROVE  worker'[w].pc = "next" /\ \A v \in Workers : v # w => worker'[v] = worker[v]
    BY <2>2, ScanningValue, PutWorkerShape
  <2> QED BY <2>1, <2>2
<1> QED BY <1>1, OneMoves DEF Moves

LEMMA ClaimMoves ==
  ASSUME IInv, NEW w \in Workers, NEW r \in Rows, Claim(w, r) PROVE \A v \in Workers : Moves(v)
<1> DEFINE y == [Scanning(worker[w].todo \ {r}) EXCEPT !.pc = "read", !.item = r]
           x == [row[r] EXCEPT !.token = w, !.lease = "LIVE"]
<1>1. Shape /\ row \in [Rows -> Row] /\ row[r] \in Row /\ worker[w].todo \ {r} \in SUBSET Rows
  BY WorkerFields DEF IInv, Shape, TypeOK
<1>2. y \in Worker /\ y.pc = "read" /\ y.item = r
  BY <1>1 DEF Scanning, Idle, Worker, PCs, Receipts
<1>3. x \in Row /\ x.status = row[r].status
  BY <1>1 DEF Row, Leases
<1>4. PutWorker(w, y) /\ PutRow(r, x) /\ row[r].status = "PENDING"
  BY DEF Claim, Claimable
<1> HIDE DEF x, y
<1>5. worker'[w] = y /\ \A v \in Workers : v # w => worker'[v] = worker[v]
  BY <1>1, <1>2, <1>4, PutWorkerShape
<1>6. row'[r] = x
  BY <1>1, <1>3, <1>4, PutRowEffect
<1> QED BY <1>2, <1>3, <1>4, <1>5, <1>6, OneMoves DEF Moves

LEMMA ReadItemMoves ==
  ASSUME IInv, NEW w \in Workers, ReadItem(w) PROVE \A v \in Workers : Moves(v)
<1> DEFINE r == worker[w].item
           y == Refreshed(w, r)
<1>1. /\ Shape /\ row \in [Rows -> Row] /\ worker \in [Workers -> Worker]
      /\ worker[w].pc = "read"
  BY DEF IInv, Shape, TypeOK, ReadItem
<1>2. r \in Rows
  BY <1>1 DEF Shape, HasItem
<1>3. y \in Worker /\ y.item = r /\ y.pc \in {"finalize", "dispatch"}
  BY <1>1, <1>2, RefreshedValue
<1>4. PutWorker(w, y) \/ PutWorker(w, Idle)
  BY DEF ReadItem
<1> HIDE DEF y
<1>5. CASE PutWorker(w, y)
  <2>1. worker'[w] = y /\ \A v \in Workers : v # w => worker'[v] = worker[v]
    BY <1>1, <1>2, <1>3, <1>5, PutWorkerShape
  <2> QED BY <1>1, <1>3, <2>1, OneMoves DEF Moves, RequestStarts
<1> QED BY <1>1, <1>4, <1>5, DropMoves

LEMMA ReplyArrivesMoves ==
  ASSUME IInv, NEW w \in Workers, NEW id \in {"ID", "NULL_ID"}, ReplyArrives(w, id)
  PROVE  \A v \in Workers : Moves(v)
<1>1. Shape /\ worker[w] \in Worker /\ worker[w].pc = "accepted"
  BY DEF IInv, Shape, TypeOK, ReplyArrives
<1> DEFINE x == [worker[w] EXCEPT !.pc = "finalize", !.sent = id]
<1>2. x \in Worker /\ x.pc = "finalize" /\ x.item = worker[w].item /\ x.item \in Rows
  BY <1>1 DEF Worker, PCs, Receipts, Shape, HasItem
<1>3. PutWorker(w, x)
  BY DEF ReplyArrives
<1> HIDE DEF x
<1>4. worker'[w] = x /\ \A v \in Workers : v # w => worker'[v] = worker[v]
  BY <1>1, <1>2, <1>3, PutWorkerShape
<1> QED BY <1>1, <1>2, <1>4, OneMoves DEF Moves, RequestStarts

LEMMA NextMoves == ASSUME IInv, Next PROVE \A v \in Workers : Moves(v)
<1>1. Shape
  BY DEF IInv
<1>2. ASSUME NEW r \in Rows, Environment(r) PROVE \A v \in Workers : Moves(v)
  <2>1. worker' = worker
    BY <1>2 DEF Environment, enqueue, LeaseExpires, BackoffElapses, AuthorisationChanges, TargetChanges
  <2> QED BY <2>1 DEF Moves, RequestStarts
<1>3. ASSUME NEW w \in Workers, NEW ids \in SUBSET Rows, processPending(w, ids)
      PROVE  \A v \in Workers : Moves(v)
  <2>1. Candidates(ids) \in SUBSET Rows
    BY DEF Candidates
  <2> QED BY <1>1, <1>3, <2>1, DropMoves DEF processPending
<1>4. ASSUME NEW w \in Workers, Crash(w) PROVE \A v \in Workers : Moves(v)
  BY <1>1, <1>4, DropMoves DEF Crash
<1>5. ASSUME NEW w \in Workers, WorkerStep(w) PROVE \A v \in Workers : Moves(v)
  <2>1. /\ worker[w].todo \in SUBSET Rows
        /\ \A r \in Rows : worker[w].todo \ {r} \in SUBSET Rows
    BY <1>1, WorkerFields DEF Shape, TypeOK
  <2>2. ASSUME NEW r \in Rows, Claim(w, r) \/ SkipCandidate(w, r)
        PROVE  \A v \in Workers : Moves(v)
    BY <1>1, <2>1, <2>2, ClaimMoves, DropMoves DEF SkipCandidate
  <2>3. CASE BatchDone(w)
    BY <1>1, <2>3, DropMoves DEF BatchDone
  <2>4. CASE Continue(w)
    BY <1>1, <2>1, <2>4, DropMoves DEF Continue
  <2>5. CASE ReadItem(w)
    BY <2>5, ReadItemMoves
  <2>6. CASE startDelivery(w) \/ \E ack \in Acks : DispatchStarts(w, ack)
    BY <1>1, <2>6, InFlightMoves DEF startDelivery, DispatchStarts, HoldsLease
  <2>7. CASE /\ worker[w].pc \notin {"idle", "next"}
             /\ \E p \in {"accepted", "failed", "persist", "release"} : Goto(w, p)
    BY <1>1, <2>7, GotoMoves DEF PCs
  <2>8. CASE \E id \in {"ID", "NULL_ID"} : ReplyArrives(w, id)
    BY <2>8, ReplyArrivesMoves
  <2>9. CASE ProviderAccepts(w) \/ ProviderRejects(w) \/ ReplyLost(w) \/ DispatchAborts(w)
    BY <2>7, <2>9 DEF ProviderAccepts, ProviderRejects, ReplyLost, DispatchAborts
  <2>10. CASE FinalizeAborts(w) \/ RecordFailureAborts(w)
    BY <2>7, <2>10 DEF FinalizeAborts, RecordFailureAborts
  <2>11. CASE \E ack \in Acks : DispatchBlocked(w, ack) \/ Finalize(w, ack) \/ RecordFailure(w, ack)
    BY <2>4, <2>7, <2>11 DEF DispatchBlocked, Finalize, RecordFailure
  <2>12. CASE \/ DispatchNotOwned(w) \/ FinalizeNotOwned(w) \/ FailureNotOwned(w)
              \/ PersistReceipt(w) \/ ReleaseRetryable(w)
    BY <2>4, <2>12 DEF DispatchNotOwned, FinalizeNotOwned, FailureNotOwned, PersistReceipt,
                       ReleaseRetryable
  <2> QED BY <1>5, <2>2, <2>3, <2>5, <2>6, <2>8, <2>9, <2>10, <2>11, <2>12 DEF WorkerStep
<1> QED BY <1>2, <1>3, <1>4, <1>5 DEF Next

\* Once a receipt is stored, or the row is settled, the provider is not called again for it,
\* except by a worker of an unguarded type whose claim was taken over.
THEOREM NoResend == Spec => NoResendAfterReceipt
<1> DEFINE Ok == \A w \in Workers :
                    LET r == worker[w].item
                    IN RequestStarts(w) /\ (row[r].receipt = "ID" \/ row[r].status # "PENDING") =>
                         ~IsGuarded(r) /\ row[r].token # w
<1>1. ASSUME IInv, Next PROVE Ok
  <2> SUFFICES ASSUME NEW w \in Workers, RequestStarts(w),
                      row[worker[w].item].receipt = "ID" \/ row[worker[w].item].status # "PENDING"
               PROVE  ~IsGuarded(worker[w].item) /\ row[worker[w].item].token # w
    OBVIOUS
  <2> DEFINE r == worker[w].item
  <2>1. worker[w].pc = "dispatch" /\ worker'[w].pc = "inflight"
    BY DEF RequestStarts
  <2>2. r \in Rows /\ RowInv(r) /\ WorkerInv(w)
    BY <1>1, <2>1, Owner
  <2>3. ~Owns(w, r)
    BY <2>1, <2>2 DEF WorkerInv, InHand, Fresh, Owns
  <2>4. row[r].token # w
    BY <2>2, <2>3, NullAssumption DEF Owns, RowInv, SettledIsFree
  <2>5. Moves(w)
    BY <1>1, NextMoves
  <2> QED BY <2>1, <2>3, <2>4, <2>5 DEF Moves
<1>2. IInv /\ [Next]_vars => [Ok]_vars
  BY <1>1
<1> QED BY <1>2, Invariance, PTL DEF Spec, NoResendAfterReceipt

-----------------------------------------------------------------------------
(* The queue implements the outbox.                                        *)

\* A message in a worker's hand has been queued.
Queued == \A w \in Workers : worker[w].pc \notin {"idle", "next"} => row[worker[w].item].status # "ABSENT"

LEMMA QueuedInvariant == Spec => []Queued
<1>1. Init => Queued
  BY DEF Init, Idle, Queued
<1>2. IInv /\ IInv' /\ Queued /\ [Next]_vars => Queued'
  <2> SUFFICES ASSUME IInv, IInv', Queued, [Next]_vars PROVE Queued'
    OBVIOUS
  <2>1. CASE UNCHANGED vars
    BY <2>1 DEF vars, Queued
  <2>2. CASE Next
    <3> SUFFICES ASSUME NEW w \in Workers, worker'[w].pc \notin {"idle", "next"}
                 PROVE  row'[worker'[w].item].status # "ABSENT"
      BY DEF Queued
    <3>1. Moves(w) /\ Footprint
      BY <2>2, NextMoves, NextFootprint
    <3>2. \A r \in Rows : row[r].status # "ABSENT" => row'[r].status # "ABSENT"
      BY <3>1 DEF Footprint, Accepts, Touches
    <3>3. worker'[w].item \in Rows
      BY DEF IInv, Shape, HasItem
    <3> QED BY <3>1, <3>2, <3>3 DEF Moves, Queued
  <2> QED BY <2>1, <2>2
<1> QED BY <1>1, <1>2, Invariance, PTL DEF Spec

LEMMA OutboxStep ==
  ASSUME IInv, Queued, [Next]_vars PROVE [Outbox!Next]_(Outbox!vars)
<1> DEFINE st == [r \in Rows |-> row[r].status]
           rc == [r \in Rows |-> local[r].ok]
<1>1. CASE UNCHANGED vars
  BY <1>1 DEF vars, Outbox!vars
<1>2. CASE Next
  <2>1. Footprint
    BY <1>2, NextFootprint
  <2>2. CASE UNCHANGED <<row, local, accepted>>
    BY <2>2 DEF Outbox!vars
  <2>3. CASE Accepts
    <3>1. PICK w \in Workers : worker[w].pc = "inflight" /\ accepted' = accepted \cup {worker[w].item}
      BY <2>3 DEF Accepts
    <3>2. worker[w].item \in Rows /\ row[worker[w].item].status # "ABSENT"
      BY <3>1 DEF IInv, Shape, HasItem, Queued
    <3>3. st' = st /\ rc' = rc
      BY <2>3 DEF Accepts
    <3> QED BY <3>1, <3>2, <3>3 DEF Outbox!Next, Outbox!Accept
  <2>4. ASSUME NEW r \in Rows, Touches(r) PROVE [Outbox!Next]_(Outbox!vars)
    <3>1. /\ st' = [st EXCEPT ![r] = row'[r].status]
          /\ rc' = [rc EXCEPT ![r] = local'[r].ok]
          /\ UNCHANGED accepted
      BY <2>4 DEF Touches
    <3>2. Progress(r) /\ local[r].ok \in Nat
      BY <2>4, LocalFields DEF Touches, IInv, Shape, TypeOK
    <3>3. CASE row'[r].status = row[r].status /\ local'[r].ok = local[r].ok
      <4>1. st' = st /\ rc' = rc
        BY <3>1, <3>3
      <4> QED BY <3>1, <4>1 DEF Outbox!vars
    <3>4. CASE /\ row[r].status = "ABSENT" /\ row'[r].status = "PENDING"
               /\ local'[r].ok = local[r].ok
      <4>1. rc' = rc
        BY <3>1, <3>4
      <4> QED BY <3>1, <3>4, <4>1 DEF Outbox!Next, Outbox!Queue
    <3>5. CASE /\ row[r].status = "PENDING" /\ row'[r].status = "FAILED"
               /\ local'[r].ok = local[r].ok
      <4>1. rc' = rc
        BY <3>1, <3>5
      <4> QED BY <3>1, <3>5, <4>1 DEF Outbox!Next, Outbox!GiveUp
    <3>6. CASE /\ row[r].status = "PENDING" /\ row'[r].status = "SENT" /\ r \in accepted
               /\ local'[r].ok \in {local[r].ok, local[r].ok + 1}
               /\ TypeOf[r] \in Document => local'[r].ok = local[r].ok + 1
      <4>1. PICK n \in {0, 1} : /\ local'[r].ok = local[r].ok + n
                                /\ TypeOf[r] \in Document => n = 1
        BY <3>2, <3>6
      <4>2. Outbox!Settle(r, n)
        BY <3>1, <3>6, <4>1 DEF Outbox!Settle
      <4> QED BY <4>2 DEF Outbox!Next
    <3> QED BY <3>2, <3>3, <3>4, <3>5, <3>6 DEF Progress
  <2> QED BY <2>1, <2>2, <2>3, <2>4 DEF Footprint
<1> QED BY <1>1, <1>2

\* Every behaviour of the queue, with its workers, leases, retries and crashes, is one of the
\* transactional outbox.
THEOREM OutboxRefinement == Spec => ImplementsOutbox
<1>1. Init => Outbox!Init
  BY DEF Init, AbsentRow, Outbox!Init
<1>2. IInv /\ Queued /\ [Next]_vars => [Outbox!Next]_(Outbox!vars)
  BY OutboxStep
<1> QED BY <1>1, <1>2, Invariance, QueuedInvariant, PTL DEF Spec, ImplementsOutbox, Outbox!Spec
=============================================================================
