------------------------ MODULE RentalPayments_proofs ------------------------
(***************************************************************************)
(* Proofs about RentalPayments, for any number of deposits, extra charges, *)
(* intents and concurrent requests.  IInv says what a request remembers of *)
(* the row and of the intent it works on, and when Stripe may be asked for *)
(* a new intent: a request that is about to ask finds none, or the key     *)
(* under which the one that exists is stored.  LInv adds what is true of   *)
(* the money, which the ledger of PaymentLedger needs: every write of a    *)
(* row is one entry that follows the intent, and every change of an intent *)
(* one of an account.                                                      *)
(***************************************************************************)
EXTENDS RentalPayments, TLAPS

\* The intents that rows, keys and events name belong to them.
BoundRows == \A x \in Rows : row[x].intent # NoIntent => intent[row[x].intent].of = x
BoundKeys == \A x \in Rows : key[x] # NoIntent => intent[key[x]].of = x
OwedOK == \A e \in owed : /\ intent[e[1]].of \in Rows
                          /\ e[2] # "intent" => intent[e[1]].of \in Extras /\ intent[e[1]].status = "succeeded"

\* What does not exist has no intent.
AbsentOK == \A x \in Rows : ~Exists(x) => IntentsOf(x) = {} /\ x \notin aged

StatusesOK == /\ \A d \in Deposits : row[d].status \in DepositStatuses \cup {"ABSENT"}
              /\ \A x \in Extras : row[x].status \in ExtraStatuses \cup {"ABSENT"}

\* A key is forgotten only after the deposit may no longer be retried.
DepositKeys ==
  \A d \in Deposits : IntentsOf(d) # {} /\ key[d] = NoIntent =>
    d \in aged /\ \A p \in Requests : ~(req[p].x = d /\ req[p].pc = "create")

\* An extra charge is claimed before Stripe is asked.
UnclaimedExtras ==
  \A x \in Extras : row[x].intent = NoIntent /\ row[x].status # "PAYMENT_PROCESSING" => IntentsOf(x) = {}

\* The request that holds the claim of an extra charge and has no intent for it.
Claims(r, x) == r.x = x /\ (r.pc = "create" \/ (r.pc \in {"catch", "fail"} /\ r.reply = "refused"))

ClaimedExtras ==
  \A x \in Extras, p \in Requests : Claims(req[p], x) =>
    /\ row[x].intent = NoIntent /\ row[x].status = "PAYMENT_PROCESSING" /\ IntentsOf(x) = {}
    /\ \A q \in Requests : Claims(req[q], x) => q = p

\* What a row may say of its intent.
Truth(x, r) ==
  IF x \in Deposits
  THEN /\ r.status \in Captured => /\ r.intent # NoIntent /\ intent[r.intent].status = "succeeded"
                                   /\ intent[r.intent].received = r.captured
       /\ r.status = "RELEASED" => r.intent # NoIntent /\ intent[r.intent].status = "canceled"
  ELSE /\ r.status = "PENDING_APPROVAL" => r.intent = NoIntent
       /\ r.status \in Settled => r.intent # NoIntent /\ intent[r.intent].status = "succeeded"
       /\ r.status = "CANCELED" => IF r.intent # NoIntent THEN intent[r.intent].status = "canceled"
                                                          ELSE IntentsOf(x) = {}
TrueRows == \A x \in Rows : Truth(x, row[x])

\* What may follow a row.
MayFollow(r, s) ==
  /\ r.status \notin Captured
  /\ r.status = "PAID" => s.status \in Settled
  /\ r.status = "REFUNDED" => s.status \in {"REFUNDED", "DISPUTED"}
  /\ r.status = "DISPUTED" => s.status = "DISPUTED"
  /\ r.intent # NoIntent => s.intent = r.intent

(* What is true of a request r *)

KnowsRow(r) ==
  /\ r.pc \notin {"idle", "ack"} => r.x \in Rows /\ Exists(r.x)
  /\ r.pc \in {"claim", "edit", "mark"} => r.x \in Extras
  /\ r.pc \in {"precapture", "capture", "prerelease", "release"} => r.x \in Deposits

KnowsIntent(r) ==
  /\ r.i # NoIntent => r.x \in Rows /\ intent[r.i].of = r.x
  /\ r.pc \in {"load", "write", "mark", "precapture", "capture", "prerelease", "release"} => r.i # NoIntent
  /\ r.pc \in {"mark", "write"} /\ r.event[2] \in {"refund", "dispute"} =>
       r.x \in Extras /\ intent[r.i].status = "succeeded"
  /\ r.pc = "mark" => r.event[2] \in {"refund", "dispute"}
  /\ r.pc = "load" => r.event[2] \notin {"refund", "dispute"}
  /\ r.pc \notin {"load", "write", "mark", "ack"} => r.event = NoEvent
  /\ r.pc = "catch" /\ r.i = NoIntent => r.reply \in {"unknown", "refused"}
  /\ r.pc = "fail" => r.reply = "refused"
  /\ r.pc \in {"claim", "create"} => r.reply = "none" /\ r.i = NoIntent

WillWrite(r) ==
  r.pc = "write" =>
    /\ r.to.intent = r.i /\ Truth(r.x, r.to)
    /\ r.to.status \in IF r.x \in Deposits THEN DepositStatuses ELSE ExtraStatuses
    /\ r.fresh = "YES" => MayFollow(row[r.x], r.to)

WillEdit(r) ==
  r.pc \in {"claim", "edit"} /\ r.fresh = "YES" =>
    /\ row[r.x].intent = NoIntent /\ row[r.x].status \notin Settled \cup {"PAYMENT_PROCESSING"}
    /\ \E s \in IF r.pc = "claim" THEN {"PAYMENT_PROCESSING"} ELSE {"APPROVED", "CANCELED"} :
         r.to = [row[r.x] EXCEPT !.status = s]

WillFail(r) ==
  /\ r.pc \in {"create", "catch", "fail"} /\ r.fresh = "YES" /\ r.x \in Deposits =>
       row[r.x].intent = NoIntent /\ row[r.x].status \in ACTIVE_DEPOSIT_STATUSES
  /\ r.pc = "fail" /\ r.fresh = "YES" => r.to = [row[r.x] EXCEPT !.status = "FAILED"]

RequestOK(r) == KnowsRow(r) /\ KnowsIntent(r) /\ WillWrite(r) /\ WillEdit(r) /\ WillFail(r)
RequestsOK == \A p \in Requests : RequestOK(req[p])

TablesOK == /\ BoundRows /\ BoundKeys /\ OwedOK /\ AbsentOK /\ StatusesOK /\ OneIntentPerRow
            /\ UnclaimedExtras /\ TrueRows

IInv == TypeOK /\ TablesOK /\ DepositKeys /\ ClaimedExtras /\ RequestsOK

-----------------------------------------------------------------------------
(* The initial states *)

\* The types of the constants that rows and requests begin with.
LEMMA Constants ==
  /\ AbsentRow \in Row /\ NotCreated \in Intent /\ NoRequest \in Request
  /\ NoRequest.pc = "idle" /\ NoRequest.i = NoIntent /\ NoRequest.event = NoEvent /\ NoRequest.reply = "none"
  /\ NoRequest.x = NoRow
  /\ AbsentRow.intent = NoIntent /\ AbsentRow.status = "ABSENT" /\ AbsentRow.captured = 0
<1>1. AbsentRow \in Row
  BY NumbersAssumption DEF AbsentRow, Row
<1>2. NotCreated \in Intent
  BY NumbersAssumption DEF NotCreated, Intent, Open
<1>3. NoRequest \in Request
  BY <1>1, NumbersAssumption DEF NoRequest, Request, PCs
<1> QED BY <1>1, <1>2, <1>3 DEF NoRequest, AbsentRow

\* A request that is idle, or about to acknowledge, remembers nothing.
LEMMA QuietOK ==
  ASSUME NEW r, r.pc \in {"idle", "ack"}, r.i = NoIntent, r.pc = "idle" => r.event = NoEvent
  PROVE  RequestOK(r) /\ \A x : ~Claims(r, x)
BY DEF RequestOK, KnowsRow, KnowsIntent, WillWrite, WillEdit, WillFail, Claims

\* Without rows and intents there is nothing to say of them.
LEMMA InitInv == Init => IInv
<1> SUFFICES ASSUME Init PROVE IInv
  OBVIOUS
<1>1. TypeOK
  BY Constants, NumbersAssumption DEF Init, TypeOK
<1>2. /\ \A x \in Rows : row[x] = AbsentRow /\ key[x] = NoIntent
      /\ \A i \in Intents : intent[i].of = NoRow
      /\ owed = {} /\ aged = {}
      /\ \A p \in Requests : req[p] = NoRequest
  BY DEF Init, NotCreated
<1>3. \A x \in Rows : IntentsOf(x) = {}
  BY <1>2, RowsAssumption DEF IntentsOf
<1>4. TablesOK
  BY <1>2, <1>3, Constants
  DEF TablesOK, BoundRows, BoundKeys, OwedOK, AbsentOK, StatusesOK, OneIntentPerRow, UnclaimedExtras,
      TrueRows, Truth, Rows, Captured, Settled
<1>5. DepositKeys /\ ClaimedExtras /\ RequestsOK
  BY <1>2, <1>3, Constants, QuietOK DEF DepositKeys, ClaimedExtras, RequestsOK, Rows
<1> QED BY <1>1, <1>4, <1>5 DEF IInv

-----------------------------------------------------------------------------
(* Steps that change one request only *)

\* Request p becomes r, which is fit for it.
LEMMA RequestStep ==
  ASSUME IInv, NEW p \in Requests, NEW r \in Request, Becomes(p, r),
         UNCHANGED <<row, intent, key, aged>>, owed' \subseteq owed, crashes' \in 0..MaxCrashes,
         RequestOK(r),
         r.pc = "create" /\ r.x \in Deposits => IntentsOf(r.x) = {} \/ key[r.x] # NoIntent,
         \A x \in Extras : Claims(r, x) => Claims(req[p], x)
  PROVE  IInv'
<1> USE DEF IInv
<1>1. \A q \in Requests : req'[q] = IF q = p THEN r ELSE req[q]
  BY DEF Becomes, TypeOK
<1>2. TypeOK'
  BY DEF TypeOK, Becomes
<1>3. \A x : (IntentsOf(x))' = IntentsOf(x)
  BY DEF IntentsOf
<1>4. TablesOK'
  BY <1>3 DEF TablesOK, BoundRows, BoundKeys, OwedOK, AbsentOK, StatusesOK, OneIntentPerRow, UnclaimedExtras,
              TrueRows, Truth, Exists
<1>5. DepositKeys'
  BY <1>1, <1>3 DEF DepositKeys
<1>6. ClaimedExtras'
  BY <1>1, <1>3 DEF ClaimedExtras, Claims
<1>7. \A q \in Requests : RequestOK(req'[q])
  BY <1>1 DEF RequestsOK
<1>8. RequestsOK'
  <2> SUFFICES ASSUME NEW q \in Requests PROVE RequestOK(req[q])'
    BY DEF RequestsOK
  <2>1. RequestOK(req'[q])
    BY <1>7
  <2>2. KnowsRow(req[q])' /\ KnowsIntent(req[q])'
    BY <2>1 DEF RequestOK, KnowsRow, KnowsIntent, Exists
  <2>3. WillWrite(req[q])'
    BY <2>1, <1>3 DEF RequestOK, WillWrite, Truth
  <2>4. WillEdit(req[q])' /\ WillFail(req[q])'
    BY <2>1 DEF RequestOK, WillEdit, WillFail
  <2> QED BY <2>2, <2>3, <2>4 DEF RequestOK
<1> QED BY <1>2, <1>4, <1>5, <1>6, <1>8

\* The types of what a request works with.
LEMMA RequestTypes ==
  ASSUME IInv, NEW p \in Requests
  PROVE  /\ req[p] \in Request /\ RequestOK(req[p])
         /\ req[p].pc \in PCs /\ req[p].i \in Intents \cup {NoIntent} /\ req[p].event \in Events \cup {NoEvent}
         /\ req[p].to \in Row /\ req[p].x \in Rows \cup {NoRow} /\ req[p].tries \in 0..MaxAttempts
         /\ crashes \in 0..MaxCrashes
<1>1. req[p] \in Request
  BY DEF IInv, TypeOK
<1> QED BY <1>1 DEF Request, IInv, TypeOK, RequestsOK

\* A request ends.
LEMMA EndKeeps ==
  ASSUME IInv, NEW p \in Requests, Ends(p),
         UNCHANGED <<row, intent, key, aged>>, owed' \subseteq owed, crashes' \in 0..MaxCrashes
  PROVE  IInv'
BY Constants, QuietOK, RequestStep DEF Ends

\* A request returns, to its caller or to Stripe.
LEMMA ReturnKeeps ==
  ASSUME IInv, NEW p \in Requests, Returns(p), UNCHANGED <<row, intent, key, aged, owed, crashes>>
  PROVE  IInv'
<1>1. CASE req[p].event = NoEvent
  BY <1>1, EndKeeps, RequestTypes DEF Returns
<1>2. CASE req[p].event # NoEvent
  <2>1. PICK r : r = [NoRequest EXCEPT !.pc = "ack", !.event = req[p].event]
    OBVIOUS
  <2>2. r \in Request /\ r.pc = "ack" /\ r.i = NoIntent
    BY <2>1, Constants, RequestTypes DEF Request, PCs
  <2>3. Becomes(p, r)
    BY <1>2, <2>1 DEF Returns
  <2>4. RequestOK(r) /\ \A x : ~Claims(r, x)
    BY <2>2, QuietOK
  <2> QED BY <2>2, <2>3, <2>4, RequestTypes, RequestStep
<1> QED BY <1>1, <1>2

\* A request that begins to reconcile an intent of its row is fit for it.
LEMMA LoadOK ==
  ASSUME NEW r, r.pc = "load", r.x \in Rows, Exists(r.x), r.i \in Intents, intent[r.i].of = r.x,
         r.event[2] \notin {"refund", "dispute"}
  PROVE  RequestOK(r) /\ \A y : ~Claims(r, y)
<1>1. r.i # NoIntent
  BY IntentsAssumption
<1> QED BY <1>1 DEF RequestOK, KnowsRow, KnowsIntent, WillWrite, WillEdit, WillFail, Claims

\* A request goes on to reconcile an intent of its row.
LEMMA ReconcilesKeeps ==
  ASSUME IInv, NEW p \in Requests, NEW x \in Rows, Exists(x), NEW i \in Intents, intent[i].of = x,
         req[p].pc \notin {"load", "write", "mark", "ack"},
         Reconciles(p, x, i), UNCHANGED <<row, intent, key, aged, owed, crashes>>
  PROVE  IInv'
<1>0. req[p].event[2] \notin {"refund", "dispute"}
  BY RequestTypes DEF RequestOK, KnowsIntent, NoEvent
<1>1. PICK r : r = [NoRequest EXCEPT !.pc = "load", !.x = x, !.i = i, !.event = req[p].event]
  OBVIOUS
<1>2. r \in Request /\ r.pc = "load" /\ r.x = x /\ r.i = i /\ r.event = req[p].event
  BY <1>1, Constants, RequestTypes DEF Request, PCs
<1>3. RequestOK(r) /\ \A y : ~Claims(r, y)
  BY <1>0, <1>2, LoadOK
<1>4. Becomes(p, r)
  BY <1>1 DEF Reconciles
<1> QED BY <1>2, <1>3, <1>4, RequestTypes, RequestStep

\* An intent that a row names is its intent.
LEMMA BoundIntent ==
  ASSUME IInv, NEW x \in Rows, row[x].intent # NoIntent
  PROVE  row[x].intent \in Intents /\ intent[row[x].intent].of = x /\ Exists(x)
<1>1. row[x] \in Row /\ intent[row[x].intent].of = x /\ row[x].intent \in Intents
  BY DEF IInv, TypeOK, TablesOK, BoundRows, Row
<1>2. Exists(x)
  BY <1>1 DEF IInv, TablesOK, AbsentOK, IntentsOf
<1> QED BY <1>1, <1>2

\* The statuses of the two kinds.
LEMMA Kinds ==
  ASSUME IInv, NEW x \in Rows
  PROVE  /\ row[x] \in Row
         /\ x \in Deposits => x \notin Extras /\ row[x].status \in DepositStatuses \cup {"ABSENT"}
         /\ x \notin Deposits => x \in Extras /\ row[x].status \in ExtraStatuses \cup {"ABSENT"}
BY RowsAssumption DEF IInv, TypeOK, TablesOK, StatusesOK, Rows

-----------------------------------------------------------------------------
(* Requests that read and decide *)

\* The retries of createDeposit.
LEMMA RetryDepositKeeps ==
  ASSUME IInv, NEW p \in Requests, NEW d \in Deposits, row[d].status \in ACTIVE_DEPOSIT_STATUSES,
         row[d].intent = NoIntent, d \notin aged,
         Becomes(p, [NoRequest EXCEPT !.pc = "create", !.x = d, !.fresh = "YES"]),
         UNCHANGED <<row, intent, key, aged, owed, crashes>>
  PROVE  IInv'
<1>1. PICK r : r = [NoRequest EXCEPT !.pc = "create", !.x = d, !.fresh = "YES"]
  OBVIOUS
<1>2. r \in Request /\ r.pc = "create" /\ r.x = d /\ r.i = NoIntent /\ r.reply = "none" /\ r.event = NoEvent
  BY <1>1, Constants DEF Request, PCs, Rows
<1>3. d \in Rows /\ Exists(d) /\ d \notin Extras
  BY RowsAssumption DEF Rows, Exists, ACTIVE_DEPOSIT_STATUSES
<1>4. RequestOK(r)
  BY <1>2, <1>3 DEF RequestOK, KnowsRow, KnowsIntent, WillWrite, WillEdit, WillFail
<1>5. \A x \in Extras : ~Claims(r, x)
  BY <1>2, <1>3 DEF Claims
<1>6. IntentsOf(d) = {} \/ key[d] # NoIntent
  BY DEF IInv, DepositKeys
<1> QED BY <1>1, <1>2, <1>4, <1>5, <1>6, RequestTypes, RequestStep

\* chargeExtraCharge, approveExtraCharge and cancelExtraCharge read the row.
LEMMA EditorsKeep ==
  ASSUME IInv, NEW p \in Requests, NEW x \in Extras,
         chargeExtraCharge(p, x) \/ approveExtraCharge(p, x) \/ cancelExtraCharge(p, x)
  PROVE  IInv'
<1>0. x \in Rows /\ row[x] \in Row /\ row[x].status # "ABSENT"
      /\ UNCHANGED <<row, intent, key, aged, owed, crashes>>
  BY DEF Rows, IInv, TypeOK, chargeExtraCharge, approveExtraCharge, cancelExtraCharge, CHARGEABLE_EXTRA_STATUSES,
         APPROVABLE_EXTRA_STATUSES, Stripe, Time
<1>1. ASSUME NEW pc \in {"claim", "edit"},
             NEW s \in IF pc = "claim" THEN {"PAYMENT_PROCESSING"} ELSE {"APPROVED", "CANCELED"},
             row[x].intent = NoIntent, row[x].status \notin Settled \cup {"PAYMENT_PROCESSING"},
             Becomes(p, [NoRequest EXCEPT !.pc = pc, !.x = x, !.fresh = "YES",
                                          !.to = [row[x] EXCEPT !.status = s]])
      PROVE  IInv'
  <2>1. PICK t : t = [row[x] EXCEPT !.status = s]
    OBVIOUS
  <2>2. PICK r : r = [NoRequest EXCEPT !.pc = pc, !.x = x, !.fresh = "YES", !.to = t]
    OBVIOUS
  <2>3. t \in Row
    BY <1>0, <1>1, <2>1 DEF Row, ExtraStatuses, CHARGEABLE_EXTRA_STATUSES, NON_CANCELABLE_EXTRA_STATUSES
  <2>4. r \in Request /\ r.pc = pc /\ r.x = x /\ r.i = NoIntent /\ r.to = t /\ r.event = NoEvent
      /\ r.reply = "none"
    BY <1>0, <2>2, <2>3, Constants DEF Request, PCs
  <2>5. WillEdit(r)
    BY <1>1, <2>1, <2>4 DEF WillEdit
  <2>6. KnowsRow(r) /\ KnowsIntent(r) /\ WillWrite(r) /\ WillFail(r) /\ r.pc # "create" /\ \A y : ~Claims(r, y)
    BY <1>0, <2>4 DEF KnowsRow, KnowsIntent, WillWrite, WillFail, Exists, Claims
  <2> QED BY <1>0, <1>1, <2>1, <2>2, <2>4, <2>5, <2>6, RequestTypes, RequestStep DEF RequestOK
<1>2. CASE chargeExtraCharge(p, x)
  <2>1. CASE row[x].intent # NoIntent
    BY <1>0, <1>2, <2>1, BoundIntent, ReconcilesKeeps DEF chargeExtraCharge
  <2>2. CASE row[x].intent = NoIntent
    BY <1>1, <1>2, <2>2 DEF chargeExtraCharge, CHARGEABLE_EXTRA_STATUSES, Settled
  <2> QED BY <2>1, <2>2
<1>3. CASE approveExtraCharge(p, x)
  <2>1. row[x].status = "PENDING_APPROVAL"
    BY <1>3 DEF approveExtraCharge, APPROVABLE_EXTRA_STATUSES
  <2>2. CASE row[x].intent = NoIntent
    BY <1>1, <1>3, <2>1, <2>2 DEF approveExtraCharge, Settled
  <2>3. row[x].intent = NoIntent
    BY <1>0, <2>1, RowsAssumption DEF IInv, TablesOK, TrueRows, Truth
  <2> QED BY <2>2, <2>3
<1>4. CASE cancelExtraCharge(p, x)
  BY <1>1, <1>4 DEF cancelExtraCharge, NON_CANCELABLE_EXTRA_STATUSES, Settled
<1> QED BY <1>2, <1>3, <1>4

\* A request that learns of the intent of its row from an error, or of none, is fit for it.
LEMMA CatchOK ==
  ASSUME IInv, NEW p \in Requests, req[p].pc = "create",
         NEW r \in Request, r.pc = "catch", r.x = req[p].x, r.fresh = req[p].fresh, r.event = req[p].event,
         \/ r.i \in Intents /\ intent[r.i].of = r.x /\ r.reply = "none"
         \/ r.i = NoIntent /\ r.reply \in {"unknown", "refused"}
  PROVE  RequestOK(r) /\ \A x : Claims(r, x) => Claims(req[p], x)
<1>1. RequestOK(req[p])
  BY RequestTypes
<1>2. KnowsRow(r) /\ KnowsIntent(r) /\ WillWrite(r) /\ WillEdit(r) /\ WillFail(r)
  BY <1>1, IntentsAssumption DEF RequestOK, KnowsRow, KnowsIntent, WillWrite, WillEdit, WillFail
<1> QED BY <1>2 DEF RequestOK, Claims

\* The create call is refused, or Stripe answers as it did the first time.
LEMMA AnswersKeep ==
  ASSUME IInv, NEW p \in Requests, StripeReplays(p) \/ StripeRefuses(p)
  PROVE  IInv'
<1>0. /\ req[p].pc = "create" /\ req[p].x \in Rows /\ Exists(req[p].x) /\ req[p].i = NoIntent
      /\ req[p].reply = "none" /\ UNCHANGED <<row, intent, key, aged, owed, crashes>>
      /\ req[p] \in Request /\ crashes \in 0..MaxCrashes
  BY RequestTypes DEF StripeReplays, StripeRefuses, Stripe, Time, RequestOK, KnowsRow, KnowsIntent
<1>1. ASSUME NEW reply \in {"refused", "unknown"}, Becomes(p, [req[p] EXCEPT !.pc = "catch", !.reply = reply])
      PROVE  IInv'
  <2>1. PICK r : r = [req[p] EXCEPT !.pc = "catch", !.reply = reply]
    OBVIOUS
  <2>2. /\ r \in Request /\ r.pc = "catch" /\ r.x = req[p].x /\ r.fresh = req[p].fresh
        /\ r.event = req[p].event /\ r.i = NoIntent /\ r.reply = reply
    BY <1>0, <2>1 DEF Request, PCs
  <2>3. RequestOK(r) /\ \A x : Claims(r, x) => Claims(req[p], x)
    BY <1>0, <2>2, CatchOK
  <2> QED BY <1>0, <1>1, <2>1, <2>2, <2>3, RequestStep
<1>2. CASE StripeRefuses(p)
  BY <1>1, <1>2 DEF StripeRefuses
<1>3. CASE StripeReplays(p)
  <2>1. PICK i \in Intents : i = key[req[p].x] /\ intent[i].of = req[p].x
    BY <1>0, <1>3 DEF StripeReplays, IInv, TypeOK, TablesOK, BoundKeys
  <2>2. CASE Reconciles(p, req[p].x, i)
    BY <1>0, <2>1, <2>2, ReconcilesKeeps
  <2>3. CASE Becomes(p, [req[p] EXCEPT !.pc = "catch", !.i = i])
    <3>1. PICK r : r = [req[p] EXCEPT !.pc = "catch", !.i = i]
      OBVIOUS
    <3>2. /\ r \in Request /\ r.pc = "catch" /\ r.x = req[p].x /\ r.fresh = req[p].fresh
          /\ r.event = req[p].event /\ r.i = i /\ r.reply = "none"
      BY <1>0, <3>1 DEF Request, PCs
    <3>3. RequestOK(r) /\ \A x : Claims(r, x) => Claims(req[p], x)
      BY <1>0, <2>1, <3>2, CatchOK
    <3> QED BY <1>0, <2>3, <3>1, <3>2, <3>3, RequestStep
  <2> QED BY <1>1, <1>3, <2>1, <2>2, <2>3 DEF StripeReplays, Answers
<1> QED BY <1>2, <1>3

\* The row is read again after a failed create call.
LEMMA CatchKeeps == ASSUME IInv, NEW p \in Requests, Catch(p) PROVE IInv'
<1>0. /\ req[p].pc = "catch" /\ req[p].x \in Rows /\ Exists(req[p].x)
      /\ UNCHANGED <<row, intent, key, aged, owed, crashes>>
      /\ req[p] \in Request /\ crashes \in 0..MaxCrashes /\ RequestOK(req[p])
  BY RequestTypes DEF Catch, Stripe, Time, RequestOK, KnowsRow
<1>1. CASE row[req[p].x].intent # NoIntent
  BY <1>0, <1>1, BoundIntent, ReconcilesKeeps DEF Catch
<1>2. CASE row[req[p].x].intent = NoIntent /\ req[p].i # NoIntent
  <2>1. req[p].i \in Intents /\ intent[req[p].i].of = req[p].x
    BY <1>0, <1>2, RequestTypes DEF RequestOK, KnowsIntent
  <2> QED BY <1>0, <1>2, <2>1, ReconcilesKeeps DEF Catch
<1>3. CASE row[req[p].x].intent = NoIntent /\ req[p].i = NoIntent /\ req[p].reply = "unknown"
  BY <1>0, <1>3, EndKeeps DEF Catch
<1>4. CASE row[req[p].x].intent = NoIntent /\ req[p].i = NoIntent /\ req[p].reply # "unknown"
  <2>1. req[p].reply = "refused"
    BY <1>0, <1>4 DEF RequestOK, KnowsIntent
  <2>2. PICK t : t = [row[req[p].x] EXCEPT !.status = "FAILED"]
    OBVIOUS
  <2>3. PICK r : r = [req[p] EXCEPT !.pc = "fail", !.to = t]
    OBVIOUS
  <2>4. t \in Row
    BY <1>0, <2>2, Kinds DEF Row, DepositStatuses
  <2>5. /\ r \in Request /\ r.pc = "fail" /\ r.x = req[p].x /\ r.fresh = req[p].fresh /\ r.to = t
        /\ r.i = NoIntent /\ r.reply = "refused" /\ r.event = req[p].event
    BY <1>0, <1>4, <2>1, <2>3, <2>4 DEF Request, PCs
  <2>6. KnowsRow(r) /\ KnowsIntent(r) /\ WillWrite(r) /\ WillEdit(r)
    BY <1>0, <2>5 DEF RequestOK, KnowsRow, KnowsIntent, WillWrite, WillEdit
  <2>7. WillFail(r)
    BY <1>0, <2>2, <2>5 DEF RequestOK, WillFail
  <2>8. \A x : Claims(r, x) => Claims(req[p], x)
    BY <1>0, <2>1, <2>5 DEF Claims
  <2>9. Becomes(p, r)
    BY <1>4, <2>2, <2>3 DEF Catch
  <2> QED BY <1>0, <2>5, <2>6, <2>7, <2>8, <2>9, RequestStep DEF RequestOK
<1> QED BY <1>1, <1>2, <1>3, <1>4

\* captureDeposit and releaseDeposit read the row, then the intent.
LEMMA DepositReadersKeep ==
  ASSUME IInv, NEW p \in Requests,
         \/ \E d \in Deposits : captureDeposit(p, d) \/ releaseDeposit(p, d)
         \/ BeforeCapture(p) \/ BeforeRelease(p)
  PROVE  IInv'
<1>0. UNCHANGED <<row, intent, key, aged, owed, crashes>> /\ crashes \in 0..MaxCrashes /\ req[p] \in Request
  BY RequestTypes DEF captureDeposit, releaseDeposit, BeforeCapture, BeforeRelease, Stripe, Time
<1>1. ASSUME NEW r \in Request, r.pc \in {"precapture", "prerelease", "capture", "release"},
             r.x \in Deposits, Exists(r.x), r.i \in Intents, intent[r.i].of = r.x, r.event = NoEvent,
             Becomes(p, r)
      PROVE  IInv'
  <2>1. r.i # NoIntent /\ r.x \in Rows
    BY <1>1, IntentsAssumption DEF Rows
  <2>2. RequestOK(r) /\ \A x : ~Claims(r, x)
    BY <1>1, <2>1 DEF RequestOK, KnowsRow, KnowsIntent, WillWrite, WillEdit, WillFail, Claims
  <2> QED BY <1>0, <1>1, <2>2, RequestStep
<1>2. ASSUME NEW d \in Deposits, captureDeposit(p, d) \/ releaseDeposit(p, d) PROVE IInv'
  <2>1. PICK i \in Intents : i = row[d].intent /\ intent[i].of = d /\ Exists(d) /\ d \in Rows
    BY <1>2, BoundIntent DEF captureDeposit, releaseDeposit, Rows
  <2>2. PICK r \in Request : r.pc \in {"precapture", "prerelease"} /\ r.x = d /\ r.i = i /\ r.event = NoEvent
                          /\ Becomes(p, r)
    <3>1. CASE captureDeposit(p, d)
      <4>1. row[d].captured \in 0..Amount
        BY <2>1, Kinds DEF Row
      <4>2. PICK a \in 1..(Amount - row[d].captured) :
              Becomes(p, [NoRequest EXCEPT !.pc = "precapture", !.x = d, !.i = row[d].intent, !.amount = a])
        BY <3>1 DEF captureDeposit
      <4>3. a \in 0..Amount
        BY <4>1, NumbersAssumption
      <4>4. PICK r : r = [NoRequest EXCEPT !.pc = "precapture", !.x = d, !.i = row[d].intent, !.amount = a]
        OBVIOUS
      <4>5. r \in Request /\ r.pc = "precapture" /\ r.x = d /\ r.i = i /\ r.event = NoEvent
        BY <2>1, <4>3, <4>4, Constants DEF Request, PCs
      <4> QED BY <4>2, <4>4, <4>5
    <3>2. CASE releaseDeposit(p, d)
      <4>1. PICK r : r = [NoRequest EXCEPT !.pc = "prerelease", !.x = d, !.i = row[d].intent]
        OBVIOUS
      <4>2. r \in Request /\ r.pc = "prerelease" /\ r.x = d /\ r.i = i /\ r.event = NoEvent
        BY <2>1, <4>1, Constants DEF Request, PCs
      <4>3. Becomes(p, r)
        BY <3>2, <4>1 DEF releaseDeposit
      <4> QED BY <4>2, <4>3
    <3> QED BY <1>2, <3>1, <3>2
  <2> QED BY <1>1, <2>1, <2>2
<1>3. CASE BeforeCapture(p) \/ BeforeRelease(p)
  <2>1. /\ req[p].pc \in {"precapture", "prerelease"} /\ req[p].x \in Deposits /\ Exists(req[p].x)
        /\ req[p].i \in Intents /\ intent[req[p].i].of = req[p].x /\ req[p].x \in Rows
        /\ req[p].event = NoEvent
    BY <1>3, RequestTypes DEF BeforeCapture, BeforeRelease, RequestOK, KnowsRow, KnowsIntent
  <2>2. CASE Reconciles(p, req[p].x, req[p].i)
    BY <1>0, <2>1, <2>2, ReconcilesKeeps
  <2>3. ASSUME NEW pc \in {"capture", "release"}, Becomes(p, [req[p] EXCEPT !.pc = pc]) PROVE IInv'
    <3>1. PICK r : r = [req[p] EXCEPT !.pc = pc]
      OBVIOUS
    <3>2. r \in Request /\ r.pc = pc /\ r.x = req[p].x /\ r.i = req[p].i /\ r.event = NoEvent
      BY <1>0, <2>1, <3>1 DEF Request, PCs
    <3> QED BY <1>1, <2>1, <2>3, <3>1, <3>2
  <2> QED BY <1>3, <2>2, <2>3 DEF BeforeCapture, BeforeRelease
<1> QED BY <1>2, <1>3

\* What reconcileIntent wants to write is true and may follow the row it was made from.
LEMMA ReconciledOK ==
  ASSUME IInv, NEW x \in Rows, NEW i \in Intents, validateIntent(x, row[x], i), Exists(x),
         NEW n, n = Reconciled(x, row[x], i), n # row[x]
  PROVE  /\ n \in Row /\ n.intent = i /\ Truth(x, n) /\ MayFollow(row[x], n)
         /\ n.status \in IF x \in Deposits THEN DepositStatuses ELSE ExtraStatuses
<1>0. /\ row[x] \in Row /\ i # NoIntent /\ intent[i] \in Intent /\ ~Terminal(x, row[x])
      /\ row[x].intent # NoIntent => row[x].intent = i
  BY Kinds, IntentsAssumption DEF Reconciled, validateIntent, IInv, TypeOK
<1>1. CASE x \in Extras
  <2>1. PICK s : s = ExtraStatus(i)
    OBVIOUS
  <2>2. /\ s \in {"PAID", "CANCELED", "FAILED", "PAYMENT_PROCESSING"}
        /\ s = "PAID" => intent[i].status = "succeeded"
        /\ s = "CANCELED" => intent[i].status = "canceled"
    BY <2>1 DEF ExtraStatus
  <2>3. n = [row[x] EXCEPT !.intent = i, !.status = s]
    BY <1>0, <1>1, <2>1 DEF Reconciled
  <2>4. s \in ExtraStatuses /\ s \in DepositStatuses \cup ExtraStatuses \cup {"ABSENT"}
    BY <2>2 DEF ExtraStatuses, CHARGEABLE_EXTRA_STATUSES, NON_CANCELABLE_EXTRA_STATUSES
  <2>5. n \in Row /\ n.intent = i /\ n.status = s
    BY <1>0, <2>3, <2>4 DEF Row
  <2>6. x \notin Deposits /\ row[x].status \in ExtraStatuses \cup {"ABSENT"} /\ row[x].status \notin Settled
    BY <1>0, <1>1, Kinds, RowsAssumption DEF Terminal
  <2>7. Truth(x, n)
    BY <1>0, <2>2, <2>5, <2>6 DEF Truth, Settled
  <2>8. MayFollow(row[x], n)
    BY <1>0, <2>5, <2>6 DEF MayFollow, Captured, Settled, ExtraStatuses, CHARGEABLE_EXTRA_STATUSES,
                            APPROVABLE_EXTRA_STATUSES, NON_CANCELABLE_EXTRA_STATUSES
  <2> QED BY <2>4, <2>5, <2>6, <2>7, <2>8
<1>2. CASE x \notin Extras
  <2>1. PICK s : s = DepositStatus(i)
    OBVIOUS
  <2>2. PICK c : c = IF intent[i].status = "succeeded" THEN intent[i].received ELSE row[x].captured
    OBVIOUS
  <2>3. /\ s \in DepositStatuses
        /\ s \in Captured => intent[i].status = "succeeded"
        /\ s = "RELEASED" => intent[i].status = "canceled"
    BY <2>1 DEF DepositStatus, DepositStatuses, Captured, ACTIVE_DEPOSIT_STATUSES
  <2>4. n = [row[x] EXCEPT !.intent = i, !.status = s, !.captured = c]
    BY <1>0, <1>2, <2>1, <2>2 DEF Reconciled
  <2>5. c \in 0..Amount
    BY <1>0, <2>2 DEF Row, Intent
  <2>6. n \in Row /\ n.intent = i /\ n.status = s /\ n.captured = c
    BY <1>0, <2>3, <2>4, <2>5 DEF Row
  <2>7. x \in Deposits /\ row[x].status \in DepositStatuses \cup {"ABSENT"} /\ row[x].status \notin Captured
    BY <1>0, <1>2, Kinds DEF Terminal
  <2>8. Truth(x, n)
    BY <1>0, <2>2, <2>3, <2>6, <2>7 DEF Truth
  <2>9. MayFollow(row[x], n)
    BY <1>0, <2>6, <2>7 DEF MayFollow, DepositStatuses, Captured, ACTIVE_DEPOSIT_STATUSES
  <2> QED BY <2>3, <2>6, <2>7, <2>8, <2>9
<1> QED BY <1>1, <1>2

\* A request that knows what to write is fit for it.
LEMMA DecidesKeeps ==
  ASSUME IInv, NEW p \in Requests, req[p].pc \in {"load", "mark"}, NEW n \in Row, n.intent = req[p].i,
         Truth(req[p].x, n), MayFollow(row[req[p].x], n),
         n.status \in IF req[p].x \in Deposits THEN DepositStatuses ELSE ExtraStatuses,
         Becomes(p, [req[p] EXCEPT !.pc = "write", !.fresh = "YES", !.to = n]),
         UNCHANGED <<row, intent, key, aged, owed, crashes>>
  PROVE  IInv'
<1>1. PICK r : r = [req[p] EXCEPT !.pc = "write", !.fresh = "YES", !.to = n]
  OBVIOUS
<1>2. /\ r \in Request /\ r.pc = "write" /\ r.x = req[p].x /\ r.i = req[p].i /\ r.to = n
      /\ r.event = req[p].event
  BY <1>1, RequestTypes DEF Request, PCs
<1>3. KnowsRow(r) /\ KnowsIntent(r)
  BY <1>2, RequestTypes DEF RequestOK, KnowsRow, KnowsIntent
<1>4. WillWrite(r) /\ WillEdit(r) /\ WillFail(r) /\ \A x : ~Claims(r, x)
  BY <1>2 DEF WillWrite, WillEdit, WillFail, Claims
<1> QED BY <1>1, <1>2, <1>3, <1>4, RequestTypes, RequestStep DEF RequestOK

\* reconcileIntent reads the row and the intent.
LEMMA LoadKeeps == ASSUME IInv, NEW p \in Requests, LoadAndRetrieve(p) PROVE IInv'
<1>0. /\ UNCHANGED <<row, intent, key, aged, owed, crashes>> /\ crashes \in 0..MaxCrashes
      /\ req[p].pc = "load" /\ req[p].x \in Rows /\ Exists(req[p].x) /\ req[p].i \in Intents
  BY RequestTypes DEF LoadAndRetrieve, Stripe, Time, RequestOK, KnowsRow, KnowsIntent
<1>1. PICK n : n = Reconciled(req[p].x, row[req[p].x], req[p].i)
  OBVIOUS
<1>2. CASE Ends(p)
  BY <1>0, <1>2, EndKeeps
<1>3. CASE Returns(p)
  BY <1>0, <1>3, ReturnKeeps
<1>4. CASE /\ validateIntent(req[p].x, row[req[p].x], req[p].i) /\ n # row[req[p].x]
           /\ Becomes(p, [req[p] EXCEPT !.pc = "write", !.fresh = "YES", !.to = n])
  <2>1. /\ n \in Row /\ n.intent = req[p].i /\ Truth(req[p].x, n) /\ MayFollow(row[req[p].x], n)
        /\ n.status \in IF req[p].x \in Deposits THEN DepositStatuses ELSE ExtraStatuses
    BY <1>0, <1>1, <1>4, ReconciledOK
  <2> QED BY <1>0, <1>4, <2>1, DecidesKeeps
<1> QED BY <1>1, <1>2, <1>3, <1>4 DEF LoadAndRetrieve

\* markPaymentIntentLinkedRecord reads the charge, the intent and the row.
LEMMA MarkKeeps == ASSUME IInv, NEW p \in Requests, Mark(p) PROVE IInv'
<1>0. /\ UNCHANGED <<row, intent, key, aged, owed, crashes>> /\ crashes \in 0..MaxCrashes
      /\ req[p].pc = "mark" /\ req[p].x \in Rows /\ req[p].x \in Extras /\ req[p].i \in Intents
      /\ intent[req[p].i].status = "succeeded" /\ req[p].i # NoIntent /\ row[req[p].x] \in Row
  BY RequestTypes, Kinds DEF Mark, Stripe, Time, RequestOK, KnowsRow, KnowsIntent
<1>1. PICK s : s = MarkedStatus(req[p].event, row[req[p].x], req[p].i)
  OBVIOUS
<1>2. PICK n : n = [row[req[p].x] EXCEPT !.intent = req[p].i, !.status = s]
  OBVIOUS
<1>3. s \in {"REFUNDED", "DISPUTED"} /\ (row[req[p].x].status = "DISPUTED" => s = "DISPUTED")
  BY <1>1 DEF MarkedStatus
<1>4. s \in ExtraStatuses
  BY <1>3 DEF ExtraStatuses, NON_CANCELABLE_EXTRA_STATUSES
<1>5. n \in Row /\ n.intent = req[p].i /\ n.status = s
  BY <1>0, <1>2, <1>4 DEF Row
<1>6. CASE Ends(p)
  BY <1>0, <1>6, EndKeeps
<1>7. CASE Returns(p)
  BY <1>0, <1>7, ReturnKeeps
<1>8. CASE /\ validateIntent(req[p].x, row[req[p].x], req[p].i)
           /\ Becomes(p, [req[p] EXCEPT !.pc = "write", !.fresh = "YES", !.to = n])
  <2>1. req[p].x \notin Deposits /\ row[req[p].x].status \in ExtraStatuses \cup {"ABSENT"}
    BY <1>0, Kinds
  <2>2. Truth(req[p].x, n)
    BY <1>0, <1>3, <1>5, <2>1 DEF Truth, Settled
  <2>3. MayFollow(row[req[p].x], n)
    BY <1>0, <1>3, <1>5, <1>8, <2>1
    DEF MayFollow, validateIntent, Captured, Settled, ExtraStatuses, CHARGEABLE_EXTRA_STATUSES,
        APPROVABLE_EXTRA_STATUSES, NON_CANCELABLE_EXTRA_STATUSES
  <2> QED BY <1>0, <1>4, <1>5, <1>8, <2>1, <2>2, <2>3, DecidesKeeps
<1> QED BY <1>1, <1>2, <1>6, <1>7, <1>8 DEF Mark

\* A webhook is delivered.
LEMMA WebhookKeeps ==
  ASSUME IInv, NEW p \in Requests, NEW e \in owed, handleStripeEvent(p, e)
  PROVE  IInv'
<1>1. PICK x : x = intent[e[1]].of
  OBVIOUS
<1>2. PICK i : i = e[1]
  OBVIOUS
<1>3. PICK pc : pc = IF e[2] = "intent" THEN "load" ELSE "mark"
  OBVIOUS
<1>4. PICK r : r = [NoRequest EXCEPT !.pc = pc, !.x = x, !.i = i, !.event = e]
  OBVIOUS
<1>5. Becomes(p, r) /\ UNCHANGED <<row, intent, key, aged, owed, crashes>>
  BY <1>1, <1>2, <1>3, <1>4 DEF handleStripeEvent, Stripe, Time
<1>6. e \in Events /\ i \in Intents /\ e[2] \in {"intent", "refund", "dispute"}
  BY <1>2 DEF IInv, TypeOK, Events
<1>7. x \in Rows /\ (e[2] # "intent" => x \in Extras /\ intent[i].status = "succeeded") /\ intent[i].of = x
  BY <1>1, <1>2 DEF IInv, TablesOK, OwedOK
<1>8. Exists(x) /\ i # NoIntent
  BY <1>6, <1>7, IntentsAssumption DEF IInv, TablesOK, AbsentOK, IntentsOf
<1>9. r \in Request /\ r.pc = pc /\ r.x = x /\ r.i = i /\ r.event = e
  BY <1>3, <1>4, <1>6, <1>7, Constants DEF Request, PCs
<1>10. RequestOK(r) /\ \A y : ~Claims(r, y)
  BY <1>3, <1>6, <1>7, <1>8, <1>9 DEF RequestOK, KnowsRow, KnowsIntent, WillWrite, WillEdit, WillFail, Claims
<1> QED BY <1>3, <1>5, <1>9, <1>10, RequestTypes, RequestStep

\* A webhook is acknowledged; a request dies.
LEMMA LastStepsKeep == ASSUME IInv, NEW p \in Requests, Acknowledge(p) \/ Dies(p) PROVE IInv'
<1>1. crashes' \in 0..MaxCrashes
  BY RequestTypes, NumbersAssumption DEF Acknowledge, Dies, Time
<1>2. Ends(p) /\ UNCHANGED <<row, intent, key, aged>> /\ owed' \subseteq owed
  BY DEF Acknowledge, Dies, Stripe, Time
<1> QED BY <1>1, <1>2, EndKeeps

-----------------------------------------------------------------------------
(* Steps that write a row *)

\* A request that does not make the step holds a stale copy of row x after it.
Stales(q, x) == req'[q] = IF req[q].x = x THEN [req[q] EXCEPT !.fresh = "NO"] ELSE req[q]

\* The request that makes the step is over, or left with an event to acknowledge.
Quiet(r) == r \in Request /\ r.pc \in {"idle", "ack"} /\ r.i = NoIntent /\ (r.pc = "idle" => r.event = NoEvent)

\* The request that makes the step goes on to create the intent of row x.
Creates(r, x) == /\ r \in Request /\ r.pc = "create" /\ r.x = x
                 /\ r.i = NoIntent /\ r.reply = "none" /\ r.event = NoEvent

\* A request with a stale copy, in terms of its fields.
LEMMA StaleFields ==
  ASSUME IInv, NEW q \in Requests, NEW x, Stales(q, x)
  PROVE  /\ req'[q] \in Request
         /\ req'[q].pc = req[q].pc /\ req'[q].x = req[q].x /\ req'[q].i = req[q].i /\ req'[q].to = req[q].to
         /\ req'[q].reply = req[q].reply /\ req'[q].event = req[q].event
         /\ req'[q].fresh = IF req[q].x = x THEN "NO" ELSE req[q].fresh
         /\ req[q].x # x => req'[q] = req[q]
         /\ \A y : Claims(req'[q], y) <=> Claims(req[q], y)
<1>1. req[q] \in Request
  BY RequestTypes
<1>2. /\ req'[q] \in Request
      /\ req'[q].pc = req[q].pc /\ req'[q].x = req[q].x /\ req'[q].i = req[q].i /\ req'[q].to = req[q].to
      /\ req'[q].reply = req[q].reply /\ req'[q].event = req[q].event
      /\ req'[q].fresh = IF req[q].x = x THEN "NO" ELSE req[q].fresh
  BY <1>1 DEF Stales, Request
<1> QED BY <1>2 DEF Claims, Stales

\* Row x becomes r, which is true; request p, if there is one, is over or goes on to create.
LEMMA RowStep ==
  ASSUME IInv, NEW x \in Rows, NEW r \in Row, row' = [row EXCEPT ![x] = r], NEW p,
         UNCHANGED <<intent, key, aged, owed, crashes>>,
         req' \in [Requests -> Request],
         \A q \in Requests : Stales(q, x) \/ Quiet(req'[q]) \/ (q = p /\ Creates(req'[q], x)),
         p \in Requests /\ Creates(req'[p], x) =>
           /\ x \in Deposits => /\ r.intent = NoIntent /\ r.status \in ACTIVE_DEPOSIT_STATUSES
                                /\ IntentsOf(x) = {},
         r.intent # NoIntent => intent[r.intent].of = x,
         r.status \in IF x \in Deposits THEN DepositStatuses ELSE ExtraStatuses,
         x \in Extras /\ r.intent = NoIntent /\ r.status # "PAYMENT_PROCESSING" => IntentsOf(x) = {},
         Truth(x, r),
         x \in Extras => \A q \in Requests : Claims(req'[q], x) =>
           /\ r.intent = NoIntent /\ r.status = "PAYMENT_PROCESSING" /\ IntentsOf(x) = {}
           /\ \A q2 \in Requests : Claims(req'[q2], x) => q2 = q
  PROVE  IInv'
<1>1. \A y \in Rows : row'[y] = IF y = x THEN r ELSE row[y]
  BY DEF IInv, TypeOK
<1>2. TypeOK'
  BY <1>1 DEF IInv, TypeOK
<1>3. \A y : (IntentsOf(y))' = IntentsOf(y)
  BY DEF IntentsOf
<1>4. r.status # "ABSENT"
  BY DEF DepositStatuses, ExtraStatuses, ACTIVE_DEPOSIT_STATUSES, Captured, CHARGEABLE_EXTRA_STATUSES,
         APPROVABLE_EXTRA_STATUSES, NON_CANCELABLE_EXTRA_STATUSES
<1>5. TablesOK'
  <2>1. BoundRows' /\ BoundKeys' /\ OwedOK'
    BY <1>1 DEF IInv, TablesOK, BoundRows, BoundKeys, OwedOK
  <2>2. AbsentOK'
    BY <1>1, <1>3, <1>4 DEF IInv, TablesOK, AbsentOK, Exists
  <2>3. StatusesOK'
    BY <1>1, RowsAssumption DEF IInv, TablesOK, StatusesOK, Rows
  <2>4. OneIntentPerRow'
    BY DEF IInv, TablesOK, OneIntentPerRow
  <2>5. UnclaimedExtras'
    BY <1>1, <1>3 DEF IInv, TablesOK, UnclaimedExtras, Rows
  <2>6. TrueRows'
    <3> SUFFICES ASSUME NEW y \in Rows PROVE Truth(y, row[y])'
      BY DEF TrueRows
    <3>1. Truth(y, row'[y])
      BY <1>1 DEF IInv, TablesOK, TrueRows
    <3> QED BY <1>3, <3>1 DEF Truth
  <2> QED BY <2>1, <2>2, <2>3, <2>4, <2>5, <2>6 DEF TablesOK
<1>6. \A q \in Requests : \A y : Claims(req'[q], y) => Claims(req[q], y) \/ y = x
  <2> SUFFICES ASSUME NEW q \in Requests, NEW y, Claims(req'[q], y), y # x PROVE Claims(req[q], y)
    OBVIOUS
  <2>1. CASE Stales(q, x)
    BY <2>1, StaleFields
  <2>2. CASE Quiet(req'[q])
    BY <2>2 DEF Quiet, Claims
  <2>3. CASE Creates(req'[q], x)
    BY <2>3 DEF Creates, Claims
  <2> QED BY <2>1, <2>2, <2>3
<1>7. DepositKeys'
  <2> SUFFICES ASSUME NEW d \in Deposits, IntentsOf(d) # {}, key[d] = NoIntent
               PROVE  d \in aged /\ \A q \in Requests : ~(req'[q].x = d /\ req'[q].pc = "create")
    BY <1>3 DEF DepositKeys
  <2>1. d \in aged /\ \A q \in Requests : ~(req[q].x = d /\ req[q].pc = "create")
    BY DEF IInv, DepositKeys
  <2>2. ASSUME NEW q \in Requests, req'[q].x = d, req'[q].pc = "create" PROVE FALSE
    <3>1. CASE Stales(q, x)
      BY <2>1, <2>2, <3>1, StaleFields
    <3>2. CASE Quiet(req'[q])
      BY <2>2, <3>2 DEF Quiet
    <3>3. CASE q = p /\ Creates(req'[q], x)
      BY <2>2, <3>3 DEF Creates
    <3> QED BY <3>1, <3>2, <3>3
  <2> QED BY <2>1, <2>2
<1>8. ClaimedExtras'
  <2> SUFFICES ASSUME NEW y \in Extras, NEW q \in Requests, Claims(req'[q], y)
               PROVE  /\ row'[y].intent = NoIntent /\ row'[y].status = "PAYMENT_PROCESSING" /\ IntentsOf(y) = {}
                      /\ \A q2 \in Requests : Claims(req'[q2], y) => q2 = q
    BY <1>3 DEF ClaimedExtras, Claims
  <2>1. CASE y = x
    BY <1>1, <2>1
  <2>2. CASE y # x
    BY <1>1, <1>6, <2>2 DEF IInv, ClaimedExtras, Rows
  <2> QED BY <2>1, <2>2
<1>9. RequestsOK'
  <2> SUFFICES ASSUME NEW q \in Requests PROVE RequestOK(req[q])'
    BY DEF RequestsOK
  <2>1. CASE Stales(q, x)
    <3>1. RequestOK(req[q])
      BY RequestTypes
    <3>2. KnowsRow(req[q])' /\ KnowsIntent(req[q])'
      BY <1>1, <1>4, <2>1, <3>1, StaleFields DEF RequestOK, KnowsRow, KnowsIntent, Exists
    <3>3. CASE req[q].x = x
      <4>1. WillEdit(req[q])' /\ WillFail(req[q])'
        BY <2>1, <3>3, StaleFields DEF WillEdit, WillFail
      <4>2. WillWrite(req[q])'
        BY <1>3, <2>1, <3>1, <3>3, StaleFields DEF RequestOK, WillWrite, Truth
      <4> QED BY <3>2, <4>1, <4>2 DEF RequestOK
    <3>4. CASE req[q].x # x
      <4>1. req'[q] = req[q] /\ (req[q].pc \notin {"idle", "ack"} => row'[req[q].x] = row[req[q].x])
        BY <1>1, <2>1, <3>1, <3>4, StaleFields DEF RequestOK, KnowsRow
      <4>2. WillEdit(req[q])' /\ WillFail(req[q])'
        BY <3>1, <4>1 DEF RequestOK, WillEdit, WillFail
      <4>3. WillWrite(req[q])'
        BY <1>3, <3>1, <4>1 DEF RequestOK, WillWrite, Truth
      <4> QED BY <3>2, <4>2, <4>3 DEF RequestOK
    <3> QED BY <3>3, <3>4
  <2>2. CASE Quiet(req'[q])
    BY <2>2 DEF Quiet, RequestOK, KnowsRow, KnowsIntent, WillWrite, WillEdit, WillFail
  <2>3. CASE q = p /\ Creates(req'[q], x)
    BY <1>1, <1>4, <2>3 DEF Creates, RequestOK, KnowsRow, KnowsIntent, WillWrite, WillEdit, WillFail, Exists
  <2> QED BY <2>1, <2>2, <2>3
<1> QED BY <1>2, <1>5, <1>7, <1>8, <1>9 DEF IInv

\* What Writes does to the requests.
LEMMA WritesRequests ==
  ASSUME IInv, NEW p \in Requests, NEW x, NEW r, NEW n \in Request, Writes(p, x, r, n)
  PROVE  /\ req' \in [Requests -> Request] /\ req'[p] = n
         /\ \A q \in Requests : q # p => Stales(q, x)
<1>1. ASSUME NEW q \in Requests
      PROVE  (IF q = p THEN n ELSE IF req[q].x = x THEN [req[q] EXCEPT !.fresh = "NO"] ELSE req[q]) \in Request
  <2>1. req[q] \in Request
    BY RequestTypes
  <2>2. [req[q] EXCEPT !.fresh = "NO"] \in Request
    BY <2>1 DEF Request
  <2> QED BY <2>1, <2>2
<1> QED BY <1>1 DEF Writes, Stales

\* The last write of a request: the row is true and nobody else holds its claim.
LEMMA LastWrite ==
  ASSUME IInv, NEW p \in Requests, NEW x \in Rows, NEW r \in Row, NEW n, Quiet(n), Writes(p, x, r, n),
         UNCHANGED <<intent, key, aged, owed, crashes>>,
         r.intent # NoIntent => intent[r.intent].of = x,
         r.status \in IF x \in Deposits THEN DepositStatuses ELSE ExtraStatuses,
         x \in Extras /\ r.intent = NoIntent /\ r.status # "PAYMENT_PROCESSING" => IntentsOf(x) = {},
         Truth(x, r),
         x \in Extras => \A q \in Requests : q # p => ~Claims(req[q], x)
  PROVE  IInv'
<1>1. /\ req' \in [Requests -> Request] /\ req'[p] = n
      /\ \A q \in Requests : q # p => Stales(q, x)
  BY WritesRequests DEF Quiet
<1>2. row' = [row EXCEPT ![x] = r]
  BY DEF Writes
<1>3. x \in Extras => \A q \in Requests : ~Claims(req'[q], x)
  <2> SUFFICES ASSUME x \in Extras, NEW q \in Requests PROVE ~Claims(req'[q], x)
    OBVIOUS
  <2>1. CASE q = p
    BY <1>1, <2>1 DEF Quiet, Claims
  <2>2. CASE q # p
    BY <1>1, <2>2, StaleFields
  <2> QED BY <2>1, <2>2
<1>4. \A q \in Requests : Stales(q, x) \/ Quiet(req'[q])
  BY <1>1
<1>5. ~Creates(req'[p], x)
  BY <1>1 DEF Quiet, Creates
<1> QED BY <1>1, <1>2, <1>3, <1>4, <1>5, RowStep

\* Nobody claims an extra charge that is not being processed, or that has an intent.
LEMMA Unclaimed ==
  ASSUME IInv, NEW x \in Extras,
         row[x].intent # NoIntent \/ row[x].status # "PAYMENT_PROCESSING" \/ IntentsOf(x) # {}
  PROVE  \A q \in Requests : ~Claims(req[q], x)
BY DEF IInv, ClaimedExtras

\* NoRequest is quiet.
LEMMA QuietNone == Quiet(NoRequest)
BY Constants DEF Quiet

\* claimActiveDeposit creates the row.
LEMMA CreateDepositKeeps == ASSUME IInv, NEW p \in Requests, NEW d \in Deposits, createDeposit(p, d) PROVE IInv'
<1>0. d \in Rows /\ d \notin Extras /\ UNCHANGED <<intent, key, aged, owed, crashes>> /\ req[p].pc = "idle"
  BY RowsAssumption DEF Rows, createDeposit, Stripe, Time
<1>1. PICK r : r = [AbsentRow EXCEPT !.status = "AUTHORIZING"]
  OBVIOUS
<1>2. PICK n : n = [NoRequest EXCEPT !.pc = "create", !.x = d, !.fresh = "YES"]
  OBVIOUS
<1>3. CASE ~Exists(d) /\ Writes(p, d, r, n)
  <2>1. /\ r \in Row /\ r.status = "AUTHORIZING" /\ r.intent = NoIntent
        /\ r.status \in DepositStatuses /\ r.status \in ACTIVE_DEPOSIT_STATUSES
    BY <1>1, Constants DEF Row, DepositStatuses, ACTIVE_DEPOSIT_STATUSES
  <2>2. Creates(n, d)
    BY <1>0, <1>2, Constants DEF Creates, Request, PCs
  <2>3. IntentsOf(d) = {}
    BY <1>0, <1>3 DEF IInv, TablesOK, AbsentOK
  <2>4. Truth(d, r)
    BY <2>1 DEF Truth, Captured
  <2>5. /\ req' \in [Requests -> Request] /\ req'[p] = n
        /\ \A q \in Requests : q # p => Stales(q, d)
    BY <1>3, <2>2, WritesRequests DEF Creates
  <2>6. row' = [row EXCEPT ![d] = r]
    BY <1>3 DEF Writes
  <2>7. \A q \in Requests : Stales(q, d) \/ (q = p /\ Creates(req'[q], d))
    BY <2>2, <2>5
  <2> QED BY <1>0, <2>1, <2>3, <2>4, <2>5, <2>6, <2>7, RowStep
<1>4. CASE row[d].intent # NoIntent /\ Reconciles(p, d, row[d].intent) /\ UNCHANGED row
  BY <1>0, <1>4, BoundIntent, ReconcilesKeeps
<1>5. CASE /\ row[d].status \in ACTIVE_DEPOSIT_STATUSES /\ row[d].intent = NoIntent /\ d \notin aged
           /\ Becomes(p, n) /\ UNCHANGED row
  BY <1>0, <1>2, <1>5, RetryDepositKeeps
<1> QED BY <1>1, <1>2, <1>3, <1>4, <1>5 DEF createDeposit

\* createExtraCharge creates the row.
LEMMA CreateExtraKeeps == ASSUME IInv, NEW p \in Requests, NEW x \in Extras, createExtraCharge(p, x) PROVE IInv'
<1>0. /\ x \in Rows /\ x \notin Deposits /\ UNCHANGED <<intent, key, aged, owed, crashes>>
      /\ IntentsOf(x) = {} /\ row[x].status = "ABSENT"
  BY RowsAssumption DEF Rows, createExtraCharge, Stripe, Time, IInv, TablesOK, AbsentOK, Exists
<1>1. PICK r : r = [AbsentRow EXCEPT !.status = "PENDING_APPROVAL"]
  OBVIOUS
<1>2. r \in Row /\ r.status = "PENDING_APPROVAL" /\ r.intent = NoIntent /\ r.status \in ExtraStatuses
  BY <1>1, Constants DEF Row, ExtraStatuses, APPROVABLE_EXTRA_STATUSES
<1>3. Truth(x, r)
  BY <1>0, <1>2 DEF Truth, Settled
<1>4. Writes(p, x, r, NoRequest)
  BY <1>1 DEF createExtraCharge
<1> QED BY <1>0, <1>2, <1>3, <1>4, QuietNone, Unclaimed, LastWrite

\* The claim of an extra charge.
LEMMA ClaimKeeps == ASSUME IInv, NEW p \in Requests, ClaimExtra(p) PROVE IInv'
<1> DEFINE x == req[p].x
<1>0. /\ x \in Rows /\ x \in Extras /\ x \notin Deposits /\ UNCHANGED <<intent, key, aged, owed, crashes>>
      /\ req[p].pc = "claim" /\ RequestOK(req[p]) /\ req[p] \in Request
      /\ req[p].event = NoEvent /\ req[p].reply = "none" /\ req[p].i = NoIntent
  BY RequestTypes, RowsAssumption DEF ClaimExtra, Stripe, Time, RequestOK, KnowsRow, KnowsIntent
<1>1. CASE req[p].fresh # "YES"
  BY <1>0, <1>1, RequestTypes, EndKeeps DEF ClaimExtra
<1>2. CASE req[p].fresh = "YES"
  <2>1. /\ row[x].intent = NoIntent /\ row[x].status \notin Settled \cup {"PAYMENT_PROCESSING"}
        /\ req[p].to = [row[x] EXCEPT !.status = "PAYMENT_PROCESSING"]
    BY <1>0, <1>2 DEF RequestOK, WillEdit
  <2>2. PICK y : y = x
    OBVIOUS
  <2>3. PICK r \in Row : r = req[p].to
    BY RequestTypes
  <2>4. PICK n : n = [req[p] EXCEPT !.pc = "create", !.to = AbsentRow]
    OBVIOUS
  <2>5. r.intent = NoIntent /\ r.status = "PAYMENT_PROCESSING" /\ r.status \in ExtraStatuses
    BY <1>0, <2>1, <2>3, Kinds DEF Row, ExtraStatuses, NON_CANCELABLE_EXTRA_STATUSES
  <2>6. Creates(n, y)
    BY <1>0, <2>2, <2>4, Constants DEF Creates, Request, PCs
  <2>7. Writes(p, y, r, n)
    BY <1>2, <2>2, <2>3, <2>4 DEF ClaimExtra
  <2>8. IntentsOf(y) = {} /\ \A q \in Requests : ~Claims(req[q], y)
    BY <1>0, <2>1, <2>2, Unclaimed DEF IInv, TablesOK, UnclaimedExtras
  <2>9. Truth(y, r)
    BY <1>0, <2>2, <2>5 DEF Truth, Settled
  <2>10. /\ req' \in [Requests -> Request] /\ req'[p] = n
         /\ \A q \in Requests : q # p => Stales(q, y)
    BY <2>6, <2>7, WritesRequests DEF Creates
  <2>11. row' = [row EXCEPT ![y] = r]
    BY <2>7 DEF Writes
  <2>12. \A q \in Requests : Claims(req'[q], y) => q = p
    BY <2>8, <2>10, StaleFields
  <2>13. \A q \in Requests : Stales(q, y) \/ (q = p /\ Creates(req'[q], y))
    BY <2>6, <2>10
  <2>14. y \in Rows /\ y \in Extras /\ y \notin Deposits
    BY <1>0, <2>2
  <2> HIDE DEF x
  <2> QED BY <1>0, <2>5, <2>8, <2>9, <2>10, <2>11, <2>12, <2>13, <2>14, RowStep
<1> QED BY <1>1, <1>2

\* A refusal is recorded.
LEMMA FailureKeeps == ASSUME IInv, NEW p \in Requests, RecordFailure(p) PROVE IInv'
<1>1. PICK x : x = req[p].x
  OBVIOUS
<1>0. /\ x \in Rows /\ UNCHANGED <<intent, key, aged, owed, crashes>> /\ req[p].pc = "fail"
      /\ RequestOK(req[p]) /\ req[p].reply = "refused" /\ row[x] \in Row
  BY <1>1, RequestTypes, Kinds DEF RecordFailure, Stripe, Time, RequestOK, KnowsRow, KnowsIntent
<1>2. CASE req[p].fresh # "YES"
  BY <1>0, <1>2, RequestTypes, EndKeeps DEF RecordFailure
<1>3. CASE req[p].fresh = "YES"
  <2>1. PICK r \in Row : r = req[p].to /\ r = [row[x] EXCEPT !.status = "FAILED"]
    BY <1>0, <1>1, <1>3, RequestTypes DEF RequestOK, WillFail
  <2>2. r.status = "FAILED" /\ r.intent = row[x].intent
    BY <1>0, <2>1 DEF Row
  <2>3. row[x].intent = NoIntent
    <3>1. CASE x \in Deposits
      BY <1>0, <1>1, <1>3, <3>1 DEF RequestOK, WillFail
    <3>2. CASE x \in Extras
      BY <1>0, <1>1, <3>2 DEF IInv, ClaimedExtras, Claims
    <3> QED BY <1>0, <3>1, <3>2 DEF Rows
  <2>4. x \in Extras => IntentsOf(x) = {} /\ \A q \in Requests : q # p => ~Claims(req[q], x)
    BY <1>0, <1>1 DEF IInv, ClaimedExtras, Claims
  <2>5. r.status \in DepositStatuses /\ r.status \in ExtraStatuses
    BY <2>2 DEF DepositStatuses, ExtraStatuses, CHARGEABLE_EXTRA_STATUSES
  <2>6. Truth(x, r)
    BY <2>2 DEF Truth, Captured, Settled
  <2>7. Writes(p, x, r, NoRequest)
    BY <1>1, <1>3, <2>1 DEF RecordFailure
  <2> QED BY <1>0, <2>2, <2>3, <2>4, <2>5, <2>6, <2>7, QuietNone, LastWrite
<1> QED BY <1>2, <1>3

\* An approval or a cancellation is written.
LEMMA EditKeeps == ASSUME IInv, NEW p \in Requests, EditExtra(p) PROVE IInv'
<1>1. PICK x : x = req[p].x
  OBVIOUS
<1>0. /\ x \in Rows /\ x \in Extras /\ x \notin Deposits /\ UNCHANGED <<intent, key, aged, owed, crashes>>
      /\ req[p].pc = "edit" /\ RequestOK(req[p]) /\ row[x] \in Row
  BY <1>1, RequestTypes, Kinds, RowsAssumption DEF EditExtra, Stripe, Time, RequestOK, KnowsRow
<1>2. CASE req[p].fresh # "YES"
  BY <1>0, <1>2, RequestTypes, EndKeeps DEF EditExtra
<1>3. CASE req[p].fresh = "YES"
  <2>1. /\ row[x].intent = NoIntent /\ row[x].status \notin Settled \cup {"PAYMENT_PROCESSING"}
        /\ \E s \in {"APPROVED", "CANCELED"} : req[p].to = [row[x] EXCEPT !.status = s]
    BY <1>0, <1>1, <1>3 DEF RequestOK, WillEdit
  <2>2. PICK s \in {"APPROVED", "CANCELED"} : req[p].to = [row[x] EXCEPT !.status = s]
    BY <2>1
  <2>3. PICK r \in Row : r = req[p].to
    BY RequestTypes
  <2>4. r.status = s /\ r.intent = NoIntent
    BY <1>0, <2>1, <2>2, <2>3 DEF Row
  <2>5. r.status \in ExtraStatuses
    BY <2>4 DEF ExtraStatuses, CHARGEABLE_EXTRA_STATUSES
  <2>6. IntentsOf(x) = {} /\ \A q \in Requests : ~Claims(req[q], x)
    BY <1>0, <2>1, Unclaimed DEF IInv, TablesOK, UnclaimedExtras
  <2>7. Truth(x, r)
    BY <1>0, <2>4, <2>6 DEF Truth, Settled
  <2>8. Writes(p, x, r, NoRequest)
    BY <1>1, <1>3, <2>3 DEF EditExtra
  <2> QED BY <1>0, <2>4, <2>5, <2>6, <2>7, <2>8, QuietNone, LastWrite
<1> QED BY <1>2, <1>3

\* The write of reconcileIntent: done, refused by the index, or too late.
LEMMA WriteKeeps == ASSUME IInv, NEW p \in Requests, WriteRow(p) PROVE IInv'
<1>1. PICK x : x = req[p].x
  OBVIOUS
<1>0. /\ x \in Rows /\ UNCHANGED <<intent, key, aged, owed, crashes>> /\ crashes \in 0..MaxCrashes
      /\ req[p].pc = "write" /\ RequestOK(req[p]) /\ req[p] \in Request /\ Exists(x)
      /\ req[p].i \in Intents /\ intent[req[p].i].of = x
  BY <1>1, RequestTypes DEF WriteRow, Stripe, Time, RequestOK, KnowsRow, KnowsIntent
<1>2. PICK n : n = IF req[p].event = NoEvent THEN NoRequest
                   ELSE [NoRequest EXCEPT !.pc = "ack", !.event = req[p].event]
  OBVIOUS
<1>3. CASE req[p].fresh = "YES" /\ Writes(p, x, req[p].to, n)
  <2>1. Quiet(n)
    <3>1. CASE req[p].event = NoEvent
      BY <1>2, <3>1, QuietNone
    <3>2. CASE req[p].event # NoEvent
      BY <1>2, <3>2, Constants, RequestTypes DEF Quiet, Request, PCs
    <3> QED BY <3>1, <3>2
  <2>2. PICK r \in Row : r = req[p].to
    BY RequestTypes
  <2>3. /\ r.intent = req[p].i /\ Truth(x, r)
        /\ r.status \in IF x \in Deposits THEN DepositStatuses ELSE ExtraStatuses
    BY <1>0, <1>1, <2>2 DEF RequestOK, WillWrite
  <2>4. r.intent # NoIntent /\ IntentsOf(x) # {}
    BY <1>0, <2>3, IntentsAssumption DEF IntentsOf
  <2> QED BY <1>0, <1>3, <2>1, <2>2, <2>3, <2>4, Unclaimed, LastWrite
<1>4. CASE Ends(p) /\ UNCHANGED row
  BY <1>0, <1>4, EndKeeps
<1>5. ASSUME req[p].tries + 1 < MaxAttempts, UNCHANGED row,
             Becomes(p, [req[p] EXCEPT !.tries = @ + 1, !.to = AbsentRow,
                         !.pc = IF req[p].event[2] \in {"refund", "dispute"} THEN "mark" ELSE "load"])
      PROVE  IInv'
  <2>1. PICK pc : pc = IF req[p].event[2] \in {"refund", "dispute"} THEN "mark" ELSE "load"
    OBVIOUS
  <2>2. pc \in {"load", "mark"} /\ (pc = "mark" <=> req[p].event[2] \in {"refund", "dispute"})
    BY <2>1
  <2>3. PICK t \in 0..MaxAttempts : t = req[p].tries + 1
    BY <1>5, RequestTypes, NumbersAssumption
  <2>4. PICK r : r = [req[p] EXCEPT !.tries = t, !.to = AbsentRow, !.pc = pc]
    OBVIOUS
  <2>5. r \in Request /\ r.pc = pc /\ r.x = x /\ r.i = req[p].i /\ r.event = req[p].event
    BY <1>0, <1>1, <2>2, <2>4, Constants DEF Request, PCs
  <2>6. Becomes(p, r)
    BY <1>5, <2>1, <2>3, <2>4
  <2>7. RequestOK(r) /\ \A y : ~Claims(r, y)
    BY <1>0, <1>1, <2>2, <2>5, IntentsAssumption
    DEF RequestOK, KnowsRow, KnowsIntent, WillWrite, WillEdit, WillFail, Claims
  <2> QED BY <1>0, <1>5, <2>2, <2>5, <2>6, <2>7, RequestStep
<1>6. req[p].tries + 1 >= MaxAttempts \/ req[p].tries + 1 < MaxAttempts
  BY RequestTypes, NumbersAssumption
<1> QED BY <1>1, <1>2, <1>3, <1>4, <1>5, <1>6 DEF WriteRow

\* A notice is delivered.
LEMMA NoticeKeeps == ASSUME IInv, NEW x \in Extras, NoticeDelivered(x) PROVE IInv'
<1>0. /\ x \in Rows /\ x \notin Deposits /\ UNCHANGED <<intent, key, aged, owed, crashes>> /\ row[x] \in Row
      /\ row[x].status \in ExtraStatuses /\ row[x].status # "PENDING_APPROVAL"
  BY RowsAssumption, Kinds DEF Rows, NoticeDelivered, Stripe, Time
<1>1. PICK s : s = IF row[x].status = "APPROVED" THEN "NOTIFIED" ELSE row[x].status
  OBVIOUS
<1>2. PICK r : r = [row[x] EXCEPT !.notice = "YES", !.status = s]
  OBVIOUS
<1>3. s \in ExtraStatuses
  BY <1>0, <1>1 DEF ExtraStatuses, CHARGEABLE_EXTRA_STATUSES
<1>4. r \in Row /\ r.status = s /\ r.intent = row[x].intent
  BY <1>0, <1>2, <1>3 DEF Row
<1>5. row' = [row EXCEPT ![x] = r]
  BY <1>0, <1>1, <1>2 DEF NoticeDelivered, IInv, TypeOK
<1>6. req' \in [Requests -> Request] /\ \A q \in Requests : Stales(q, x)
  <2>1. ASSUME NEW q \in Requests
        PROVE  (IF req[q].x = x THEN [req[q] EXCEPT !.fresh = "NO"] ELSE req[q]) \in Request
    <3>1. req[q] \in Request
      BY RequestTypes
    <3>2. [req[q] EXCEPT !.fresh = "NO"] \in Request
      BY <3>1 DEF Request
    <3> QED BY <3>1, <3>2
  <2> QED BY <2>1 DEF NoticeDelivered, Stales
<1>7. Truth(x, row[x])
  BY <1>0 DEF IInv, TablesOK, TrueRows
<1>8. Truth(x, r)
  BY <1>0, <1>1, <1>4, <1>7 DEF Truth, Settled
<1>9. r.intent = NoIntent /\ r.status # "PAYMENT_PROCESSING" => IntentsOf(x) = {}
  BY <1>1, <1>4 DEF IInv, TablesOK, UnclaimedExtras
<1>10. r.intent # NoIntent => intent[r.intent].of = x
  BY <1>0, <1>4 DEF IInv, TablesOK, BoundRows
<1>11. \A q \in Requests : Claims(req'[q], x) =>
         /\ r.intent = NoIntent /\ r.status = "PAYMENT_PROCESSING" /\ IntentsOf(x) = {}
         /\ \A q2 \in Requests : Claims(req'[q2], x) => q2 = q
  <2>1. \A q \in Requests : Claims(req'[q], x) <=> Claims(req[q], x)
    BY <1>6, StaleFields
  <2> QED BY <1>1, <1>4, <2>1 DEF IInv, ClaimedExtras
<1> QED BY <1>0, <1>3, <1>4, <1>5, <1>6, <1>8, <1>9, <1>10, <1>11, RowStep

-----------------------------------------------------------------------------
(* Steps of Stripe *)

\* A request that begins to reconcile its intent, after the step.
Loads(r) == /\ r \in Request /\ r.pc = "load" /\ r.x \in Rows /\ Exists(r.x)
            /\ r.i \in Intents /\ intent[r.i].of = r.x /\ r.event[2] \notin {"refund", "dispute"}

\* Intent i, of a row, becomes v: succeeded and canceled are final.
LEMMA IntentStep ==
  ASSUME IInv, NEW i \in Intents, NEW v \in Intent, intent' = [intent EXCEPT ![i] = v],
         intent[i].of \in Rows, v.of = intent[i].of,
         intent[i].status = "succeeded" => v.status = "succeeded" /\ v.received = intent[i].received,
         intent[i].status = "canceled" => v.status = "canceled",
         UNCHANGED <<row, key, aged, crashes>>,
         NEW e \in Events, owed' = owed \cup {e}, e[1] = i,
         e[2] # "intent" => intent[i].of \in Extras /\ v.status = "succeeded",
         req' \in [Requests -> Request],
         \A q \in Requests : req'[q] = req[q] \/ Quiet(req'[q]) \/ Loads(req'[q])
  PROVE  IInv'
<1>1. \A j \in Intents : /\ intent'[j].of = intent[j].of
                         /\ intent[j].status = "succeeded" =>
                              intent'[j].status = "succeeded" /\ intent'[j].received = intent[j].received
                         /\ intent[j].status = "canceled" => intent'[j].status = "canceled"
  BY DEF IInv, TypeOK
<1>2. TypeOK'
  BY DEF IInv, TypeOK
<1>3. \A y : (IntentsOf(y))' = IntentsOf(y)
  BY <1>1 DEF IntentsOf
<1>4. \A y, r : r \in Row /\ Truth(y, r) => Truth(y, r)'
  <2> SUFFICES ASSUME NEW y, NEW r \in Row, Truth(y, r) PROVE Truth(y, r)'
    OBVIOUS
  <2>1. r.intent \in Intents \cup {NoIntent}
    BY DEF Row
  <2> QED BY <1>1, <1>3, <2>1 DEF Truth
<1>5. TablesOK'
  <2>1. BoundRows' /\ BoundKeys'
    <3>1. \A x \in Rows : row[x].intent \in Intents \cup {NoIntent} /\ key[x] \in Intents \cup {NoIntent}
      BY Kinds DEF Row, IInv, TypeOK
    <3> QED BY <1>1, <3>1 DEF IInv, TablesOK, BoundRows, BoundKeys
  <2>2. OwedOK'
    <3> SUFFICES ASSUME NEW f \in owed \cup {e}
                 PROVE  /\ intent'[f[1]].of \in Rows
                        /\ f[2] # "intent" => intent'[f[1]].of \in Extras /\ intent'[f[1]].status = "succeeded"
      BY DEF OwedOK
    <3>1. f \in Events
      BY DEF IInv, TypeOK
    <3>2. f[1] \in Intents
      BY <3>1 DEF Events
    <3>3. CASE f \in owed
      BY <1>1, <3>2, <3>3 DEF IInv, TablesOK, OwedOK
    <3>4. CASE f = e
      BY <1>1, <3>4 DEF IInv, TypeOK
    <3> QED BY <3>3, <3>4
  <2>3. AbsentOK' /\ StatusesOK' /\ UnclaimedExtras'
    BY <1>3 DEF IInv, TablesOK, AbsentOK, StatusesOK, UnclaimedExtras, Exists
  <2>4. OneIntentPerRow'
    BY <1>1 DEF IInv, TablesOK, OneIntentPerRow
  <2>5. TrueRows'
    <3> SUFFICES ASSUME NEW y \in Rows PROVE Truth(y, row[y])'
      BY DEF TrueRows
    <3>1. row[y] \in Row /\ Truth(y, row[y]) /\ row'[y] = row[y]
      BY DEF IInv, TypeOK, TablesOK, TrueRows
    <3>2. PICK r \in Row : r = row[y] /\ Truth(y, r)
      BY <3>1
    <3>3. Truth(y, r)'
      BY <1>4, <3>2
    <3> QED BY <3>1, <3>2, <3>3 DEF Truth
  <2> QED BY <2>1, <2>2, <2>3, <2>4, <2>5 DEF TablesOK
<1>6. \A q \in Requests : \A y : req'[q].pc = "create" \/ Claims(req'[q], y) => req'[q] = req[q]
  BY DEF Quiet, Loads, Claims
<1>7. DepositKeys'
  BY <1>3, <1>6 DEF IInv, DepositKeys
<1>8. ClaimedExtras'
  <2> SUFFICES ASSUME NEW y \in Extras, NEW q \in Requests, Claims(req'[q], y)
               PROVE  /\ row[y].intent = NoIntent /\ row[y].status = "PAYMENT_PROCESSING" /\ IntentsOf(y) = {}
                      /\ \A q2 \in Requests : Claims(req'[q2], y) => q2 = q
    BY <1>3 DEF ClaimedExtras, Claims
  <2>1. Claims(req[q], y) /\ \A q2 \in Requests : Claims(req'[q2], y) => Claims(req[q2], y)
    BY <1>6
  <2> QED BY <2>1 DEF IInv, ClaimedExtras
<1>9. RequestsOK'
  <2> SUFFICES ASSUME NEW q \in Requests PROVE RequestOK(req[q])'
    BY DEF RequestsOK
  <2>1. CASE req'[q] = req[q]
    <3>1. RequestOK(req[q]) /\ req[q].to \in Row /\ req[q].i \in Intents \cup {NoIntent}
      BY RequestTypes
    <3>2. KnowsRow(req[q])' /\ KnowsIntent(req[q])' /\ WillEdit(req[q])' /\ WillFail(req[q])'
      <4>1. KnowsRow(req[q])' /\ WillEdit(req[q])' /\ WillFail(req[q])'
        BY <2>1, <3>1 DEF RequestOK, KnowsRow, WillEdit, WillFail, Exists
      <4>2. KnowsIntent(req[q])'
        BY <1>1, <2>1, <3>1 DEF RequestOK, KnowsIntent
      <4> QED BY <4>1, <4>2
    <3>3. PICK t \in Row, x \in Rows \cup {NoRow} : x = req[q].x /\ t = req[q].to
      BY <3>1, RequestTypes
    <3>4. Truth(x, t) => Truth(x, t)'
      BY <1>4
    <3>5. WillWrite(req[q])'
      <4>1. Truth(x, t)' => Truth(req[q].x, req[q].to)'
        BY <2>1, <3>3 DEF Truth
      <4> QED BY <2>1, <3>1, <3>3, <3>4, <4>1 DEF RequestOK, WillWrite, MayFollow
    <3> QED BY <3>2, <3>5 DEF RequestOK
  <2>2. CASE Quiet(req'[q])
    BY <2>2 DEF Quiet, RequestOK, KnowsRow, KnowsIntent, WillWrite, WillEdit, WillFail
  <2>3. CASE Loads(req'[q])
    BY <1>1, <2>3, IntentsAssumption
    DEF Loads, RequestOK, KnowsRow, KnowsIntent, WillWrite, WillEdit, WillFail, Exists
  <2> QED BY <2>1, <2>2, <2>3
<1> QED BY <1>2, <1>5, <1>7, <1>8, <1>9 DEF IInv

\* A status change of an open intent keeps the invariant, whatever the requests do with it.
LEMMA ChangesKeep ==
  ASSUME IInv, NEW i \in Intents, intent[i].of \in Rows, intent[i].status \in Open,
         NEW s \in Open \cup {"succeeded", "canceled"}, NEW a \in 0..Amount, Changes(i, s, a),
         UNCHANGED <<row, key, aged, crashes>>, req' \in [Requests -> Request],
         \A q \in Requests : req'[q] = req[q] \/ Quiet(req'[q]) \/ Loads(req'[q])
  PROVE  IInv'
<1>1. intent[i] \in Intent /\ intent[i].changes \in 0..MaxEvents /\ intent[i].changes < MaxEvents
  BY DEF IInv, TypeOK, Intent, Changes
<1>2. PICK c \in 0..MaxEvents : c = intent[i].changes + 1
  BY <1>1, NumbersAssumption
<1>3. PICK v : v = [intent[i] EXCEPT !.status = s, !.received = a, !.changes = c]
  OBVIOUS
<1>4. v \in Intent /\ v.of = intent[i].of /\ v.status = s
  BY <1>1, <1>2, <1>3 DEF Intent
<1>5. intent' = [intent EXCEPT ![i] = v]
  BY <1>1, <1>2, <1>3 DEF Changes, IInv, TypeOK
<1>6. PICK e : e = <<i, "intent", c>>
  OBVIOUS
<1>7. e \in Events /\ e[1] = i /\ e[2] = "intent" /\ owed' = owed \cup {e}
  BY <1>2, <1>6 DEF Events, Changes
<1>8. intent[i].status \notin {"succeeded", "canceled"}
  BY DEF Open
<1> QED BY <1>4, <1>5, <1>7, <1>8, IntentStep

\* The issuer, the customer or a timer changes an intent; its charge is refunded or disputed.
LEMMA StripeChangesKeep ==
  ASSUME IInv, NEW i \in Intents,
         \/ IntentChanges(i)
         \/ ChargeChanges(i, <<"refunded", "refund">>) \/ ChargeChanges(i, <<"disputed", "dispute">>)
  PROVE  IInv'
<1>0. /\ UNCHANGED <<row, key, aged, crashes, req>> /\ req' \in [Requests -> Request]
      /\ intent[i] \in Intent /\ intent[i].of \in Rows
  BY DEF IntentChanges, ChargeChanges, Time, IInv, TypeOK, Intent, Rows
<1>1. CASE IntentChanges(i)
  <2>1. PICK s \in Open \cup {"succeeded", "canceled"}, a \in 0..Amount : Changes(i, s, a)
    BY <1>1, NumbersAssumption DEF IntentChanges
  <2>2. intent[i].status \in Open
    BY <1>1 DEF IntentChanges
  <2> QED BY <1>0, <2>1, <2>2, ChangesKeep
<1>2. ASSUME NEW w \in {"refunded", "disputed"}, NEW k \in {"refund", "dispute"}, ChargeChanges(i, <<w, k>>)
      PROVE  IInv'
  <2>1. PICK v : v = [intent[i] EXCEPT !.charge = intent[i].charge \cup {w}]
    OBVIOUS
  <2>2. /\ v \in Intent /\ v.of = intent[i].of /\ v.status = intent[i].status
        /\ v.received = intent[i].received
    BY <1>0, <1>2, <2>1 DEF Intent
  <2>3. intent' = [intent EXCEPT ![i] = v]
    BY <1>2, <2>1 DEF ChargeChanges
  <2>4. PICK e : e = <<i, k, 0>>
    OBVIOUS
  <2>5. e \in Events /\ e[1] = i /\ e[2] = k /\ owed' = owed \cup {e}
    BY <1>2, <2>4 DEF Events, ChargeChanges
  <2>6. intent[i].of \in Extras /\ intent[i].status = "succeeded"
    BY <1>2 DEF ChargeChanges
  <2> QED BY <1>0, <2>2, <2>3, <2>5, <2>6, IntentStep
<1> QED BY <1>1, <1>2

\* What Ends and Reconciles do to the requests.
LEMMA EndsOrLoads ==
  ASSUME IInv, NEW p \in Requests, NEW x \in Rows, Exists(x), NEW i \in Intents, intent[i].of = x,
         req[p].pc \notin {"load", "write", "mark", "ack"}, Reconciles(p, x, i) \/ Ends(p)
  PROVE  /\ req' \in [Requests -> Request]
         /\ \A q \in Requests : req'[q] = req[q] \/ Quiet(req'[q]) \/ Loads(req'[q])
<1>0. req[p].event[2] \notin {"refund", "dispute"} /\ req \in [Requests -> Request]
  BY RequestTypes DEF RequestOK, KnowsIntent, NoEvent, IInv, TypeOK
<1>1. CASE Ends(p)
  BY <1>0, <1>1, Constants, QuietNone DEF Ends, Becomes
<1>2. CASE Reconciles(p, x, i)
  <2>1. PICK r : r = [NoRequest EXCEPT !.pc = "load", !.x = x, !.i = i, !.event = req[p].event]
    OBVIOUS
  <2>2. r \in Request /\ r.pc = "load" /\ r.x = x /\ r.i = i /\ r.event = req[p].event
    BY <2>1, Constants, RequestTypes DEF Request, PCs
  <2>3. Loads(r)
    BY <1>0, <2>2 DEF Loads
  <2>4. req' = [req EXCEPT ![p] = r]
    BY <1>2, <2>1 DEF Reconciles, Becomes
  <2> QED BY <1>0, <2>2, <2>3, <2>4
<1> QED BY <1>1, <1>2

\* Capture and cancellation.
LEMMA CaptureKeeps == ASSUME IInv, NEW p \in Requests, StripeCaptures(p) \/ StripeCancels(p) PROVE IInv'
<1>0. /\ req[p].pc \in {"capture", "release"} /\ req[p].x \in Rows /\ Exists(req[p].x) /\ req[p] \in Request
      /\ req[p].i \in Intents /\ intent[req[p].i].of = req[p].x
      /\ UNCHANGED <<row, key, aged, crashes>> /\ crashes \in 0..MaxCrashes /\ req[p].amount \in 0..Amount
  BY RequestTypes DEF StripeCaptures, StripeCancels, Time, RequestOK, KnowsRow, KnowsIntent, Request
<1>1. PICK i \in Intents, x \in Rows : i = req[p].i /\ x = req[p].x
  BY <1>0
<1>2. Reconciles(p, x, i) \/ Ends(p)
  BY <1>1 DEF StripeCaptures, StripeCancels
<1>3. /\ req' \in [Requests -> Request]
      /\ \A q \in Requests : req'[q] = req[q] \/ Quiet(req'[q]) \/ Loads(req'[q])
  BY <1>0, <1>1, <1>2, EndsOrLoads
<1>4. CASE UNCHANGED <<intent, owed>>
  <2>1. CASE Ends(p)
    BY <1>0, <1>4, <2>1, EndKeeps
  <2>2. CASE Reconciles(p, x, i)
    BY <1>0, <1>1, <1>4, <2>2, ReconcilesKeeps
  <2> QED BY <1>2, <2>1, <2>2
<1>5. CASE intent[i].status \in Open /\ (Changes(i, "succeeded", req[p].amount) \/ Changes(i, "canceled", 0))
  <2>1. 0 \in 0..Amount /\ intent[i].of \in Rows
    BY <1>0, <1>1, NumbersAssumption
  <2> QED BY <1>0, <1>3, <1>5, <2>1, ChangesKeep
<1> QED BY <1>1, <1>4, <1>5 DEF StripeCaptures, StripeCancels, Open

\* Only a row without an intent is given a new one: an extra charge by the claim, a deposit
\* because its key is not forgotten while it may be retried.
LEMMA CreatesFirst ==
  ASSUME IInv, NEW p \in Requests, req[p].pc = "create", key[req[p].x] = NoIntent
  PROVE  /\ req[p].x \in Rows /\ Exists(req[p].x) /\ IntentsOf(req[p].x) = {}
         /\ req[p].x \in Extras => row[req[p].x].intent = NoIntent /\ row[req[p].x].status = "PAYMENT_PROCESSING"
<1>1. req[p].x \in Rows /\ Exists(req[p].x)
  BY RequestTypes DEF RequestOK, KnowsRow
<1>2. CASE req[p].x \in Deposits
  BY <1>1, <1>2, RowsAssumption DEF IInv, DepositKeys
<1>3. CASE req[p].x \in Extras
  BY <1>1, <1>3 DEF IInv, ClaimedExtras, Claims
<1> QED BY <1>1, <1>2, <1>3 DEF Rows

\* A new intent.
LEMMA StripeCreatesKeeps == ASSUME IInv, NEW p \in Requests, StripeCreates(p) PROVE IInv'
<1>1. PICK x : x = req[p].x
  OBVIOUS
<1>2. /\ x \in Rows /\ Exists(x) /\ IntentsOf(x) = {} /\ req[p].pc = "create" /\ x # NoRow
      /\ x \in Extras => row[x].intent = NoIntent /\ row[x].status = "PAYMENT_PROCESSING"
      /\ UNCHANGED <<row, aged, crashes>>
  BY <1>1, CreatesFirst, RowsAssumption DEF StripeCreates, Time
<1>3. PICK i \in Intents, s \in FirstStatuses(x) :
        /\ intent[i].of = NoRow
        /\ intent' = [intent EXCEPT ![i] = [NotCreated EXCEPT !.of = x, !.status = s,
                        !.received = IF s = "succeeded" THEN Amount ELSE 0]]
        /\ key' = [key EXCEPT ![x] = i]
        /\ owed' = owed \cup {<<i, "intent", 0>>}
        /\ Answers(p, i)
  BY <1>1 DEF StripeCreates
<1>4. PICK a \in 0..Amount : a = IF s = "succeeded" THEN Amount ELSE 0
  BY NumbersAssumption
<1>5. PICK v : v = [NotCreated EXCEPT !.of = x, !.status = s, !.received = a]
  OBVIOUS
<1>6. s \in Open \cup {"succeeded", "canceled"}
  BY DEF FirstStatuses, Open
<1>7. v \in Intent /\ v.of = x
  BY <1>2, <1>5, <1>6, Constants DEF Intent
<1>8. intent' = [intent EXCEPT ![i] = v] /\ \A j \in Intents : intent'[j] = IF j = i THEN v ELSE intent[j]
  BY <1>3, <1>4, <1>5 DEF IInv, TypeOK
<1>9. i # NoIntent /\ <<i, "intent", 0>> \in Events
  BY IntentsAssumption, NumbersAssumption DEF Events
<1>10. \A y : y # x /\ y # NoRow => (IntentsOf(y))' = IntentsOf(y)
  BY <1>3, <1>7, <1>8 DEF IntentsOf
<1>11. PICK n : /\ req' = [req EXCEPT ![p] = n] /\ n \in Request /\ n.x = x /\ n.event = NoEvent
                /\ n.pc = "load" => n.i = i
                /\ n.pc = "catch" => \/ n.i = i /\ n.reply = "none"
                                     \/ n.i = NoIntent /\ n.reply = "unknown"
                /\ n.pc \in {"load", "catch"} /\ n.fresh = IF n.pc = "catch" THEN req[p].fresh ELSE "NO"
  <2>0. /\ req[p] \in Request /\ req[p].event = NoEvent /\ req[p].reply = "none" /\ req[p].i = NoIntent
        /\ x \in Rows \cup {NoRow}
    BY <1>2, RequestTypes DEF RequestOK, KnowsIntent
  <2>1. CASE Reconciles(p, req[p].x, i)
    <3>1. PICK n : n = [NoRequest EXCEPT !.pc = "load", !.x = x, !.i = i, !.event = req[p].event]
      OBVIOUS
    <3>2. n \in Request /\ n.pc = "load" /\ n.x = x /\ n.i = i /\ n.event = NoEvent /\ n.fresh = NoRequest.fresh
      BY <2>0, <3>1, Constants DEF Request, PCs
    <3>3. NoRequest.fresh = "NO"
      BY DEF NoRequest
    <3>4. req' = [req EXCEPT ![p] = n]
      BY <1>1, <2>1, <3>1 DEF Reconciles, Becomes
    <3> QED BY <3>2, <3>3, <3>4
  <2>2. CASE Becomes(p, [req[p] EXCEPT !.pc = "catch", !.i = i])
    <3>1. PICK n : n = [req[p] EXCEPT !.pc = "catch", !.i = i]
      OBVIOUS
    <3>2. /\ n \in Request /\ n.pc = "catch" /\ n.x = x /\ n.i = i /\ n.event = NoEvent /\ n.fresh = req[p].fresh
          /\ n.reply = "none"
      BY <1>1, <2>0, <3>1 DEF Request, PCs
    <3> QED BY <2>2, <3>1, <3>2 DEF Becomes
  <2>3. CASE Becomes(p, [req[p] EXCEPT !.pc = "catch", !.reply = "unknown"])
    <3>1. PICK n : n = [req[p] EXCEPT !.pc = "catch", !.reply = "unknown"]
      OBVIOUS
    <3>2. /\ n \in Request /\ n.pc = "catch" /\ n.x = x /\ n.i = NoIntent /\ n.event = NoEvent
          /\ n.fresh = req[p].fresh /\ n.reply = "unknown"
      BY <1>1, <2>0, <3>1 DEF Request, PCs
    <3> QED BY <2>3, <3>1, <3>2 DEF Becomes
  <2> QED BY <1>3, <2>1, <2>2, <2>3 DEF Answers
<1>12. \A q \in Requests : req'[q] = IF q = p THEN n ELSE req[q]
  BY <1>11 DEF IInv, TypeOK
<1>13. TypeOK'
  BY <1>2, <1>3, <1>7, <1>8, <1>9, <1>11 DEF IInv, TypeOK
<1>14. \A q \in Requests : \A y : ~(q = p /\ (req'[q].pc = "create" \/ Claims(req'[q], y)))
  BY <1>11, <1>12 DEF Claims
<1>15. \A y \in Rows : \A r : r \in Row /\ r.intent # NoIntent /\ intent[r.intent].of = y =>
         r.intent \in Intents /\ r.intent # i
  BY <1>3, RowsAssumption DEF Row
<1>16. TablesOK'
  <2>1. BoundRows'
    BY <1>2, <1>8, <1>15, Kinds DEF IInv, TablesOK, BoundRows
  <2>2. BoundKeys'
    <3> SUFFICES ASSUME NEW y \in Rows, key'[y] # NoIntent PROVE intent'[key'[y]].of = y
      BY DEF BoundKeys
    <3>1. CASE y = x
      BY <1>3, <1>7, <1>8, <3>1 DEF IInv, TypeOK
    <3>2. CASE y # x
      <4>1. key'[y] = key[y] /\ key[y] \in Intents /\ intent[key[y]].of = y
        BY <1>3, <3>2 DEF IInv, TypeOK, TablesOK, BoundKeys
      <4>2. key[y] # i
        BY <1>3, <4>1, RowsAssumption
      <4> QED BY <1>8, <4>1, <4>2
    <3> QED BY <3>1, <3>2
  <2>3. OwedOK'
    <3> SUFFICES ASSUME NEW f \in owed \cup {<<i, "intent", 0>>}
                 PROVE  /\ intent'[f[1]].of \in Rows
                        /\ f[2] # "intent" => intent'[f[1]].of \in Extras /\ intent'[f[1]].status = "succeeded"
      BY <1>3 DEF OwedOK
    <3>1. CASE f \in owed
      <4>1. f \in Events /\ intent[f[1]].of \in Rows
        BY <3>1 DEF IInv, TypeOK, TablesOK, OwedOK
      <4>2. f[1] \in Intents /\ f[1] # i
        BY <1>3, <4>1, RowsAssumption DEF Events
      <4> QED BY <1>8, <3>1, <4>2 DEF IInv, TablesOK, OwedOK
    <3>2. CASE f = <<i, "intent", 0>>
      BY <1>2, <1>7, <1>8, <3>2
    <3> QED BY <3>1, <3>2
  <2>4. AbsentOK'
    BY <1>2, <1>10, RowsAssumption DEF IInv, TablesOK, AbsentOK, Exists
  <2>5. StatusesOK'
    BY <1>2 DEF IInv, TablesOK, StatusesOK
  <2>6. OneIntentPerRow'
    BY <1>2, <1>7, <1>8 DEF IInv, TablesOK, OneIntentPerRow, IntentsOf
  <2>7. UnclaimedExtras'
    BY <1>2, <1>10, RowsAssumption DEF IInv, TablesOK, UnclaimedExtras, Rows
  <2>8. TrueRows'
    <3> SUFFICES ASSUME NEW y \in Rows PROVE Truth(y, row[y])'
      BY DEF TrueRows
    <3>1. row[y] \in Row /\ Truth(y, row[y]) /\ row'[y] = row[y] /\ y # NoRow
      BY <1>2, RowsAssumption DEF IInv, TypeOK, TablesOK, TrueRows
    <3>2. row[y].intent # NoIntent => row[y].intent \in Intents /\ intent'[row[y].intent] = intent[row[y].intent]
      BY <1>8, <1>15, <3>1, BoundIntent
    <3>3. CASE y # x
      BY <1>10, <3>1, <3>2, <3>3 DEF Truth
    <3>4. CASE y = x
      BY <1>2, <3>1, <3>2, <3>4, Kinds DEF Truth, Settled
    <3> QED BY <3>3, <3>4
  <2> QED BY <2>1, <2>2, <2>3, <2>4, <2>5, <2>6, <2>7, <2>8 DEF TablesOK
<1>17. DepositKeys'
  <2> SUFFICES ASSUME NEW d \in Deposits, (IntentsOf(d))' # {}, key'[d] = NoIntent
               PROVE  d \in aged /\ \A q \in Requests : ~(req'[q].x = d /\ req'[q].pc = "create")
    BY <1>2 DEF DepositKeys
  <2>1. d # x /\ d \in Rows /\ d # NoRow
    BY <1>3, <1>9, RowsAssumption DEF Rows, IInv, TypeOK
  <2>2. IntentsOf(d) # {} /\ key[d] = NoIntent
    BY <1>3, <1>10, <2>1 DEF IInv, TypeOK
  <2> QED BY <1>12, <1>14, <2>2 DEF IInv, DepositKeys
<1>18. ClaimedExtras'
  <2> SUFFICES ASSUME NEW y \in Extras, NEW q \in Requests, Claims(req'[q], y)
               PROVE  /\ row[y].intent = NoIntent /\ row[y].status = "PAYMENT_PROCESSING" /\ (IntentsOf(y))' = {}
                      /\ \A q2 \in Requests : Claims(req'[q2], y) => q2 = q
    BY <1>2 DEF ClaimedExtras, Claims
  <2>1. q # p /\ Claims(req[q], y) /\ y # NoRow
    BY <1>12, <1>14, RowsAssumption DEF Rows
  <2>2. y # x
    BY <1>1, <1>2, <2>1 DEF IInv, ClaimedExtras, Claims
  <2> QED BY <1>10, <1>12, <1>14, <2>1, <2>2 DEF IInv, ClaimedExtras
<1>19. RequestsOK'
  <2> SUFFICES ASSUME NEW q \in Requests PROVE RequestOK(req[q])'
    BY DEF RequestsOK
  <2>1. CASE q = p
    <3>1. RequestOK(req[p])
      BY RequestTypes
    <3>2. intent'[i].of = x /\ req'[q] = n
      BY <1>7, <1>8, <1>12, <2>1
    <3>3. KnowsRow(req[q])' /\ KnowsIntent(req[q])' /\ WillWrite(req[q])' /\ WillEdit(req[q])'
      BY <1>2, <1>9, <1>11, <3>2 DEF KnowsRow, KnowsIntent, WillWrite, WillEdit, Exists, NoEvent
    <3>4. WillFail(req[q])'
      BY <1>1, <1>2, <1>11, <3>1, <3>2 DEF RequestOK, WillFail
    <3> QED BY <3>3, <3>4 DEF RequestOK
  <2>2. CASE q # p
    <3>1. RequestOK(req[q]) /\ req'[q] = req[q] /\ req[q].to \in Row /\ req[q].i \in Intents \cup {NoIntent}
      BY <1>12, <2>2, RequestTypes
    <3>2. req[q].i # NoIntent => req[q].i \in Intents /\ intent'[req[q].i] = intent[req[q].i]
      BY <1>3, <1>8, <3>1, RowsAssumption DEF RequestOK, KnowsIntent
    <3>3. KnowsRow(req[q])' /\ WillEdit(req[q])' /\ WillFail(req[q])'
      BY <1>2, <3>1 DEF RequestOK, KnowsRow, WillEdit, WillFail, Exists
    <3>4. KnowsIntent(req[q])'
      BY <3>1, <3>2 DEF RequestOK, KnowsIntent
    <3>5. WillWrite(req[q])'
      BY <1>2, <3>1, <3>2 DEF RequestOK, KnowsIntent, WillWrite, Truth, MayFollow
    <3> QED BY <3>3, <3>4, <3>5 DEF RequestOK
  <2> QED BY <2>1, <2>2
<1> QED BY <1>13, <1>16, <1>17, <1>18, <1>19 DEF IInv

\* Keys are forgotten; deposits age.
LEMMA TimeKeeps ==
  ASSUME IInv, (\E x \in Rows : KeyIsPruned(x)) \/ (\E d \in Deposits : DepositAges(d))
  PROVE  IInv'
<1>0. UNCHANGED <<row, intent, owed, req, crashes>> /\ \A y : (IntentsOf(y))' = IntentsOf(y)
  BY DEF KeyIsPruned, DepositAges, Stripe, Time, IntentsOf
<1>1. TypeOK'
  BY <1>0 DEF IInv, TypeOK, KeyIsPruned, DepositAges, Stripe, Time
<1>2. BoundRows' /\ OwedOK' /\ StatusesOK' /\ OneIntentPerRow' /\ UnclaimedExtras'
  BY <1>0 DEF IInv, TablesOK, BoundRows, OwedOK, StatusesOK, OneIntentPerRow, UnclaimedExtras
<1>3. BoundKeys'
  BY <1>0 DEF IInv, TablesOK, TypeOK, BoundKeys, KeyIsPruned, DepositAges, Stripe
<1>4. AbsentOK'
  BY <1>0 DEF IInv, TablesOK, AbsentOK, Exists, KeyIsPruned, DepositAges, Time
<1>5. TrueRows'
  BY <1>0 DEF IInv, TablesOK, TrueRows, Truth
<1>6. DepositKeys'
  <2>1. CASE \E x \in Rows : KeyIsPruned(x)
    <3>1. PICK x \in Rows : KeyIsPruned(x)
      BY <2>1
    <3>2. /\ UNCHANGED aged /\ \A y \in Rows : key'[y] = IF y = x THEN NoIntent ELSE key[y]
          /\ x \in Deposits => x \in aged
          /\ \A q \in Requests : ~(req[q].x = x /\ req[q].pc = "create")
      BY <3>1 DEF KeyIsPruned, Time, IInv, TypeOK
    <3> QED BY <1>0, <3>2 DEF IInv, DepositKeys, Rows
  <2>2. CASE \E d \in Deposits : DepositAges(d)
    BY <1>0, <2>2 DEF IInv, DepositKeys, DepositAges, Stripe
  <2> QED BY <2>1, <2>2
<1>7. ClaimedExtras'
  BY <1>0 DEF IInv, ClaimedExtras, Claims
<1>8. RequestsOK'
  <2> SUFFICES ASSUME NEW q \in Requests PROVE RequestOK(req[q])'
    BY DEF RequestsOK
  <2>1. RequestOK(req[q])
    BY RequestTypes
  <2>2. KnowsRow(req[q])' /\ WillEdit(req[q])' /\ WillFail(req[q])'
    BY <1>0, <2>1 DEF RequestOK, KnowsRow, WillEdit, WillFail, Exists
  <2>3. KnowsIntent(req[q])'
    BY <1>0, <2>1 DEF RequestOK, KnowsIntent
  <2>4. WillWrite(req[q])'
    BY <1>0, <2>1 DEF RequestOK, WillWrite, Truth, MayFollow
  <2> QED BY <2>2, <2>3, <2>4 DEF RequestOK
<1> QED BY <1>1, <1>2, <1>3, <1>4, <1>5, <1>6, <1>7, <1>8 DEF IInv, TablesOK

-----------------------------------------------------------------------------
(* The theorems *)

\* Every step keeps the invariant.
LEMMA NextInv == IInv /\ [Next]_vars => IInv'
<1> SUFFICES ASSUME IInv, [Next]_vars PROVE IInv'
  OBVIOUS
<1>1. CASE UNCHANGED vars
  <2>1. UNCHANGED <<row, intent, key, aged, owed, req, crashes>>
    BY <1>1 DEF vars
  <2>2. \A y : (IntentsOf(y))' = IntentsOf(y)
    BY <2>1 DEF IntentsOf
  <2>3. TypeOK' /\ DepositKeys' /\ ClaimedExtras'
    BY <2>1, <2>2 DEF IInv, TypeOK, DepositKeys, ClaimedExtras, Claims
  <2>4. TablesOK'
    BY <2>1, <2>2 DEF IInv, TablesOK, BoundRows, BoundKeys, OwedOK, AbsentOK, StatusesOK, OneIntentPerRow,
                      UnclaimedExtras, TrueRows, Truth, Exists
  <2>5. RequestsOK'
    <3> SUFFICES ASSUME NEW q \in Requests PROVE RequestOK(req[q])'
      BY DEF RequestsOK
    <3>1. RequestOK(req[q])
      BY RequestTypes
    <3>2. KnowsRow(req[q])' /\ WillEdit(req[q])' /\ WillFail(req[q])'
      BY <2>1, <3>1 DEF RequestOK, KnowsRow, WillEdit, WillFail, Exists
    <3>3. KnowsIntent(req[q])'
      BY <2>1, <3>1 DEF RequestOK, KnowsIntent
    <3>4. WillWrite(req[q])'
      BY <2>1, <2>2, <3>1 DEF RequestOK, WillWrite, Truth, MayFollow
    <3> QED BY <3>2, <3>3, <3>4 DEF RequestOK
  <2> QED BY <2>3, <2>4, <2>5 DEF IInv
<1>2. CASE Environment
  BY <1>2, StripeChangesKeep, TimeKeeps, NoticeKeeps DEF Environment
<1>3. ASSUME NEW p \in Requests, Call(p) PROVE IInv'
  <2>1. CASE \E d \in Deposits : createDeposit(p, d) \/ captureDeposit(p, d) \/ releaseDeposit(p, d)
    BY <2>1, CreateDepositKeeps, DepositReadersKeep
  <2>2. CASE \E x \in Extras : \/ createExtraCharge(p, x) \/ approveExtraCharge(p, x)
                               \/ chargeExtraCharge(p, x) \/ cancelExtraCharge(p, x)
    BY <2>2, CreateExtraKeeps, EditorsKeep
  <2> QED BY <1>3, <2>1, <2>2 DEF Call
<1>4. ASSUME NEW p \in Requests, Step(p) PROVE IInv'
  <2>1. CASE StripeCreates(p) \/ StripeReplays(p) \/ StripeRefuses(p)
    BY <2>1, StripeCreatesKeeps, AnswersKeep
  <2>2. CASE ClaimExtra(p) \/ Catch(p) \/ RecordFailure(p)
    BY <2>2, ClaimKeeps, CatchKeeps, FailureKeeps
  <2>3. CASE LoadAndRetrieve(p) \/ WriteRow(p)
    BY <2>3, LoadKeeps, WriteKeeps
  <2>4. CASE BeforeCapture(p) \/ BeforeRelease(p) \/ StripeCaptures(p) \/ StripeCancels(p)
    BY <2>4, DepositReadersKeep, CaptureKeeps
  <2>5. CASE EditExtra(p) \/ Mark(p) \/ Acknowledge(p)
    BY <2>5, EditKeeps, MarkKeeps, LastStepsKeep
  <2> QED BY <1>4, <2>1, <2>2, <2>3, <2>4, <2>5 DEF Step
<1>5. ASSUME NEW p \in Requests, Dies(p) PROVE IInv'
  BY <1>5, LastStepsKeep
<1>6. ASSUME NEW p \in Requests, NEW e \in owed, handleStripeEvent(p, e) PROVE IInv'
  BY <1>6, WebhookKeeps
<1> QED BY <1>1, <1>2, <1>3, <1>4, <1>5, <1>6 DEF Next

\* What a step makes of a row may follow it.
LEMMA RowsFollow ==
  ASSUME IInv, Next, NEW x \in Rows
  PROVE  row'[x] = row[x] \/ MayFollow(row[x], row'[x])
<1>0. row \in [Rows -> Row] /\ row[x] \in Row
  BY DEF IInv, TypeOK
<1>1. ASSUME row[x].intent = NoIntent, row[x].status \notin Captured \cup Settled
      PROVE  MayFollow(row[x], row'[x])
  BY <1>1 DEF MayFollow, Settled
<1>2. ASSUME ~Exists(x) PROVE MayFollow(row[x], row'[x])
  <2>1. row[x].intent = NoIntent /\ row[x].status = "ABSENT"
    BY <1>2, BoundIntent DEF Exists
  <2> QED BY <1>1, <2>1 DEF Captured, Settled
<1>3. ASSUME NEW p \in Requests, Call(p) PROVE row'[x] = row[x] \/ MayFollow(row[x], row'[x])
  <2>1. ASSUME NEW d \in Deposits, createDeposit(p, d) PROVE row'[x] = row[x] \/ MayFollow(row[x], row'[x])
    <3>1. CASE UNCHANGED row
      BY <3>1
    <3>2. CASE ~Exists(d) /\ \E r : row' = [row EXCEPT ![d] = r]
      BY <1>0, <1>2, <3>2
    <3> QED BY <2>1, <3>1, <3>2 DEF createDeposit, Writes
  <2>2. ASSUME NEW y \in Extras, createExtraCharge(p, y) PROVE row'[x] = row[x] \/ MayFollow(row[x], row'[x])
    BY <1>0, <1>2, <2>2 DEF createExtraCharge, Writes
  <2>3. CASE UNCHANGED row
    BY <2>3
  <2> QED BY <1>3, <2>1, <2>2, <2>3 DEF Call, captureDeposit, releaseDeposit, approveExtraCharge,
                                        chargeExtraCharge, cancelExtraCharge
<1>4. ASSUME NEW p \in Requests, Step(p), row'[x] # row[x] PROVE MayFollow(row[x], row'[x])
  <2>0. RequestOK(req[p])
    BY RequestTypes
  <2>1. CASE ClaimExtra(p) \/ EditExtra(p)
    <3>1. /\ req[p].pc \in {"claim", "edit"} /\ req[p].fresh = "YES" /\ req[p].x = x
      BY <1>0, <1>4, <2>1 DEF ClaimExtra, EditExtra, Writes
    <3>2. row[x].intent = NoIntent /\ row[x].status \notin Settled /\ x \in Extras
      BY <2>0, <3>1 DEF RequestOK, WillEdit, KnowsRow
    <3>3. row[x].status \in ExtraStatuses \cup {"ABSENT"}
      BY <3>2, Kinds, RowsAssumption
    <3>4. row[x].status \notin Captured
      BY <3>3 DEF Captured, ExtraStatuses, CHARGEABLE_EXTRA_STATUSES, APPROVABLE_EXTRA_STATUSES,
                  NON_CANCELABLE_EXTRA_STATUSES
    <3> QED BY <1>1, <3>2, <3>4
  <2>2. CASE RecordFailure(p)
    <3>1. req[p].pc = "fail" /\ req[p].fresh = "YES" /\ req[p].x = x
      BY <1>0, <1>4, <2>2 DEF RecordFailure, Writes
    <3>2. CASE x \in Deposits
      BY <1>1, <2>0, <3>1, <3>2 DEF RequestOK, WillFail, ACTIVE_DEPOSIT_STATUSES, Captured, Settled
    <3>3. CASE x \in Extras
      <4>1. row[x].intent = NoIntent /\ row[x].status = "PAYMENT_PROCESSING"
        BY <2>0, <3>1, <3>3 DEF RequestOK, KnowsIntent, IInv, ClaimedExtras, Claims
      <4> QED BY <1>1, <4>1 DEF Captured, Settled
    <3> QED BY <3>2, <3>3 DEF Rows
  <2>3. CASE WriteRow(p)
    <3>1. req[p].pc = "write" /\ req[p].fresh = "YES" /\ req[p].x = x /\ row'[x] = req[p].to
      BY <1>0, <1>4, <2>3 DEF WriteRow, Writes
    <3> QED BY <2>0, <3>1 DEF RequestOK, WillWrite
  <2>4. CASE UNCHANGED row
    BY <1>4, <2>4
  <2> QED BY <1>4, <2>1, <2>2, <2>3, <2>4
          DEF Step, StripeCreates, StripeReplays, StripeRefuses, Catch, LoadAndRetrieve, BeforeCapture,
              BeforeRelease, StripeCaptures, StripeCancels, Mark, Acknowledge
<1>5. ASSUME NEW y \in Extras, NoticeDelivered(y), row'[x] # row[x] PROVE MayFollow(row[x], row'[x])
  <2>1. PICK s : s = IF row[x].status = "APPROVED" THEN "NOTIFIED" ELSE row[x].status
    OBVIOUS
  <2>2. x = y /\ row'[x] = [row[x] EXCEPT !.notice = "YES", !.status = s]
    BY <1>0, <1>5, <2>1 DEF NoticeDelivered
  <2>3. row'[x].status = s /\ row'[x].intent = row[x].intent
    BY <1>0, <2>2 DEF Row
  <2>4. row[x].status \in ExtraStatuses \cup {"ABSENT"}
    BY <1>5, <2>2, Kinds, RowsAssumption
  <2>5. row[x].status \notin Captured
    BY <2>4 DEF Captured, ExtraStatuses, CHARGEABLE_EXTRA_STATUSES, APPROVABLE_EXTRA_STATUSES,
                NON_CANCELABLE_EXTRA_STATUSES
  <2> QED BY <2>1, <2>3, <2>5 DEF MayFollow, Settled
<1>6. CASE UNCHANGED row
  BY <1>6
<1> QED BY <1>3, <1>4, <1>5, <1>6
        DEF Next, Dies, handleStripeEvent, Environment, IntentChanges, ChargeChanges, KeyIsPruned, DepositAges

\* The inductive invariant holds in every reachable state.
THEOREM Invariance == Spec => []IInv
<1>1. Init => IInv
  BY InitInv
<1>2. IInv /\ [Next]_vars => IInv'
  BY NextInv
<1> QED BY <1>1, <1>2, PTL DEF Spec

\* Rows, intents, keys, events and requests keep their types.
THEOREM TypeCorrect == Spec => []TypeOK
<1>1. IInv => TypeOK
  BY DEF IInv
<1> QED BY <1>1, Invariance, PTL

\* Stripe never holds two payment intents for one deposit or one extra charge: every create
\* call of rental-payment-service.ts finds no intent of its row, or a key that names it.
THEOREM OneIntent == Spec => []OneIntentPerRow
<1>1. IInv => OneIntentPerRow
  BY DEF IInv, TablesOK
<1> QED BY <1>1, Invariance, PTL

\* A row never claims what Stripe did not do: reconcileIntent, the webhooks and the failure
\* paths write only what the intent says and cannot take back.
THEOREM RowsAreTrue == Spec => []RowsTellTheTruth
<1>1. IInv => RowsTellTheTruth
  <2> SUFFICES ASSUME IInv PROVE RowsTellTheTruth
    OBVIOUS
  <2>1. ASSUME NEW d \in Deposits
        PROVE  /\ row[d].status \in Captured => /\ intent[row[d].intent].status = "succeeded"
                                                /\ intent[row[d].intent].received = row[d].captured
               /\ row[d].status = "RELEASED" => intent[row[d].intent].status = "canceled"
    BY DEF IInv, TablesOK, TrueRows, Truth, Rows
  <2>2. ASSUME NEW x \in Extras
        PROVE  /\ row[x].status \in Settled => intent[row[x].intent].status = "succeeded"
               /\ row[x].status = "CANCELED" => \A i \in IntentsOf(x) : intent[i].status = "canceled"
               /\ row[x].status = "FAILED" /\ row[x].intent = NoIntent => IntentsOf(x) = {}
    <3>1. x \in Rows /\ x \notin Deposits /\ Truth(x, row[x]) /\ x # NoRow
      BY RowsAssumption DEF Rows, IInv, TablesOK, TrueRows
    <3>2. row[x].intent # NoIntent => \A i \in IntentsOf(x) : i = row[x].intent
      BY <3>1, BoundIntent DEF IInv, TablesOK, OneIntentPerRow, IntentsOf
    <3>3. row[x].intent = NoIntent /\ row[x].status # "PAYMENT_PROCESSING" => IntentsOf(x) = {}
      BY DEF IInv, TablesOK, UnclaimedExtras
    <3> QED BY <3>1, <3>2, <3>3 DEF Truth
  <2> QED BY <2>1, <2>2 DEF RowsTellTheTruth
<1> QED BY <1>1, Invariance, PTL

\* No late event, answer or error takes back what is settled, and the intent of a row is
\* never replaced.
THEOREM SettledIsFinal == Spec => SettledStaysSettled
<1> DEFINE A == \A x \in Rows :
       /\ row[x].status \in Captured => row'[x] = row[x]
       /\ row[x].status = "PAID" => row'[x].status \in Settled
       /\ row[x].status = "REFUNDED" => row'[x].status \in {"REFUNDED", "DISPUTED"}
       /\ row[x].status = "DISPUTED" => row'[x].status = "DISPUTED"
       /\ row[x].intent # NoIntent => row'[x].intent = row[x].intent
<1>1. IInv /\ [Next]_vars => [A]_vars
  <2> SUFFICES ASSUME IInv, Next PROVE A
    BY DEF vars
  <2> SUFFICES ASSUME NEW x \in Rows
               PROVE  /\ row[x].status \in Captured => row'[x] = row[x]
                      /\ row[x].status = "PAID" => row'[x].status \in Settled
                      /\ row[x].status = "REFUNDED" => row'[x].status \in {"REFUNDED", "DISPUTED"}
                      /\ row[x].status = "DISPUTED" => row'[x].status = "DISPUTED"
                      /\ row[x].intent # NoIntent => row'[x].intent = row[x].intent
    OBVIOUS
  <2>1. CASE row'[x] = row[x]
    BY <2>1 DEF Settled
  <2>2. CASE MayFollow(row[x], row'[x])
    BY <2>2 DEF MayFollow
  <2> QED BY <2>1, <2>2, RowsFollow
<1> QED BY <1>1, Invariance, PTL DEF Spec, SettledStaysSettled

-----------------------------------------------------------------------------
(* The ledger: what else is true of the money *)

\* A refund and a dispute, in a row and in an event about intent i, have happened.
Warranted(r) == /\ r.status = "REFUNDED" => "refunded" \in intent[r.intent].charge
                /\ r.status = "DISPUTED" => "disputed" \in intent[r.intent].charge
Reported(e, i) == /\ e[2] = "refund" => "refunded" \in intent[i].charge
                  /\ e[2] = "dispute" => "disputed" \in intent[i].charge

\* What an intent may have received.
Paid(v) == /\ v.of = NoRow => v.charge = {}
           /\ v.status # "succeeded" => v.received = 0
           /\ v.status = "succeeded" => v.received > 0
           /\ v.status = "succeeded" /\ v.of \in Extras => v.received = Amount

\* The statuses that end a row without money.
Dropped == {"RELEASED", "CANCELED"}

\* A request that will write a row, and may, does not know it as dropped; what it read of
\* the charge has happened; and it does not capture nothing.
Fit(r) == /\ r.pc \in {"mark", "write"} => Reported(r.event, r.i)
          /\ r.pc = "write" => Warranted(r.to)
          /\ r.pc \in {"claim", "edit", "write"} /\ r.fresh = "YES" => row[r.x].status \notin Dropped
          /\ r.pc \in {"precapture", "capture"} => r.amount > 0

LInv == /\ \A i \in Intents : Paid(intent[i])
        /\ \A e \in owed : Reported(e, e[1])
        /\ \A x \in Rows : Warranted(row[x])
        /\ \A p \in Requests : Fit(req[p])

\* Most requests have nothing to be fit for.
LEMMA UnfitPCs ==
  ASSUME NEW r, r.pc \in PCs \ {"mark", "write", "claim", "edit", "precapture", "capture"}
  PROVE  Fit(r)
BY DEF Fit, PCs

\* In the beginning there is no money.
LEMMA LedgerInit == ASSUME Init PROVE LInv
<1>1. /\ \A x \in Rows : row[x] = AbsentRow
      /\ \A i \in Intents : intent[i] = NotCreated
      /\ owed = {} /\ \A p \in Requests : req[p] = NoRequest
  BY DEF Init
<1>2. Paid(NotCreated)
  BY RowsAssumption DEF Paid, NotCreated
<1>3. Warranted(AbsentRow)
  BY DEF Warranted, AbsentRow
<1>4. Fit(NoRequest)
  BY Constants, UnfitPCs DEF PCs
<1> QED BY <1>1, <1>2, <1>3, <1>4 DEF LInv

\* Request p becomes r, and rows and intents stay as they are.
LEMMA LedgerRequestStep ==
  ASSUME IInv, LInv, NEW p \in Requests, NEW r, Becomes(p, r), Fit(r),
         UNCHANGED <<row, intent>>, owed' \subseteq owed
  PROVE  LInv'
<1>1. \A q \in Requests : Fit(req'[q])
  BY DEF Becomes, LInv, IInv, TypeOK
<1>2. \A q \in Requests : Fit(req[q])'
  BY <1>1 DEF Fit, Reported, Warranted
<1>3. (\A i \in Intents : Paid(intent[i]))'
  BY DEF LInv, Paid
<1>4. (\A e \in owed : Reported(e, e[1]))' /\ (\A x \in Rows : Warranted(row[x]))'
  BY DEF LInv, Reported, Warranted
<1> QED BY <1>2, <1>3, <1>4 DEF LInv

\* Row x becomes r: the other requests hold a stale copy, the one that wrote is not fit to write.
LEMMA LedgerRowStep ==
  ASSUME IInv, LInv, NEW x \in Rows, NEW r, row' = [row EXCEPT ![x] = r], Warranted(r),
         UNCHANGED <<intent, owed>>,
         \A q \in Requests : \/ Stales(q, x)
                             \/ req'[q].pc \in PCs \ {"mark", "write", "claim", "edit", "precapture", "capture"}
  PROVE  LInv'
<1>1. \A y \in Rows : row'[y] = IF y = x THEN r ELSE row[y]
  BY DEF IInv, TypeOK
<1>2. ASSUME NEW q \in Requests PROVE Fit(req[q])'
  <2>1. CASE req'[q].pc \in PCs \ {"mark", "write", "claim", "edit", "precapture", "capture"}
    BY <2>1 DEF Fit, PCs
  <2>2. CASE Stales(q, x)
    <3>1. /\ req[q] \in Request /\ req[q].x \in Rows \cup {NoRow} /\ RequestOK(req[q]) /\ Fit(req[q])
      BY RequestTypes DEF LInv
    <3>2. /\ req'[q].pc = req[q].pc /\ req'[q].x = req[q].x /\ req'[q].i = req[q].i
          /\ req'[q].to = req[q].to /\ req'[q].event = req[q].event
          /\ req'[q].fresh = IF req[q].x = x THEN "NO" ELSE req[q].fresh
      BY <2>2, StaleFields
    <3>3. req'[q].amount = req[q].amount
      BY <2>2, <3>1 DEF Stales, Request
    <3>4. req[q].pc \in {"claim", "edit", "write"} => req[q].x \in Rows
      BY <3>1 DEF RequestOK, KnowsRow
    <3> QED BY <1>1, <3>1, <3>2, <3>3, <3>4 DEF Fit, Reported, Warranted
  <2> QED BY <1>2, <2>1, <2>2
<1>3. (\A i \in Intents : Paid(intent[i]))' /\ (\A e \in owed : Reported(e, e[1]))'
  BY DEF LInv, Paid, Reported
<1>4. (\A y \in Rows : Warranted(row[y]))'
  BY <1>1 DEF LInv, Warranted
<1> QED BY <1>2, <1>3, <1>4 DEF LInv

\* Intent i becomes v, which keeps its refunds and disputes.
LEMMA LedgerIntentStep ==
  ASSUME IInv, LInv, NEW i \in Intents, NEW v, intent' = [intent EXCEPT ![i] = v],
         Paid(v), intent[i].charge \subseteq v.charge, UNCHANGED row,
         NEW e, owed' = owed \cup {e}, e[1] = i,
         e[2] = "refund" => "refunded" \in v.charge, e[2] = "dispute" => "disputed" \in v.charge,
         \A q \in Requests : \/ req'[q] = req[q]
                             \/ req'[q].pc \in PCs \ {"mark", "write", "claim", "edit", "precapture", "capture"}
  PROVE  LInv'
<1>1. \A j \in Intents : intent'[j] = IF j = i THEN v ELSE intent[j]
  BY DEF IInv, TypeOK
<1>2. \A j \in Intents : intent[j].charge \subseteq intent'[j].charge
  BY <1>1
<1>3. (\A j \in Intents : Paid(intent[j]))'
  BY <1>1 DEF LInv, Paid
<1>4. (\A f \in owed : Reported(f, f[1]))'
  <2> SUFFICES ASSUME NEW f \in owed' PROVE Reported(f, f[1])'
    OBVIOUS
  <2>1. CASE f = e
    BY <1>1, <2>1 DEF Reported
  <2>2. CASE f \in owed
    <3>1. f[1] \in Intents /\ Reported(f, f[1])
      BY <2>2 DEF LInv, IInv, TypeOK, Events
    <3> QED BY <1>2, <3>1 DEF Reported
  <2> QED BY <2>1, <2>2
<1>5. ASSUME NEW x \in Rows PROVE Warranted(row[x])'
  <2>1. Warranted(row[x])
    BY DEF LInv
  <2>2. row[x].status \in Settled => row[x].intent \in Intents
    <3>1. CASE row[x].intent # NoIntent
      BY <3>1, BoundIntent
    <3>2. CASE row[x].intent = NoIntent
      <4>1. Truth(x, row[x])
        BY DEF IInv, TablesOK, TrueRows
      <4> QED BY <3>2, <4>1, Kinds DEF Truth, Settled, DepositStatuses, ACTIVE_DEPOSIT_STATUSES, Captured
    <3> QED BY <3>1, <3>2
  <2> QED BY <1>2, <2>1, <2>2 DEF Warranted, Settled
<1>6. ASSUME NEW q \in Requests PROVE Fit(req[q])'
  <2>1. CASE req'[q].pc \in PCs \ {"mark", "write", "claim", "edit", "precapture", "capture"}
    BY <2>1 DEF Fit, PCs
  <2>2. CASE req'[q] = req[q]
    <3>1. Fit(req[q]) /\ RequestOK(req[q]) /\ req[q].i \in Intents \cup {NoIntent}
      BY RequestTypes DEF LInv
    <3>2. req[q].pc \in {"mark", "write"} => req[q].i \in Intents
      BY <3>1 DEF RequestOK, KnowsIntent
    <3>3. req[q].pc = "write" => req[q].to.intent = req[q].i
      BY <3>1 DEF RequestOK, WillWrite
    <3> QED BY <1>2, <2>2, <3>1, <3>2, <3>3 DEF Fit, Reported, Warranted
  <2> QED BY <1>6, <2>1, <2>2
<1> QED BY <1>3, <1>4, <1>5, <1>6 DEF LInv

\* A request that ends, returns or begins to reconcile.
LEMMA LedgerQuietStep ==
  ASSUME IInv, LInv, NEW p \in Requests, UNCHANGED <<row, intent>>, owed' \subseteq owed,
         Ends(p) \/ Returns(p) \/ \E x, i : Reconciles(p, x, i)
  PROVE  LInv'
<1>1. NoRequest \in Request /\ Fit(NoRequest)
  BY Constants, UnfitPCs DEF PCs
<1>2. CASE Ends(p)
  BY <1>1, <1>2, LedgerRequestStep DEF Ends
<1>3. ASSUME NEW x, NEW i, Reconciles(p, x, i) PROVE LInv'
  <2>1. PICK r : r = [NoRequest EXCEPT !.pc = "load", !.x = x, !.i = i, !.event = req[p].event]
    OBVIOUS
  <2>2. r.pc = "load"
    BY <1>1, <2>1 DEF Request
  <2> QED BY <1>3, <2>1, <2>2, UnfitPCs, LedgerRequestStep DEF Reconciles, PCs
<1>4. CASE Returns(p) /\ ~Ends(p)
  <2>1. PICK r : r = [NoRequest EXCEPT !.pc = "ack", !.event = req[p].event]
    OBVIOUS
  <2>2. r.pc = "ack"
    BY <1>1, <2>1 DEF Request
  <2> QED BY <1>4, <2>1, <2>2, UnfitPCs, LedgerRequestStep DEF Returns, PCs
<1> QED BY <1>2, <1>3, <1>4

\* A row with its own intent, status and amount is the row.
LEMMA SameRow ==
  ASSUME NEW r \in Row
  PROVE  /\ [r EXCEPT !.intent = r.intent, !.status = r.status] = r
         /\ [r EXCEPT !.intent = r.intent, !.status = r.status, !.captured = r.captured] = r
BY DEF Row

\* What reconcileIntent wants to write to a row that is not dropped.
LEMMA LedgerReconciled ==
  ASSUME IInv, NEW x \in Rows, NEW i \in Intents, validateIntent(x, row[x], i), Exists(x),
         NEW n, n = Reconciled(x, row[x], i), n # row[x],
         ~(~Terminal(x, row[x]) /\ row[x].status \in {"CANCELED", "RELEASED"} /\ intent[i].status # "canceled")
  PROVE  Warranted(n) /\ row[x].status \notin Dropped
<1>0. /\ row[x] \in Row /\ ~Terminal(x, row[x])
      /\ row[x].intent # NoIntent => row[x].intent = i
      /\ row[x].intent = NoIntent => row[x].status = Claiming(x)
  BY Kinds DEF Reconciled, validateIntent
<1>1. CASE x \in Extras
  <2>1. n = [row[x] EXCEPT !.intent = i, !.status = ExtraStatus(i)]
    BY <1>0, <1>1 DEF Reconciled
  <2>2. n.status = ExtraStatus(i)
    BY <1>0, <2>1 DEF Row
  <2>3. Warranted(n)
    BY <2>2 DEF Warranted, ExtraStatus
  <2>4. ASSUME row[x].status \in Dropped PROVE FALSE
    <3>1. row[x].status = "CANCELED"
      BY <1>1, <2>4, Kinds, RowsAssumption
      DEF Dropped, ExtraStatuses, CHARGEABLE_EXTRA_STATUSES, APPROVABLE_EXTRA_STATUSES, NON_CANCELABLE_EXTRA_STATUSES
    <3>2. row[x].intent = i
      BY <1>0, <1>1, <3>1 DEF Claiming
    <3>3. ExtraStatus(i) = "CANCELED"
      BY <1>0, <3>1 DEF ExtraStatus
    <3> QED BY <1>0, <2>1, <3>1, <3>2, <3>3, SameRow
  <2> QED BY <2>3, <2>4
<1>2. CASE x \notin Extras
  <2>1. PICK c : /\ n = [row[x] EXCEPT !.intent = i, !.status = DepositStatus(i), !.captured = c]
                 /\ intent[i].status # "succeeded" => c = row[x].captured
    BY <1>0, <1>2 DEF Reconciled
  <2>2. n.status = DepositStatus(i)
    BY <1>0, <2>1 DEF Row
  <2>3. Warranted(n)
    BY <2>2 DEF Warranted, DepositStatus
  <2>4. ASSUME row[x].status \in Dropped PROVE FALSE
    <3>1. row[x].status = "RELEASED"
      BY <1>2, <2>4, Kinds DEF Dropped, DepositStatuses, ACTIVE_DEPOSIT_STATUSES, Captured
    <3>2. row[x].intent = i
      BY <1>0, <1>2, <3>1 DEF Claiming
    <3>3. DepositStatus(i) = "RELEASED" /\ intent[i].status # "succeeded"
      BY <1>0, <3>1 DEF DepositStatus
    <3> QED BY <1>0, <2>1, <3>1, <3>2, <3>3, SameRow
  <2> QED BY <2>3, <2>4
<1> QED BY <1>1, <1>2

\* reconcileIntent reads the row and the intent.
LEMMA LedgerLoad == ASSUME IInv, LInv, NEW p \in Requests, LoadAndRetrieve(p) PROVE LInv'
<1>0. /\ UNCHANGED <<row, intent, owed>>
      /\ req[p].pc = "load" /\ req[p].x \in Rows /\ Exists(req[p].x) /\ req[p].i \in Intents
      /\ req[p] \in Request /\ req[p].event[2] \notin {"refund", "dispute"}
  BY RequestTypes DEF LoadAndRetrieve, Stripe, RequestOK, KnowsRow, KnowsIntent
<1>1. PICK n : n = Reconciled(req[p].x, row[req[p].x], req[p].i)
  OBVIOUS
<1>2. CASE Ends(p) \/ Returns(p)
  BY <1>0, <1>2, LedgerQuietStep
<1>3. CASE /\ validateIntent(req[p].x, row[req[p].x], req[p].i) /\ n # row[req[p].x]
           /\ ~(/\ ~Terminal(req[p].x, row[req[p].x]) /\ row[req[p].x].status \in {"CANCELED", "RELEASED"}
                /\ intent[req[p].i].status # "canceled")
           /\ Becomes(p, [req[p] EXCEPT !.pc = "write", !.fresh = "YES", !.to = n])
  <2>1. Warranted(n) /\ row[req[p].x].status \notin Dropped
    BY <1>0, <1>1, <1>3, LedgerReconciled
  <2>2. PICK r : r = [req[p] EXCEPT !.pc = "write", !.fresh = "YES", !.to = n]
    OBVIOUS
  <2>3. r.pc = "write" /\ r.x = req[p].x /\ r.to = n /\ r.event = req[p].event
    BY <1>0, <2>2 DEF Request
  <2>4. Fit(r)
    BY <1>0, <2>1, <2>3 DEF Fit, Reported
  <2> QED BY <1>0, <1>3, <2>2, <2>4, LedgerRequestStep
<1> QED BY <1>1, <1>2, <1>3 DEF LoadAndRetrieve

\* markPaymentIntentLinkedRecord reads the charge, the intent and the row.
LEMMA LedgerMark == ASSUME IInv, LInv, NEW p \in Requests, Mark(p) PROVE LInv'
<1>0. /\ UNCHANGED <<row, intent, owed>> /\ req[p] \in Request /\ Fit(req[p])
      /\ req[p].pc = "mark" /\ req[p].x \in Rows /\ req[p].x \in Extras /\ req[p].x \notin Deposits
      /\ req[p].event[2] \in {"refund", "dispute"}
      /\ intent[req[p].i].status = "succeeded" /\ row[req[p].x] \in Row
  BY RequestTypes, Kinds, RowsAssumption DEF Mark, Stripe, RequestOK, KnowsRow, KnowsIntent, LInv
<1>1. PICK s : s = MarkedStatus(req[p].event, row[req[p].x], req[p].i)
  OBVIOUS
<1>2. PICK n : n = [row[req[p].x] EXCEPT !.intent = req[p].i, !.status = s]
  OBVIOUS
<1>3. CASE Ends(p) \/ Returns(p)
  BY <1>0, <1>3, LedgerQuietStep
<1>4. CASE /\ validateIntent(req[p].x, row[req[p].x], req[p].i)
           /\ row[req[p].x].status # n.status
           /\ Becomes(p, [req[p] EXCEPT !.pc = "write", !.fresh = "YES", !.to = n])
  <2>1. n.status = s /\ n.intent = req[p].i
    BY <1>0, <1>2 DEF Row
  <2>2. /\ s = "REFUNDED" => req[p].event[2] = "refund"
        /\ s = "DISPUTED" => req[p].event[2] = "dispute" \/ "disputed" \in intent[req[p].i].charge
    BY <1>0, <1>1, <1>4, <2>1 DEF MarkedStatus
  <2>3. Warranted(n)
    BY <1>0, <2>1, <2>2 DEF Warranted, Fit, Reported
  <2>4. row[req[p].x].status \notin Dropped
    <3>1. Truth(req[p].x, row[req[p].x]) /\ row[req[p].x].status \in ExtraStatuses \cup {"ABSENT"}
      BY <1>0, Kinds DEF IInv, TablesOK, TrueRows
    <3>2. row[req[p].x].status # "RELEASED"
      BY <3>1 DEF ExtraStatuses, CHARGEABLE_EXTRA_STATUSES, APPROVABLE_EXTRA_STATUSES, NON_CANCELABLE_EXTRA_STATUSES
    <3>3. row[req[p].x].status # "CANCELED"
      BY <1>0, <1>4, <3>1 DEF validateIntent, Claiming, Truth
    <3> QED BY <3>2, <3>3 DEF Dropped
  <2>5. PICK r : r = [req[p] EXCEPT !.pc = "write", !.fresh = "YES", !.to = n]
    OBVIOUS
  <2>6. r.pc = "write" /\ r.x = req[p].x /\ r.to = n /\ r.event = req[p].event /\ r.i = req[p].i
    BY <1>0, <2>5 DEF Request
  <2>7. Fit(r)
    BY <1>0, <2>3, <2>4, <2>6 DEF Fit
  <2> QED BY <1>0, <1>4, <2>5, <2>7, LedgerRequestStep
<1> QED BY <1>1, <1>2, <1>3, <1>4 DEF Mark

\* A webhook is delivered.
LEMMA LedgerWebhook ==
  ASSUME IInv, LInv, NEW p \in Requests, NEW e \in owed, handleStripeEvent(p, e)
  PROVE  LInv'
<1>1. PICK pc : pc = IF e[2] = "intent" THEN "load" ELSE "mark"
  OBVIOUS
<1>2. PICK x, i : x = intent[e[1]].of /\ i = e[1]
  OBVIOUS
<1>3. PICK r : r = [NoRequest EXCEPT !.pc = pc, !.x = x, !.i = i, !.event = e]
  OBVIOUS
<1>4. r.pc = pc /\ r.i = i /\ r.event = e
  BY <1>3, Constants DEF Request
<1>5. Fit(r)
  BY <1>1, <1>2, <1>4 DEF Fit, LInv
<1>6. Becomes(p, r) /\ UNCHANGED <<row, intent, owed>>
  BY <1>1, <1>2, <1>3 DEF handleStripeEvent, Stripe
<1> QED BY <1>5, <1>6, LedgerRequestStep

\* Calls that read a row and decide.
LEMMA LedgerCalls ==
  ASSUME IInv, LInv, NEW p \in Requests, NEW x \in Rows,
         \/ captureDeposit(p, x) \/ releaseDeposit(p, x)
         \/ x \in Extras /\ (approveExtraCharge(p, x) \/ chargeExtraCharge(p, x) \/ cancelExtraCharge(p, x))
  PROVE  LInv' /\ UNCHANGED <<row, intent>>
<1>0. UNCHANGED <<row, intent, owed>> /\ NoRequest \in Request /\ row[x] \in Row
  BY Constants, Kinds DEF captureDeposit, releaseDeposit, approveExtraCharge, chargeExtraCharge, cancelExtraCharge, Stripe
<1>1. CASE captureDeposit(p, x)
  <2>1. PICK a \in 1..(Amount - row[x].captured) :
          Becomes(p, [NoRequest EXCEPT !.pc = "precapture", !.x = x, !.i = row[x].intent, !.amount = a])
    BY <1>1 DEF captureDeposit
  <2>2. PICK r : r = [NoRequest EXCEPT !.pc = "precapture", !.x = x, !.i = row[x].intent, !.amount = a]
    OBVIOUS
  <2>3. r.pc = "precapture" /\ r.amount > 0
    BY <1>0, <2>2, NumbersAssumption DEF Request, Row
  <2> QED BY <1>0, <2>1, <2>2, <2>3, LedgerRequestStep DEF Fit
<1>2. CASE releaseDeposit(p, x)
  <2>1. PICK r : r = [NoRequest EXCEPT !.pc = "prerelease", !.x = x, !.i = row[x].intent]
    OBVIOUS
  <2>2. r.pc = "prerelease"
    BY <1>0, <2>1 DEF Request
  <2> QED BY <1>0, <1>2, <2>1, <2>2, UnfitPCs, LedgerRequestStep DEF releaseDeposit, PCs
<1>3. ASSUME NEW pc \in {"edit", "claim"}, NEW t, row[x].status \notin Dropped,
             Becomes(p, [NoRequest EXCEPT !.pc = pc, !.x = x, !.fresh = "YES", !.to = t])
      PROVE  LInv'
  <2>1. PICK r : r = [NoRequest EXCEPT !.pc = pc, !.x = x, !.fresh = "YES", !.to = t]
    OBVIOUS
  <2>2. r.pc = pc /\ r.x = x
    BY <1>0, <2>1 DEF Request
  <2> QED BY <1>0, <1>3, <2>1, <2>2, LedgerRequestStep DEF Fit
<1>4. CASE approveExtraCharge(p, x)
  <2>1. row[x].status \notin Dropped
    BY <1>4 DEF approveExtraCharge, APPROVABLE_EXTRA_STATUSES, Dropped
  <2> QED BY <1>0, <1>3, <1>4, <2>1 DEF approveExtraCharge
<1>5. CASE x \in Extras /\ cancelExtraCharge(p, x)
  <2>1. row[x].status \in ExtraStatuses \cup {"ABSENT"}
    BY <1>5, Kinds, RowsAssumption
  <2>2. row[x].status \notin Dropped
    BY <1>5, <2>1 DEF cancelExtraCharge, Dropped, ExtraStatuses, CHARGEABLE_EXTRA_STATUSES,
                      APPROVABLE_EXTRA_STATUSES, NON_CANCELABLE_EXTRA_STATUSES
  <2> QED BY <1>0, <1>3, <1>5, <2>2 DEF cancelExtraCharge
<1>6. CASE chargeExtraCharge(p, x)
  <2>1. CASE Reconciles(p, x, row[x].intent)
    BY <1>0, <2>1, LedgerQuietStep
  <2>2. CASE ~Reconciles(p, x, row[x].intent)
    <3>1. row[x].status \notin Dropped
      BY <1>6, <2>2 DEF chargeExtraCharge, CHARGEABLE_EXTRA_STATUSES, Dropped
    <3> QED BY <1>0, <1>3, <1>6, <2>2, <3>1 DEF chargeExtraCharge
  <2> QED BY <2>1, <2>2
<1> QED BY <1>0, <1>1, <1>2, <1>4, <1>5, <1>6

-----------------------------------------------------------------------------
(* The ledger: entries *)

\* What the ledger sees of a row.
LEMMA EntryFields ==
  ASSUME NEW r
  PROVE  /\ EntryOf(r).payment = r.intent
         /\ r.status \in Captured => EntryOf(r).state = "TAKEN" /\ EntryOf(r).amount = r.captured
         /\ r.status \in Settled => EntryOf(r).amount = Amount
         /\ r.status = "PAID" => EntryOf(r).state = "TAKEN"
         /\ r.status = "REFUNDED" => EntryOf(r).state = "RETURNED"
         /\ r.status = "DISPUTED" => EntryOf(r).state = "DISPUTED"
         /\ r.status \in Dropped => EntryOf(r).state = "DROPPED" /\ EntryOf(r).amount = 0
         /\ r.status \notin Captured \cup Settled \cup Dropped => EntryOf(r).state = "OPEN" /\ EntryOf(r).amount = 0
BY DEF EntryOf, Captured, Settled, Dropped

\* What the ledger sees of an intent.
LEMMA AccountFields ==
  ASSUME NEW v
  PROVE  /\ AccountOf(v).of = v.of /\ AccountOf(v).amount = v.received /\ AccountOf(v).claims = v.charge
         /\ v.status = "succeeded" => AccountOf(v).state = "TAKEN"
         /\ v.status = "canceled" => AccountOf(v).state = "VOID"
         /\ v.status \notin {"succeeded", "canceled"} => AccountOf(v).state = "OPEN"
BY DEF AccountOf

\* Rows the ledger does not tell apart.
LEMMA SameEntry ==
  ASSUME NEW r, NEW s, EntryOf(r).state = EntryOf(s).state, EntryOf(r).amount = EntryOf(s).amount, r.intent = s.intent
  PROVE  EntryOf(r) = EntryOf(s)
BY DEF EntryOf

\* A write the ledger does not see.
LEMMA BookStays ==
  ASSUME IInv, NEW x \in Rows, NEW r, row' = [row EXCEPT ![x] = r], UNCHANGED intent,
         EntryOf(r) = EntryOf(row[x])
  PROVE  UNCHANGED Ledger!vars
<1>1. \A y \in Rows : EntryOf(row'[y]) = EntryOf(row[y])
  BY DEF IInv, TypeOK
<1> QED BY <1>1 DEF Ledger!vars

\* A write that is an entry about intent i.
LEMMA BookEnters ==
  ASSUME IInv, NEW x \in Rows, NEW i \in Intents, NEW r, row' = [row EXCEPT ![x] = r], UNCHANGED intent,
         intent[i].of = x, row[x].intent \in {NoIntent, i}, r.intent = i,
         NEW s, s = EntryOf(r).state, s \in Ledger!Later(EntryOf(row[x]).state),
         s \in {"TAKEN", "RETURNED", "DISPUTED"} => intent[i].status = "succeeded",
         s = "RETURNED" => "refunded" \in intent[i].charge,
         s = "DISPUTED" => "disputed" \in intent[i].charge,
         s = "DROPPED"  => intent[i].status = "canceled",
         EntryOf(r).amount = IF s \in {"OPEN", "DROPPED"} THEN 0 ELSE intent[i].received
  PROVE  Ledger!Next
<1> DEFINE account == [j \in Intents |-> AccountOf(intent[j])]
           book    == [y \in Rows |-> EntryOf(row[y])]
           entry   == [state |-> s, payment |-> i, amount |-> IF s \in {"OPEN", "DROPPED"} THEN 0 ELSE account[i].amount]
<1>1. account[i] = AccountOf(intent[i]) /\ book[x] = EntryOf(row[x])
  OBVIOUS
<1>2. account[i].of = x /\ book[x].payment \in {NoIntent, i} /\ account[i].amount = intent[i].received
  BY <1>1, AccountFields, EntryFields
<1>3. Ledger!Evidence(i, s)
  BY <1>1, AccountFields DEF Ledger!Evidence
<1>4. EntryOf(r) = entry
  BY <1>2, EntryFields DEF EntryOf
<1>5. [y \in Rows |-> EntryOf(row'[y])] = [book EXCEPT ![x] = entry]
  BY <1>4 DEF IInv, TypeOK
<1>6. Ledger!Enter(x, i)
  BY <1>1, <1>2, <1>3, <1>5 DEF Ledger!Enter
<1> QED BY <1>6 DEF Ledger!Next

\* The rows that neither hold money nor are dropped look the same, but for the intent.
LEMMA OpenRows ==
  ASSUME NEW r, NEW s, r.status \notin Captured \cup Settled \cup Dropped,
         s.status \notin Captured \cup Settled \cup Dropped, r.intent = s.intent
  PROVE  EntryOf(r) = EntryOf(s)
BY EntryFields, SameEntry

\* A write after which the writer has nothing to be fit for.
LEMMA LedgerWrites ==
  ASSUME IInv, LInv, NEW p \in Requests, NEW x \in Rows, NEW r, NEW n \in Request, Writes(p, x, r, n),
         Warranted(r), UNCHANGED <<intent, owed>>, n.pc \in {"idle", "ack", "create"}
  PROVE  LInv'
<1>1. req'[p] = n /\ \A q \in Requests : q # p => Stales(q, x)
  BY WritesRequests
<1>2. \A q \in Requests : \/ Stales(q, x)
                          \/ req'[q].pc \in PCs \ {"mark", "write", "claim", "edit", "precapture", "capture"}
  BY <1>1 DEF PCs
<1> QED BY <1>2, LedgerRowStep DEF Writes

\* claimActiveDeposit and createExtraCharge create a row.
LEMMA LedgerCreateRow ==
  ASSUME IInv, LInv, NEW p \in Requests, NEW x \in Rows, ~Exists(x), NEW s \in {"AUTHORIZING", "PENDING_APPROVAL"},
         NEW n \in Request, n.pc \in {"idle", "create"},
         Writes(p, x, [AbsentRow EXCEPT !.status = s], n), UNCHANGED <<intent, owed>>
  PROVE  LInv' /\ UNCHANGED Ledger!vars
<1>1. PICK r : r = [AbsentRow EXCEPT !.status = s]
  OBVIOUS
<1>2. r.status = s /\ r.intent = NoIntent
  BY <1>1, Constants DEF Row
<1>3. row[x].intent = NoIntent /\ row[x].status = "ABSENT"
  BY BoundIntent DEF Exists
<1>4. EntryOf(r) = EntryOf(row[x])
  BY <1>2, <1>3, OpenRows DEF Captured, Settled, Dropped
<1>5. Warranted(r)
  BY <1>2 DEF Warranted
<1>6. Writes(p, x, r, n) /\ row' = [row EXCEPT ![x] = r]
  BY <1>1 DEF Writes
<1> QED BY <1>4, <1>5, <1>6, LedgerWrites, BookStays

\* createDeposit, whatever it finds.
LEMMA LedgerCreateDeposit ==
  ASSUME IInv, LInv, NEW p \in Requests, NEW d \in Deposits, createDeposit(p, d)
  PROVE  LInv' /\ UNCHANGED Ledger!vars
<1>0. d \in Rows /\ UNCHANGED <<intent, owed>>
  BY DEF Rows, createDeposit, Stripe
<1>1. PICK n : n = [NoRequest EXCEPT !.pc = "create", !.x = d, !.fresh = "YES"]
  OBVIOUS
<1>2. n \in Request /\ n.pc = "create"
  BY <1>0, <1>1, Constants DEF Request, PCs
<1>3. CASE ~Exists(d) /\ Writes(p, d, [AbsentRow EXCEPT !.status = "AUTHORIZING"], n)
  BY <1>0, <1>2, <1>3, LedgerCreateRow
<1>4. CASE UNCHANGED row /\ (Becomes(p, n) \/ Reconciles(p, d, row[d].intent))
  <2>1. UNCHANGED Ledger!vars
    BY <1>0, <1>4 DEF Ledger!vars
  <2>2. CASE Becomes(p, n)
    BY <1>0, <1>2, <1>4, <2>1, <2>2, UnfitPCs, LedgerRequestStep DEF PCs
  <2>3. CASE Reconciles(p, d, row[d].intent)
    BY <1>0, <1>4, <2>1, <2>3, LedgerQuietStep
  <2> QED BY <1>4, <2>2, <2>3
<1> QED BY <1>1, <1>3, <1>4 DEF createDeposit

\* A request about an extra charge that is not settled, dropped or being processed writes it.
LEMMA LedgerClaimOrEdit ==
  ASSUME IInv, LInv, NEW p \in Requests, ClaimExtra(p) \/ EditExtra(p)
  PROVE  LInv' /\ [Ledger!Next]_(Ledger!vars)
<1>1. PICK x : x = req[p].x
  OBVIOUS
<1>0. /\ x \in Rows /\ x \in Extras /\ x \notin Deposits /\ UNCHANGED <<intent, owed>>
      /\ req[p].pc \in {"claim", "edit"} /\ RequestOK(req[p]) /\ req[p] \in Request /\ row[x] \in Row
      /\ row[x].status \in ExtraStatuses \cup {"ABSENT"} /\ Fit(req[p])
  BY <1>1, RequestTypes, Kinds, RowsAssumption DEF ClaimExtra, EditExtra, Stripe, RequestOK, KnowsRow, LInv
<1>2. CASE req[p].fresh # "YES"
  <2>1. Ends(p) /\ UNCHANGED <<row, intent, owed>>
    BY <1>0, <1>2 DEF ClaimExtra, EditExtra
  <2> QED BY <2>1, LedgerQuietStep DEF Ledger!vars
<1>3. CASE req[p].fresh = "YES"
  <2>1. /\ row[x].intent = NoIntent /\ row[x].status \notin Settled \cup {"PAYMENT_PROCESSING"} \cup Dropped
        /\ \E s \in {"PAYMENT_PROCESSING", "APPROVED", "CANCELED"} : req[p].to = [row[x] EXCEPT !.status = s]
    BY <1>0, <1>1, <1>3 DEF RequestOK, WillEdit, Fit
  <2>2. PICK s \in {"PAYMENT_PROCESSING", "APPROVED", "CANCELED"} : req[p].to = [row[x] EXCEPT !.status = s]
    BY <2>1
  <2>3. PICK r : r = [row[x] EXCEPT !.status = s]
    OBVIOUS
  <2>4. r.status = s /\ r.intent = NoIntent
    BY <1>0, <2>1, <2>3 DEF Row
  <2>5. PICK n \in Request : n.pc \in {"idle", "create"} /\ Writes(p, x, r, n)
    <3>1. PICK c : c = [req[p] EXCEPT !.pc = "create", !.to = AbsentRow]
      OBVIOUS
    <3>2. c \in Request /\ c.pc = "create"
      BY <1>0, <3>1, Constants DEF Request, PCs
    <3>3. Writes(p, x, r, c) \/ Writes(p, x, r, NoRequest)
      BY <1>1, <1>3, <2>2, <2>3, <3>1 DEF ClaimExtra, EditExtra
    <3> QED BY <3>2, <3>3, Constants
  <2>6. Warranted(r)
    BY <2>4 DEF Warranted
  <2>7. LInv'
    BY <1>0, <2>5, <2>6, LedgerWrites
  <2>8. row[x].status \notin Captured \cup Settled \cup Dropped
    BY <1>0, <2>1 DEF Captured, ExtraStatuses, CHARGEABLE_EXTRA_STATUSES, APPROVABLE_EXTRA_STATUSES,
                      NON_CANCELABLE_EXTRA_STATUSES
  <2>9. row' = [row EXCEPT ![x] = r]
    BY <2>5 DEF Writes
  <2>10. CASE s # "CANCELED"
    <3>1. EntryOf(r) = EntryOf(row[x])
      BY <2>1, <2>4, <2>8, <2>10, OpenRows DEF Captured, Settled, Dropped
    <3> QED BY <1>0, <2>7, <2>9, <3>1, BookStays
  <2>11. CASE s = "CANCELED"
    <3> DEFINE account == [j \in Intents |-> AccountOf(intent[j])]
               book    == [y \in Rows |-> EntryOf(row[y])]
    <3>1. IntentsOf(x) = {}
      BY <1>0, <2>1 DEF IInv, TablesOK, UnclaimedExtras
    <3>2. \A j \in Intents : account[j].of # x
      BY <3>1, AccountFields DEF IntentsOf
    <3>3. book[x] = EntryOf(row[x]) /\ EntryOf(row[x]) = Ledger!Blank
      BY <1>0, <2>1, <2>8, EntryFields DEF Ledger!Blank, EntryOf
    <3>4. EntryOf(r) = [EntryOf(row[x]) EXCEPT !.state = "DROPPED"]
      BY <2>1, <2>4, <2>8, <2>11, EntryFields DEF EntryOf, Dropped
    <3>5. [y \in Rows |-> EntryOf(row'[y])] = [book EXCEPT ![x].state = "DROPPED"]
      BY <1>0, <2>9, <3>3, <3>4 DEF IInv, TypeOK
    <3>6. Ledger!Drop(x)
      BY <1>0, <3>2, <3>3, <3>5 DEF Ledger!Drop
    <3> QED BY <1>0, <2>7, <3>6 DEF Ledger!Next
  <2> QED BY <2>10, <2>11
<1> QED BY <1>2, <1>3

\* A refusal is recorded.
LEMMA LedgerFailure ==
  ASSUME IInv, LInv, NEW p \in Requests, RecordFailure(p)
  PROVE  LInv' /\ UNCHANGED Ledger!vars
<1>1. PICK x : x = req[p].x
  OBVIOUS
<1>0. /\ x \in Rows /\ UNCHANGED <<intent, owed>> /\ req[p].pc = "fail"
      /\ RequestOK(req[p]) /\ req[p].reply = "refused" /\ row[x] \in Row
  BY <1>1, RequestTypes, Kinds DEF RecordFailure, Stripe, RequestOK, KnowsRow, KnowsIntent
<1>2. CASE req[p].fresh # "YES"
  <2>1. Ends(p) /\ UNCHANGED <<row, intent, owed>>
    BY <1>0, <1>2 DEF RecordFailure
  <2> QED BY <2>1, LedgerQuietStep DEF Ledger!vars
<1>3. CASE req[p].fresh = "YES"
  <2>1. PICK r : r = req[p].to /\ r = [row[x] EXCEPT !.status = "FAILED"]
    BY <1>0, <1>1, <1>3 DEF RequestOK, WillFail
  <2>2. r.status = "FAILED" /\ r.intent = row[x].intent
    BY <1>0, <2>1 DEF Row
  <2>3. row[x].status \in ACTIVE_DEPOSIT_STATUSES \cup {"PAYMENT_PROCESSING"}
    <3>1. CASE x \in Deposits
      BY <1>0, <1>1, <1>3, <3>1 DEF RequestOK, WillFail
    <3>2. CASE x \in Extras
      BY <1>0, <1>1, <3>2 DEF IInv, ClaimedExtras, Claims
    <3> QED BY <1>0, <3>1, <3>2 DEF Rows
  <2>4. EntryOf(r) = EntryOf(row[x])
    BY <2>2, <2>3, OpenRows DEF Captured, Settled, Dropped, ACTIVE_DEPOSIT_STATUSES
  <2>5. Writes(p, x, r, NoRequest) /\ row' = [row EXCEPT ![x] = r]
    BY <1>1, <1>3, <2>1 DEF RecordFailure, Writes
  <2>6. Warranted(r)
    BY <2>2 DEF Warranted
  <2> QED BY <1>0, <2>4, <2>5, <2>6, Constants, LedgerWrites, BookStays
<1> QED BY <1>2, <1>3

\* A notice is delivered.
LEMMA LedgerNotice ==
  ASSUME IInv, LInv, NEW x \in Extras, NoticeDelivered(x)
  PROVE  LInv' /\ UNCHANGED Ledger!vars
<1>0. x \in Rows /\ UNCHANGED <<intent, owed>> /\ row[x] \in Row
  BY Kinds DEF NoticeDelivered, Stripe, Rows
<1>1. PICK s : s = IF row[x].status = "APPROVED" THEN "NOTIFIED" ELSE row[x].status
  OBVIOUS
<1>2. PICK r : r = [row[x] EXCEPT !.notice = "YES", !.status = s]
  OBVIOUS
<1>3. row' = [row EXCEPT ![x] = r]
  BY <1>0, <1>1, <1>2 DEF NoticeDelivered, IInv, TypeOK
<1>4. r.status = s /\ r.intent = row[x].intent /\ r.captured = row[x].captured
  BY <1>0, <1>2 DEF Row
<1>5. EntryOf(r) = EntryOf(row[x])
  BY <1>1, <1>4 DEF EntryOf, Captured, Settled
<1>6. Warranted(r)
  BY <1>0, <1>1, <1>4 DEF Warranted, LInv
<1>7. \A q \in Requests : Stales(q, x)
  BY DEF NoticeDelivered, Stales
<1>8. LInv'
  BY <1>0, <1>3, <1>6, <1>7, LedgerRowStep
<1> QED BY <1>0, <1>3, <1>5, <1>8, BookStays

\* The write of reconcileIntent and of the webhooks: an entry that follows the intent.
LEMMA LedgerWrite ==
  ASSUME IInv, LInv, NEW p \in Requests, WriteRow(p)
  PROVE  LInv' /\ [Ledger!Next]_(Ledger!vars)
<1>1. PICK x : x = req[p].x
  OBVIOUS
<1>2. PICK i : i = req[p].i
  OBVIOUS
<1>0. /\ x \in Rows /\ UNCHANGED <<intent, owed>> /\ i \in Intents /\ intent[i].of = x /\ i # NoIntent
      /\ req[p].pc = "write" /\ RequestOK(req[p]) /\ req[p] \in Request /\ Fit(req[p]) /\ row[x] \in Row
  BY <1>1, <1>2, RequestTypes, Kinds DEF WriteRow, Stripe, RequestOK, KnowsRow, KnowsIntent, LInv
<1>3. CASE req[p].fresh = "YES" /\ NoOtherActive(req[p].x, req[p].to)
  <2>1. PICK n : n = IF req[p].event = NoEvent THEN NoRequest
                     ELSE [NoRequest EXCEPT !.pc = "ack", !.event = req[p].event]
    OBVIOUS
  <2>2. n \in Request /\ n.pc \in {"idle", "ack"}
    BY <2>1, Constants, RequestTypes DEF Request, PCs
  <2>3. PICK r \in Row : r = req[p].to
    BY RequestTypes
  <2>4. /\ r.intent = i /\ Truth(x, r) /\ MayFollow(row[x], r) /\ Warranted(r)
        /\ r.status \in IF x \in Deposits THEN DepositStatuses ELSE ExtraStatuses
        /\ row[x].status \notin Dropped
    BY <1>0, <1>1, <1>2, <1>3, <2>3 DEF RequestOK, WillWrite, Fit
  <2>5. Writes(p, x, r, n) /\ row' = [row EXCEPT ![x] = r]
    BY <1>0, <1>1, <1>3, <2>1, <2>3 DEF WriteRow, Writes
  <2>6. LInv'
    BY <1>0, <2>2, <2>4, <2>5, LedgerWrites
  <2>7. row[x].intent \in {NoIntent, i}
    BY <2>4 DEF MayFollow
  <2>8. /\ r.status \in Captured \cup Settled => intent[i].status = "succeeded"
        /\ r.status \in Dropped => intent[i].status = "canceled"
        /\ r.status \in Captured => intent[i].received = r.captured
        /\ r.status \in Settled => intent[i].received = Amount
    <3>1. CASE x \in Deposits
      BY <2>4, <3>1 DEF Truth, DepositStatuses, ACTIVE_DEPOSIT_STATUSES, Captured, Settled, Dropped
    <3>2. CASE x \in Extras /\ x \notin Deposits
      <4>1. intent[i].status = "succeeded" => intent[i].received = Amount
        BY <1>0, <3>2 DEF LInv, Paid
      <4>2. r.status \notin Captured /\ r.status # "RELEASED"
        BY <2>4, <3>2 DEF ExtraStatuses, CHARGEABLE_EXTRA_STATUSES, APPROVABLE_EXTRA_STATUSES,
                          NON_CANCELABLE_EXTRA_STATUSES, Captured
      <4> QED BY <1>0, <2>4, <3>2, <4>1, <4>2 DEF Truth, Dropped
    <3> QED BY <1>0, <3>1, <3>2 DEF Rows
  <2>9. PICK s : s = EntryOf(r).state
    OBVIOUS
  <2>10. /\ s \in {"TAKEN", "RETURNED", "DISPUTED"} <=> r.status \in Captured \cup Settled
         /\ s \in {"OPEN", "TAKEN", "RETURNED", "DISPUTED", "DROPPED"}
         /\ s = "RETURNED" <=> r.status = "REFUNDED"
         /\ s = "DISPUTED" <=> r.status = "DISPUTED"
         /\ s = "DROPPED" <=> r.status \in Dropped
    BY <2>9, EntryFields DEF Captured, Settled, Dropped
  <2>11. EntryOf(r).amount = IF s \in {"OPEN", "DROPPED"} THEN 0 ELSE intent[i].received
    BY <2>8, <2>10, EntryFields
  <2>12. CASE s \in Ledger!Later(EntryOf(row[x]).state)
    <3>1. s = "RETURNED" => "refunded" \in intent[i].charge
      BY <2>4, <2>10 DEF Warranted
    <3>2. s = "DISPUTED" => "disputed" \in intent[i].charge
      BY <2>4, <2>10 DEF Warranted
    <3> QED BY <1>0, <2>4, <2>5, <2>6, <2>7, <2>8, <2>9, <2>10, <2>11, <2>12, <3>1, <3>2, BookEnters
  <2>13. CASE s \notin Ledger!Later(EntryOf(row[x]).state)
    <3>1. row[x].status \in Settled
      BY <2>4, <2>10, <2>13, EntryFields DEF Ledger!Later, MayFollow
    <3>2. row[x].intent # NoIntent
      BY <1>0, <3>1, Kinds
      DEF IInv, TablesOK, TrueRows, Truth, Settled, DepositStatuses, ACTIVE_DEPOSIT_STATUSES, Captured
    <3>3. r.status = row[x].status
      BY <2>4, <2>9, <2>13, <3>1, EntryFields DEF Ledger!Later, MayFollow, Settled
    <3>4. EntryOf(r) = EntryOf(row[x])
      BY <2>4, <3>1, <3>2, <3>3, EntryFields, SameEntry DEF MayFollow, Settled
    <3> QED BY <1>0, <2>5, <2>6, <3>4, BookStays
  <2> QED BY <2>12, <2>13
<1>4. CASE Ends(p) /\ UNCHANGED row
  BY <1>0, <1>4, LedgerQuietStep DEF Ledger!vars
<1>5. ASSUME UNCHANGED row,
             Becomes(p, [req[p] EXCEPT !.tries = @ + 1, !.to = AbsentRow,
                         !.pc = IF req[p].event[2] \in {"refund", "dispute"} THEN "mark" ELSE "load"])
      PROVE  LInv' /\ [Ledger!Next]_(Ledger!vars)
  <2>1. PICK t, pc : t = req[p].tries + 1 /\ pc = IF req[p].event[2] \in {"refund", "dispute"} THEN "mark" ELSE "load"
    OBVIOUS
  <2>2. PICK r : r = [req[p] EXCEPT !.tries = t, !.to = AbsentRow, !.pc = pc]
    OBVIOUS
  <2>3. r.pc = pc /\ r.i = req[p].i /\ r.event = req[p].event /\ pc \in {"mark", "load"}
    BY <1>0, <2>1, <2>2 DEF Request
  <2>4. Fit(r)
    BY <1>0, <2>3 DEF Fit
  <2>5. Becomes(p, r)
    BY <1>5, <2>1, <2>2
  <2> QED BY <1>0, <1>5, <2>4, <2>5, LedgerRequestStep DEF Ledger!vars
<1> QED BY <1>1, <1>3, <1>4, <1>5 DEF WriteRow

-----------------------------------------------------------------------------
(* The ledger: accounts *)

\* What the ledger sees when intent i becomes v.
LEMMA AccountBecomes ==
  ASSUME IInv, NEW i \in Intents, NEW v, intent' = [intent EXCEPT ![i] = v]
  PROVE  [j \in Intents |-> AccountOf(intent'[j])] = [[j \in Intents |-> AccountOf(intent[j])] EXCEPT ![i] = AccountOf(v)]
BY DEF IInv, TypeOK

\* A status change of an open intent is a payment, the end of one, or nothing to the ledger.
LEMMA LedgerChanges ==
  ASSUME IInv, LInv, NEW i \in Intents, intent[i].of \in Rows, intent[i].status \in Open,
         NEW s \in Open \cup {"succeeded", "canceled"}, NEW a \in 0..Amount, Changes(i, s, a), UNCHANGED row,
         s # "succeeded" => a = 0,
         s = "succeeded" => a > 0 /\ (intent[i].of \in Extras => a = Amount),
         \A q \in Requests : \/ req'[q] = req[q]
                             \/ req'[q].pc \in PCs \ {"mark", "write", "claim", "edit", "precapture", "capture"}
  PROVE  LInv' /\ [Ledger!Next]_(Ledger!vars)
<1> DEFINE account == [j \in Intents |-> AccountOf(intent[j])]
           book    == [y \in Rows |-> EntryOf(row[y])]
<1>1. /\ intent[i] \in Intent /\ Paid(intent[i]) /\ intent[i].of # NoRow
      /\ intent[i].status \notin {"succeeded", "canceled"} /\ intent[i].received = 0
  BY RowsAssumption DEF IInv, TypeOK, LInv, Open, Paid
<1>2. PICK c : c = intent[i].changes + 1
  OBVIOUS
<1>3. PICK v : v = [intent[i] EXCEPT !.status = s, !.received = a, !.changes = c]
  OBVIOUS
<1>4. v.of = intent[i].of /\ v.status = s /\ v.received = a /\ v.charge = intent[i].charge
  BY <1>1, <1>3 DEF Intent
<1>5. intent' = [intent EXCEPT ![i] = v]
  BY <1>1, <1>2, <1>3 DEF Changes, IInv, TypeOK
<1>6. PICK e : e = <<i, "intent", c>>
  OBVIOUS
<1>7. e[1] = i /\ e[2] = "intent" /\ owed' = owed \cup {e}
  BY <1>2, <1>6 DEF Changes
<1>8. Paid(v)
  BY <1>1, <1>4 DEF Paid, Open
<1>9. LInv'
  BY <1>4, <1>5, <1>7, <1>8, LedgerIntentStep
<1>10. account' = [account EXCEPT ![i] = AccountOf(v)] /\ account[i] = AccountOf(intent[i]) /\ book' = book
  BY <1>5, AccountBecomes
<1>11. account[i].of = intent[i].of /\ account[i].state = "OPEN"
  BY <1>1, <1>10, AccountFields
<1>12. CASE s \in Open
  <2>1. AccountOf(v) = AccountOf(intent[i])
    BY <1>1, <1>4, <1>12 DEF AccountOf, Open
  <2>2. UNCHANGED Ledger!vars
    BY <1>10, <2>1 DEF Ledger!vars
  <2> QED BY <1>9, <2>2
<1>13. CASE s = "canceled"
  <2>1. AccountOf(v) = [AccountOf(intent[i]) EXCEPT !.state = "VOID"]
    BY <1>1, <1>4, <1>13 DEF AccountOf
  <2>2. account' = [account EXCEPT ![i].state = "VOID"]
    BY <1>10, <2>1
  <2>3. Ledger!Void(i)
    BY <1>1, <1>10, <1>11, <2>2 DEF Ledger!Void
  <2> QED BY <1>9, <2>3 DEF Ledger!Next
<1>14. CASE s = "succeeded"
  <2>1. AccountOf(v) = [AccountOf(intent[i]) EXCEPT !.state = "TAKEN", !.amount = a]
    <3>1. AccountOf(v) = [of |-> intent[i].of, amount |-> a, claims |-> intent[i].charge, state |-> "TAKEN"]
      BY <1>4, <1>14 DEF AccountOf
    <3>2. AccountOf(intent[i]) = [of |-> intent[i].of, amount |-> 0, claims |-> intent[i].charge, state |-> "OPEN"]
      BY <1>1 DEF AccountOf
    <3>3. ASSUME NEW b, b = AccountOf(intent[i]) PROVE [b EXCEPT !.state = "TAKEN", !.amount = a] = AccountOf(v)
      <4>1. PICK b1 : b1 = [b EXCEPT !.state = "TAKEN"]
        OBVIOUS
      <4>2. b1 = [of |-> intent[i].of, amount |-> 0, claims |-> intent[i].charge, state |-> "TAKEN"]
        BY <3>2, <3>3, <4>1
      <4>3. [b1 EXCEPT !.amount = a] = AccountOf(v)
        BY <3>1, <4>2
      <4> QED BY <4>1, <4>3
    <3> QED BY <3>3
  <2>2. account' = [account EXCEPT ![i].state = "TAKEN", ![i].amount = a]
    BY <1>10, <2>1
  <2>3. a \in Ledger!Takes(intent[i].of)
    BY <1>14, NumbersAssumption DEF Ledger!Takes
  <2>4. Ledger!Take(i)
    BY <1>1, <1>10, <1>11, <2>2, <2>3 DEF Ledger!Take
  <2> QED BY <1>9, <2>4 DEF Ledger!Next
<1> QED BY <1>12, <1>13, <1>14

\* The issuer, the customer or a timer changes an intent.
LEMMA LedgerIntentChanges ==
  ASSUME IInv, LInv, NEW i \in Intents, IntentChanges(i)
  PROVE  LInv' /\ [Ledger!Next]_(Ledger!vars)
<1>1. /\ UNCHANGED <<row, req>> /\ intent[i].of \in Rows /\ intent[i].status \in Open
  BY DEF IntentChanges, IInv, TypeOK, Intent
<1>2. 0 \in 0..Amount /\ Amount \in 0..Amount /\ Amount > 0
  BY NumbersAssumption
<1>3. CASE \E s \in Open \cup {"canceled"} : Changes(i, s, 0)
  <2>1. PICK s \in Open \cup {"canceled"} : Changes(i, s, 0)
    BY <1>3
  <2>2. s # "succeeded" /\ s \in Open \cup {"succeeded", "canceled"}
    BY DEF Open
  <2> QED BY <1>1, <1>2, <2>1, <2>2, LedgerChanges
<1>4. CASE Changes(i, "succeeded", Amount)
  BY <1>1, <1>2, <1>4, LedgerChanges
<1> QED BY <1>3, <1>4 DEF IntentChanges

\* A charge is refunded or disputed.
LEMMA LedgerChargeChanges ==
  ASSUME IInv, LInv, NEW i \in Intents, NEW w \in {"refunded", "disputed"},
         NEW k, k = IF w = "refunded" THEN "refund" ELSE "dispute", ChargeChanges(i, <<w, k>>)
  PROVE  LInv' /\ [Ledger!Next]_(Ledger!vars)
<1> DEFINE account == [j \in Intents |-> AccountOf(intent[j])]
           book    == [y \in Rows |-> EntryOf(row[y])]
<1>1. /\ intent[i] \in Intent /\ Paid(intent[i]) /\ UNCHANGED <<row, req>> /\ intent[i].of \in Extras
      /\ intent[i].status = "succeeded" /\ w \notin intent[i].charge
      /\ intent' = [intent EXCEPT ![i].charge = @ \cup {w}] /\ owed' = owed \cup {<<i, k, 0>>}
  BY DEF ChargeChanges, IInv, TypeOK, LInv
<1>2. PICK v : v = [intent[i] EXCEPT !.charge = intent[i].charge \cup {w}]
  OBVIOUS
<1>3. v.of = intent[i].of /\ v.status = intent[i].status /\ v.received = intent[i].received
      /\ v.charge = intent[i].charge \cup {w}
  BY <1>1, <1>2 DEF Intent
<1>4. intent' = [intent EXCEPT ![i] = v]
  BY <1>1, <1>2
<1>5. PICK e : e = <<i, k, 0>>
  OBVIOUS
<1>6. e[1] = i /\ e[2] = k /\ owed' = owed \cup {e}
  BY <1>1, <1>5
<1>7. Paid(v)
  BY <1>1, <1>3, RowsAssumption DEF Paid, Rows
<1>8. LInv'
  BY <1>1, <1>3, <1>4, <1>6, <1>7, LedgerIntentStep
<1>9. account' = [account EXCEPT ![i] = AccountOf(v)] /\ account[i] = AccountOf(intent[i]) /\ book' = book
  BY <1>1, <1>4, AccountBecomes
<1>10. AccountOf(v) = [AccountOf(intent[i]) EXCEPT !.claims = intent[i].charge \cup {w}]
  BY <1>3 DEF AccountOf
<1>11. account[i].state = "TAKEN" /\ account[i].claims = intent[i].charge
  BY <1>1, <1>9, AccountFields
<1>12. account' = [account EXCEPT ![i].claims = account[i].claims \cup {w}]
  BY <1>9, <1>10, <1>11
<1>13. Ledger!Claim(i, w)
  BY <1>1, <1>9, <1>11, <1>12 DEF Ledger!Claim
<1> QED BY <1>8, <1>13 DEF Ledger!Next

\* Capture and cancellation by this service.
LEMMA LedgerCapture ==
  ASSUME IInv, LInv, NEW p \in Requests, StripeCaptures(p) \/ StripeCancels(p)
  PROVE  LInv' /\ [Ledger!Next]_(Ledger!vars)
<1>0. /\ req[p].pc \in {"capture", "release"} /\ req[p].x \in Rows /\ req[p].x \in Deposits /\ req[p] \in Request
      /\ req[p].i \in Intents /\ intent[req[p].i].of = req[p].x /\ Fit(req[p])
      /\ UNCHANGED row /\ req[p].amount \in 0..Amount
  BY RequestTypes DEF StripeCaptures, StripeCancels, RequestOK, KnowsRow, KnowsIntent, Request, LInv
<1>1. PICK i \in Intents, x \in Rows : i = req[p].i /\ x = req[p].x
  BY <1>0
<1>2. Reconciles(p, x, i) \/ Ends(p)
  BY <1>1 DEF StripeCaptures, StripeCancels
<1>3. CASE UNCHANGED <<intent, owed>>
  BY <1>0, <1>2, <1>3, LedgerQuietStep DEF Ledger!vars
<1>4. CASE /\ intent[i].status \in Open
           /\ \/ req[p].pc = "capture" /\ Changes(i, "succeeded", req[p].amount)
              \/ Changes(i, "canceled", 0)
  <2>1. \A q \in Requests : \/ req'[q] = req[q]
                            \/ req'[q].pc \in PCs \ {"mark", "write", "claim", "edit", "precapture", "capture"}
    <3>1. PICK r : Becomes(p, r) /\ r.pc \in {"idle", "load"}
      <4>1. PICK l : l = [NoRequest EXCEPT !.pc = "load", !.x = x, !.i = i, !.event = req[p].event]
        OBVIOUS
      <4>2. l.pc = "load"
        BY <4>1, Constants DEF Request
      <4> QED BY <1>2, <4>1, <4>2, Constants DEF Reconciles, Ends
    <3> QED BY <3>1 DEF Becomes, IInv, TypeOK, PCs
  <2>2. 0 \in 0..Amount /\ intent[i].of \in Rows /\ intent[i].of \notin Extras
    BY <1>0, <1>1, NumbersAssumption, RowsAssumption
  <2>3. req[p].pc = "capture" => req[p].amount > 0
    BY <1>0 DEF Fit
  <2>4. CASE req[p].pc = "capture" /\ Changes(i, "succeeded", req[p].amount)
    BY <1>0, <1>4, <2>1, <2>2, <2>3, <2>4, LedgerChanges
  <2>5. CASE Changes(i, "canceled", 0)
    BY <1>0, <1>4, <2>1, <2>2, <2>5, LedgerChanges
  <2> QED BY <1>4, <2>4, <2>5
<1> QED BY <1>1, <1>3, <1>4 DEF StripeCaptures, StripeCancels, Open

\* A new intent: the first that is asked for, and not for a row that is dropped.
LEMMA LedgerStripeCreates ==
  ASSUME IInv, LInv, NEW p \in Requests, StripeCreates(p)
  PROVE  LInv' /\ [Ledger!Next]_(Ledger!vars)
<1> DEFINE account == [j \in Intents |-> AccountOf(intent[j])]
           book    == [y \in Rows |-> EntryOf(row[y])]
<1>1. PICK x : x = req[p].x
  OBVIOUS
<1>2. /\ x \in Rows /\ IntentsOf(x) = {} /\ req[p].pc = "create" /\ x # NoRow
      /\ x \in Extras => row[x].status = "PAYMENT_PROCESSING"
      /\ UNCHANGED row /\ req[p] \in Request
  BY <1>1, CreatesFirst, RequestTypes, RowsAssumption DEF StripeCreates
<1>3. PICK i \in Intents, s \in FirstStatuses(x) :
        /\ intent[i].of = NoRow
        /\ intent' = [intent EXCEPT ![i] = [NotCreated EXCEPT !.of = x, !.status = s,
                        !.received = IF s = "succeeded" THEN Amount ELSE 0]]
        /\ owed' = owed \cup {<<i, "intent", 0>>}
        /\ Answers(p, i)
  BY <1>1 DEF StripeCreates
<1>4. PICK a : a = IF s = "succeeded" THEN Amount ELSE 0
  OBVIOUS
<1>5. PICK v : v = [NotCreated EXCEPT !.of = x, !.status = s, !.received = a]
  OBVIOUS
<1>6. v.of = x /\ v.status = s /\ v.received = a /\ v.charge = {}
  BY <1>5 DEF NotCreated
<1>7. intent' = [intent EXCEPT ![i] = v]
  BY <1>3, <1>4, <1>5
<1>8. PICK e : e = <<i, "intent", 0>>
  OBVIOUS
<1>9. e[1] = i /\ e[2] = "intent" /\ owed' = owed \cup {e}
  BY <1>3, <1>8
<1>10. s # "canceled" /\ (s = "succeeded" => x \in Extras)
  BY DEF FirstStatuses
<1>11. Paid(v) /\ intent[i].charge \subseteq v.charge
  BY <1>2, <1>3, <1>4, <1>6, NumbersAssumption DEF Paid, LInv
<1>12. \A q \in Requests : \/ req'[q] = req[q]
                           \/ req'[q].pc \in PCs \ {"mark", "write", "claim", "edit", "precapture", "capture"}
  <2>1. PICK r : Becomes(p, r) /\ r.pc \in {"catch", "load"}
    <3>1. PICK l, c, u : /\ l = [NoRequest EXCEPT !.pc = "load", !.x = x, !.i = i, !.event = req[p].event]
                         /\ c = [req[p] EXCEPT !.pc = "catch", !.i = i]
                         /\ u = [req[p] EXCEPT !.pc = "catch", !.reply = "unknown"]
      OBVIOUS
    <3>2. l.pc = "load" /\ c.pc = "catch" /\ u.pc = "catch"
      BY <1>2, <3>1, Constants DEF Request
    <3> QED BY <1>1, <1>3, <3>1, <3>2 DEF Answers, Reconciles
  <2> QED BY <2>1 DEF Becomes, IInv, TypeOK, PCs
<1>13. LInv'
  BY <1>2, <1>7, <1>9, <1>11, <1>12, LedgerIntentStep
<1>14. row[x].intent = NoIntent
  BY <1>2, BoundIntent DEF IntentsOf
<1>15. row[x].status \notin Captured \cup Settled \cup Dropped
  <2>1. CASE x \in Extras
    BY <1>2, <2>1 DEF Captured, Settled, Dropped
  <2>2. CASE x \in Deposits
    BY <1>2, <1>14, <2>2, Kinds DEF IInv, TablesOK, TrueRows, Truth, DepositStatuses, ACTIVE_DEPOSIT_STATUSES,
                                    Captured, Settled, Dropped
  <2> QED BY <1>2, <2>1, <2>2 DEF Rows
<1>16. book[x] = EntryOf(row[x]) /\ EntryOf(row[x]) = Ledger!Blank
  BY <1>2, <1>14, <1>15, EntryFields DEF Ledger!Blank, EntryOf
<1>17. account' = [account EXCEPT ![i] = AccountOf(v)] /\ account[i] = AccountOf(intent[i]) /\ book' = book
  BY <1>2, <1>7, AccountBecomes
<1>18. account[i].of = NoRow /\ \A j \in Intents : account[j].of # x
  BY <1>2, <1>3, AccountFields DEF IntentsOf
<1>19. AccountOf(v) = [of |-> x, amount |-> a, claims |-> {}, state |-> IF a = 0 THEN "OPEN" ELSE "TAKEN"]
  BY <1>4, <1>6, <1>10, NumbersAssumption DEF AccountOf
<1>20. a \in Ledger!Takes(x) \cup {0}
  BY <1>4, <1>10 DEF Ledger!Takes
<1>21. Ledger!Ask(x, i)
  BY <1>16, <1>17, <1>18, <1>19, <1>20 DEF Ledger!Ask
<1> QED BY <1>2, <1>13, <1>21 DEF Ledger!Next

-----------------------------------------------------------------------------
(* The ledger: every step *)

\* The requests that read and decide, and what ends them.
LEMMA LedgerReaders ==
  ASSUME IInv, LInv, NEW p \in Requests,
         \/ StripeReplays(p) \/ StripeRefuses(p) \/ Catch(p)
         \/ BeforeCapture(p) \/ BeforeRelease(p) \/ Acknowledge(p) \/ Dies(p)
  PROVE  LInv' /\ UNCHANGED <<row, intent>>
<1>0. UNCHANGED <<row, intent>> /\ owed' \subseteq owed /\ req[p] \in Request /\ Fit(req[p])
  BY RequestTypes DEF StripeReplays, StripeRefuses, Catch, BeforeCapture, BeforeRelease, Acknowledge, Dies, Stripe, LInv
<1>1. CASE Ends(p) \/ \E x, i : Reconciles(p, x, i)
  BY <1>0, <1>1, LedgerQuietStep
<1>2. ASSUME NEW r, Becomes(p, r), r.pc \in {"catch", "fail", "release"} PROVE LInv'
  BY <1>0, <1>2, UnfitPCs, LedgerRequestStep DEF PCs
<1>3. CASE StripeReplays(p) \/ StripeRefuses(p)
  <2>1. ASSUME NEW i PROVE [req[p] EXCEPT !.pc = "catch", !.i = i].pc = "catch"
    BY <1>0 DEF Request
  <2>2. ASSUME NEW c PROVE [req[p] EXCEPT !.pc = "catch", !.reply = c].pc = "catch"
    BY <1>0 DEF Request
  <2> QED BY <1>0, <1>1, <1>2, <1>3, <2>1, <2>2 DEF StripeReplays, StripeRefuses, Answers
<1>4. CASE Catch(p)
  <2>1. ASSUME NEW t PROVE [req[p] EXCEPT !.pc = "fail", !.to = t].pc = "fail"
    BY <1>0 DEF Request
  <2> QED BY <1>0, <1>1, <1>2, <1>4, <2>1 DEF Catch
<1>5. CASE BeforeRelease(p)
  <2>1. [req[p] EXCEPT !.pc = "release"].pc = "release"
    BY <1>0 DEF Request
  <2> QED BY <1>0, <1>1, <1>2, <1>5, <2>1 DEF BeforeRelease
<1>6. CASE BeforeCapture(p)
  <2>1. PICK r : r = [req[p] EXCEPT !.pc = "capture"]
    OBVIOUS
  <2>2. r.pc = "capture" /\ r.amount = req[p].amount
    BY <1>0, <2>1 DEF Request
  <2>3. CASE Becomes(p, r)
    <3>1. Fit(r)
      BY <1>0, <1>6, <2>2 DEF Fit, BeforeCapture
    <3> QED BY <1>0, <2>3, <3>1, LedgerRequestStep
  <2> QED BY <1>0, <1>1, <1>6, <2>1, <2>3 DEF BeforeCapture
<1> QED BY <1>0, <1>1, <1>3, <1>4, <1>5, <1>6 DEF Acknowledge, Dies

\* Every step keeps what is true of the money and is a step of the ledger, or none.
LEMMA LedgerNext ==
  ASSUME IInv, LInv, [Next]_vars
  PROVE  LInv' /\ [Ledger!Next]_(Ledger!vars)
<1>0. ASSUME UNCHANGED <<row, intent>> PROVE UNCHANGED Ledger!vars
  BY <1>0 DEF Ledger!vars
<1>1. CASE UNCHANGED vars
  <2>1. UNCHANGED <<row, intent, owed, req>>
    BY <1>1 DEF vars
  <2>2. LInv'
    BY <2>1 DEF LInv, Paid, Reported, Warranted, Fit
  <2> QED BY <1>0, <2>1, <2>2
<1>2. CASE Environment
  <2>1. ASSUME NEW i \in Intents, IntentChanges(i) PROVE LInv' /\ [Ledger!Next]_(Ledger!vars)
    BY <2>1, LedgerIntentChanges
  <2>2. ASSUME NEW i \in Intents,
               ChargeChanges(i, <<"refunded", "refund">>) \/ ChargeChanges(i, <<"disputed", "dispute">>)
        PROVE  LInv' /\ [Ledger!Next]_(Ledger!vars)
    BY <2>2, LedgerChargeChanges
  <2>3. ASSUME NEW x \in Extras, NoticeDelivered(x) PROVE LInv' /\ [Ledger!Next]_(Ledger!vars)
    BY <2>3, LedgerNotice
  <2>4. CASE (\E x \in Rows : KeyIsPruned(x)) \/ \E d \in Deposits : DepositAges(d)
    <3>1. UNCHANGED <<row, intent, owed, req>>
      BY <2>4 DEF KeyIsPruned, DepositAges, Stripe
    <3>2. LInv'
      BY <3>1 DEF LInv, Paid, Reported, Warranted, Fit
    <3> QED BY <1>0, <3>1, <3>2
  <2> QED BY <1>2, <2>1, <2>2, <2>3, <2>4 DEF Environment
<1>3. ASSUME NEW p \in Requests, Call(p) PROVE LInv' /\ [Ledger!Next]_(Ledger!vars)
  <2>1. ASSUME NEW d \in Deposits, createDeposit(p, d) PROVE LInv' /\ [Ledger!Next]_(Ledger!vars)
    BY <2>1, LedgerCreateDeposit
  <2>2. ASSUME NEW x \in Extras, createExtraCharge(p, x) PROVE LInv' /\ [Ledger!Next]_(Ledger!vars)
    <3>1. NoRequest \in Request /\ NoRequest.pc = "idle" /\ x \in Rows
      BY Constants DEF Rows
    <3>2. ~Exists(x) /\ UNCHANGED <<intent, owed>>
          /\ Writes(p, x, [AbsentRow EXCEPT !.status = "PENDING_APPROVAL"], NoRequest)
      BY <2>2 DEF createExtraCharge, Stripe
    <3> QED BY <3>1, <3>2, LedgerCreateRow
  <2>3. ASSUME NEW d \in Deposits, captureDeposit(p, d) \/ releaseDeposit(p, d)
        PROVE  LInv' /\ [Ledger!Next]_(Ledger!vars)
    BY <1>0, <2>3, LedgerCalls DEF Rows
  <2>4. ASSUME NEW x \in Extras, approveExtraCharge(p, x) \/ chargeExtraCharge(p, x) \/ cancelExtraCharge(p, x)
        PROVE  LInv' /\ [Ledger!Next]_(Ledger!vars)
    BY <1>0, <2>4, LedgerCalls DEF Rows
  <2> QED BY <1>3, <2>1, <2>2, <2>3, <2>4 DEF Call
<1>4. ASSUME NEW p \in Requests, Step(p) PROVE LInv' /\ [Ledger!Next]_(Ledger!vars)
  <2>1. CASE \/ StripeReplays(p) \/ StripeRefuses(p) \/ Catch(p)
             \/ BeforeCapture(p) \/ BeforeRelease(p) \/ Acknowledge(p)
    BY <1>0, <2>1, LedgerReaders
  <2>2. CASE ClaimExtra(p) \/ EditExtra(p) \/ RecordFailure(p) \/ WriteRow(p)
    BY <2>2, LedgerClaimOrEdit, LedgerFailure, LedgerWrite
  <2>3. CASE StripeCreates(p) \/ StripeCaptures(p) \/ StripeCancels(p)
    BY <2>3, LedgerStripeCreates, LedgerCapture
  <2>4. CASE LoadAndRetrieve(p) \/ Mark(p)
    <3>1. UNCHANGED <<row, intent>>
      BY <2>4 DEF LoadAndRetrieve, Mark, Stripe
    <3> QED BY <1>0, <2>4, <3>1, LedgerLoad, LedgerMark
  <2> QED BY <1>4, <2>1, <2>2, <2>3, <2>4 DEF Step
<1>5. ASSUME NEW p \in Requests, Dies(p) PROVE LInv' /\ [Ledger!Next]_(Ledger!vars)
  BY <1>0, <1>5, LedgerReaders
<1>6. ASSUME NEW p \in Requests, NEW e \in owed, handleStripeEvent(p, e)
      PROVE  LInv' /\ [Ledger!Next]_(Ledger!vars)
  <2>1. UNCHANGED <<row, intent>>
    BY <1>6 DEF handleStripeEvent, Stripe
  <2> QED BY <1>0, <1>6, <2>1, LedgerWebhook
<1> QED BY <1>1, <1>2, <1>3, <1>4, <1>5, <1>6 DEF Next

\* Refunds and disputes are in the rows, in the events and in what requests are about to
\* write only after they happened, an open intent has received nothing, an extra charge is
\* paid in full, and no request that may still write knows its row as dropped.
THEOREM MoneyInvariance == Spec => []LInv
<1>1. Init => LInv
  BY LedgerInit
<1>2. IInv /\ LInv /\ [Next]_vars => LInv'
  BY LedgerNext
<1> QED BY <1>1, <1>2, Invariance, PTL DEF Spec

\* rental-payment-service.ts implements the ledger: every step of a request, a webhook, a
\* crash or Stripe is a single entry, a single change of an account, or nothing.
THEOREM LedgerRefinement == Spec => ImplementsLedger
<1>1. Init => Ledger!Init
  <2> SUFFICES ASSUME Init PROVE Ledger!Init
    OBVIOUS
  <2>1. AccountOf(NotCreated) = Ledger!Unused
    BY DEF AccountOf, NotCreated, Ledger!Unused
  <2>2. EntryOf(AbsentRow) = Ledger!Blank
    BY DEF EntryOf, AbsentRow, Ledger!Blank, Captured, Settled
  <2> QED BY <2>1, <2>2 DEF Init, Ledger!Init
<1>2. IInv /\ LInv /\ [Next]_vars => [Ledger!Next]_(Ledger!vars)
  BY LedgerNext
<1> QED BY <1>1, <1>2, Invariance, MoneyInvariance, PTL DEF Spec, ImplementsLedger, Ledger!Spec

=============================================================================
