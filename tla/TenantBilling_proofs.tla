------------------------ MODULE TenantBilling_proofs ------------------------
(***************************************************************************)
(* Proofs about TenantBilling, for any number of subscriptions, webhook    *)
(* deliveries, states of a subscription and changes.  IInv says of every   *)
(* handler what its snapshot and what it retrieved are worth: as long as   *)
(* its snapshot is fresh, or it holds the lock after a fresh one, no event *)
(* was stored as PROCESSED that is newer than what it retrieved.           *)
(***************************************************************************)
EXTENDS TenantBilling, FiniteSetTheorems, TLAPS

\* Event n of s is stored as PROCESSED (or IGNORED), or is about to be.
Stored(s, n, result) ==
  \/ event[s][n] = result
  \/ \E q \in Requests : req[q].pc = "ack" /\ req[q].s = s /\ req[q].n = n /\ req[q].result = result

\* An event is emitted when its version exists.
Emitted == /\ \A s \in Subs : stripe[s].status = "none" <=> stripe[s].version = 0
           /\ \A s \in Subs, n \in Versions :
                event[s][n] # "NONE" <=> n <= stripe[s].version /\ stripe[s].version > 0

\* A row and its copies name a subscription that exists; a local licence names none.
Exists(r) == /\ r.sub # NoSub => stripe[r.sub].version > 0
             /\ r.provider = "local" => r.sub = NoSub
RowsExist == Exists(row) /\ Exists(dunning) /\ Exists(console)

\* What a webhook wrote is a state of its subscription, no older than a processed event.
RowIsNew ==
  row.by = "stripe" =>
    /\ row.sub \in Subs /\ row.of <= stripe[row.sub].version
    /\ row.of = stripe[row.sub].version => row.status = stripeStatusToLicense(stripe[row.sub].status)
    /\ \A n \in Versions : Stored(row.sub, n, "PROCESSED") => n <= row.of

\* No event that is newer than the row was ignored, unless it replaced another subscription.
RowMissesNothing ==
  row.by = "stripe" /\ row.replaced = "NO" =>
    \A n \in Versions : n > row.of => ~Stored(row.sub, n, "IGNORED")

\* The advisory lock.
OneCommit == \A p, q \in Requests : req[p].pc = "commit" /\ req[q].pc = "commit" => p = q

(* What is true of a handler r *)

Knows(r) == r.pc # "idle" => r.s \in Subs /\ event[r.s][r.n] # "NONE"

HasRetrieved(r) ==
  r.pc \in {"begin", "commit"} =>
    /\ r.n <= r.version /\ r.version <= stripe[r.s].version
    /\ r.version = stripe[r.s].version => r.got = stripe[r.s].status

IsNew(r) ==
  (r.pc = "begin" /\ r.fresh = "YES") \/ r.pc = "commit" =>
    \A n \in Versions : Stored(r.s, n, "PROCESSED") => n <= r.version

Sees(r) == \/ r.pc = "begin" /\ r.fresh = "YES" /\ row.sub \in {NoSub, r.s}
           \/ r.pc = "commit" /\ r.replace = "NO"

MissesNothing(r) == Sees(r) => \A n \in Versions : n > r.version => ~Stored(r.s, n, "IGNORED")

ReplacesOlder(r) ==
  r.pc \in {"retrieve", "begin", "commit"} /\ r.fresh = "YES" /\ r.replace = "YES" =>
    row.sub \in Subs /\ stripe[r.s].created > stripe[row.sub].created

\* Between Begin and Commit only a writer that does not compare changes the row.
MayCommit(r) ==
  r.pc = "commit" => \/ r.fresh = "YES" /\ (row.sub \in {NoSub, r.s} \/ r.replace = "YES")
                     \/ r.fresh = "NO" /\ row.by # "stripe"

HandlerOK(r) == Knows(r) /\ HasRetrieved(r) /\ IsNew(r) /\ MissesNothing(r) /\ ReplacesOlder(r) /\ MayCommit(r)

HandlersOK == OneCommit /\ \A p \in Requests : HandlerOK(req[p])

IInv == TypeOK /\ Emitted /\ RowsExist /\ RowIsNew /\ RowMissesNothing /\ HandlersOK

-----------------------------------------------------------------------------
(* The initial states *)

\* The numbers of subscriptions and versions.
LEMMA Sizes == Cardinality(Subs) \in Nat /\ MaxVersion \in Nat /\ MaxVersion >= 1
BY SubsAssumption, BoundsAssumption, FS_CardinalityType

\* A subscription exists, so there is at least one.
LEMMA AtLeastOne == ASSUME NEW s \in Subs PROVE Cardinality(Subs) >= 1
BY Sizes, SubsAssumption, FS_EmptySet

\* Init gives every variable its type.
LEMMA InitType == Init => TypeOK
<1> SUFFICES ASSUME Init PROVE TypeOK
  OBVIOUS
<1>1. NewRow \in Row /\ NoRow \in Row /\ NoRequest \in Request
  BY Sizes, BoundsAssumption DEF NewRow, NoRow, Row, NoRequest, Request, Versions, Licences, PCs
<1>2. checkouts \in 0..Cardinality(Subs) /\ changes \in 0..MaxChanges
  <2>1. checkouts = 0 /\ changes = 0
    BY DEF Init
  <2> QED BY <2>1, Sizes, BoundsAssumption
<1>3. req \in [Requests -> Request] /\ dunning \in Row /\ console \in Row
  BY <1>1 DEF Init
<1>4. row \in Row /\ stripe \in [Subs -> Subscription] /\ event \in [Subs -> [Versions -> EventStatus]]
  <2>1. CASE /\ row \in {NewRow, [NewRow EXCEPT !.status = "ACTIVE", !.provider = "local"]}
             /\ stripe = [s \in Subs |-> NoSubscription]
             /\ event = [s \in Subs |-> [n \in Versions |-> "NONE"]]
    <3>1. [NewRow EXCEPT !.status = "ACTIVE", !.provider = "local"] \in Row
      BY <1>1 DEF Row, Licences
    <3>2. NoSubscription \in Subscription
      BY Sizes DEF NoSubscription, Subscription, Versions
    <3> QED BY <1>1, <2>1, <3>1, <3>2 DEF EventStatus
  <2>2. ASSUME NEW b \in Subs,
               row = [NewRow EXCEPT !.status = "ACTIVE", !.sub = b, !.of = 1, !.by = "stripe"],
               stripe = [s \in Subs |-> IF s = b THEN [status |-> "active", version |-> 1, created |-> 1]
                                        ELSE NoSubscription],
               event = [s \in Subs |-> [n \in Versions |-> IF s = b /\ n < 2 THEN "PROCESSED" ELSE "NONE"]]
        PROVE  row \in Row /\ stripe \in [Subs -> Subscription] /\ event \in [Subs -> [Versions -> EventStatus]]
    <3>1. row \in Row
      <4>1. 1 \in Versions
        BY Sizes DEF Versions
      <4> QED BY <1>1, <2>2, <4>1 DEF Row, Licences
    <3>2. event \in [Subs -> [Versions -> EventStatus]]
      BY <2>2 DEF EventStatus
    <3>3. stripe \in [Subs -> Subscription]
      <4>1. NoSubscription \in Subscription /\ [status |-> "active", version |-> 1, created |-> 1] \in Subscription
        BY Sizes, AtLeastOne, StatusesAssumption DEF NoSubscription, Subscription, Versions
      <4> QED BY <2>2, <4>1
    <3> QED BY <3>1, <3>2, <3>3
  <2> QED BY <2>1, <2>2 DEF Init
<1> QED BY <1>2, <1>3, <1>4 DEF TypeOK

\* No handler is under way, and the row reflects the events that were processed.
LEMMA InitInv == Init => IInv
<1> SUFFICES ASSUME Init PROVE IInv
  OBVIOUS
<1>1. TypeOK
  BY InitType
<1>2. \A p \in Requests : req[p].pc = "idle"
  BY DEF Init, NoRequest
<1>3. HandlersOK
  BY <1>2 DEF HandlersOK, OneCommit, HandlerOK, Knows, HasRetrieved, IsNew, Sees, MissesNothing,
              ReplacesOlder, MayCommit
<1>4. Exists(dunning) /\ Exists(console)
  BY DEF Init, NoRow, NewRow, Exists
<1>5. ASSUME NEW s \in Subs, NEW n \in Versions, NEW result \in {"PROCESSED", "IGNORED"}
      PROVE  Stored(s, n, result) <=> event[s][n] = result
  BY <1>2 DEF Stored
<1>6. Emitted /\ Exists(row) /\ RowIsNew /\ RowMissesNothing
  <2>1. CASE /\ row \in {NewRow, [NewRow EXCEPT !.status = "ACTIVE", !.provider = "local"]}
             /\ stripe = [s \in Subs |-> NoSubscription]
             /\ event = [s \in Subs |-> [n \in Versions |-> "NONE"]]
    <3>1. row.sub = NoSub /\ row.by = "signup"
      <4>1. CASE row = NewRow
        BY <4>1 DEF NewRow
      <4>2. CASE row = [NewRow EXCEPT !.status = "ACTIVE", !.provider = "local"]
        BY <4>2 DEF NewRow
      <4> QED BY <2>1, <4>1, <4>2
    <3>2. \A s \in Subs : /\ stripe[s].status = "none" /\ stripe[s].version = 0
                          /\ \A n \in Versions : event[s][n] = "NONE"
      BY <2>1 DEF NoSubscription
    <3> QED BY <3>1, <3>2 DEF Emitted, Exists, RowIsNew, RowMissesNothing
  <2>2. ASSUME NEW b \in Subs,
               row = [NewRow EXCEPT !.status = "ACTIVE", !.sub = b, !.of = 1, !.by = "stripe"],
               stripe = [s \in Subs |-> IF s = b THEN [status |-> "active", version |-> 1, created |-> 1]
                                        ELSE NoSubscription],
               event = [s \in Subs |-> [n \in Versions |-> IF s = b /\ n < 2 THEN "PROCESSED" ELSE "NONE"]]
        PROVE  Emitted /\ Exists(row) /\ RowIsNew /\ RowMissesNothing
    <3>1. row.sub = b /\ row.of = 1 /\ row.status = "ACTIVE" /\ row.provider = "stripe"
      BY <2>2 DEF NewRow
    <3>2. /\ stripe[b].status = "active" /\ stripe[b].version = 1
          /\ \A s \in Subs \ {b} : stripe[s].status = "none" /\ stripe[s].version = 0
      BY <2>2 DEF NoSubscription
    <3>3. \A s \in Subs, n \in Versions : event[s][n] = IF s = b /\ n < 2 THEN "PROCESSED" ELSE "NONE"
      BY <2>2
    <3>4. \A n \in Versions : n \in Nat
      BY Sizes DEF Versions
    <3>5. Emitted
      BY <3>2, <3>3, <3>4 DEF Emitted
    <3>6. Exists(row)
      BY <3>1, <3>2 DEF Exists
    <3>7. RowIsNew
      BY <3>1, <3>2, <3>3, <3>4, <1>5 DEF RowIsNew, stripeStatusToLicense
    <3>8. RowMissesNothing
      BY <3>1, <3>3, <1>5 DEF RowMissesNothing
    <3> QED BY <3>5, <3>6, <3>7, <3>8
  <2> QED BY <2>1, <2>2 DEF Init
<1> QED BY <1>1, <1>3, <1>4, <1>6 DEF IInv, RowsExist

-----------------------------------------------------------------------------
(* Steps of a handler that write neither Stripe nor the row *)

\* Handler p becomes r, which is fit for it; no event is newly PROCESSED, and one is newly
\* IGNORED only by a handler that saw another subscription in the row and found the lock free.
LEMMA HandlerStep ==
  ASSUME IInv, NEW p \in Requests, NEW r \in Request, Becomes(p, r),
         UNCHANGED <<stripe, row, dunning, console>>,
         checkouts' \in 0..Cardinality(Subs), changes' \in 0..MaxChanges,
         event' \in [Subs -> [Versions -> EventStatus]],
         \A s \in Subs, n \in Versions : (event'[s][n] = "NONE") <=> (event[s][n] = "NONE"),
         \A s \in Subs, n \in Versions : (Stored(s, n, "PROCESSED"))' => Stored(s, n, "PROCESSED"),
         \A s \in Subs, n \in Versions : (Stored(s, n, "IGNORED"))' =>
            \/ Stored(s, n, "IGNORED")
            \/ row.sub \notin {NoSub, s} /\ \A q \in Requests : req[q].pc # "commit",
         r.pc = "commit" => \A q \in Requests : req[q].pc # "commit",
         HandlerOK(r),
         Sees(r) => \A n \in Versions : n > r.version => ~(Stored(r.s, n, "IGNORED"))'
  PROVE  IInv'
<1> USE DEF IInv
<1>1. \A q \in Requests : req'[q] = IF q = p THEN r ELSE req[q]
  BY DEF Becomes, TypeOK
<1>2. TypeOK'
  BY DEF TypeOK, Becomes
<1>3. Emitted' /\ RowsExist'
  BY DEF Emitted, RowsExist, Exists
<1>4. RowIsNew'
  BY DEF RowIsNew
<1>5. RowMissesNothing'
  BY DEF RowMissesNothing, RowIsNew
<1>6. OneCommit'
  BY <1>1 DEF HandlersOK, OneCommit
<1>7. ASSUME NEW q \in Requests PROVE HandlerOK(req[q])'
  <2>1. HandlerOK(req'[q])
    BY <1>1 DEF HandlersOK
  <2>2. Knows(req[q])'
    BY <2>1, <1>2 DEF HandlerOK, Knows, TypeOK, Request
  <2>3. HasRetrieved(req[q])' /\ ReplacesOlder(req[q])' /\ MayCommit(req[q])'
    BY <2>1 DEF HandlerOK, HasRetrieved, ReplacesOlder, MayCommit
  <2>4. IsNew(req[q])'
    BY <2>1 DEF HandlerOK, IsNew, Knows
  <2>5. MissesNothing(req[q])'
    <3>1. CASE q = p
      BY <3>1, <1>1 DEF MissesNothing, Sees
    <3>2. CASE q # p
      BY <3>2, <2>1, <1>1 DEF HandlerOK, MissesNothing, Sees, Knows
    <3> QED BY <3>1, <3>2
  <2> QED BY <2>2, <2>3, <2>4, <2>5 DEF HandlerOK
<1> QED BY <1>2, <1>3, <1>4, <1>5, <1>6, <1>7 DEF HandlersOK

\* What stays stored when handler p turns to r and at most its event changes.
LEMMA StoredBy ==
  ASSUME IInv, NEW p \in Requests, NEW r \in Request, Becomes(p, r), r.pc # "ack",
         NEW s \in Subs, NEW n \in Versions, NEW result \in {"PROCESSED", "IGNORED"},
         event'[s][n] = result => event[s][n] = result,
         (Stored(s, n, result))'
  PROVE  Stored(s, n, result)
<1>1. \A q \in Requests : req'[q] = IF q = p THEN r ELSE req[q]
  BY DEF Becomes, IInv, TypeOK
<1> QED BY <1>1 DEF Stored

\* The types of what a handler works with.
LEMMA HandlerTypes ==
  ASSUME IInv, NEW p \in Requests
  PROVE  /\ req[p] \in Request /\ NoRequest \in Request
         /\ req[p].n \in Versions /\ req[p].version \in Nat /\ req[p].n \in Nat
         /\ req[p].s \in Subs \cup {NoSub}
         /\ checkouts \in 0..Cardinality(Subs) /\ changes \in 0..MaxChanges
         /\ event \in [Subs -> [Versions -> EventStatus]]
         /\ \A n \in Versions : n \in Nat
<1>1. req[p] \in Request
  BY DEF IInv, TypeOK
<1>2. NoRequest \in Request
  BY Sizes, BoundsAssumption DEF NoRequest, Request, PCs, Versions
<1>3. req[p].n \in Versions /\ req[p].version \in Versions /\ req[p].s \in Subs \cup {NoSub}
  BY <1>1 DEF Request
<1>4. \A n \in Versions : n \in Nat
  BY Sizes DEF Versions
<1> QED BY <1>1, <1>2, <1>3, <1>4 DEF IInv, TypeOK

\* A delivery of an event that was emitted.
LEMMA DeliveryKeeps ==
  ASSUME IInv, NEW p \in Requests, NEW s \in Subs, NEW n \in Versions, handleWebhook(p, s, n)
  PROVE  IInv'
<1> DEFINE r == [NoRequest EXCEPT !.pc = "load", !.s = s, !.n = n]
<1>1. r \in Request /\ r.pc = "load" /\ r.s = s /\ r.n = n
  BY HandlerTypes DEF NoRequest, Request, PCs
<1>2. HandlerOK(r) /\ ~Sees(r)
  BY <1>1 DEF handleWebhook, HandlerOK, Knows, HasRetrieved, IsNew, Sees, MissesNothing, ReplacesOlder, MayCommit
<1>3. Becomes(p, r) /\ UNCHANGED <<stripe, checkouts, row, event, dunning, console, changes>>
  BY DEF handleWebhook
<1> HIDE DEF r
<1> QED BY <1>1, <1>2, <1>3, HandlerTypes, StoredBy, HandlerStep

\* A handler reads the row: the snapshot is fresh.
LEMMA LoadKeeps == ASSUME IInv, NEW p \in Requests, Load(p) PROVE IInv'
<1> DEFINE may == canCheckoutReplaceSubscription(req[p].s, req[p].n)
           r == [req[p] EXCEPT !.pc = "retrieve", !.fresh = "YES", !.replace = IF may THEN "YES" ELSE "NO"]
<1>1. /\ r \in Request /\ r.pc = "retrieve" /\ r.s = req[p].s /\ r.n = req[p].n
      /\ r.replace = "YES" => may
  BY HandlerTypes DEF Request, PCs
<1>2. Knows(req[p]) /\ req[p].pc = "load"
  BY DEF Load, IInv, HandlersOK, HandlerOK
<1>3. may => row.sub \in Subs /\ stripe[r.s].created > stripe[row.sub].created
  BY <1>1 DEF canCheckoutReplaceSubscription, IInv, TypeOK, Row
<1>4. HandlerOK(r) /\ ~Sees(r)
  BY <1>1, <1>2, <1>3 DEF HandlerOK, Knows, HasRetrieved, IsNew, Sees, MissesNothing, ReplacesOlder, MayCommit
<1>5. Becomes(p, r) /\ UNCHANGED <<stripe, checkouts, row, event, dunning, console, changes>>
  BY DEF Load
<1> HIDE DEF r
<1> QED BY <1>1, <1>4, <1>5, HandlerTypes, StoredBy, HandlerStep

\* A handler retrieves the subscription: it has all that was emitted.
LEMMA RetrieveKeeps == ASSUME IInv, NEW p \in Requests, Retrieve(p) PROVE IInv'
<1>0. PICK r : r = [req[p] EXCEPT !.pc = "begin", !.got = stripe[req[p].s].status,
                                 !.version = stripe[req[p].s].version]
  OBVIOUS
<1>1. HandlerOK(req[p]) /\ req[p].pc = "retrieve" /\ req[p].s \in Subs
  BY DEF Retrieve, IInv, HandlersOK, HandlerOK, Knows
<1>2. stripe[req[p].s].status \in Statuses \cup {"none"} /\ stripe[req[p].s].version \in Versions
  BY <1>1 DEF IInv, TypeOK, Subscription
<1>3. /\ r \in Request /\ r.pc = "begin" /\ r.s = req[p].s /\ r.n = req[p].n
      /\ r.got = stripe[r.s].status /\ r.version = stripe[r.s].version
      /\ r.fresh = req[p].fresh /\ r.replace = req[p].replace
  <2>1. req[p] \in Request
    BY HandlerTypes
  <2>2. r \in Request
    BY <1>0, <2>1, <1>2 DEF Request, PCs
  <2>3. /\ r.pc = "begin" /\ r.s = req[p].s /\ r.n = req[p].n
        /\ r.got = stripe[req[p].s].status /\ r.version = stripe[req[p].s].version
        /\ r.fresh = req[p].fresh /\ r.replace = req[p].replace
    BY <1>0, <2>1 DEF Request
  <2> QED BY <2>2, <2>3
<1>4. \A n \in Versions : event[r.s][n] # "NONE" => n <= r.version
  BY <1>1, <1>3 DEF IInv, Emitted
<1>5. ASSUME NEW n \in Versions, NEW result \in {"PROCESSED", "IGNORED"}, Stored(r.s, n, result)
      PROVE  n <= r.version
  <2>1. event[r.s][n] # "NONE"
    BY <1>5 DEF Stored, IInv, HandlersOK, HandlerOK, Knows
  <2> QED BY <2>1, <1>4
<1>6. r.version \in Nat /\ \A n \in Versions : n \in Nat
  BY <1>2, <1>3, HandlerTypes
<1>7. \A n \in Versions : n > r.version => ~Stored(r.s, n, "IGNORED")
  BY <1>5, <1>6
<1>8. HandlerOK(r)
  <2>1. Knows(r) /\ r.n <= r.version
    BY <1>1, <1>3, <1>4, HandlerTypes DEF HandlerOK, Knows
  <2>2. r.version <= r.version
    BY <1>6
  <2>3. HasRetrieved(r)
    BY <2>1, <2>2, <1>3 DEF HasRetrieved
  <2>4. IsNew(r) /\ MissesNothing(r)
    BY <1>5, <1>7 DEF IsNew, MissesNothing
  <2>5. ReplacesOlder(r) /\ MayCommit(r)
    BY <1>1, <1>3 DEF HandlerOK, ReplacesOlder, MayCommit
  <2> QED BY <2>1, <2>3, <2>4, <2>5 DEF HandlerOK
<1>9. Becomes(p, r) /\ UNCHANGED <<stripe, checkouts, row, event, dunning, console, changes>>
  BY <1>0 DEF Retrieve
<1>10. \A n \in Versions : n > r.version => ~(Stored(r.s, n, "IGNORED"))'
  <2> SUFFICES ASSUME NEW n \in Versions, n > r.version, (Stored(r.s, n, "IGNORED"))' PROVE FALSE
    OBVIOUS
  <2>1. Stored(r.s, n, "IGNORED")
    BY <1>1, <1>3, <1>9, StoredBy
  <2> QED BY <2>1, <1>7
<1>11. \A s \in Subs, n \in Versions, result \in {"PROCESSED", "IGNORED"} :
         (Stored(s, n, result))' => Stored(s, n, result)
  BY <1>3, <1>9, StoredBy
<1> QED BY <1>3, <1>8, <1>9, <1>10, <1>11, HandlerTypes, HandlerStep

\* A handler that is not idle has an event that was emitted.
LEMMA HandlerKnows ==
  ASSUME IInv, NEW p \in Requests, req[p].pc # "idle"
  PROVE  HandlerOK(req[p]) /\ req[p].s \in Subs /\ event[req[p].s][req[p].n] # "NONE"
BY DEF IInv, HandlersOK, HandlerOK, Knows

\* An idle handler is fit.
LEMMA IdleOK == HandlerOK(NoRequest) /\ ~Sees(NoRequest) /\ NoRequest.pc = "idle"
BY DEF NoRequest, HandlerOK, Knows, HasRetrieved, IsNew, Sees, MissesNothing, ReplacesOlder, MayCommit

\* A handler ends: its event is open again, or stored with the result it had.
LEMMA EndKeeps ==
  ASSUME IInv, NEW p \in Requests, req[p].pc # "idle", Becomes(p, NoRequest),
         UNCHANGED <<stripe, checkouts, row, dunning, console>>, changes' \in 0..MaxChanges,
         NEW v \in {"OPEN", "PROCESSED", "IGNORED"},
         v # "OPEN" => req[p].pc = "ack" /\ req[p].result = v,
         \/ event' = [event EXCEPT ![req[p].s][req[p].n] = v]
         \/ event' = event
  PROVE  IInv'
<1>1. req[p].s \in Subs /\ event[req[p].s][req[p].n] # "NONE" /\ req[p].n \in Versions
  BY HandlerKnows, HandlerTypes
<1>2. event' \in [Subs -> [Versions -> EventStatus]]
  BY <1>1, HandlerTypes DEF EventStatus
<1>3. \A s \in Subs, n \in Versions :
        \/ event'[s][n] = event[s][n]
        \/ s = req[p].s /\ n = req[p].n /\ event'[s][n] = v
  BY <1>1, HandlerTypes
<1>4. \A s \in Subs, n \in Versions : (event'[s][n] = "NONE") <=> (event[s][n] = "NONE")
  BY <1>1, <1>2, <1>3 DEF EventStatus
<1>5. \A q \in Requests : req'[q] = IF q = p THEN NoRequest ELSE req[q]
  BY DEF Becomes, IInv, TypeOK
<1>6. ASSUME NEW s \in Subs, NEW n \in Versions, NEW result \in {"PROCESSED", "IGNORED"},
             (Stored(s, n, result))'
      PROVE  Stored(s, n, result)
  BY <1>3, <1>5, <1>6, IdleOK DEF Stored
<1>7. NoRequest \in Request /\ checkouts' \in 0..Cardinality(Subs)
  BY HandlerTypes
<1> QED BY <1>2, <1>4, <1>6, <1>7, IdleOK, HandlerStep

\* The answer, an error and a crash end the handler.
LEMMA EndsKeep ==
  ASSUME IInv, NEW p \in Requests, Ack(p) \/ HandlerFails(p) \/ HandlerDies(p)
  PROVE  IInv'
<1>1. changes \in Nat /\ changes <= MaxChanges
  BY BoundsAssumption DEF IInv, TypeOK
<1>2. changes' \in 0..MaxChanges
  BY <1>1, BoundsAssumption DEF Ack, HandlerFails, HandlerDies, Counts
<1>3. CASE Ack(p)
  <2>1. req[p].result \in {"PROCESSED", "IGNORED"}
    BY HandlerTypes DEF Request
  <2> QED BY <1>2, <1>3, <2>1, EndKeeps DEF Ack
<1>4. CASE HandlerFails(p)
  BY <1>2, <1>4, EndKeeps DEF HandlerFails
<1>5. CASE HandlerDies(p)
  BY <1>2, <1>5, EndKeeps DEF HandlerDies
<1> QED BY <1>3, <1>4, <1>5

\* The transaction begins: it is tried again, given up, found superfluous, or holds the lock.
LEMMA BeginKeeps == ASSUME IInv, NEW p \in Requests, Begin(p) PROVE IInv'
<1>0. /\ req[p].pc = "begin" /\ \A q \in Requests : req[q].pc # "commit"
      /\ UNCHANGED <<stripe, checkouts, row, dunning, console, changes>>
      /\ HandlerOK(req[p]) /\ req[p].s \in Subs /\ event[req[p].s][req[p].n] # "NONE"
      /\ req[p] \in Request
  BY HandlerKnows, HandlerTypes DEF Begin
<1>1. CASE /\ Stale(p) /\ Retries(p)
           /\ Becomes(p, [NoRequest EXCEPT !.pc = "load", !.s = req[p].s, !.n = req[p].n,
                                           !.attempt = req[p].attempt + 1])
           /\ UNCHANGED event
  <2>1. PICK r : r = [NoRequest EXCEPT !.pc = "load", !.s = req[p].s, !.n = req[p].n,
                                       !.attempt = req[p].attempt + 1]
    OBVIOUS
  <2>2. req[p].attempt + 1 \in 1..MaxAttempts
    BY <1>0, <1>1, BoundsAssumption DEF Retries, Request
  <2>3. r \in Request /\ r.pc = "load" /\ r.s = req[p].s /\ r.n = req[p].n
    BY <2>1, <2>2, HandlerTypes DEF NoRequest, Request, PCs
  <2>4. HandlerOK(r) /\ ~Sees(r)
    BY <1>0, <2>3 DEF HandlerOK, Knows, HasRetrieved, IsNew, Sees, MissesNothing, ReplacesOlder, MayCommit
  <2>5. Becomes(p, r)
    BY <1>1, <2>1
  <2> QED BY <1>0, <1>1, <2>3, <2>4, <2>5, HandlerTypes, StoredBy, HandlerStep
<1>2. CASE Stale(p) /\ ~Retries(p) /\ SyncConflict(p)
  BY <1>0, <1>2, HandlerTypes, EndKeeps DEF SyncConflict
<1>3. CASE /\ ~Stale(p) /\ Replaced(p)
           /\ Becomes(p, [NoRequest EXCEPT !.pc = "ack", !.s = req[p].s, !.n = req[p].n])
           /\ UNCHANGED event
  <2>1. PICK r : r = [NoRequest EXCEPT !.pc = "ack", !.s = req[p].s, !.n = req[p].n]
    OBVIOUS
  <2>2. r \in Request /\ r.pc = "ack" /\ r.s = req[p].s /\ r.n = req[p].n /\ r.result = "IGNORED"
    BY <2>1, HandlerTypes DEF NoRequest, Request, PCs
  <2>3. HandlerOK(r) /\ ~Sees(r)
    BY <1>0, <2>2 DEF HandlerOK, Knows, HasRetrieved, IsNew, Sees, MissesNothing, ReplacesOlder, MayCommit
  <2>4. Becomes(p, r) /\ \A q \in Requests : req'[q] = IF q = p THEN r ELSE req[q]
    BY <1>3, <2>1 DEF Becomes, IInv, TypeOK
  <2>5. \A s \in Subs, n \in Versions : (Stored(s, n, "PROCESSED"))' => Stored(s, n, "PROCESSED")
    BY <1>3, <2>2, <2>4 DEF Stored
  <2>6. ASSUME NEW s \in Subs, NEW n \in Versions, (Stored(s, n, "IGNORED"))'
        PROVE  Stored(s, n, "IGNORED") \/ row.sub \notin {NoSub, s}
    BY <1>3, <2>2, <2>4, <2>6 DEF Stored, Replaced
  <2> QED BY <1>0, <1>3, <2>2, <2>3, <2>4, <2>5, <2>6, HandlerTypes, HandlerStep
<1>4. CASE /\ ~Stale(p) /\ ~Replaced(p)
           /\ Becomes(p, [req[p] EXCEPT !.pc = "commit"])
           /\ UNCHANGED event
  <2>1. PICK r : r = [req[p] EXCEPT !.pc = "commit"]
    OBVIOUS
  <2>2. /\ r \in Request /\ r.pc = "commit" /\ r.s = req[p].s /\ r.n = req[p].n /\ r.got = req[p].got
        /\ r.version = req[p].version /\ r.fresh = "YES" /\ req[p].fresh = "YES" /\ r.replace = req[p].replace
        /\ r.replace \in {"YES", "NO"}
    BY <1>0, <1>4, <2>1 DEF Stale, Request, PCs
  <2>3. row.sub \in {NoSub, r.s} \/ r.replace = "YES"
    <3>1. row.provider = "stripe" \/ row.sub = NoSub
      BY DEF IInv, RowsExist, Exists, TypeOK, Row
    <3> QED BY <1>4, <2>2, <3>1 DEF Replaced
  <2>4. Sees(r) => Sees(req[p])
    BY <1>0, <2>2, <2>3 DEF Sees
  <2>5. HandlerOK(r)
    BY <1>0, <2>2, <2>3, <2>4 DEF HandlerOK, Knows, HasRetrieved, IsNew, MissesNothing, ReplacesOlder, MayCommit
  <2>6. Becomes(p, r)
    BY <1>4, <2>1
  <2>7. \A s \in Subs, n \in Versions, result \in {"PROCESSED", "IGNORED"} :
          (Stored(s, n, result))' => Stored(s, n, result)
    BY <1>4, <2>2, <2>6, StoredBy
  <2>8. Sees(r) => \A n \in Versions : n > r.version => ~(Stored(r.s, n, "IGNORED"))'
    BY <1>0, <2>2, <2>5, <2>7 DEF HandlerOK, MissesNothing
  <2> QED BY <1>0, <1>4, <2>2, <2>5, <2>6, <2>7, <2>8, HandlerTypes, HandlerStep
<1> QED BY <1>1, <1>2, <1>3, <1>4 DEF Begin

-----------------------------------------------------------------------------
(* Steps that write the row *)

\* All snapshots become stale, and nothing else of a handler changes.
LEMMA AllStaleIs ==
  ASSUME IInv
  PROVE  /\ AllStale \in [Requests -> Request]
         /\ \A q \in Requests :
              /\ AllStale[q].pc = req[q].pc /\ AllStale[q].s = req[q].s /\ AllStale[q].n = req[q].n
              /\ AllStale[q].got = req[q].got /\ AllStale[q].version = req[q].version
              /\ AllStale[q].replace = req[q].replace /\ AllStale[q].result = req[q].result
              /\ AllStale[q].fresh = "NO"
<1>1. \A q \in Requests : req[q] \in Request
  BY DEF IInv, TypeOK
<1> QED BY <1>1 DEF AllStale, Request

\* A writer that does not compare: whoever holds the lock no longer has a fresh snapshot.
LEMMA BlindWriteKeeps ==
  ASSUME IInv, req' = AllStale, UNCHANGED <<stripe, checkouts, event, changes>>,
         row' \in Row, row'.by # "stripe", dunning' \in Row, console' \in Row,
         Exists(row)', Exists(dunning)', Exists(console)'
  PROVE  IInv'
<1> USE DEF IInv
<1>1. TypeOK'
  BY AllStaleIs DEF TypeOK
<1>2. Emitted' /\ RowsExist' /\ RowIsNew' /\ RowMissesNothing'
  BY DEF Emitted, RowsExist, RowIsNew, RowMissesNothing
<1>3. OneCommit'
  BY AllStaleIs DEF HandlersOK, OneCommit
<1>4. \A s, n, result : (Stored(s, n, result))' <=> Stored(s, n, result)
  BY AllStaleIs DEF Stored
<1>5. ASSUME NEW q \in Requests PROVE HandlerOK(req[q])'
  <2>1. HandlerOK(req[q])
    BY DEF HandlersOK
  <2>2. Knows(req[q])' /\ HasRetrieved(req[q])'
    BY <2>1, AllStaleIs DEF HandlerOK, Knows, HasRetrieved
  <2>3. ReplacesOlder(req[q])' /\ MayCommit(req[q])'
    BY AllStaleIs DEF ReplacesOlder, MayCommit
  <2>4. IsNew(req[q])'
    BY <1>4, <2>1, AllStaleIs DEF HandlerOK, IsNew
  <2>5. MissesNothing(req[q])'
    BY <1>4, <2>1, AllStaleIs DEF HandlerOK, MissesNothing, Sees
  <2> QED BY <2>2, <2>3, <2>4, <2>5 DEF HandlerOK
<1> QED BY <1>1, <1>2, <1>3, <1>5 DEF HandlersOK

\* The dunning job and the console.
LEMMA OthersKeep ==
  ASSUME IInv, DunningReads \/ DunningWrites \/ setLicense \/ setLicenseWrites
  PROVE  IInv'
<1>0. row \in Row /\ dunning \in Row /\ console \in Row /\ NoRow \in Row
  <2>1. NoRow \in Row
    BY Sizes DEF NoRow, NewRow, Row, Licences, Versions
  <2> QED BY <2>1 DEF IInv, TypeOK
<1>1. ASSUME UNCHANGED <<stripe, checkouts, row, event, req>>, changes' \in 0..MaxChanges,
             dunning' \in {dunning, row}, console' \in {console, row}
      PROVE  IInv'
  <2>1. TypeOK'
    BY <1>1 DEF IInv, TypeOK
  <2>2. \A s, n, result : (Stored(s, n, result))' <=> Stored(s, n, result)
    BY <1>1 DEF Stored
  <2>3. RowIsNew' /\ RowMissesNothing'
    BY <1>1, <2>2 DEF IInv, RowIsNew, RowMissesNothing
  <2>4. Emitted' /\ RowsExist'
    BY <1>1 DEF IInv, Emitted, RowsExist, Exists
  <2>5. OneCommit'
    BY <1>1 DEF IInv, HandlersOK, OneCommit
  <2>6. ASSUME NEW q \in Requests PROVE HandlerOK(req[q])'
    BY <1>1, <2>2 DEF IInv, HandlersOK, HandlerOK, Knows, HasRetrieved, IsNew, Sees, MissesNothing,
                      ReplacesOlder, MayCommit
  <2> QED BY <2>1, <2>3, <2>4, <2>5, <2>6 DEF IInv, HandlersOK
<1>2. ASSUME changes < MaxChanges, changes' = changes + 1 PROVE changes' \in 0..MaxChanges
  BY <1>2, BoundsAssumption DEF IInv, TypeOK
<1>3. CASE DunningReads
  BY <1>1, <1>2, <1>3 DEF DunningReads, Counts
<1>4. CASE setLicense
  BY <1>1, <1>2, <1>4 DEF setLicense, Counts
<1>5. ASSUME NEW copy \in Row, Exists(copy), NEW status \in Licences, NEW by \in {"dunning", "console"},
             row' = [copy EXCEPT !.status = status, !.by = by], UNCHANGED <<stripe, checkouts, event, changes>>,
             req' = AllStale, dunning' \in {dunning, NoRow}, console' \in {console, NoRow}
      PROVE  IInv'
  <2>1. row' \in Row /\ row'.by = by /\ row'.sub = copy.sub /\ row'.provider = copy.provider
    BY <1>5 DEF Row
  <2>2. dunning' \in Row /\ console' \in Row
    BY <1>0, <1>5
  <2>3. Exists(row)'
    BY <1>5, <2>1 DEF Exists
  <2>4. Exists(NoRow)
    BY DEF Exists, NoRow, NewRow
  <2>5. Exists(dunning)' /\ Exists(console)'
    BY <1>5, <2>4 DEF Exists, IInv, RowsExist
  <2> QED BY <1>5, <2>1, <2>2, <2>3, <2>5, BlindWriteKeeps
<1>6. CASE DunningWrites
  <2>1. "SUSPENDED" \in Licences /\ Exists(dunning)
    BY DEF Licences, IInv, RowsExist
  <2> QED BY <1>0, <1>5, <1>6, <2>1 DEF DunningWrites
<1>7. CASE setLicenseWrites
  <2>1. Exists(console)
    BY DEF IInv, RowsExist
  <2> QED BY <1>0, <1>5, <1>7, <2>1 DEF setLicenseWrites
<1> QED BY <1>3, <1>4, <1>6, <1>7

\* A licence for every status.
LEMMA LicenceType == \A status : stripeStatusToLicense(status) \in Licences
BY DEF stripeStatusToLicense, Licences

\* The guarded write: nothing that was processed is newer than what it writes.
LEMMA CommitKeeps == ASSUME IInv, NEW p \in Requests, Commit(p) PROVE IInv'
<1> USE DEF IInv
<1>0. PICK r : r = [NoRequest EXCEPT !.pc = "ack", !.s = req[p].s, !.n = req[p].n, !.result = "PROCESSED"]
  OBVIOUS
<1>1. req[p].pc = "commit" /\ HandlerOK(req[p]) /\ req[p].s \in Subs /\ req[p] \in Request
  BY HandlerKnows, HandlerTypes DEF Commit
<1>2. /\ r \in Request /\ r.pc = "ack" /\ r.s = req[p].s /\ r.n = req[p].n /\ r.result = "PROCESSED"
  BY <1>0, HandlerTypes DEF NoRequest, Request, PCs
<1>3. req' \in [Requests -> Request] /\ \A q \in Requests : req'[q] = IF q = p THEN r ELSE AllStale[q]
  BY <1>0, <1>2, AllStaleIs DEF Commit
<1>4. /\ row' \in Row /\ row'.status = stripeStatusToLicense(req[p].got) /\ row'.provider = "stripe"
      /\ row'.sub = req[p].s /\ row'.of = req[p].version /\ row'.by = "stripe" /\ row'.replaced = req[p].replace
  BY <1>1, LicenceType DEF Commit, Row, Request
<1>5. UNCHANGED <<stripe, checkouts, event, dunning, console, changes>>
  BY DEF Commit
<1>6. TypeOK'
  BY <1>3, <1>4, <1>5 DEF TypeOK
<1>7. \A s, n : (Stored(s, n, "PROCESSED"))' => Stored(s, n, "PROCESSED") \/ (s = req[p].s /\ n = req[p].n)
  BY <1>1, <1>2, <1>3, <1>5, AllStaleIs DEF Stored
<1>8. \A s, n : (Stored(s, n, "IGNORED"))' => Stored(s, n, "IGNORED")
  BY <1>1, <1>2, <1>3, <1>5, AllStaleIs DEF Stored
<1>9. /\ req[p].version <= stripe[req[p].s].version /\ req[p].n <= req[p].version
      /\ req[p].version = stripe[req[p].s].version => req[p].got = stripe[req[p].s].status
      /\ \A n \in Versions : Stored(req[p].s, n, "PROCESSED") => n <= req[p].version
      /\ req[p].replace = "NO" => \A n \in Versions : n > req[p].version => ~Stored(req[p].s, n, "IGNORED")
  BY <1>1 DEF HandlerOK, HasRetrieved, IsNew, MissesNothing, Sees
<1>10. RowIsNew'
  BY <1>1, <1>4, <1>5, <1>7, <1>9 DEF RowIsNew
<1>11. RowMissesNothing'
  BY <1>4, <1>8, <1>9 DEF RowMissesNothing
<1>12. stripe[req[p].s].version > 0
  BY <1>1, HandlerKnows, HandlerTypes DEF Emitted
<1>13. Emitted' /\ RowsExist'
  BY <1>4, <1>5, <1>12 DEF Emitted, RowsExist, Exists
<1>14. \A q \in Requests : req'[q].pc # "commit" /\ (q # p => req'[q].fresh = "NO")
  BY <1>1, <1>2, <1>3, AllStaleIs DEF HandlersOK, OneCommit
<1>15. ASSUME NEW q \in Requests PROVE HandlerOK(req[q])'
  <2>1. HandlerOK(req[q])
    BY DEF HandlersOK
  <2>2. CASE q = p
    BY <1>1, <1>2, <1>3, <1>5, <2>1, <2>2
    DEF HandlerOK, Knows, HasRetrieved, IsNew, Sees, MissesNothing, ReplacesOlder, MayCommit
  <2>3. CASE q # p
    <3>1. Knows(req[q])' /\ HasRetrieved(req[q])'
      BY <1>3, <1>5, <2>1, <2>3, AllStaleIs DEF HandlerOK, Knows, HasRetrieved
    <3>2. IsNew(req[q])' /\ MissesNothing(req[q])' /\ ReplacesOlder(req[q])' /\ MayCommit(req[q])'
      BY <1>14, <2>3 DEF IsNew, Sees, MissesNothing, ReplacesOlder, MayCommit
    <3> QED BY <3>1, <3>2 DEF HandlerOK
  <2> QED BY <2>2, <2>3
<1>16. OneCommit'
  BY <1>14 DEF OneCommit
<1> QED BY <1>6, <1>10, <1>11, <1>13, <1>15, <1>16 DEF HandlersOK

-----------------------------------------------------------------------------
(* Stripe *)

\* A subscription gets a new version u and emits the events N, none of which it had emitted.
LEMMA StripeStep ==
  ASSUME IInv, NEW s \in Subs, NEW u \in Subscription, NEW N \in SUBSET Versions,
         stripe' = [stripe EXCEPT ![s] = u], Emits(s, N),
         u.version = stripe[s].version + 1, u.status # "none",
         stripe[s].version > 0 => u.created = stripe[s].created,
         \A n \in Versions : n \in N <=> n <= u.version /\ event[s][n] = "NONE",
         UNCHANGED <<row, req, dunning, console>>,
         checkouts' \in 0..Cardinality(Subs), changes' \in 0..MaxChanges
  PROVE  IInv'
<1> USE DEF IInv
<1>1. \A t \in Subs : stripe'[t] = IF t = s THEN u ELSE stripe[t]
  BY DEF TypeOK
<1>2. \A t \in Subs, n \in Versions : event'[t][n] = IF t = s /\ n \in N THEN "OPEN" ELSE event[t][n]
  BY DEF Emits, TypeOK
<1>3. TypeOK'
  <2>1. event' \in [Subs -> [Versions -> EventStatus]]
    BY DEF Emits, TypeOK, EventStatus
  <2>2. stripe' \in [Subs -> Subscription]
    BY DEF TypeOK
  <2> QED BY <2>1, <2>2 DEF TypeOK
<1>4. \A t \in Subs : stripe[t].version \in Nat /\ stripe[t].created \in Nat
  BY Sizes DEF TypeOK, Subscription, Versions
<1>5. \A t \in Subs : stripe'[t].version >= stripe[t].version
  BY <1>1, <1>4
<1>6. \A n \in Versions : n \in Nat
  BY Sizes DEF Versions
<1>7. Emitted'
  <2>1. ASSUME NEW t \in Subs, NEW n \in Versions, event'[t][n] # "NONE"
        PROVE  n <= stripe'[t].version /\ stripe'[t].version > 0
    BY <1>1, <1>2, <1>4, <1>6, <2>1 DEF Emitted
  <2>3. ASSUME NEW t \in Subs, NEW n \in Versions, n <= stripe'[t].version, stripe'[t].version > 0
        PROVE  event'[t][n] # "NONE"
    BY <1>1, <1>2, <1>4, <1>6, <2>3 DEF Emitted
  <2>2. ASSUME NEW t \in Subs PROVE stripe'[t].status = "none" <=> stripe'[t].version = 0
    BY <1>1, <1>4 DEF Emitted
  <2> QED BY <2>1, <2>2, <2>3 DEF Emitted
<1>8. RowsExist'
  <2>1. \A r \in {row, dunning, console} : r.sub \in Subs \cup {NoSub}
    BY DEF TypeOK, Row
  <2>2. \A r \in {row, dunning, console} : r.sub # NoSub => stripe'[r.sub].version > 0
    BY <1>4, <1>5, <1>3, <2>1 DEF RowsExist, Exists, TypeOK, Subscription, Versions
  <2> QED BY <2>2 DEF RowsExist, Exists
<1>9. \A t \in Subs, n \in Versions, result \in {"PROCESSED", "IGNORED"} :
        (Stored(t, n, result))' => Stored(t, n, result)
  BY <1>2 DEF Stored
<1>10. \A t \in Subs, v \in Nat : v <= stripe[t].version =>
         /\ v <= stripe'[t].version
         /\ v = stripe'[t].version => stripe'[t] = stripe[t]
  BY <1>1, <1>4
<1>11. RowIsNew'
  <2>1. row.of \in Nat
    BY <1>6 DEF TypeOK, Row
  <2> QED BY <1>9, <1>10, <2>1 DEF RowIsNew
<1>12. RowMissesNothing'
  BY <1>9 DEF RowMissesNothing, RowIsNew
<1>13. OneCommit'
  BY DEF HandlersOK, OneCommit
<1>14. ASSUME NEW q \in Requests PROVE HandlerOK(req[q])'
  <2>1. HandlerOK(req[q]) /\ req[q].version \in Nat /\ req[q].n \in Versions
    BY HandlerTypes DEF HandlersOK
  <2>2. CASE req[q].pc = "idle"
    BY <2>2 DEF HandlerOK, Knows, HasRetrieved, IsNew, Sees, MissesNothing, ReplacesOlder, MayCommit
  <2>3. CASE req[q].pc # "idle"
    <3>1. req[q].s \in Subs /\ event[req[q].s][req[q].n] # "NONE" /\ stripe[req[q].s].version > 0
      BY <2>1, <2>3 DEF HandlerOK, Knows, Emitted
    <3>2. Knows(req[q])'
      BY <1>2, <2>1, <3>1 DEF Knows
    <3>3. HasRetrieved(req[q])'
      BY <1>10, <2>1, <3>1 DEF HandlerOK, HasRetrieved
    <3>4. IsNew(req[q])'
      BY <1>9, <2>1, <3>1 DEF HandlerOK, IsNew
    <3>5. MissesNothing(req[q])'
      BY <1>9, <2>1, <3>1 DEF HandlerOK, MissesNothing, Sees
    <3>6. MayCommit(req[q])'
      BY <2>1 DEF HandlerOK, MayCommit
    <3>7. ReplacesOlder(req[q])'
      <4> SUFFICES ASSUME req[q].pc \in {"retrieve", "begin", "commit"}, req[q].fresh = "YES", req[q].replace = "YES"
                   PROVE  row.sub \in Subs /\ stripe'[req[q].s].created > stripe'[row.sub].created
        BY DEF ReplacesOlder
      <4>1. row.sub \in Subs /\ stripe[req[q].s].created > stripe[row.sub].created
        BY <2>1 DEF HandlerOK, ReplacesOlder
      <4>2. stripe[row.sub].version > 0
        BY <4>1, SubsAssumption DEF RowsExist, Exists
      <4> QED BY <1>1, <3>1, <4>1, <4>2
    <3> QED BY <3>2, <3>3, <3>4, <3>5, <3>6, <3>7 DEF HandlerOK
  <2> QED BY <2>2, <2>3
<1> QED BY <1>3, <1>7, <1>8, <1>11, <1>12, <1>13, <1>14 DEF HandlersOK

\* A completed checkout and a change of a subscription are such steps.
LEMMA StripeKeeps ==
  ASSUME IInv, NEW s \in Subs, CheckoutCompletes(s) \/ StripeChanges(s)
  PROVE  IInv'
<1>0. stripe[s] \in Subscription /\ stripe[s].version \in Nat
  BY Sizes DEF IInv, TypeOK, Subscription, Versions
<1>1. changes' \in 0..MaxChanges
  BY BoundsAssumption DEF CheckoutCompletes, StripeChanges, Counts, IInv, TypeOK
<1>2. checkouts' \in 0..Cardinality(Subs)
  BY Sizes DEF CheckoutCompletes, StripeChanges, IInv, TypeOK
<1>3. CASE CheckoutCompletes(s)
  <2>1. PICK status \in Statuses \cap {"incomplete", "trialing", "active"}, c \in 1..Cardinality(Subs) :
          stripe' = [stripe EXCEPT ![s] = [status |-> status, version |-> 1, created |-> c]]
    BY <1>3 DEF CheckoutCompletes
  <2>2. PICK u : u = [status |-> status, version |-> 1, created |-> c]
    OBVIOUS
  <2>3. u \in Subscription /\ u.version = 1 /\ u.status # "none"
    BY <2>2, Sizes DEF Subscription, Versions
  <2>4. stripe[s].version = 0 /\ {0, 1} \in SUBSET Versions
    BY <1>3, Sizes DEF CheckoutCompletes, IInv, Emitted, Versions
  <2>5. PICK N : N = {0, 1}
    OBVIOUS
  <2>6. \A n \in Versions : n \in N <=> n <= u.version /\ event[s][n] = "NONE"
    BY <2>3, <2>4, <2>5, Sizes DEF IInv, Emitted, Versions
  <2>7. Emits(s, N) /\ UNCHANGED <<row, req, dunning, console>>
    BY <1>3, <2>5 DEF CheckoutCompletes
  <2>8. N \in SUBSET Versions /\ stripe' = [stripe EXCEPT ![s] = u] /\ u.version = stripe[s].version + 1
        /\ ~(stripe[s].version > 0)
    BY <2>1, <2>2, <2>3, <2>4, <2>5
  <2> QED BY <1>1, <1>2, <2>3, <2>6, <2>7, <2>8, StripeStep
<1>4. CASE StripeChanges(s)
  <2>1. PICK status \in Statuses \cap Follow(stripe[s].status) :
          stripe' = [stripe EXCEPT ![s].status = status, ![s].version = @ + 1]
    BY <1>4 DEF StripeChanges
  <2>2. PICK u : u = [[stripe[s] EXCEPT !.status = status] EXCEPT !.version = @ + 1]
    OBVIOUS
  <2>3. stripe[s].version + 1 \in Versions
    BY <1>0, <1>4, Sizes DEF StripeChanges, Versions
  <2>4. u \in Subscription /\ u.version = stripe[s].version + 1 /\ u.status = status /\ u.created = stripe[s].created
    BY <1>0, <2>2, <2>3 DEF Subscription
  <2>5. status # "none"
    BY <2>1, StatusesAssumption
  <2>6. stripe' = [stripe EXCEPT ![s] = u]
    BY <2>1, <2>2 DEF IInv, TypeOK
  <2>7. PICK N : N = {stripe[s].version + 1}
    OBVIOUS
  <2>8. stripe[s].version > 0
    BY <1>0, <2>1 DEF IInv, Emitted, Follow
  <2>9. \A n \in Versions : n \in N <=> n <= u.version /\ event[s][n] = "NONE"
    BY <1>0, <2>3, <2>4, <2>7, <2>8, Sizes DEF IInv, Emitted, Versions
  <2>10. Emits(s, N) /\ N \in SUBSET Versions /\ UNCHANGED <<row, req, dunning, console>>
    BY <1>4, <2>3, <2>7 DEF StripeChanges
  <2> QED BY <1>1, <1>2, <2>4, <2>5, <2>6, <2>9, <2>10, StripeStep
<1> QED BY <1>3, <1>4

\* A checkout session is opened.
LEMMA CheckoutKeeps == ASSUME IInv, createCheckoutSession PROVE IInv'
<1>1. UNCHANGED <<stripe, row, event, req, dunning, console, changes>>
  BY DEF createCheckoutSession
<1>2. checkouts' \in 0..Cardinality(Subs)
  <2> DEFINE T == {s \in Subs : stripe[s].status = "none"}
  <2>1. T \in SUBSET Subs
    OBVIOUS
  <2>2. Cardinality(T) <= Cardinality(Subs) /\ Cardinality(T) \in Nat
    BY <2>1, SubsAssumption, FS_Subset, FS_CardinalityType
  <2>3. checkouts < Cardinality(T) /\ checkouts' = checkouts + 1
    BY DEF createCheckoutSession
  <2> HIDE DEF T
  <2> QED BY <2>2, <2>3, Sizes DEF IInv, TypeOK
<1> QED BY <1>1, <1>2 DEF IInv, TypeOK, Emitted, RowsExist, Exists, RowIsNew, RowMissesNothing, HandlersOK, OneCommit,
          HandlerOK, Knows, HasRetrieved, IsNew, Sees, MissesNothing, ReplacesOlder, MayCommit, Stored

-----------------------------------------------------------------------------
(* The theorems *)

\* Every step keeps the invariant.
LEMMA NextInv == ASSUME IInv, [Next]_vars PROVE IInv'
<1>1. CASE Next
  <2>1. ASSUME NEW p \in Requests, Step(p) PROVE IInv'
    BY <2>1, LoadKeeps, RetrieveKeeps, BeginKeeps, CommitKeeps, EndsKeep DEF Step
  <2> QED BY <1>1, <2>1, CheckoutKeeps, StripeKeeps, DeliveryKeeps, EndsKeep, OthersKeep DEF Next
<1>2. CASE UNCHANGED vars
  BY <1>2 DEF vars, IInv, TypeOK, Emitted, RowsExist, Exists, RowIsNew, RowMissesNothing, HandlersOK, OneCommit,
          HandlerOK, Knows, HasRetrieved, IsNew, Sees, MissesNothing, ReplacesOlder, MayCommit, Stored
<1> QED BY <1>1, <1>2

\* The inductive invariant holds whatever the order of events, faults and other writers.
THEOREM Invariance == Spec => []IInv
<1>1. IInv /\ [Next]_vars => IInv'
  BY NextInv
<1> QED BY InitInv, <1>1, PTL DEF Spec

\* The tables, the handlers and the copies keep their types.
THEOREM TypeCorrect == Spec => []TypeOK
<1>1. IInv => TypeOK
  BY DEF IInv
<1> QED BY Invariance, <1>1, PTL

\* A row that a webhook wrote last is as new as every processed event of its subscription.
THEOREM NoOldStateReturns == Spec => []ProcessedIsReflected
<1>1. IInv => ProcessedIsReflected
  <2> SUFFICES ASSUME IInv, row.by = "stripe", NEW n \in Versions, event[row.sub][n] = "PROCESSED"
               PROVE  row.of >= n
    BY DEF ProcessedIsReflected
  <2>1. n <= row.of
    BY DEF IInv, RowIsNew, Stored
  <2>2. n \in Nat /\ row.of \in Nat
    BY Sizes DEF IInv, TypeOK, Row, Versions
  <2> QED BY <2>1, <2>2
<1> QED BY Invariance, <1>1, PTL

\* When every event was answered, a row that a webhook wrote last without replacing another
\* subscription has the licence of Stripe's current status.
THEOREM RowsConverge == Spec => []Converged
<1>1. IInv => Converged
  <2> SUFFICES ASSUME IInv, Quiet, row.by = "stripe", row.replaced = "NO"
               PROVE  row.status = stripeStatusToLicense(stripe[row.sub].status)
    BY DEF Converged
  <2>1. row.sub \in Subs /\ row.of <= stripe[row.sub].version
    BY DEF IInv, RowIsNew
  <2>2. row.of \in Nat /\ stripe[row.sub].version \in Nat /\ stripe[row.sub].version \in Versions
    BY <2>1, Sizes DEF IInv, TypeOK, Row, Subscription, Versions
  <2>3. CASE row.of = stripe[row.sub].version
    BY <2>3 DEF IInv, RowIsNew
  <2>4. CASE row.of < stripe[row.sub].version
    <3> DEFINE n == stripe[row.sub].version
    <3>1. event[row.sub][n] \in {"PROCESSED", "IGNORED", "NONE"}
      BY <2>1, <2>2 DEF Quiet, IInv, TypeOK, EventStatus
    <3>2. event[row.sub][n] # "PROCESSED"
      BY <2>2, <2>4 DEF IInv, RowIsNew, Stored
    <3>3. event[row.sub][n] # "IGNORED"
      BY <2>2, <2>4 DEF IInv, RowMissesNothing, Stored
    <3>4. event[row.sub][n] # "NONE"
      BY <2>1, <2>2, <2>4 DEF IInv, Emitted
    <3> QED BY <3>1, <3>2, <3>3, <3>4
  <2> QED BY <2>1, <2>2, <2>3, <2>4
<1> QED BY Invariance, <1>1, PTL

\* A webhook replaces what a webhook wrote only by a subscription created later.
THEOREM OnlyNewerReplaces == Spec => NewerReplacesOlder
<1> DEFINE A == row.by = "stripe" /\ row'.by = "stripe" /\ row'.sub # row.sub
                  => stripe[row'.sub].created > stripe[row.sub].created
<1>1. ASSUME IInv, [Next]_vars PROVE [A]_vars
  <2>1. CASE row' = row
    BY <2>1
  <2>2. CASE row'.by # "stripe"
    BY <2>2
  <2>3. ASSUME NEW p \in Requests, Commit(p) PROVE A
    <3>1. row'.sub = req[p].s /\ req[p].pc = "commit"
      BY <2>3 DEF Commit
    <3>2. HandlerOK(req[p])
      BY <1>1 DEF IInv, HandlersOK
    <3>3. row.by = "stripe" => row.sub \in Subs
      BY <1>1 DEF IInv, RowIsNew
    <3> QED BY <3>1, <3>2, <3>3, SubsAssumption DEF HandlerOK, MayCommit, ReplacesOlder
  <2>4. \/ row' = row \/ row'.by # "stripe" \/ \E p \in Requests : Commit(p)
    <3>1. ASSUME DunningWrites PROVE row'.by # "stripe"
      <4>1. row' = [dunning EXCEPT !.status = "SUSPENDED", !.by = "dunning"] /\ dunning \in Row
        BY <1>1, <3>1 DEF DunningWrites, IInv, TypeOK
      <4> QED BY <4>1 DEF Row
    <3>2. ASSUME setLicenseWrites PROVE row'.by # "stripe"
      <4>1. console \in Row
        BY <1>1 DEF IInv, TypeOK
      <4>2. PICK status \in Licences : row' = [console EXCEPT !.status = status, !.by = "console"]
        BY <3>2 DEF setLicenseWrites
      <4> QED BY <4>1, <4>2 DEF Row
    <3>3. ASSUME NEW p \in Requests, Step(p) \/ HandlerFails(p) \/ HandlerDies(p), ~Commit(p) PROVE row' = row
      BY <3>3 DEF Step, Load, Retrieve, Begin, Ack, HandlerFails, HandlerDies
    <3>4. ASSUME NEW p \in Requests, NEW s \in Subs, NEW n \in Versions, handleWebhook(p, s, n) PROVE row' = row
      BY <3>4 DEF handleWebhook
    <3>5. ASSUME NEW s \in Subs, CheckoutCompletes(s) \/ StripeChanges(s) PROVE row' = row
      BY <3>5 DEF CheckoutCompletes, StripeChanges
    <3>6. ASSUME createCheckoutSession \/ DunningReads \/ setLicense \/ UNCHANGED vars PROVE row' = row
      BY <3>6 DEF createCheckoutSession, DunningReads, setLicense, vars
    <3> QED BY <1>1, <3>1, <3>2, <3>3, <3>4, <3>5, <3>6 DEF Next
  <2> QED BY <2>1, <2>2, <2>3, <2>4
<1>2. IInv /\ [Next]_vars => [A]_vars
  BY <1>1
<1> QED BY Invariance, <1>2, PTL DEF Spec, NewerReplacesOlder

=============================================================================
