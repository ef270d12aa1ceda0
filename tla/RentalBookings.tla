--------------------------- MODULE RentalBookings ---------------------------
(***************************************************************************)
(* Rental bookings of one tenant: the handlers of                          *)
(* backend/src/interfaces/http/controllers/rental-bookings-controller.ts   *)
(* that change a RentalBooking row, run as concurrent requests.            *)
(*                                                                         *)
(* create and update decide under the schedule lock of the vehicle         *)
(* (pg_advisory_xact_lock), transition and updatePricing read the booking, *)
(* compute, and commit only if the row's updatedAt is still the one they   *)
(* read.  setContract, setCargosStatus, markContractSigned,                *)
(* generateContract and remove read the booking and then write it by id,   *)
(* without a lock and without looking again.                               *)
(*                                                                         *)
(* An await between two statements is a step of its own.  `fresh` stands   *)
(* for the comparison of updatedAt: every write of a booking makes the     *)
(* copies other requests hold of it stale.  Kilometres are abstracted to   *)
(* which of the two readings are known; whether they agree with each other *)
(* and with the vehicle's odometer is left open (Fails).  Of the contract  *)
(* document only its existence matters here.                               *)
(***************************************************************************)
EXTENDS Integers, FiniteSets

CONSTANTS
  Bookings,   \* ids of RentalBooking rows
  Vehicles,   \* vehicle ids, in the order `sort` puts them
  Slots,      \* <<pickupAt, returnAt>>
  Keys,       \* idempotency keys of creation requests
  Terms,      \* price lists and packages a booking can be priced with
  Requests,   \* concurrent HTTP requests
  Ops,        \* the handlers the clients call
  Values,     \* what they send: see Inputs
  NewValues,  \* what they send with a creation
  NoBooking, NoVehicle, NoSlot, NoKey, NoTerms

Handlers == {"create", "update", "transition", "updatePricing", "setContract",
             "setCargosStatus", "markContractSigned", "generateContract", "remove"}

ASSUME SetsAssumption == Vehicles \subseteq Nat /\ Slots \subseteq Nat \X Nat /\ Ops \subseteq Handlers
ASSUME SlotsAssumption == \A s \in Slots : s[1] < s[2]
ASSUME NoneAssumption == /\ NoBooking \notin Bookings /\ NoVehicle \notin Vehicles
                         /\ NoSlot \notin Slots /\ NoKey \notin Keys /\ NoTerms \notin Terms

VARIABLES
  booking,   \* the RentalBooking table
  request,   \* RentalBookingCreateRequest: the booking each idempotency key created
  req,       \* the requests being served
  revived    \* bookings a write has taken from a final status back to an active one (history)

vars == <<booking, request, req, revived>>

ACTIVE_BOOKING_STATUSES ==
  {"DRAFT", "QUOTED", "HOLD", "CONFIRMED", "CONTRACT_SIGNED", "READY_FOR_HANDOVER", "IN_RENT"}
Final == {"CLOSED", "CANCELED", "NO_SHOW"}
Statuses == ACTIVE_BOOKING_STATUSES \cup Final

TRANSITIONS ==
  [DRAFT              |-> {"QUOTED", "HOLD", "CANCELED"},
   QUOTED             |-> {"HOLD", "CONFIRMED", "CANCELED"},
   HOLD               |-> {"QUOTED", "CONFIRMED", "CANCELED", "NO_SHOW"},
   CONFIRMED          |-> {"CONTRACT_SIGNED", "CANCELED", "NO_SHOW"},
   CONTRACT_SIGNED    |-> {"READY_FOR_HANDOVER", "CANCELED", "NO_SHOW"},
   READY_FOR_HANDOVER |-> {"IN_RENT", "NO_SHOW", "CANCELED"},
   IN_RENT            |-> {"CLOSED"},
   CLOSED             |-> {}, CANCELED |-> {}, NO_SHOW |-> {}]

Contracts == {"NOT_READY", "READY", "SIGNED"}
Cargos    == {"NOT_REQUIRED", "PENDING", "SENT", "ERROR"}
Readings  == {"PICKUP_KM", "RETURN_KM"}

\* What a payload can carry: a status, one of the fields above, NO_KM (both readings null),
\* TOTAL (finalTotal entered by hand), GENERATE (a contract document), or none of them.
Inputs == Statuses \cup Contracts \cup Cargos \cup Readings \cup {"NO_KM", "TOTAL", "GENERATE", "KEEP"}

ASSUME ValuesAssumption == Values \subseteq Inputs /\ NewValues \subseteq Inputs

NoPrice == <<NoSlot, NoTerms>>
Prices  == (Slots \X Terms) \cup {NoPrice}

Booking == [status: Statuses \cup {"ABSENT"}, deletedAt: {"NULL", "SET"},
            vehicle: Vehicles \cup {NoVehicle}, slot: Slots \cup {NoSlot},
            contract: Contracts, signedAt: {"NULL", "SET"}, cargos: Cargos,
            km: SUBSET Readings, document: {"NONE", "SET"},   \* BookingContract
            terms: Terms \cup {NoTerms},   \* pricingSnapshot
            total: Prices]                 \* the dates and terms finalTotal was computed from;
                                           \* NoPrice: null, or entered by hand

PCs == {"idle", "key", "record", "schedule", "check", "write", "commit", "document", "blind"}

\* seen: vehicleId of the booking when it was first read.  decided: what that read settled,
\* scheduleChanged in update, shouldPromote in the others.  need and held: schedule locks
\* still to be taken, and taken.
Request == [op: Handlers \cup {"none"}, pc: PCs, b: Bookings \cup {NoBooking},
            key: Keys \cup {NoKey}, v: Vehicles \cup {NoVehicle}, slot: Slots \cup {NoSlot},
            to: Inputs,
            terms: Terms \cup {NoTerms}, price: Prices,
            seen: Vehicles \cup {NoVehicle}, decided: {"NO", "YES"}, fresh: {"NO", "YES"},
            need: SUBSET Vehicles, held: SUBSET Vehicles]

NoRequest == [op |-> "none", pc |-> "idle", b |-> NoBooking, key |-> NoKey, v |-> NoVehicle,
              slot |-> NoSlot, to |-> "KEEP", terms |-> NoTerms, price |-> NoPrice,
              seen |-> NoVehicle, decided |-> "NO", fresh |-> "NO", need |-> {}, held |-> {}]

AbsentBooking == [status |-> "ABSENT", deletedAt |-> "NULL", vehicle |-> NoVehicle, slot |-> NoSlot,
                  contract |-> "NOT_READY", signedAt |-> "NULL", cargos |-> "NOT_REQUIRED",
                  km |-> {}, document |-> "NONE", terms |-> NoTerms, total |-> NoPrice]

Init == /\ booking = [b \in Bookings |-> AbsentBooking]
        /\ request = [k \in Keys |-> NoBooking]
        /\ req     = [p \in Requests |-> NoRequest]
        /\ revived = {}

-----------------------------------------------------------------------------
(* Helpers.                                                                *)

\* getBookingOrThrow: a row that exists and is not deleted.
Found(b) == booking[b].status # "ABSENT" /\ booking[b].deletedAt = "NULL"

Active(b) == Found(b) /\ booking[b].status \in ACTIVE_BOOKING_STATUSES

Overlap(s, t) == s[1] < t[2] /\ t[1] < s[2]

\* Mutant of Available: only a booking whose start lies in the interval is an overlap.
AvailableByStart(v, slot, except) ==
  \A c \in Bookings : ~ /\ c # except /\ Active(c) /\ booking[c].vehicle = v
                        /\ slot[1] <= booking[c].slot[1] /\ booking[c].slot[1] < slot[2]

\* assertVehicleAvailability: no other active booking of the vehicle in the interval.
Available(v, slot, except) ==
  \A c \in Bookings : ~ /\ c # except /\ Active(c)
                        /\ booking[c].vehicle = v /\ Overlap(booking[c].slot, slot)

Becomes(p, r) == req' = [req EXCEPT ![p] = r]
Ends(p) == Becomes(p, NoRequest)

\* Write booking b and end request p: the copies the other requests hold become stale.
Writes(p, b, x) ==
  /\ booking' = [booking EXCEPT ![b] = x]
  /\ revived' = IF booking[b].status \in Final /\ x.status \in ACTIVE_BOOKING_STATUSES
                THEN revived \cup {b} ELSE revived
  /\ req' = [q \in Requests |->
               IF q = p THEN NoRequest
               ELSE IF req[q].b = b THEN [req[q] EXCEPT !.fresh = "NO"] ELSE req[q]]

\* Mutant of KeyFree: creation takes no lock on the key.
KeyNotLocked(k) == TRUE

\* Locks last until the transaction ends.  The record lock is held from the step after "record".
KeyFree(k) == \A q \in Requests : ~(req[q].key = k /\ req[q].pc \in {"schedule", "check", "write"})
RecordFree(b) == \A q \in Requests :
                   ~(req[q].b = b /\ req[q].pc \in {"schedule", "check", "write", "commit"})
ScheduleFree(v) == \A q \in Requests : v \notin req[q].held

\* Between FOR UPDATE and the commit of an update nobody else writes the row.
RowFree(b) == \A q \in Requests : ~(req[q].b = b /\ req[q].pc = "write")

\* Mutant of NextLock: vehicleIds is not sorted.
AnyLock(p, v) == v \in req[p].need

\* The next schedule lock: vehicleIds is sorted.
NextLock(p, v) == v \in req[p].need /\ \A u \in req[p].need : v <= u

-----------------------------------------------------------------------------
(* Locks and failures, common to all transactions.                         *)

\* lockBookingSchedule, one vehicle at a time.
LockSchedule(p, v) ==
  /\ req[p].pc = "schedule" /\ NextLock(p, v) /\ ScheduleFree(v)
  /\ Becomes(p, [req[p] EXCEPT !.need = req[p].need \ {v}, !.held = req[p].held \cup {v},
                               !.pc = IF req[p].need # {v} THEN "schedule"
                                      ELSE IF req[p].op \in {"create", "update"} THEN "check"
                                      ELSE "commit"])
  /\ UNCHANGED <<booking, request, revived>>

\* An error, a timeout (10 s) or a lost connection rolls the transaction back.
Fails(p) ==
  /\ req[p].pc # "idle"
  /\ Ends(p)
  /\ UNCHANGED <<booking, request, revived>>

-----------------------------------------------------------------------------
(* create.                                                                 *)

\* The lookup before the transaction: a key already used is a replay (or a 409), not a request.
create(p, k, v, slot, to) ==
  /\ "create" \in Ops /\ req[p].pc = "idle" /\ request[k] = NoBooking
  /\ Becomes(p, [NoRequest EXCEPT !.op = "create", !.pc = "key", !.key = k, !.v = v,
                                  !.slot = slot, !.to = to])
  /\ UNCHANGED <<booking, request, revived>>

\* The key lock, and the second lookup under it.
LockKey(p) ==
  /\ req[p].pc = "key" /\ KeyFree(req[p].key)
  /\ IF request[req[p].key] = NoBooking
     THEN Becomes(p, [req[p] EXCEPT !.pc = "schedule", !.need = {req[p].v}])
     ELSE Ends(p)
  /\ UNCHANGED <<booking, request, revived>>

CheckCreate(p) ==
  /\ req[p].pc = "check" /\ req[p].op = "create"
  /\ IF Available(req[p].v, req[p].slot, NoBooking)
     THEN Becomes(p, [req[p] EXCEPT !.pc = "write"])
     ELSE Ends(p)
  /\ UNCHANGED <<booking, request, revived>>

\* The booking, its contract document (which makes contractStatus READY) and the request row
\* commit together.
Insert(p, b, cargos, km) ==
  LET generate == req[p].to = "GENERATE"
  IN /\ req[p].pc = "write" /\ req[p].op = "create" /\ booking[b].status = "ABSENT"
     /\ Writes(p, b, [AbsentBooking EXCEPT !.status = "DRAFT", !.vehicle = req[p].v, !.slot = req[p].slot,
                                           !.contract = IF generate THEN "READY" ELSE req[p].to,
                                           !.document = IF generate THEN "SET" ELSE "NONE",
                                           !.cargos = cargos, !.km = km])
     /\ request' = [request EXCEPT ![req[p].key] = b]

-----------------------------------------------------------------------------
(* update.                                                                 *)

\* v, slot: NoVehicle, NoSlot when the payload leaves them out.  to: one other field.
update(p, b, v, slot, to) ==
  /\ "update" \in Ops /\ req[p].pc = "idle"
  /\ Becomes(p, [NoRequest EXCEPT !.op = "update", !.pc = "record", !.b = b, !.v = v,
                                  !.slot = slot, !.to = to])
  /\ UNCHANGED <<booking, request, revived>>

\* lockBookingMutation, then the first read, which decides which schedule locks to take.
LockRecord(p) ==
  LET b == req[p].b
      current == booking[b]
      v == IF req[p].v = NoVehicle THEN current.vehicle ELSE req[p].v
      slot == IF req[p].slot = NoSlot THEN current.slot ELSE req[p].slot
  IN /\ req[p].pc = "record" /\ RecordFree(b)
     /\ IF req[p].op # "update"
        THEN Becomes(p, [req[p] EXCEPT !.pc = "schedule", !.need = {req[p].seen}])
        ELSE IF Found(b)
        THEN Becomes(p, [req[p] EXCEPT !.pc = "schedule", !.need = {current.vehicle, v},
                                       !.v = v, !.slot = slot, !.seen = current.vehicle,
                                       !.decided = IF <<v, slot>> # <<current.vehicle, current.slot>>
                                                   THEN "YES" ELSE "NO"])
        ELSE Ends(p)
     /\ UNCHANGED <<booking, request, revived>>

\* The row is locked and read again; availability is asserted if the schedule changes.
CheckUpdate(p) ==
  LET b == req[p].b
  IN /\ req[p].pc = "check" /\ req[p].op = "update" /\ RowFree(b)
     /\ IF /\ Found(b) /\ booking[b].vehicle = req[p].seen
           /\ req[p].decided = "YES" => Available(req[p].v, req[p].slot, b)
        THEN Becomes(p, [req[p] EXCEPT !.pc = "write"])
        ELSE Ends(p)
     /\ UNCHANGED <<booking, request, revived>>

\* Mutant of Edited: the CARGOS status is written into contractStatus.
EditedMixedUp(x, to) == [x EXCEPT !.contract = IF to \in Contracts \cup Cargos THEN to ELSE x.contract]

\* The fields of the payload: contractSignedAt and cargosSentAt follow their status.
Edited(x, to) ==
  [x EXCEPT !.contract = IF to \in Contracts THEN to ELSE x.contract,
            !.signedAt = IF to = "SIGNED" THEN "SET"
                         ELSE IF to \in Contracts THEN "NULL" ELSE x.signedAt,
            !.cargos   = IF to \in Cargos THEN to ELSE x.cargos,
            !.km       = IF to \in Readings THEN x.km \cup {to}
                         ELSE IF to = "NO_KM" THEN {} ELSE x.km,
            !.total    = IF to = "TOTAL" THEN NoPrice ELSE x.total]

CommitUpdate(p) ==
  LET b == req[p].b
  IN /\ req[p].pc = "write" /\ req[p].op = "update"
     /\ Writes(p, b, [Edited(booking[b], req[p].to) EXCEPT !.vehicle = req[p].v, !.slot = req[p].slot])
     /\ UNCHANGED request

-----------------------------------------------------------------------------
(* transition and updatePricing: read, compute, lock, compare, write.      *)

canTransition(from, to) == to \in TRANSITIONS[from]

\* The conditions of transition on the booking it has read.
Allowed(x, to) ==
  /\ canTransition(x.status, to)
  /\ to = "READY_FOR_HANDOVER" => /\ x.contract = "SIGNED" /\ x.signedAt = "SET"
                                  /\ x.cargos \notin {"PENDING", "ERROR"}
  /\ to = "IN_RENT" => "PICKUP_KM" \in x.km
  /\ to = "CLOSED"  => x.km = Readings

\* finalTotal from the snapshotted terms, on the dates of the booking that was read.
Quote(x, to) ==
  IF to = "CLOSED" /\ x.terms # NoTerms THEN <<x.slot, x.terms>> ELSE NoPrice

transition(p, b, to) ==
  /\ "transition" \in Ops /\ req[p].pc = "idle" /\ Found(b) /\ Allowed(booking[b], to)
  /\ Becomes(p, [NoRequest EXCEPT !.op = "transition", !.pc = "record", !.b = b, !.to = to,
                                  !.seen = booking[b].vehicle, !.fresh = "YES",
                                  !.price = Quote(booking[b], to)])
  /\ UNCHANGED <<booking, request, revived>>

\* The quote is computed on the dates that were read and the terms that were chosen; with
\* preserveTerms (NoTerms here) nothing is computed yet.
updatePricing(p, b, terms) ==
  /\ "updatePricing" \in Ops /\ req[p].pc = "idle" /\ Found(b)
  /\ Becomes(p, [NoRequest EXCEPT !.op = "updatePricing", !.pc = "record", !.b = b,
                                  !.seen = booking[b].vehicle, !.fresh = "YES", !.terms = terms,
                                  !.price = IF terms = NoTerms THEN NoPrice
                                            ELSE <<booking[b].slot, terms>>])
  /\ UNCHANGED <<booking, request, revived>>

\* Mutant of Unchanged: updatedAt is not compared.
SameVehicle(p) == Found(req[p].b) /\ booking[req[p].b].vehicle = req[p].seen

\* FOR UPDATE, then: deleted, moved to another vehicle, or updatedAt differs => 409.
Unchanged(p) ==
  /\ Found(req[p].b) /\ booking[req[p].b].vehicle = req[p].seen
  /\ req[p].fresh = "YES"

Preserves(p) == req[p].op = "updatePricing" /\ req[p].terms = NoTerms

\* BOOKING_CHANGED, or PRICING_SNAPSHOT_REQUIRED.
Refused(p) ==
  /\ req[p].pc = "commit" /\ RowFree(req[p].b)
  /\ ~Unchanged(p) \/ (Preserves(p) /\ booking[req[p].b].terms = NoTerms)
  /\ Ends(p)
  /\ UNCHANGED <<booking, request, revived>>

CommitTransition(p) ==
  LET b == req[p].b
      x == booking[b]
  IN /\ req[p].pc = "commit" /\ req[p].op = "transition" /\ RowFree(b) /\ Unchanged(p)
     /\ Writes(p, b, [x EXCEPT !.status = req[p].to,
                               !.contract = IF req[p].to = "CONTRACT_SIGNED" THEN "SIGNED" ELSE x.contract,
                               !.signedAt = IF req[p].to = "CONTRACT_SIGNED" THEN "SET" ELSE x.signedAt,
                               !.total = IF req[p].price[2] # NoTerms THEN req[p].price ELSE x.total])
     /\ UNCHANGED request

CommitPricing(p, actualKm) ==
  LET b == req[p].b
      x == booking[b]
  IN /\ req[p].pc = "commit" /\ req[p].op = "updatePricing" /\ req[p].terms # NoTerms
     /\ RowFree(b) /\ Unchanged(p)
     /\ Writes(p, b, [x EXCEPT !.terms = req[p].terms,
                               !.total = IF actualKm = "KNOWN" THEN req[p].price ELSE x.total])
     /\ UNCHANGED request

\* preserveTerms: the saved terms and the dates of the locked row.  The booking is written
\* only if the payload has actualKm, which may be null.
CommitPreserving(p, actualKm) ==
  LET b == req[p].b
      x == booking[b]
  IN /\ req[p].pc = "commit" /\ Preserves(p) /\ RowFree(b) /\ Unchanged(p) /\ x.terms # NoTerms
     /\ CASE actualKm = "UNKNOWN" -> Ends(p) /\ UNCHANGED <<booking, revived>>
          [] actualKm = "NULL"    -> Writes(p, b, [x EXCEPT !.total = NoPrice])
          [] actualKm = "KNOWN"   -> Writes(p, b, [x EXCEPT !.total = <<x.slot, x.terms>>])
     /\ UNCHANGED request

-----------------------------------------------------------------------------
(* The handlers that read and then write by id.                            *)

\* The read, and what it decides: whether the write will also set the status.
Reads(p, op, b, to, promote) ==
  /\ op \in Ops /\ req[p].pc = "idle"
  /\ Becomes(p, [NoRequest EXCEPT !.op = op, !.b = b, !.to = to,
                                  !.decided = IF promote THEN "YES" ELSE "NO",
                                  !.pc = IF op = "generateContract" THEN "document" ELSE "blind"])
  /\ UNCHANGED <<booking, request, revived>>

setContract(p, b, to) ==
  Found(b) /\ Reads(p, "setContract", b, to,
                    to = "SIGNED" /\ booking[b].status \in {"DRAFT", "QUOTED", "HOLD", "CONFIRMED"})

setCargosStatus(p, b, to) ==
  Found(b) /\ Reads(p, "setCargosStatus", b, to,
                    to = "SENT" /\ booking[b].status = "CONTRACT_SIGNED")

\* getContractOrThrow asks for the contract of the booking, deleted or not.
markContractSigned(p, b) ==
  booking[b].document = "SET" /\ Reads(p, "markContractSigned", b, "SIGNED",
                                        booking[b].status = "CONFIRMED")

generateContract(p, b) == Found(b) /\ Reads(p, "generateContract", b, "READY", FALSE)

\* upsertBookingContractFromTemplate reads the booking again and commits the document, whose
\* row is not the booking's; contractStatus follows in a write of its own.
UpsertContract(p) ==
  LET b == req[p].b
  IN /\ req[p].pc = "document"
     /\ IF Found(b)
        THEN /\ booking' = [booking EXCEPT ![b].document = "SET"]
             /\ Becomes(p, [req[p] EXCEPT !.pc = "blind"])
        ELSE Ends(p) /\ UNCHANGED booking
     /\ UNCHANGED <<request, revived>>

remove(p, b) == Found(b) /\ Reads(p, "remove", b, "KEEP", FALSE)

\* generateContract writes contractStatus alone: contractSignedAt stays.
BlindlyWritten(p, x) ==
  LET to == req[p].to
  IN CASE req[p].op \in {"setContract", "markContractSigned"} ->
            [Edited(x, to) EXCEPT
               !.status = IF req[p].decided = "YES" THEN "CONTRACT_SIGNED" ELSE x.status]
       [] req[p].op = "setCargosStatus" ->
            [Edited(x, to) EXCEPT
               !.status = IF req[p].decided = "YES" THEN "READY_FOR_HANDOVER" ELSE x.status]
       [] req[p].op = "generateContract" -> [x EXCEPT !.contract = "READY"]
       [] OTHER -> [x EXCEPT !.status = "CANCELED", !.deletedAt = "SET"]

BlindWrite(p) ==
  LET b == req[p].b
  IN /\ req[p].pc = "blind" /\ RowFree(b)
     /\ Writes(p, b, BlindlyWritten(p, booking[b]))
     /\ UNCHANGED request

-----------------------------------------------------------------------------
Starts(p) ==
  \/ \E k \in Keys, v \in Vehicles, s \in Slots, to \in (Contracts \cup {"GENERATE"}) \cap NewValues : create(p, k, v, s, to)
  \/ \E b \in Bookings :
       \/ \E v \in Vehicles \cup {NoVehicle}, s \in Slots \cup {NoSlot},
             to \in Values \ (Statuses \cup {"GENERATE"}) : update(p, b, v, s, to)
       \/ \E to \in Statuses \cap Values : transition(p, b, to)
       \/ \E t \in Terms \cup {NoTerms} : updatePricing(p, b, t)
       \/ \E to \in Contracts \cap Values : setContract(p, b, to)
       \/ \E to \in Cargos \cap Values : setCargosStatus(p, b, to)
       \/ markContractSigned(p, b) \/ generateContract(p, b) \/ remove(p, b)

Locks(p) == LockKey(p) \/ LockRecord(p) \/ \E v \in Vehicles : LockSchedule(p, v)

Works(p) ==
  \/ CheckCreate(p) \/ CheckUpdate(p)
  \/ \E b \in Bookings, c \in Cargos \cap NewValues, km \in SUBSET (Readings \cap NewValues) : Insert(p, b, c, km)
  \/ CommitUpdate(p) \/ CommitTransition(p)
  \/ Refused(p)
  \/ \E km \in {"KNOWN", "UNKNOWN"} : CommitPricing(p, km)
  \/ \E km \in {"KNOWN", "NULL", "UNKNOWN"} : CommitPreserving(p, km)
  \/ UpsertContract(p)
  \/ BlindWrite(p)

Next == \E p \in Requests : Starts(p) \/ Locks(p) \/ Works(p) \/ Fails(p)

Spec == Init /\ [][Next]_vars

\* A request that is being served goes on; PostgreSQL's lock queues are first come, first
\* served, so a request that waits for a lock gets it.
FairSpec == Spec /\ \A p \in Requests : SF_vars(Locks(p) \/ Works(p))

-----------------------------------------------------------------------------
(* Properties.                                                             *)

\* Every variable keeps its shape.
TypeOK == /\ booking \in [Bookings -> Booking]
          /\ request \in [Keys -> Bookings \cup {NoBooking}]
          /\ req \in [Requests -> Request]
          /\ revived \subseteq Bookings

Clash(b, c) == /\ b # c /\ Active(b) /\ Active(c)
               /\ booking[b].vehicle = booking[c].vehicle
               /\ Overlap(booking[b].slot, booking[c].slot)

\* Two active bookings never claim one vehicle at the same time: what the check of
\* assertVehicleAvailability, under the schedule lock, is there for.
NoDoubleBooking == \A b, c \in Bookings : ~Clash(b, c)

\* The schedule locks do their part: whatever creations, moves and transitions interleave,
\* two active bookings clash only if one of them was brought back from a final status by a
\* handler that writes without looking again.
NoClashUnlessRevived == \A b, c \in Bookings : Clash(b, c) => b \in revived \/ c \in revived

\* Between the lookup under the key lock and the insert no other request uses the key: a
\* concurrent retry gets the same booking and never meets the unique constraint.
InsertIsFirst ==
  \A p \in Requests : req[p].op = "create" /\ req[p].pc \in {"schedule", "check", "write"} =>
    request[req[p].key] = NoBooking

\* The lock a request waits for.
WaitsFor(p, q) ==
  \/ req[p].pc = "key" /\ req[q].key = req[p].key /\ req[q].pc \in {"schedule", "check", "write"}
  \/ /\ req[p].pc = "record" /\ req[q].b = req[p].b
     /\ req[q].pc \in {"schedule", "check", "write", "commit"}
  \/ \E v \in Vehicles : req[p].pc = "schedule" /\ NextLock(p, v) /\ v \in req[q].held

\* The order record or key, schedules sorted, row keeps requests from waiting in a circle.
NoDeadlock == \A S \in SUBSET Requests :
                (\A p \in S : \E q \in S : WaitsFor(p, q)) => S = {}

\* transition decides on a copy read before its locks; what it commits is a step of the table
\* TRANSITIONS from the row as it is then, with the contract signed and CARGOS settled before
\* a handover, and the kilometres known before the rental starts and ends.
TransitionsAreGuarded ==
  [][\A p \in Requests : CommitTransition(p) => Allowed(booking[req[p].b], booking'[req[p].b].status)]_vars

\* finalTotal is never computed from dates or terms the booking no longer has.
PricedAsBooked ==
  [][\A b \in Bookings : booking'[b].total \notin {booking[b].total, NoPrice} =>
        booking'[b].total = <<booking'[b].slot, booking'[b].terms>>]_vars

\* "Per passare a 'Pronta consegna' il contratto deve essere firmato."
HandoverNeedsContract ==
  [][\A b \in Bookings : /\ booking[b].status # "READY_FOR_HANDOVER"
                         /\ booking'[b].status = "READY_FOR_HANDOVER"
                         => booking[b].contract = "SIGNED"]_vars

\* Every request that is started is answered.
RequestsEnd == \A p \in Requests : req[p].pc # "idle" ~> req[p].pc = "idle"
=============================================================================
