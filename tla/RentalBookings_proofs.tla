----------------------- MODULE RentalBookings_proofs ------------------------
(***************************************************************************)
(* Proofs about RentalBookings, for any sets of bookings, vehicles, slots, *)
(* keys, terms, requests and inputs.                                       *)
(*                                                                         *)
(* That two active bookings clash only after a revival rests on four       *)
(* facts: every schedule lock has one holder, and every booking one        *)
(* transaction past its record lock (Exclusive); a transaction past its    *)
(* schedule locks holds the one of the vehicle it is about to write        *)
(* (Shape); an update that decided that the schedule does not change still *)
(* agrees with the row (Decided); and what assertVehicleAvailability found *)
(* still holds when the row is written (Checked).                          *)
(***************************************************************************)
EXTENDS RentalBookings, TLAPS

InSchedule == {"schedule", "check", "write"}
PastRecord == {"schedule", "check", "write", "commit"}
Pricers    == {"transition", "updatePricing"}

\* The combinations of fields a request can have.
Shape(r) ==
  /\ r.pc = "idle" <=> r.op = "none"
  /\ r.op \notin {"none", "create"} => r.b \in Bookings
  /\ r.op = "create" => /\ r.b = NoBooking /\ r.key \in Keys /\ r.v \in Vehicles /\ r.slot \in Slots
                        /\ r.to \in Contracts \cup {"GENERATE"}
                        /\ r.pc \in {"key", "schedule", "check", "write"}
  /\ r.op # "create" => r.key = NoKey
  /\ r.op = "update" => r.pc \in {"record", "schedule", "check", "write"}
  /\ r.op \in Pricers => r.pc \in {"record", "schedule", "commit"} /\ r.seen \in Vehicles
  /\ r.op = "transition" => r.to \in Statuses
  /\ r.pc \in PastRecord \cup {"key", "record"} => r.op \in {"create", "update"} \cup Pricers
  /\ r.pc = "record" => r.op # "create"
  /\ r.pc \in InSchedule /\ r.op \in {"create", "update"} =>
       /\ r.v \in Vehicles /\ r.slot \in Slots
       /\ r.v \in r.need \cup r.held
  /\ r.pc \in {"check", "write"} => r.need = {}

\* A booking that exists has a vehicle and dates; one that does not has no contract document.
Scheduled(b) ==
  /\ booking[b].status # "ABSENT" => booking[b].vehicle \in Vehicles /\ booking[b].slot \in Slots
  /\ booking[b].status = "ABSENT" => booking[b].document = "NONE"

\* Two requests share no schedule lock, no record lock and no key lock.
Together(r, s) ==
  /\ r.held \cap s.held = {}
  /\ r.pc \in PastRecord /\ s.pc \in PastRecord /\ r.b = s.b => r.b = NoBooking
  /\ r.pc \in InSchedule /\ s.pc \in InSchedule /\ r.key = s.key => r.key = NoKey

Exclusive == \A p, q \in Requests : p # q => Together(req[p], req[q])

\* What the first read found is still so: the booking exists, and an update that keeps its
\* schedule has the vehicle and the dates of the row.
Decided(r) ==
  /\ r.pc \in {"blind", "document"} => booking[r.b].status # "ABSENT"
  /\ r.op = "update" /\ r.pc \in InSchedule =>
       /\ booking[r.b].status # "ABSENT"
       /\ r.decided = "NO" => r.v = booking[r.b].vehicle /\ r.slot = booking[r.b].slot

\* No active booking but b, unless revived, has the vehicle in the interval.
Clear(v, slot, b) ==
  \A c \in Bookings : c # b /\ Active(c) /\ booking[c].vehicle = v /\ Overlap(booking[c].slot, slot)
                      => c \in revived

Checked(r) ==
  /\ r.pc = "write"
  /\ r.op = "create" \/ (r.op = "update" /\ r.decided = "YES")
  => Clear(r.v, r.slot, r.b)

KeyUnused(r) == r.op = "create" /\ r.pc \in InSchedule => request[r.key] = NoBooking

Good(r) == Shape(r) /\ Decided(r) /\ Checked(r) /\ KeyUnused(r)

IInv ==
  /\ TypeOK
  /\ \A b \in Bookings : Scheduled(b)
  /\ \A p \in Requests : Good(req[p])
  /\ Exclusive
  /\ NoClashUnlessRevived

-----------------------------------------------------------------------------
(* What a step does to the requests.                                       *)

\* A request at most loses the freshness of its copy.
SameButFresh(s, r) ==
  /\ s \in Request
  /\ s.op = r.op /\ s.pc = r.pc /\ s.b = r.b /\ s.key = r.key /\ s.v = r.v /\ s.slot = r.slot
  /\ s.to = r.to /\ s.seen = r.seen /\ s.decided = r.decided /\ s.need = r.need /\ s.held = r.held

LEMMA NoRequestValue ==
  /\ NoRequest \in Request /\ Shape(NoRequest)
  /\ NoRequest.pc = "idle" /\ NoRequest.op = "none" /\ NoRequest.held = {}
  BY DEF NoRequest, Request, Handlers, PCs, Inputs, NoPrice, Prices, Shape, PastRecord, InSchedule, Pricers

LEMMA IdleIsGood == Good(NoRequest) /\ \A s \in Request : Together(NoRequest, s) /\ Together(s, NoRequest)
  BY NoRequestValue DEF Good, Decided, Checked, KeyUnused, Together, PastRecord, InSchedule

LEMMA BecomesEffect ==
  ASSUME req \in [Requests -> Request], NEW p \in Requests, NEW r \in Request, Becomes(p, r)
  PROVE  /\ req' \in [Requests -> Request] /\ req'[p] = r
         /\ \A q \in Requests : q # p => req'[q] = req[q]
  BY DEF Becomes

\* The rows keep what the schedule depends on.
Frame ==
  /\ booking' \in [Bookings -> Booking]
  /\ \A c \in Bookings : /\ booking'[c].status = booking[c].status
                         /\ booking'[c].deletedAt = booking[c].deletedAt
                         /\ booking'[c].vehicle = booking[c].vehicle
                         /\ booking'[c].slot = booking[c].slot
                         /\ booking[c].status = "ABSENT" => booking'[c].document = booking[c].document

LEMMA FrameActive ==
  ASSUME Frame, NEW c \in Bookings
  PROVE  Active(c)' <=> Active(c)
  BY DEF Frame, Active, Found

LEMMA GoodKept ==
  ASSUME Frame, UNCHANGED <<request, revived>>, NEW r \in Request, Good(r)
  PROVE  Good(r)'
<1>1. Shape(r)' /\ KeyUnused(r)'
  BY DEF Good, Shape, KeyUnused
<1>2. Decided(r)'
  BY DEF Good, Shape, Decided, Frame
<1>3. \A v, slot, b : Clear(v, slot, b) => Clear(v, slot, b)'
  BY FrameActive DEF Frame, Clear, Overlap
<1>4. Checked(r)'
  BY <1>3 DEF Good, Checked
<1> QED BY <1>1, <1>2, <1>4 DEF Good

\* A step of one request that leaves the schedule as it is.
LEMMA QuietStep ==
  ASSUME IInv, NEW p \in Requests, NEW r \in Request, Becomes(p, r),
         Frame, UNCHANGED <<request, revived>>, Good(r),
         \A q \in Requests : q # p => Together(r, req[q])
  PROVE  IInv'
<1>1. req' \in [Requests -> Request] /\ req'[p] = r /\ \A q \in Requests : q # p => req'[q] = req[q]
  BY BecomesEffect DEF IInv, TypeOK
<1>2. TypeOK'
  BY <1>1 DEF IInv, TypeOK, Frame
<1>3. \A b \in Bookings : Scheduled(b)'
  BY DEF IInv, Scheduled, Frame
<1>4. ASSUME NEW q \in Requests PROVE Good(req[q])'
  <2>1. PICK s \in Request : s = req'[q] /\ Good(s)
    BY <1>1 DEF IInv, TypeOK
  <2>2. Good(s)'
    BY <2>1, GoodKept
  <2> QED BY <2>1, <2>2 DEF Good, Shape, Decided, Checked, KeyUnused, Clear
<1>5. Exclusive'
  <2>1. ASSUME NEW q \in Requests, q # p PROVE Together(req[q], r)
    BY <2>1 DEF Together
  <2> QED BY <1>1, <2>1 DEF IInv, Exclusive, Together
<1>6. NoClashUnlessRevived'
  BY FrameActive DEF IInv, NoClashUnlessRevived, Clash, Frame, Overlap
<1> QED BY <1>2, <1>3, <1>4, <1>5, <1>6 DEF IInv

\* A request ends.
LEMMA EndsStep ==
  ASSUME IInv, NEW p \in Requests, Ends(p), Frame, UNCHANGED <<request, revived>>
  PROVE  IInv'
<1>1. \A q \in Requests : Together(NoRequest, req[q])
  BY IdleIsGood DEF IInv, TypeOK
<1> QED BY <1>1, QuietStep, NoRequestValue, IdleIsGood DEF Ends

LEMMA NoFrame == ASSUME TypeOK, UNCHANGED booking PROVE Frame
  BY DEF TypeOK, Frame

\* Past the record lock, a request is the only one for its booking; what it holds is its own.
LEMMA SameGood ==
  ASSUME NEW r \in Request, NEW s, SameButFresh(s, r), Shape(r)
  PROVE  Shape(s)
  BY DEF SameButFresh, Shape

LEMMA SameTogether ==
  ASSUME NEW r \in Request, NEW s, NEW t, NEW u, SameButFresh(s, r), SameButFresh(u, t), Together(r, t)
  PROVE  Together(s, u)
  BY DEF SameButFresh, Together

-----------------------------------------------------------------------------
(* What a write of a booking does.                                         *)

LEMMA WritesEffect ==
  ASSUME TypeOK, NEW p \in Requests, NEW b \in Bookings, NEW x \in Booking, Writes(p, b, x)
  PROVE  /\ booking' \in [Bookings -> Booking] /\ booking'[b] = x
         /\ \A c \in Bookings : c # b => booking'[c] = booking[c]
         /\ req' \in [Requests -> Request] /\ req'[p] = NoRequest
         /\ \A q \in Requests : q # p => SameButFresh(req'[q], req[q])
         /\ revived \subseteq revived' /\ revived' \subseteq Bookings
         /\ booking[b].status \in Final /\ x.status \in ACTIVE_BOOKING_STATUSES => b \in revived'
<1>1. /\ booking' \in [Bookings -> Booking] /\ booking'[b] = x
      /\ \A c \in Bookings : c # b => booking'[c] = booking[c]
  BY DEF TypeOK, Writes
<1>2. /\ revived \subseteq revived' /\ revived' \subseteq Bookings
      /\ booking[b].status \in Final /\ x.status \in ACTIVE_BOOKING_STATUSES => b \in revived'
  BY DEF TypeOK, Writes
<1>3. ASSUME NEW r \in Request
      PROVE  SameButFresh([r EXCEPT !.fresh = "NO"], r) /\ SameButFresh(r, r)
  BY DEF Request, SameButFresh
<1>4. req'[p] = NoRequest
  BY DEF Writes
<1>5. ASSUME NEW q \in Requests, q # p
      PROVE  SameButFresh(req'[q], req[q])
  <2>1. req'[q] = [req[q] EXCEPT !.fresh = "NO"] \/ req'[q] = req[q]
    BY <1>5 DEF Writes
  <2>2. req[q] \in Request
    BY DEF TypeOK
  <2> QED BY <1>3, <2>1, <2>2
<1>6. req' \in [Requests -> Request]
  <2>1. \A q \in Requests : req'[q] \in Request
    BY <1>4, <1>5, NoRequestValue DEF SameButFresh
  <2>2. req' = [q \in Requests |-> req'[q]]
    BY DEF Writes
  <2> QED BY <2>1, <2>2
<1> QED BY <1>1, <1>2, <1>4, <1>5, <1>6

LEMMA ExclusiveKept ==
  ASSUME IInv, NEW p \in Requests, req' \in [Requests -> Request], req'[p] = NoRequest,
         \A q \in Requests : q # p => SameButFresh(req'[q], req[q])
  PROVE  Exclusive'
<1>1. SUFFICES ASSUME NEW q \in Requests, NEW s \in Requests, q # s
               PROVE  Together(req'[q], req'[s])
  BY DEF Exclusive, Together
<1>2. CASE q = p \/ s = p
  BY <1>2, IdleIsGood
<1>3. CASE q # p /\ s # p
  <2>1. Together(req[q], req[s]) /\ req[q] \in Request /\ req[s] \in Request
    BY <1>1 DEF IInv, Exclusive, TypeOK
  <2> QED BY <1>3, <2>1, SameTogether
<1> QED BY <1>2, <1>3

\* Key uses: a write leaves the other creations' keys alone.
KeysKept(p, b) ==
  \/ UNCHANGED request
  \/ /\ req[p].op = "create" /\ req[p].pc = "write"
     /\ request' = [request EXCEPT ![req[p].key] = b]

LEMMA RequestKept ==
  ASSUME IInv, NEW p \in Requests, NEW b \in Bookings, KeysKept(p, b)
  PROVE  /\ request' \in [Keys -> Bookings \cup {NoBooking}]
         /\ \A q \in Requests :
              (q # p /\ KeyUnused(req[q])) =>
                ((req[q].op = "create" /\ req[q].pc \in InSchedule) => request'[req[q].key] = NoBooking)
<1>1. request' \in [Keys -> Bookings \cup {NoBooking}]
  BY DEF IInv, TypeOK, KeysKept
<1>2. ASSUME NEW q \in Requests, q # p, KeyUnused(req[q]), req[q].op = "create", req[q].pc \in InSchedule
      PROVE  request'[req[q].key] = NoBooking
  <2>1. req[q].key \in Keys /\ request[req[q].key] = NoBooking
    BY <1>2 DEF IInv, Good, Shape, KeyUnused
  <2>2. CASE UNCHANGED request
    BY <2>1, <2>2
  <2>3. CASE req[p].op = "create" /\ req[p].pc = "write" /\ request' = [request EXCEPT ![req[p].key] = b]
    <3>1. Together(req[p], req[q]) /\ Shape(req[p])
      BY <1>2 DEF IInv, Exclusive, Good
    <3>2. req[p].key # req[q].key
      BY <1>2, <2>1, <2>3, <3>1, NoneAssumption DEF Together, InSchedule, Shape
    <3> QED BY <2>1, <2>3, <3>2 DEF IInv, TypeOK
  <2> QED BY <2>2, <2>3 DEF KeysKept
<1> QED BY <1>1, <1>2

\* A write that gives the booking no vehicle or dates it did not have.
LEMMA WriteStep ==
  ASSUME IInv, NEW p \in Requests, NEW b \in Bookings, NEW x \in Booking, Writes(p, b, x),
         UNCHANGED request, booking[b].status # "ABSENT", x.status # "ABSENT",
         x.vehicle = booking[b].vehicle, x.slot = booking[b].slot,
         x.deletedAt = "NULL" => booking[b].deletedAt = "NULL"
  PROVE  IInv'
<1>1. /\ booking' \in [Bookings -> Booking] /\ booking'[b] = x
      /\ \A c \in Bookings : c # b => booking'[c] = booking[c]
      /\ req' \in [Requests -> Request] /\ req'[p] = NoRequest
      /\ \A q \in Requests : q # p => SameButFresh(req'[q], req[q])
      /\ revived \subseteq revived' /\ revived' \subseteq Bookings
      /\ booking[b].status \in Final /\ x.status \in ACTIVE_BOOKING_STATUSES => b \in revived'
  BY WritesEffect DEF IInv
<1>2. /\ \A c \in Bookings : /\ booking'[c].vehicle = booking[c].vehicle
                             /\ booking'[c].slot = booking[c].slot
                             /\ booking'[c].status = "ABSENT" <=> booking[c].status = "ABSENT"
      /\ \A c \in Bookings : Active(c)' => Active(c) \/ c \in revived'
  <2>1. booking[b].status \in Statuses
    BY DEF IInv, TypeOK, Booking
  <2> QED BY <1>1, <2>1 DEF Active, Found, Statuses
<1>3. TypeOK'
  BY <1>1 DEF IInv, TypeOK
<1>4. \A c \in Bookings : Scheduled(c)'
  BY <1>1, <1>2 DEF IInv, Scheduled
<1>5. ASSUME NEW q \in Requests PROVE Good(req[q])'
  <2>1. CASE q = p
    BY <1>1, <2>1, NoRequestValue DEF Good, Shape, Decided, Checked, KeyUnused, InSchedule
  <2>2. CASE q # p
    <3>1. SameButFresh(req'[q], req[q]) /\ Good(req[q]) /\ req[q] \in Request
      BY <1>1, <2>2 DEF IInv, TypeOK
    <3>2. Shape(req'[q])
      BY <3>1, SameGood DEF Good
    <3>3. Decided(req[q])'
      BY <1>2, <3>1 DEF Good, Shape, Decided, SameButFresh
    <3>4. KeyUnused(req[q])'
      BY <3>1 DEF Good, KeyUnused, SameButFresh
    <3>5. \A v, slot, d : Clear(v, slot, d) => Clear(v, slot, d)'
      BY <1>1, <1>2 DEF Clear, Overlap
    <3>6. Checked(req[q])'
      BY <3>1, <3>5 DEF Good, Checked, SameButFresh
    <3> QED BY <3>2, <3>3, <3>4, <3>6 DEF Good, Shape
  <2> QED BY <2>1, <2>2
<1>6. Exclusive'
  BY <1>1, ExclusiveKept
<1>7. NoClashUnlessRevived'
  BY <1>1, <1>2 DEF IInv, NoClashUnlessRevived, Clash, Overlap
<1> QED BY <1>3, <1>4, <1>5, <1>6, <1>7 DEF IInv

\* A write that gives the booking a vehicle and dates under the schedule lock of the vehicle.
LEMMA PlaceStep ==
  ASSUME IInv, NEW p \in Requests, NEW b \in Bookings, NEW x \in Booking, Writes(p, b, x),
         KeysKept(p, b), x.status # "ABSENT", x.vehicle \in req[p].held, x.slot \in Slots,
         Clear(x.vehicle, x.slot, b),
         booking[b].status = "ABSENT" \/ (/\ req[p].b = b /\ req[p].pc = "write"
                                          /\ x.status = booking[b].status)
  PROVE  IInv'
<1>1. /\ booking' \in [Bookings -> Booking] /\ booking'[b] = x
      /\ \A c \in Bookings : c # b => booking'[c] = booking[c]
      /\ req' \in [Requests -> Request] /\ req'[p] = NoRequest
      /\ \A q \in Requests : q # p => SameButFresh(req'[q], req[q])
      /\ revived \subseteq revived' /\ revived' \subseteq Bookings
  BY WritesEffect DEF IInv
<1>2. x.vehicle \in Vehicles
  BY DEF IInv, TypeOK, Request
<1>3. \A c \in Bookings : c # b => (Active(c)' <=> Active(c))
  BY <1>1 DEF Active, Found
<1>4. TypeOK'
  BY <1>1, RequestKept DEF IInv, TypeOK
<1>5. \A c \in Bookings : Scheduled(c)'
  BY <1>1, <1>2 DEF IInv, Scheduled
<1>6. ASSUME NEW q \in Requests PROVE Good(req[q])'
  <2>1. CASE q = p
    BY <1>1, <2>1, NoRequestValue DEF Good, Shape, Decided, Checked, KeyUnused, InSchedule
  <2>2. CASE q # p
    <3>1. SameButFresh(req'[q], req[q]) /\ Good(req[q]) /\ req[q] \in Request /\ Together(req[p], req[q])
      BY <1>1, <2>2 DEF IInv, TypeOK, Exclusive
    <3>2. Shape(req'[q])
      BY <3>1, SameGood DEF Good
    <3>3. Decided(req[q])'
      <4>1. ASSUME req[q].op = "update", req[q].pc \in InSchedule
            PROVE  req[q].b \in Bookings /\ req[q].b # b
        BY <3>1, <4>1, NoneAssumption DEF Good, Shape, Decided, Together, PastRecord, InSchedule
      <4>2. ASSUME req[q].pc \in {"blind", "document"}
            PROVE  req[q].b \in Bookings /\ booking'[req[q].b].status # "ABSENT"
        BY <1>1, <3>1, <4>2 DEF Good, Shape, Decided
      <4> QED BY <1>1, <3>1, <4>1, <4>2 DEF Good, Decided, SameButFresh
    <3>4. KeyUnused(req[q])'
      <4>1. KeyUnused(req[q])
        BY <3>1 DEF Good
      <4> QED BY <2>2, <3>1, <4>1, RequestKept DEF KeyUnused, SameButFresh
    <3>5. ASSUME req[q].pc = "write", req[q].op \in {"create", "update"}
          PROVE  req[q].v # x.vehicle
      BY <3>1, <3>5 DEF Good, Shape, Together, InSchedule
    <3>6. ASSUME NEW v, v # x.vehicle, NEW slot, NEW d, Clear(v, slot, d)
          PROVE  Clear(v, slot, d)'
      BY <1>1, <1>3, <3>6 DEF Clear, Overlap
    <3>7. Checked(req[q])'
      BY <3>1, <3>5, <3>6 DEF Good, Checked, SameButFresh
    <3> QED BY <3>2, <3>3, <3>4, <3>7 DEF Good, Shape
  <2> QED BY <2>1, <2>2
<1>7. Exclusive'
  BY <1>1, ExclusiveKept
<1>8. NoClashUnlessRevived'
  <2>1. ASSUME NEW c \in Bookings, NEW d \in Bookings, Clash(c, d)'
        PROVE  c \in revived' \/ d \in revived'
    <3>1. CASE c # b /\ d # b
      <4>1. Clash(c, d)
        BY <1>1, <1>3, <2>1, <3>1 DEF Clash, Overlap
      <4> QED BY <1>1, <4>1 DEF IInv, NoClashUnlessRevived
    <3>2. CASE c = b /\ d # b
      BY <1>1, <1>3, <2>1, <3>2 DEF Clash, Clear, Overlap
    <3>3. CASE d = b /\ c # b
      BY <1>1, <1>3, <2>1, <3>3 DEF Clash, Clear, Overlap
    <3> QED BY <2>1, <3>1, <3>2, <3>3 DEF Clash
  <2> QED BY <2>1 DEF NoClashUnlessRevived
<1> QED BY <1>4, <1>5, <1>6, <1>7, <1>8 DEF IInv

-----------------------------------------------------------------------------
(* One lemma per action.                                                   *)

\* A request starts: it holds no lock yet.
LEMMA StartStep ==
  ASSUME IInv, NEW p \in Requests, NEW r \in Request, Becomes(p, r),
         UNCHANGED <<booking, request, revived>>, Shape(r),
         r.pc \in {"key", "record", "document", "blind"}, r.held = {},
         r.pc \in {"blind", "document"} => booking[r.b].status # "ABSENT"
  PROVE  IInv'
<1>1. Good(r)
  BY DEF Good, Decided, Checked, KeyUnused, InSchedule
<1>2. \A q \in Requests : Together(r, req[q])
  BY DEF Together, PastRecord, InSchedule
<1> QED BY <1>1, <1>2, QuietStep, NoFrame DEF IInv

LEMMA createStep ==
  ASSUME IInv, NEW p \in Requests, NEW k \in Keys, NEW v \in Vehicles, NEW slot \in Slots,
         NEW to \in Contracts \cup {"GENERATE"}, create(p, k, v, slot, to)
  PROVE  IInv'
<1> DEFINE r == [NoRequest EXCEPT !.op = "create", !.pc = "key", !.key = k, !.v = v,
                                  !.slot = slot, !.to = to]
<1>1. r \in Request /\ r.pc = "key" /\ r.held = {} /\ Shape(r)
  BY DEF NoRequest, Request, Handlers, PCs, Inputs, NoPrice, Prices, Shape, PastRecord, InSchedule, Pricers
<1>2. Becomes(p, r) /\ UNCHANGED <<booking, request, revived>>
  BY DEF create
<1> QED BY <1>1, <1>2, StartStep

LEMMA updateStep ==
  ASSUME IInv, NEW p \in Requests, NEW b \in Bookings, NEW v \in Vehicles \cup {NoVehicle},
         NEW slot \in Slots \cup {NoSlot}, NEW to \in Inputs, update(p, b, v, slot, to)
  PROVE  IInv'
<1> DEFINE r == [NoRequest EXCEPT !.op = "update", !.pc = "record", !.b = b, !.v = v,
                                  !.slot = slot, !.to = to]
<1>1. /\ r \in Request /\ r.pc = "record" /\ r.held = {}
      /\ r.op = "update" /\ r.b = b /\ r.key = NoKey
  BY DEF NoRequest, Request, Handlers, PCs, Inputs, NoPrice, Prices
<1>2. Shape(r)
  BY <1>1 DEF Shape, PastRecord, InSchedule, Pricers
<1>3. Becomes(p, r) /\ UNCHANGED <<booking, request, revived>>
  BY DEF update
<1> QED BY <1>1, <1>2, <1>3, StartStep

LEMMA PriceFields ==
  ASSUME IInv, NEW b \in Bookings, Found(b), NEW t \in Terms
  PROVE  <<booking[b].slot, t>> \in Prices /\ booking[b].vehicle \in Vehicles
  BY DEF IInv, Found, Scheduled, Prices

LEMMA transitionStep ==
  ASSUME IInv, NEW p \in Requests, NEW b \in Bookings, NEW to \in Statuses, transition(p, b, to)
  PROVE  IInv'
<1> DEFINE r == [NoRequest EXCEPT !.op = "transition", !.pc = "record", !.b = b, !.to = to,
                                  !.seen = booking[b].vehicle, !.fresh = "YES",
                                  !.price = Quote(booking[b], to)]
<1>1. Found(b) /\ Becomes(p, r) /\ UNCHANGED <<booking, request, revived>>
  BY DEF transition
<1>2. booking[b].vehicle \in Vehicles /\ Quote(booking[b], to) \in Prices
  <2>1. booking[b].vehicle \in Vehicles /\ booking[b].slot \in Slots
    BY <1>1 DEF IInv, Found, Scheduled
  <2>2. booking[b].terms \in Terms \cup {NoTerms}
    BY DEF IInv, TypeOK, Booking
  <2> QED BY <2>1, <2>2 DEF Quote, Prices
<1>3. r \in Request /\ r.pc = "record" /\ r.held = {} /\ Shape(r)
  BY <1>2 DEF NoRequest, Request, Handlers, PCs, Inputs, Shape, PastRecord, InSchedule, Pricers
<1> QED BY <1>1, <1>3, StartStep

LEMMA updatePricingStep ==
  ASSUME IInv, NEW p \in Requests, NEW b \in Bookings, NEW terms \in Terms \cup {NoTerms},
         updatePricing(p, b, terms)
  PROVE  IInv'
<1> DEFINE price == IF terms = NoTerms THEN NoPrice ELSE <<booking[b].slot, terms>>
           r == [NoRequest EXCEPT !.op = "updatePricing", !.pc = "record", !.b = b,
                                  !.seen = booking[b].vehicle, !.fresh = "YES", !.terms = terms,
                                  !.price = price]
<1>1. Found(b) /\ Becomes(p, r) /\ UNCHANGED <<booking, request, revived>>
  BY DEF updatePricing
<1>2. booking[b].vehicle \in Vehicles /\ price \in Prices
  BY <1>1 DEF IInv, Found, Scheduled, Prices
<1>3. r \in Request /\ r.pc = "record" /\ r.held = {} /\ Shape(r)
  BY <1>2 DEF NoRequest, Request, Handlers, PCs, Inputs, Shape, PastRecord, InSchedule, Pricers
<1> QED BY <1>1, <1>3, StartStep

\* setContract, setCargosStatus, markContractSigned, generateContract, remove.
LEMMA ReadsStep ==
  ASSUME IInv, NEW p \in Requests, NEW b \in Bookings, booking[b].status # "ABSENT",
         NEW op \in Handlers \ ({"create", "update"} \cup Pricers), NEW to \in Inputs, NEW promote,
         Reads(p, op, b, to, promote)
  PROVE  IInv'
<1> DEFINE d == IF promote THEN "YES" ELSE "NO"
           n == IF op = "generateContract" THEN "document" ELSE "blind"
           r == [NoRequest EXCEPT !.op = op, !.b = b, !.to = to, !.decided = d, !.pc = n]
<1>1. d \in {"NO", "YES"} /\ n \in {"document", "blind"}
  OBVIOUS
<1>2. Becomes(p, r) /\ UNCHANGED <<booking, request, revived>>
  BY DEF Reads
<1> HIDE DEF d, n
<1>3. /\ r \in Request /\ r.pc \in {"document", "blind"} /\ r.held = {} /\ r.b = b
      /\ r.op = op /\ r.key = NoKey
  <2>1. r.pc = n /\ r.held = {} /\ r.b = b /\ r.op = op /\ r.key = NoKey
    BY DEF NoRequest
  <2>2. op \in Handlers \cup {"none"} /\ n \in PCs /\ d \in {"NO", "YES"}
    BY <1>1 DEF PCs
  <2>3. r \in Request
    BY <2>2 DEF NoRequest, Request, NoPrice, Prices
  <2> QED BY <1>1, <2>1, <2>3
<1>4. Shape(r)
  BY <1>3 DEF Handlers, Shape, PastRecord, InSchedule, Pricers
<1> QED BY <1>2, <1>3, <1>4, StartStep

LEMMA BlindStarts ==
  ASSUME IInv, NEW p \in Requests, NEW b \in Bookings, NEW to \in Inputs,
         \/ setContract(p, b, to) \/ setCargosStatus(p, b, to)
         \/ markContractSigned(p, b) \/ generateContract(p, b) \/ remove(p, b)
  PROVE  IInv'
<1>1. booking[b].document \in {"NONE", "SET"} /\ Scheduled(b)
  BY DEF IInv, TypeOK, Booking
<1>2. /\ {"SIGNED", "READY", "KEEP"} \subseteq Inputs
      /\ {"setContract", "setCargosStatus", "markContractSigned", "generateContract", "remove"}
           \subseteq Handlers \ ({"create", "update"} \cup Pricers)
  BY DEF Inputs, Contracts, Handlers, Pricers
<1>3. CASE setContract(p, b, to)
  BY <1>2, <1>3, ReadsStep DEF setContract, Found
<1>4. CASE setCargosStatus(p, b, to)
  BY <1>2, <1>4, ReadsStep DEF setCargosStatus, Found
<1>5. CASE markContractSigned(p, b)
  BY <1>1, <1>2, <1>5, ReadsStep DEF markContractSigned, Scheduled
<1>6. CASE generateContract(p, b)
  BY <1>2, <1>6, ReadsStep DEF generateContract, Found
<1>7. CASE remove(p, b)
  BY <1>2, <1>7, ReadsStep DEF remove, Found
<1> QED BY <1>3, <1>4, <1>5, <1>6, <1>7

LEMMA LockKeyStep ==
  ASSUME IInv, NEW p \in Requests, LockKey(p)
  PROVE  IInv'
<1>1. /\ req[p] \in Request /\ Good(req[p]) /\ req[p].pc = "key" /\ KeyFree(req[p].key)
      /\ UNCHANGED <<booking, request, revived>>
  BY DEF IInv, TypeOK, LockKey
<1>2. req[p].op = "create"
  BY <1>1 DEF Good, Shape, PastRecord, Pricers
<1>3. CASE request[req[p].key] # NoBooking
  BY <1>1, <1>3, EndsStep, NoFrame DEF LockKey, IInv
<1>4. CASE request[req[p].key] = NoBooking
  <2> DEFINE r == [req[p] EXCEPT !.pc = "schedule", !.need = {req[p].v}]
  <2>1. req[p].v \in Vehicles
    BY <1>1, <1>2 DEF Good, Shape
  <2>2. r \in Request
    BY <1>1, <2>1 DEF Request, PCs
  <2>3. /\ r.pc = "schedule" /\ r.need = {req[p].v} /\ r.held = req[p].held /\ r.b = req[p].b
        /\ r.op = "create" /\ r.key = req[p].key /\ r.v = req[p].v /\ r.slot = req[p].slot /\ r.to = req[p].to
    BY <1>1, <1>2 DEF Request
  <2>4. Becomes(p, r)
    BY <1>4 DEF LockKey
  <2> HIDE DEF r
  <2>5. Good(r)
    BY <1>1, <1>2, <1>4, <2>1, <2>3
    DEF Good, Shape, Decided, Checked, KeyUnused, PastRecord, InSchedule, Pricers
  <2>6. ASSUME NEW q \in Requests, q # p
        PROVE  Together(r, req[q])
    <3>1. Together(req[p], req[q])
      BY <2>6 DEF IInv, Exclusive
    <3>2. ~(req[q].key = r.key /\ req[q].pc \in InSchedule)
      BY <1>1, <2>3 DEF KeyFree, InSchedule
    <3>3. r.b = NoBooking
      BY <1>1, <1>2, <2>3 DEF Good, Shape
    <3> QED BY <2>3, <3>1, <3>2, <3>3 DEF Together
  <2> QED BY <1>1, <2>2, <2>4, <2>5, <2>6, QuietStep, NoFrame DEF IInv
<1> QED BY <1>3, <1>4

\* Taking the record lock: no other request is past it for this booking.
LEMMA RecordLocked ==
  ASSUME IInv, NEW p \in Requests, req[p].pc = "record", RecordFree(req[p].b),
         NEW r, r.held = req[p].held, r.b = req[p].b, r.key = req[p].key,
         NEW q \in Requests, q # p
  PROVE  Together(r, req[q])
<1>1. Together(req[p], req[q]) /\ Shape(req[p])
  BY DEF IInv, Exclusive, Good
<1>2. ~(req[q].b = r.b /\ req[q].pc \in PastRecord)
  BY DEF RecordFree, PastRecord
<1>3. r.key = NoKey
  BY <1>1 DEF Shape
<1> QED BY <1>1, <1>2, <1>3 DEF Together

LEMMA LockRecordStep ==
  ASSUME IInv, NEW p \in Requests, LockRecord(p)
  PROVE  IInv'
<1> DEFINE b == req[p].b
           v == IF req[p].v = NoVehicle THEN booking[b].vehicle ELSE req[p].v
           slot == IF req[p].slot = NoSlot THEN booking[b].slot ELSE req[p].slot
           d == IF <<v, slot>> # <<booking[b].vehicle, booking[b].slot>> THEN "YES" ELSE "NO"
<1>1. /\ req[p] \in Request /\ Good(req[p]) /\ req[p].pc = "record" /\ RecordFree(b)
      /\ UNCHANGED <<booking, request, revived>>
  BY DEF IInv, TypeOK, LockRecord
<1>2. req[p].op \in {"update"} \cup Pricers /\ b \in Bookings /\ req[p].key = NoKey
  BY <1>1 DEF Good, Shape, Pricers
<1>3. CASE req[p].op # "update"
  <2> DEFINE r == [req[p] EXCEPT !.pc = "schedule", !.need = {req[p].seen}]
  <2>1. req[p].seen \in Vehicles
    BY <1>1, <1>2, <1>3 DEF Good, Shape
  <2>2. r \in Request
    BY <1>1, <2>1 DEF Request, PCs
  <2>3. /\ r.pc = "schedule" /\ r.held = req[p].held /\ r.b = b /\ r.op = req[p].op
        /\ r.key = req[p].key /\ r.seen = req[p].seen /\ r.to = req[p].to
    BY <1>1 DEF Request
  <2>4. Becomes(p, r)
    BY <1>3 DEF LockRecord
  <2> HIDE DEF r
  <2>5. Good(r)
    BY <1>1, <1>2, <1>3, <2>3
    DEF Good, Shape, Decided, Checked, KeyUnused, PastRecord, InSchedule, Pricers
  <2>6. \A q \in Requests : q # p => Together(r, req[q])
    BY <1>1, <2>3, RecordLocked
  <2> QED BY <1>1, <2>2, <2>4, <2>5, <2>6, QuietStep, NoFrame DEF IInv
<1>4. CASE req[p].op = "update" /\ ~Found(b)
  BY <1>1, <1>4, EndsStep, NoFrame DEF LockRecord, IInv
<1>5. CASE req[p].op = "update" /\ Found(b)
  <2> DEFINE r == [req[p] EXCEPT !.pc = "schedule", !.need = {booking[b].vehicle, v},
                                 !.v = v, !.slot = slot, !.seen = booking[b].vehicle, !.decided = d]
  <2>1. booking[b].vehicle \in Vehicles /\ booking[b].slot \in Slots /\ booking[b].status # "ABSENT"
    BY <1>2, <1>5 DEF IInv, Found, Scheduled
  <2>2. v \in Vehicles /\ slot \in Slots /\ d \in {"NO", "YES"}
    BY <1>1, <2>1 DEF Request
  <2>3. Becomes(p, r)
    BY <1>5 DEF LockRecord
  <2>4. d = "NO" => v = booking[b].vehicle /\ slot = booking[b].slot
    OBVIOUS
  <2> HIDE DEF v, slot, d
  <2>5. r \in Request
    BY <1>1, <2>1, <2>2 DEF Request, PCs
  <2>6. /\ r.pc = "schedule" /\ r.held = req[p].held /\ r.b = b /\ r.op = "update"
        /\ r.key = req[p].key /\ r.v = v /\ r.slot = slot /\ r.decided = d
        /\ r.need = {booking[b].vehicle, v}
    BY <1>1, <1>5 DEF Request
  <2> HIDE DEF r
  <2>7. Good(r)
    <3>1. Shape(r)
      BY <1>2, <2>2, <2>6 DEF Shape, PastRecord, InSchedule, Pricers
    <3> QED BY <2>1, <2>4, <2>6, <3>1 DEF Good, Decided, Checked, KeyUnused
  <2>8. \A q \in Requests : q # p => Together(r, req[q])
    BY <1>1, <2>6, RecordLocked
  <2> QED BY <1>1, <2>3, <2>5, <2>7, <2>8, QuietStep, NoFrame DEF IInv
<1> QED BY <1>3, <1>4, <1>5

LEMMA LockScheduleStep ==
  ASSUME IInv, NEW p \in Requests, NEW v \in Vehicles, LockSchedule(p, v)
  PROVE  IInv'
<1> DEFINE pc == IF req[p].need # {v} THEN "schedule"
                 ELSE IF req[p].op \in {"create", "update"} THEN "check" ELSE "commit"
           r == [req[p] EXCEPT !.need = req[p].need \ {v}, !.held = req[p].held \cup {v}, !.pc = pc]
<1>1. /\ req[p] \in Request /\ Good(req[p]) /\ req[p].pc = "schedule" /\ v \in req[p].need
      /\ ScheduleFree(v) /\ Becomes(p, r) /\ UNCHANGED <<booking, request, revived>>
  BY DEF IInv, TypeOK, LockSchedule, NextLock
<1>2. /\ pc \in {"schedule", "check", "commit"}
      /\ pc = "check" => req[p].op \in {"create", "update"} /\ req[p].need = {v}
      /\ pc = "commit" => req[p].op \notin {"create", "update"}
  OBVIOUS
<1> HIDE DEF pc
<1>3. r \in Request
  BY <1>1, <1>2 DEF Request, PCs
<1>4. /\ r.pc = pc /\ r.need = req[p].need \ {v} /\ r.held = req[p].held \cup {v}
      /\ r.op = req[p].op /\ r.b = req[p].b /\ r.key = req[p].key /\ r.v = req[p].v
      /\ r.slot = req[p].slot /\ r.to = req[p].to /\ r.seen = req[p].seen /\ r.decided = req[p].decided
  BY <1>1 DEF Request
<1> HIDE DEF r
<1>5. Shape(r)
  <2>1. Shape(req[p]) /\ req[p].op \in {"create", "update"} \cup Pricers
    BY <1>1 DEF Good, Shape, PastRecord
  <2>2. r.pc = "check" => r.need = {}
    BY <1>2, <1>4
  <2> QED BY <1>1, <1>2, <1>4, <2>1, <2>2 DEF Shape, PastRecord, InSchedule, Pricers
<1>6. Good(r)
  BY <1>1, <1>2, <1>4, <1>5 DEF Good, Decided, Checked, KeyUnused, InSchedule
<1>7. ASSUME NEW q \in Requests, q # p
      PROVE  Together(r, req[q])
  <2>1. Together(req[p], req[q])
    BY <1>7 DEF IInv, Exclusive
  <2>2. v \notin req[q].held
    BY <1>1 DEF ScheduleFree
  <2> QED BY <1>1, <1>2, <1>4, <2>1, <2>2 DEF Together, PastRecord, InSchedule
<1> QED BY <1>1, <1>3, <1>6, <1>7, QuietStep, NoFrame DEF IInv

LEMMA FailsStep ==
  ASSUME IInv, NEW p \in Requests, Fails(p) \/ Refused(p)
  PROVE  IInv'
  BY EndsStep, NoFrame DEF Fails, Refused, IInv

\* The availability check: what it found is in force when the request goes on to write.
LEMMA CheckedStep ==
  ASSUME IInv, NEW p \in Requests, req[p].pc = "check",
         Becomes(p, [req[p] EXCEPT !.pc = "write"]), UNCHANGED <<booking, request, revived>>,
         req[p].op = "create" \/ (req[p].op = "update" /\ req[p].decided = "YES")
           => Clear(req[p].v, req[p].slot, req[p].b)
  PROVE  IInv'
<1> DEFINE r == [req[p] EXCEPT !.pc = "write"]
<1>1. req[p] \in Request /\ Good(req[p])
  BY DEF IInv, TypeOK
<1>2. r \in Request
  BY <1>1 DEF Request, PCs
<1>3. /\ r.pc = "write" /\ r.need = req[p].need /\ r.held = req[p].held
      /\ r.op = req[p].op /\ r.b = req[p].b /\ r.key = req[p].key /\ r.v = req[p].v
      /\ r.slot = req[p].slot /\ r.to = req[p].to /\ r.seen = req[p].seen /\ r.decided = req[p].decided
  BY <1>1 DEF Request
<1>4. Becomes(p, r)
  OBVIOUS
<1> HIDE DEF r
<1>5. Shape(r)
  BY <1>1, <1>3 DEF Good, Shape, PastRecord, InSchedule, Pricers
<1>6. Good(r)
  BY <1>1, <1>3, <1>5 DEF Good, Decided, Checked, KeyUnused, InSchedule
<1>7. \A q \in Requests : q # p => Together(r, req[q])
  BY <1>3 DEF IInv, Exclusive, Together, PastRecord, InSchedule
<1> QED BY <1>2, <1>4, <1>6, <1>7, QuietStep, NoFrame DEF IInv

LEMMA AvailableIsClear ==
  ASSUME NEW v, NEW slot, NEW b, Available(v, slot, b)
  PROVE  Clear(v, slot, b)
  BY DEF Available, Clear

LEMMA CheckSteps ==
  ASSUME IInv, NEW p \in Requests, CheckCreate(p) \/ CheckUpdate(p)
  PROVE  IInv'
<1>1. CASE CheckCreate(p)
  <2>1. req[p].b = NoBooking
    BY <1>1 DEF CheckCreate, IInv, Good, Shape
  <2>2. CASE Available(req[p].v, req[p].slot, NoBooking)
    BY <1>1, <2>1, <2>2, CheckedStep, AvailableIsClear DEF CheckCreate
  <2>3. CASE ~Available(req[p].v, req[p].slot, NoBooking)
    BY <1>1, <2>3, EndsStep, NoFrame DEF CheckCreate, IInv
  <2> QED BY <2>2, <2>3
<1>2. CASE CheckUpdate(p)
  <2> DEFINE ok == /\ Found(req[p].b) /\ booking[req[p].b].vehicle = req[p].seen
                   /\ req[p].decided = "YES" => Available(req[p].v, req[p].slot, req[p].b)
  <2>1. CASE ok
    BY <1>2, <2>1, CheckedStep, AvailableIsClear DEF CheckUpdate
  <2>2. CASE ~ok
    BY <1>2, <2>2, EndsStep, NoFrame DEF CheckUpdate, IInv
  <2> QED BY <2>1, <2>2
<1> QED BY <1>1, <1>2

LEMMA InsertStep ==
  ASSUME IInv, NEW p \in Requests, NEW b \in Bookings, NEW cargos \in Cargos,
         NEW km \in SUBSET Readings, Insert(p, b, cargos, km)
  PROVE  IInv'
<1> DEFINE contract == IF req[p].to = "GENERATE" THEN "READY" ELSE req[p].to
           document == IF req[p].to = "GENERATE" THEN "SET" ELSE "NONE"
           x == [AbsentBooking EXCEPT !.status = "DRAFT", !.vehicle = req[p].v, !.slot = req[p].slot,
                                      !.contract = contract, !.document = document,
                                      !.cargos = cargos, !.km = km]
<1>1. /\ req[p].pc = "write" /\ req[p].op = "create" /\ booking[b].status = "ABSENT"
      /\ Writes(p, b, x) /\ request' = [request EXCEPT ![req[p].key] = b]
  BY DEF Insert
<1>2. /\ req[p].v \in req[p].held /\ req[p].v \in Vehicles /\ req[p].slot \in Slots
      /\ req[p].b = NoBooking /\ req[p].to \in Contracts \cup {"GENERATE"}
      /\ Clear(req[p].v, req[p].slot, NoBooking)
  BY <1>1 DEF IInv, Good, Shape, Checked, InSchedule
<1>3. contract \in Contracts /\ document \in {"NONE", "SET"}
  BY <1>2 DEF Contracts
<1> HIDE DEF contract, document
<1>4. x \in Booking
  BY <1>2, <1>3 DEF AbsentBooking, Booking, Statuses, ACTIVE_BOOKING_STATUSES, NoPrice, Prices
<1>5. x.status = "DRAFT" /\ x.vehicle = req[p].v /\ x.slot = req[p].slot
  BY DEF AbsentBooking
<1>6. KeysKept(p, b)
  BY <1>1 DEF KeysKept
<1>7. Clear(req[p].v, req[p].slot, b)
  BY <1>2, NoneAssumption DEF Clear
<1> HIDE DEF x
<1> QED BY <1>1, <1>2, <1>4, <1>5, <1>6, <1>7, PlaceStep

LEMMA EditedValue ==
  ASSUME NEW x \in Booking, NEW to \in Inputs
  PROVE  /\ Edited(x, to) \in Booking
         /\ Edited(x, to).status = x.status /\ Edited(x, to).deletedAt = x.deletedAt
         /\ Edited(x, to).vehicle = x.vehicle /\ Edited(x, to).slot = x.slot
<1> DEFINE c == IF to \in Contracts THEN to ELSE x.contract
           s == IF to = "SIGNED" THEN "SET" ELSE IF to \in Contracts THEN "NULL" ELSE x.signedAt
           g == IF to \in Cargos THEN to ELSE x.cargos
           k == IF to \in Readings THEN x.km \cup {to} ELSE IF to = "NO_KM" THEN {} ELSE x.km
           t == IF to = "TOTAL" THEN NoPrice ELSE x.total
<1>1. Edited(x, to) = [x EXCEPT !.contract = c, !.signedAt = s, !.cargos = g, !.km = k, !.total = t]
  BY DEF Edited
<1>2. c \in Contracts /\ s \in {"NULL", "SET"} /\ g \in Cargos
  BY DEF Booking
<1>3. k \in SUBSET Readings
  BY DEF Booking
<1>4. t \in Prices
  BY DEF Booking, Prices
<1> HIDE DEF c, s, g, k, t
<1> QED BY <1>1, <1>2, <1>3, <1>4 DEF Booking

LEMMA CommitUpdateStep ==
  ASSUME IInv, NEW p \in Requests, CommitUpdate(p)
  PROVE  IInv'
<1> DEFINE b == req[p].b
           e == Edited(booking[b], req[p].to)
           x == [e EXCEPT !.vehicle = req[p].v, !.slot = req[p].slot]
<1>1. req[p].pc = "write" /\ req[p].op = "update" /\ Writes(p, b, x) /\ UNCHANGED request
  BY DEF CommitUpdate
<1>2. Good(req[p]) /\ req[p] \in Request
  BY DEF IInv, TypeOK
<1>3. /\ b \in Bookings /\ req[p].v \in req[p].held /\ req[p].v \in Vehicles /\ req[p].slot \in Slots
      /\ booking[b].status # "ABSENT"
      /\ req[p].decided = "NO" => req[p].v = booking[b].vehicle /\ req[p].slot = booking[b].slot
      /\ req[p].decided = "YES" => Clear(req[p].v, req[p].slot, b)
  BY <1>1, <1>2 DEF Good, Shape, Decided, Checked, InSchedule
<1>4. req[p].decided \in {"NO", "YES"} /\ req[p].to \in Inputs
  BY <1>2 DEF Request
<1>5. booking[b] \in Booking
  BY <1>3 DEF IInv, TypeOK
<1>6. e \in Booking /\ e.status = booking[b].status /\ e.deletedAt = booking[b].deletedAt
  BY <1>4, <1>5, EditedValue
<1> HIDE DEF e
<1>7. /\ x \in Booking /\ x.status = booking[b].status /\ x.deletedAt = booking[b].deletedAt
      /\ x.vehicle = req[p].v /\ x.slot = req[p].slot
  BY <1>3, <1>6 DEF Booking
<1> HIDE DEF x
<1>8. CASE req[p].decided = "NO"
  BY <1>1, <1>3, <1>7, <1>8, WriteStep
<1>9. CASE req[p].decided = "YES"
  BY <1>1, <1>3, <1>7, <1>9, PlaceStep DEF KeysKept
<1> QED BY <1>4, <1>8, <1>9

\* A write after Unchanged, or by id, that keeps vehicle and dates.
LEMMA CommitTransitionStep ==
  ASSUME IInv, NEW p \in Requests, CommitTransition(p)
  PROVE  IInv'
<1> DEFINE b == req[p].b
           y == booking[b]
           c == IF req[p].to = "CONTRACT_SIGNED" THEN "SIGNED" ELSE y.contract
           s == IF req[p].to = "CONTRACT_SIGNED" THEN "SET" ELSE y.signedAt
           t == IF req[p].price[2] # NoTerms THEN req[p].price ELSE y.total
           x == [y EXCEPT !.status = req[p].to, !.contract = c, !.signedAt = s, !.total = t]
<1>1. req[p].op = "transition" /\ Unchanged(p) /\ Writes(p, b, x) /\ UNCHANGED request
  BY DEF CommitTransition
<1>2. Good(req[p]) /\ req[p] \in Request
  BY DEF IInv, TypeOK
<1>3. b \in Bookings /\ req[p].to \in Statuses /\ req[p].price \in Prices
  BY <1>1, <1>2 DEF Good, Shape, Request
<1>4. y \in Booking /\ y.status # "ABSENT"
  BY <1>1, <1>3 DEF IInv, TypeOK, Unchanged, Found
<1>5. c \in Contracts /\ s \in {"NULL", "SET"} /\ t \in Prices
  BY <1>3, <1>4 DEF Booking, Contracts
<1> HIDE DEF c, s, t
<1>6. /\ x \in Booking /\ x.status = req[p].to /\ x.deletedAt = y.deletedAt
      /\ x.vehicle = y.vehicle /\ x.slot = y.slot
  BY <1>3, <1>4, <1>5 DEF Booking
<1>7. "ABSENT" \notin Statuses
  BY DEF Statuses, ACTIVE_BOOKING_STATUSES, Final
<1> HIDE DEF x
<1> QED BY <1>1, <1>3, <1>4, <1>6, <1>7, WriteStep

LEMMA CommitPricingStep ==
  ASSUME IInv, NEW p \in Requests, NEW actualKm, CommitPricing(p, actualKm)
  PROVE  IInv'
<1> DEFINE b == req[p].b
           y == booking[b]
           t == IF actualKm = "KNOWN" THEN req[p].price ELSE y.total
           x == [y EXCEPT !.terms = req[p].terms, !.total = t]
<1>1. req[p].op = "updatePricing" /\ Unchanged(p) /\ Writes(p, b, x) /\ UNCHANGED request
  BY DEF CommitPricing
<1>2. Good(req[p]) /\ req[p] \in Request
  BY DEF IInv, TypeOK
<1>3. b \in Bookings /\ req[p].terms \in Terms \cup {NoTerms} /\ req[p].price \in Prices
  BY <1>1, <1>2 DEF Good, Shape, Request
<1>4. y \in Booking /\ y.status # "ABSENT"
  BY <1>1, <1>3 DEF IInv, TypeOK, Unchanged, Found
<1>5. t \in Prices
  BY <1>3, <1>4 DEF Booking
<1> HIDE DEF t
<1>6. /\ x \in Booking /\ x.status = y.status /\ x.deletedAt = y.deletedAt
      /\ x.vehicle = y.vehicle /\ x.slot = y.slot
  BY <1>3, <1>4, <1>5 DEF Booking
<1> HIDE DEF x
<1> QED BY <1>1, <1>3, <1>4, <1>6, WriteStep

LEMMA CommitPreservingStep ==
  ASSUME IInv, NEW p \in Requests, NEW actualKm \in {"KNOWN", "NULL", "UNKNOWN"},
         CommitPreserving(p, actualKm)
  PROVE  IInv'
<1> DEFINE b == req[p].b
           y == booking[b]
           n == [y EXCEPT !.total = NoPrice]
           k == [y EXCEPT !.total = <<y.slot, y.terms>>]
<1>1. req[p].op = "updatePricing" /\ Unchanged(p) /\ y.terms # NoTerms /\ UNCHANGED request
  BY DEF CommitPreserving, Preserves
<1>2. b \in Bookings
  BY <1>1 DEF IInv, Good, Shape
<1>3. y \in Booking /\ y.status # "ABSENT" /\ y.slot \in Slots
  BY <1>1, <1>2 DEF IInv, TypeOK, Unchanged, Found, Scheduled
<1>4. NoPrice \in Prices /\ <<y.slot, y.terms>> \in Prices
  BY <1>1, <1>3 DEF Booking, Prices
<1>5. /\ n \in Booking /\ n.status = y.status /\ n.deletedAt = y.deletedAt
      /\ n.vehicle = y.vehicle /\ n.slot = y.slot
  BY <1>3, <1>4 DEF Booking
<1>6. /\ k \in Booking /\ k.status = y.status /\ k.deletedAt = y.deletedAt
      /\ k.vehicle = y.vehicle /\ k.slot = y.slot
  BY <1>3, <1>4 DEF Booking
<1>7. CASE actualKm = "UNKNOWN"
  <2>1. Ends(p) /\ UNCHANGED <<booking, revived>>
    BY <1>7 DEF CommitPreserving
  <2> QED BY <1>1, <2>1, EndsStep, NoFrame DEF IInv
<1>8. CASE actualKm = "NULL"
  <2>1. Writes(p, b, n)
    BY <1>8 DEF CommitPreserving
  <2> HIDE DEF n
  <2> QED BY <1>1, <1>2, <1>3, <1>5, <2>1, WriteStep
<1>9. CASE actualKm = "KNOWN"
  <2>1. Writes(p, b, k)
    BY <1>9 DEF CommitPreserving
  <2> HIDE DEF k
  <2> QED BY <1>1, <1>2, <1>3, <1>6, <2>1, WriteStep
<1> QED BY <1>7, <1>8, <1>9

LEMMA UpsertContractStep ==
  ASSUME IInv, NEW p \in Requests, UpsertContract(p)
  PROVE  IInv'
<1> DEFINE b == req[p].b
           r == [req[p] EXCEPT !.pc = "blind"]
<1>1. /\ req[p] \in Request /\ Good(req[p]) /\ req[p].pc = "document" /\ UNCHANGED <<request, revived>>
  BY DEF IInv, TypeOK, UpsertContract
<1>2. b \in Bookings /\ booking[b].status # "ABSENT"
  BY <1>1 DEF Good, Shape, Decided
<1>3. CASE ~Found(b)
  BY <1>1, <1>3, EndsStep, NoFrame DEF UpsertContract, IInv
<1>4. CASE Found(b)
  <2>1. booking' = [booking EXCEPT ![b].document = "SET"] /\ Becomes(p, r)
    BY <1>4 DEF UpsertContract
  <2>2. Frame
    <3>1. booking[b] \in Booking /\ booking \in [Bookings -> Booking]
      BY <1>2 DEF IInv, TypeOK
    <3>2. [booking[b] EXCEPT !.document = "SET"] \in Booking
      BY <3>1 DEF Booking
    <3> QED BY <1>2, <2>1, <3>1, <3>2 DEF Frame, Booking
  <2>3. r \in Request
    BY <1>1 DEF Request, PCs
  <2>4. /\ r.pc = "blind" /\ r.need = req[p].need /\ r.held = req[p].held
        /\ r.op = req[p].op /\ r.b = b /\ r.key = req[p].key /\ r.to = req[p].to
    BY <1>1 DEF Request
  <2> HIDE DEF r
  <2>5. Good(r)
    BY <1>1, <1>2, <2>4 DEF Good, Shape, Decided, Checked, KeyUnused, PastRecord, InSchedule, Pricers
  <2>6. \A q \in Requests : q # p => Together(r, req[q])
    BY <2>4 DEF IInv, Exclusive, Together, PastRecord, InSchedule
  <2> QED BY <1>1, <2>1, <2>2, <2>3, <2>5, <2>6, QuietStep
<1> QED BY <1>3, <1>4

LEMMA BlindlyWrittenValue ==
  ASSUME NEW p \in Requests, req[p].to \in Inputs, NEW x \in Booking, x.status # "ABSENT"
  PROVE  /\ BlindlyWritten(p, x) \in Booking /\ BlindlyWritten(p, x).status # "ABSENT"
         /\ BlindlyWritten(p, x).vehicle = x.vehicle /\ BlindlyWritten(p, x).slot = x.slot
         /\ BlindlyWritten(p, x).deletedAt = "NULL" => x.deletedAt = "NULL"
<1> DEFINE e == Edited(x, req[p].to)
           y == BlindlyWritten(p, x)
<1>1. /\ e \in Booking /\ e.status = x.status /\ e.deletedAt = x.deletedAt
      /\ e.vehicle = x.vehicle /\ e.slot = x.slot
  BY EditedValue
<1>2. \/ y = [e EXCEPT !.status = "CONTRACT_SIGNED"] \/ y = [e EXCEPT !.status = x.status]
      \/ y = [e EXCEPT !.status = "READY_FOR_HANDOVER"]
      \/ y = [x EXCEPT !.contract = "READY"]
      \/ y = [x EXCEPT !.status = "CANCELED", !.deletedAt = "SET"]
  BY DEF BlindlyWritten
<1>3. x.status \in Statuses /\ {"CONTRACT_SIGNED", "READY_FOR_HANDOVER", "CANCELED"} \subseteq Statuses
  BY DEF Booking, Statuses, ACTIVE_BOOKING_STATUSES, Final
<1>4. ASSUME NEW st \in Statuses, st # "ABSENT", y = [e EXCEPT !.status = st]
      PROVE  /\ y \in Booking /\ y.status # "ABSENT" /\ y.vehicle = x.vehicle /\ y.slot = x.slot
             /\ y.deletedAt = "NULL" => x.deletedAt = "NULL"
  <2> HIDE DEF e, y
  <2> QED BY <1>1, <1>4 DEF Booking
<1>5. ASSUME y = [x EXCEPT !.contract = "READY"]
      PROVE  /\ y \in Booking /\ y.status # "ABSENT" /\ y.vehicle = x.vehicle /\ y.slot = x.slot
             /\ y.deletedAt = "NULL" => x.deletedAt = "NULL"
  <2> HIDE DEF e, y
  <2> QED BY <1>5 DEF Booking, Contracts
<1>6. ASSUME y = [x EXCEPT !.status = "CANCELED", !.deletedAt = "SET"]
      PROVE  /\ y \in Booking /\ y.status # "ABSENT" /\ y.vehicle = x.vehicle /\ y.slot = x.slot
             /\ y.deletedAt = "NULL" => x.deletedAt = "NULL"
  <2> HIDE DEF e, y
  <2> QED BY <1>3, <1>6 DEF Booking
<1> HIDE DEF e, y
<1>7. /\ y \in Booking /\ y.status # "ABSENT" /\ y.vehicle = x.vehicle /\ y.slot = x.slot
      /\ y.deletedAt = "NULL" => x.deletedAt = "NULL"
  BY <1>2, <1>3, <1>4, <1>5, <1>6
<1> QED BY <1>7 DEF y

LEMMA BlindWriteStep ==
  ASSUME IInv, NEW p \in Requests, BlindWrite(p)
  PROVE  IInv'
<1> DEFINE b == req[p].b
           x == BlindlyWritten(p, booking[b])
<1>1. req[p].pc = "blind" /\ Writes(p, b, x) /\ UNCHANGED request
  BY DEF BlindWrite
<1>2. b \in Bookings /\ booking[b].status # "ABSENT" /\ req[p].to \in Inputs
  BY <1>1 DEF IInv, TypeOK, Request, Good, Shape, Decided
<1>3. booking[b] \in Booking
  BY <1>2 DEF IInv, TypeOK
<1>4. /\ x \in Booking /\ x.status # "ABSENT" /\ x.vehicle = booking[b].vehicle
      /\ x.slot = booking[b].slot
      /\ x.deletedAt = "NULL" => booking[b].deletedAt = "NULL"
  BY <1>2, <1>3, BlindlyWrittenValue
<1> HIDE DEF x
<1> QED BY <1>1, <1>2, <1>4, WriteStep

-----------------------------------------------------------------------------
(* The theorems.                                                           *)

LEMMA InitIInv == Init => IInv
<1> SUFFICES ASSUME Init PROVE IInv
  OBVIOUS
<1>1. /\ AbsentBooking \in Booking /\ AbsentBooking.status = "ABSENT" /\ AbsentBooking.document = "NONE"
  BY DEF AbsentBooking, Booking, Contracts, Cargos, NoPrice, Prices
<1>2. TypeOK
  BY <1>1, NoRequestValue DEF Init, TypeOK
<1>3. \A b \in Bookings : Scheduled(b) /\ ~Active(b)
  BY <1>1 DEF Init, Scheduled, Active, Found
<1>4. \A p \in Requests : Good(req[p])
  BY IdleIsGood DEF Init
<1>5. Exclusive
  BY IdleIsGood, NoRequestValue DEF Init, Exclusive
<1> QED BY <1>2, <1>3, <1>4, <1>5 DEF IInv, NoClashUnlessRevived, Clash

LEMMA StartsStep ==
  ASSUME IInv, NEW p \in Requests, Starts(p)
  PROVE  IInv'
<1>1. Values \subseteq Inputs /\ Contracts \subseteq Inputs /\ Cargos \subseteq Inputs
  BY ValuesAssumption DEF Inputs
<1>2. CASE \E k \in Keys, v \in Vehicles, s \in Slots, to \in (Contracts \cup {"GENERATE"}) \cap NewValues :
             create(p, k, v, s, to)
  BY <1>2, createStep
<1>3. CASE \E b \in Bookings, v \in Vehicles \cup {NoVehicle}, s \in Slots \cup {NoSlot},
             to \in Values \ (Statuses \cup {"GENERATE"}) : update(p, b, v, s, to)
  BY <1>1, <1>3, updateStep
<1>4. CASE \E b \in Bookings, to \in Statuses \cap Values : transition(p, b, to)
  BY <1>4, transitionStep
<1>5. CASE \E b \in Bookings, t \in Terms \cup {NoTerms} : updatePricing(p, b, t)
  BY <1>5, updatePricingStep
<1>6. CASE \E b \in Bookings : \/ \E to \in Contracts \cap Values : setContract(p, b, to)
                               \/ \E to \in Cargos \cap Values : setCargosStatus(p, b, to)
                               \/ markContractSigned(p, b) \/ generateContract(p, b) \/ remove(p, b)
  <2>1. "KEEP" \in Inputs
    BY DEF Inputs
  <2> QED BY <1>1, <1>6, <2>1, BlindStarts
<1> QED BY <1>2, <1>3, <1>4, <1>5, <1>6 DEF Starts

LEMMA NextIInv == IInv /\ [Next]_vars => IInv'
<1> SUFFICES ASSUME IInv, [Next]_vars PROVE IInv'
  OBVIOUS
<1>1. CASE UNCHANGED vars
  BY <1>1 DEF vars, IInv, TypeOK, Scheduled, Good, Shape, Decided, Checked, Clear, KeyUnused, Exclusive,
              Together, NoClashUnlessRevived, Clash, Active, Found
<1>2. ASSUME NEW p \in Requests, Locks(p) PROVE IInv'
  BY <1>2, LockKeyStep, LockRecordStep, LockScheduleStep DEF Locks
<1>3. ASSUME NEW p \in Requests, Works(p) PROVE IInv'
  <2>1. CASE \E b \in Bookings, c \in Cargos \cap NewValues, km \in SUBSET (Readings \cap NewValues) :
               Insert(p, b, c, km)
    <3>1. SUBSET (Readings \cap NewValues) \subseteq SUBSET Readings
      OBVIOUS
    <3> QED BY <2>1, <3>1, InsertStep
  <2>2. CASE CheckCreate(p) \/ CheckUpdate(p) \/ CommitUpdate(p) \/ CommitTransition(p) \/ Refused(p)
             \/ UpsertContract(p) \/ BlindWrite(p)
    BY <2>2, CheckSteps, CommitUpdateStep, CommitTransitionStep, FailsStep, UpsertContractStep,
       BlindWriteStep
  <2>3. CASE \E km \in {"KNOWN", "UNKNOWN"} : CommitPricing(p, km)
    BY <2>3, CommitPricingStep
  <2>4. CASE \E km \in {"KNOWN", "NULL", "UNKNOWN"} : CommitPreserving(p, km)
    BY <2>4, CommitPreservingStep
  <2> QED BY <1>3, <2>1, <2>2, <2>3, <2>4 DEF Works
<1> QED BY <1>1, <1>2, <1>3, StartsStep, FailsStep DEF Next

\* The inductive invariant: locks have one holder, and what a transaction read or checked
\* under them is still so when it writes.
THEOREM Invariance == Spec => []IInv
  BY InitIInv, NextIInv, PTL DEF Spec

\* Every table row and every request in flight has its type, whatever handlers interleave.
THEOREM TypeCorrect == Spec => []TypeOK
<1>1. IInv => TypeOK
  BY DEF IInv
<1> QED BY <1>1, Invariance, PTL

\* The schedule locks and assertVehicleAvailability suffice: two active bookings of a vehicle
\* overlap only if a blind write has revived one of them.
THEOREM ClashOnlyIfRevived == Spec => []NoClashUnlessRevived
<1>1. IInv => NoClashUnlessRevived
  BY DEF IInv
<1> QED BY <1>1, Invariance, PTL

\* The key lock makes the second lookup of create authoritative until its insert.
THEOREM InsertAlwaysFirst == Spec => []InsertIsFirst
<1>1. IInv => InsertIsFirst
  BY DEF IInv, Good, KeyUnused, InsertIsFirst, InSchedule
<1> QED BY <1>1, Invariance, PTL
=============================================================================
