--------------------- MODULE RentalBookingsOrder_proofs ---------------------
(***************************************************************************)
(* More proofs about RentalBookings: what a request read before its locks, *)
(* and the order in which it takes them.                                   *)
(*                                                                         *)
(* transition and updatePricing decide and compute on a copy of the        *)
(* booking.  As long as updatedAt has not moved the copy agrees with the   *)
(* row in everything they looked at (Copy), although generateContract      *)
(* writes the document of a booking without touching updatedAt; so what    *)
(* they commit is right for the row as it is then.                         *)
(*                                                                         *)
(* Schedule locks are taken in ascending order (Order), and in any state   *)
(* only finitely many requests have got so far, so the vehicles waited for *)
(* have a largest one (Bounded): whoever holds it waits for nobody.        *)
(*                                                                         *)
(* That only the handlers in Ops are being served (Called) pins the two    *)
(* findings to the handlers that cause them.                               *)
(***************************************************************************)
EXTENDS RentalBookings_proofs, WellFoundedInduction

\* What a pricer read, and what it computed from it, for the row y as it is now.
Copy(r, y) ==
  r.fresh = "YES" =>
    /\ r.op = "transition" => Allowed(y, r.to) /\ r.price = Quote(y, r.to)
    /\ r.op = "updatePricing" => r.price = IF r.terms = NoTerms THEN NoPrice ELSE <<y.slot, r.terms>>

\* Locks are held only past the record lock, and those still to be taken come later.
Order(r) ==
  /\ r.held # {} => r.pc \in PastRecord
  /\ \A u \in r.held, v \in r.need : u < v

Called(r) == r.op \in Ops \cup {"none"}

Served(r, y) == Copy(r, y) /\ Order(r) /\ Called(r)

\* Some vehicle comes after all those that are locked or waited for.
Below(r, n) == \A v \in r.need \cup r.held : v <= n
Bounded == \E n \in Nat : \A p \in Requests : Below(req[p], n)

RInv == (\A p \in Requests : Served(req[p], booking[req[p].b])) /\ Bounded

-----------------------------------------------------------------------------
(* Natural numbers: a set of them has a least element, and a greatest one  *)
(* if it has an upper bound.                                               *)

LEMMA Least ==
  ASSUME NEW T \in SUBSET Nat, T # {}
  PROVE  \E x \in T : \A y \in T : x <= y
<1> DEFINE R == {ss \in Nat \X Nat : ss[1] < ss[2]}
<1>1. IsWellFoundedOn(R, Nat)
  BY NatLessThanWellFounded DEF OpToRel
<1>2. \E x \in T : \A y \in T : ~(<<y, x>> \in R)
  <2> HIDE DEF R
  <2> QED BY <1>1, WFMin
<1>3. \A x, y \in T : x \in Nat /\ y \in Nat /\ (<<y, x>> \notin R => x <= y)
  OBVIOUS
<1> HIDE DEF R
<1> QED BY <1>2, <1>3

LEMMA Greatest ==
  ASSUME NEW T \in SUBSET Nat, T # {}, NEW n \in Nat, \A x \in T : x <= n
  PROVE  \E x \in T : \A y \in T : y <= x
<1> DEFINE U == {u \in Nat : n - u \in T}
<1>1. \A x \in T : n - x \in U
  OBVIOUS
<1>2. PICK u \in U : \A w \in U : u <= w
  <2>1. U \in SUBSET Nat /\ U # {}
    BY <1>1
  <2> HIDE DEF U
  <2> QED BY <2>1, Least
<1>3. n - u \in T /\ u \in Nat
  OBVIOUS
<1>4. \A y \in T : y \in Nat /\ u <= n - y
  BY <1>1, <1>2
<1> HIDE DEF U
<1>5. \A y \in T : y <= n - u
  BY <1>3, <1>4
<1> QED BY <1>3, <1>5

-----------------------------------------------------------------------------
(* What steps do to the requests.                                          *)

\* The fields of a booking that transition and updatePricing look at.
SameTerms(y, z) == /\ z.status = y.status /\ z.contract = y.contract /\ z.signedAt = y.signedAt
                   /\ z.cargos = y.cargos /\ z.km = y.km /\ z.slot = y.slot /\ z.terms = y.terms

LEMMA CopyKept ==
  ASSUME NEW y, NEW z, SameTerms(y, z), NEW r, Copy(r, y)
  PROVE  Copy(r, z)
  BY DEF SameTerms, Copy, Allowed, Quote, canTransition

LEMMA NoRequestServed == \A y : Served(NoRequest, y) /\ \A n : Below(NoRequest, n)
  BY DEF NoRequest, Served, Copy, Order, Called, Below

\* A request goes on as r; bookings keep what others have read.
LEMMA Moves ==
  ASSUME IInv, RInv, NEW p \in Requests, NEW r \in Request, Becomes(p, r),
         \A c \in Bookings : SameTerms(booking[c], booking'[c]),
         r.op \in Pricers => r.b \in Bookings,
         Served(r, booking[r.b]), NEW m \in Nat, Below(r, m)
  PROVE  RInv'
<1>1. req' \in [Requests -> Request] /\ req'[p] = r /\ \A q \in Requests : q # p => req'[q] = req[q]
  BY BecomesEffect DEF IInv, TypeOK
<1>2. ASSUME NEW q \in Requests
      PROVE  Served(req'[q], booking'[req'[q].b])
  <2>1. PICK s : s = req'[q] /\ Served(s, booking[s.b]) /\ (s.op \in Pricers => s.b \in Bookings)
    <3>1. CASE q = p
      BY <1>1, <3>1
    <3>2. CASE q # p
      <4>1. Served(req[q], booking[req[q].b]) /\ Shape(req[q])
        BY DEF IInv, Good, RInv
      <4>2. req[q].op \in Pricers => req[q].b \in Bookings
        BY <4>1 DEF Shape, Pricers
      <4> QED BY <1>1, <3>2, <4>1, <4>2
    <3> QED BY <3>1, <3>2
  <2>2. Copy(s, booking'[s.b])
    <3>1. CASE s.op \in Pricers
      BY <2>1, <3>1, CopyKept DEF Served
    <3>2. CASE s.op \notin Pricers
      BY <3>2 DEF Copy, Pricers
    <3> QED BY <3>1, <3>2
  <2> QED BY <2>1, <2>2 DEF Served
<1>3. Bounded'
  <2>1. PICK n \in Nat : \A q \in Requests : Below(req[q], n)
    BY DEF RInv, Bounded
  <2>2. PICK k \in Nat : n <= k /\ m <= k
    <3>1. n <= n + m /\ m <= n + m /\ n + m \in Nat
      OBVIOUS
    <3> QED BY <3>1
  <2>3. ASSUME NEW q \in Requests PROVE Below(req'[q], k)
    <3>1. /\ req'[q].need \subseteq Nat /\ req'[q].held \subseteq Nat
          /\ Below(req'[q], n) \/ Below(req'[q], m)
      BY <1>1, <2>1, SetsAssumption DEF Request
    <3> QED BY <2>2, <3>1 DEF Below
  <2> QED BY <2>3 DEF Bounded, Below
<1> QED BY <1>2, <1>3 DEF RInv

\* A request ends, or goes on and keeps what it has decided.
LEMMA MovesOn ==
  ASSUME IInv, RInv, NEW p \in Requests, NEW r \in Request, Becomes(p, r),
         \A c \in Bookings : SameTerms(booking[c], booking'[c]),
         r.op = req[p].op, r.b = req[p].b, r.to = req[p].to, r.terms = req[p].terms,
         r.price = req[p].price, r.fresh = req[p].fresh, Order(r), NEW m \in Nat, Below(r, m)
  PROVE  RInv'
<1>1. Served(req[p], booking[req[p].b]) /\ Shape(req[p])
  BY DEF IInv, Good, RInv
<1>2. Served(r, booking[r.b]) /\ (r.op \in Pricers => r.b \in Bookings)
  BY <1>1 DEF Served, Copy, Called, Shape, Pricers
<1> QED BY <1>2, Moves

LEMMA SameRow == \A y : SameTerms(y, y)
  BY DEF SameTerms

LEMMA Ended ==
  ASSUME IInv, RInv, NEW p \in Requests, Ends(p), UNCHANGED booking
  PROVE  RInv'
<1>1. NoRequest.op \notin Pricers
  BY DEF NoRequest, Pricers
<1> QED BY <1>1, SameRow, NoRequestServed, NoRequestValue, Moves DEF Ends

\* A request starts.
LEMMA Started ==
  ASSUME IInv, RInv, NEW p \in Requests, NEW r \in Request, Becomes(p, r), UNCHANGED booking,
         r.op \in Ops, r.b \in Bookings \cup {NoBooking}, r.op \in Pricers => r.b \in Bookings,
         r.need = {}, r.held = {}, Copy(r, booking[r.b])
  PROVE  RInv'
<1>1. Served(r, booking[r.b]) /\ Below(r, 0)
  BY DEF Served, Order, Called, Below
<1> QED BY <1>1, SameRow, Moves

\* A booking is written: the copies of it are stale, the others still agree with their rows.
LEMMA Written ==
  ASSUME IInv, RInv, NEW p \in Requests, NEW b \in Bookings, NEW x, Writes(p, b, x)
  PROVE  RInv'
<1>1. ASSUME NEW q \in Requests
      PROVE  Served(req'[q], booking'[req'[q].b]) /\ \A n : Below(req[q], n) => Below(req'[q], n)
  <2>1. CASE q = p
    BY <2>1, NoRequestServed DEF Writes
  <2>2. CASE q # p /\ req[q].b = b
    <3>1. req'[q] = [req[q] EXCEPT !.fresh = "NO"] /\ req[q] \in Request
      BY <2>2 DEF Writes, IInv, TypeOK
    <3>2. PICK s : s = req'[q] /\ s.fresh = "NO" /\ s.held = req[q].held /\ s.need = req[q].need
                   /\ s.pc = req[q].pc /\ s.op = req[q].op
      BY <3>1 DEF Request
    <3>3. Served(req[q], booking[req[q].b])
      BY DEF RInv
    <3>4. Served(s, booking'[s.b])
      BY <3>2, <3>3 DEF Served, Copy, Order, Called
    <3> QED BY <3>2, <3>4 DEF Below
  <2>3. CASE q # p /\ req[q].b # b
    <3>1. req'[q] = req[q]
      BY <2>3 DEF Writes
    <3>2. Served(req[q], booking[req[q].b]) /\ Shape(req[q])
      BY DEF RInv, IInv, Good
    <3>3. req[q].op \in Pricers => booking'[req[q].b] = booking[req[q].b]
      BY <2>3, <3>2 DEF Shape, Pricers, Writes, IInv, TypeOK
    <3>4. Served(req[q], booking'[req[q].b])
      BY <3>2, <3>3 DEF Served, Copy, Pricers
    <3> QED BY <3>1, <3>4
  <2> QED BY <2>1, <2>2, <2>3
<1>2. Bounded'
  BY <1>1 DEF RInv, Bounded, Below
<1> QED BY <1>1, <1>2 DEF RInv

-----------------------------------------------------------------------------
(* One lemma per action, or per group of actions that do the same.         *)

LEMMA createKeeps ==
  ASSUME IInv, RInv, NEW p \in Requests, NEW k \in Keys, NEW v \in Vehicles, NEW slot \in Slots,
         NEW to \in Contracts \cup {"GENERATE"}, create(p, k, v, slot, to)
  PROVE  RInv'
<1> DEFINE r == [NoRequest EXCEPT !.op = "create", !.pc = "key", !.key = k, !.v = v,
                                  !.slot = slot, !.to = to]
<1>1. /\ r \in Request /\ r.op = "create" /\ r.b = NoBooking /\ r.need = {} /\ r.held = {} /\ r.fresh = "NO"
  BY DEF NoRequest, Request, Handlers, PCs, Inputs, NoPrice, Prices
<1>2. Becomes(p, r) /\ UNCHANGED booking /\ "create" \in Ops
  BY DEF create
<1> HIDE DEF r
<1> QED BY <1>1, <1>2, Started DEF Copy, Pricers

LEMMA updateKeeps ==
  ASSUME IInv, RInv, NEW p \in Requests, NEW b \in Bookings, NEW v \in Vehicles \cup {NoVehicle},
         NEW slot \in Slots \cup {NoSlot}, NEW to \in Inputs, update(p, b, v, slot, to)
  PROVE  RInv'
<1> DEFINE r == [NoRequest EXCEPT !.op = "update", !.pc = "record", !.b = b, !.v = v,
                                  !.slot = slot, !.to = to]
<1>1. r \in Request /\ r.op = "update" /\ r.b = b /\ r.need = {} /\ r.held = {} /\ r.fresh = "NO"
  BY DEF NoRequest, Request, Handlers, PCs, Inputs, NoPrice, Prices
<1>2. Becomes(p, r) /\ UNCHANGED booking /\ "update" \in Ops
  BY DEF update
<1> HIDE DEF r
<1> QED BY <1>1, <1>2, Started DEF Copy

LEMMA transitionKeeps ==
  ASSUME IInv, RInv, NEW p \in Requests, NEW b \in Bookings, NEW to \in Statuses, transition(p, b, to)
  PROVE  RInv'
<1> DEFINE r == [NoRequest EXCEPT !.op = "transition", !.pc = "record", !.b = b, !.to = to,
                                  !.seen = booking[b].vehicle, !.fresh = "YES",
                                  !.price = Quote(booking[b], to)]
<1>1. /\ Found(b) /\ Becomes(p, r) /\ UNCHANGED booking /\ "transition" \in Ops
      /\ Allowed(booking[b], to)
  BY DEF transition
<1>2. booking[b].vehicle \in Vehicles /\ Quote(booking[b], to) \in Prices
  <2>1. booking[b].vehicle \in Vehicles /\ booking[b].slot \in Slots
    BY <1>1 DEF IInv, Found, Scheduled
  <2>2. booking[b].terms \in Terms \cup {NoTerms}
    BY DEF IInv, TypeOK, Booking
  <2> QED BY <2>1, <2>2 DEF Quote, Prices
<1>3. /\ r \in Request /\ r.op = "transition" /\ r.b = b /\ r.need = {} /\ r.held = {} /\ r.to = to
      /\ r.price = Quote(booking[b], to)
  BY <1>2 DEF NoRequest, Request, Handlers, PCs, Inputs
<1> HIDE DEF r
<1> QED BY <1>1, <1>3, Started DEF Copy

LEMMA updatePricingKeeps ==
  ASSUME IInv, RInv, NEW p \in Requests, NEW b \in Bookings, NEW terms \in Terms \cup {NoTerms},
         updatePricing(p, b, terms)
  PROVE  RInv'
<1> DEFINE price == IF terms = NoTerms THEN NoPrice ELSE <<booking[b].slot, terms>>
           r == [NoRequest EXCEPT !.op = "updatePricing", !.pc = "record", !.b = b,
                                  !.seen = booking[b].vehicle, !.fresh = "YES", !.terms = terms,
                                  !.price = price]
<1>1. Found(b) /\ Becomes(p, r) /\ UNCHANGED booking /\ "updatePricing" \in Ops
  BY DEF updatePricing
<1>2. booking[b].vehicle \in Vehicles /\ price \in Prices
  BY <1>1 DEF IInv, Found, Scheduled, Prices
<1>3. /\ r \in Request /\ r.op = "updatePricing" /\ r.b = b /\ r.need = {} /\ r.held = {}
      /\ r.terms = terms /\ r.price = price
  BY <1>2 DEF NoRequest, Request, Handlers, PCs, Inputs
<1> HIDE DEF r
<1> QED BY <1>1, <1>3, Started DEF Copy

\* setContract, setCargosStatus, markContractSigned, generateContract, remove.
LEMMA ReadsKeeps ==
  ASSUME IInv, RInv, NEW p \in Requests, NEW b \in Bookings, NEW op \in Handlers \ Pricers,
         NEW to \in Inputs, NEW promote, Reads(p, op, b, to, promote)
  PROVE  RInv'
<1> DEFINE d == IF promote THEN "YES" ELSE "NO"
           n == IF op = "generateContract" THEN "document" ELSE "blind"
           r == [NoRequest EXCEPT !.op = op, !.b = b, !.to = to, !.decided = d, !.pc = n]
<1>1. d \in {"NO", "YES"} /\ n \in PCs
  BY DEF PCs
<1>2. Becomes(p, r) /\ UNCHANGED booking /\ op \in Ops
  BY DEF Reads
<1> HIDE DEF d, n
<1>3. r \in Request /\ r.op = op /\ r.b = b /\ r.need = {} /\ r.held = {} /\ r.fresh = "NO"
  BY <1>1 DEF NoRequest, Request, NoPrice, Prices
<1> HIDE DEF r
<1> QED BY <1>2, <1>3, Started DEF Copy

LEMMA StartsKeeps ==
  ASSUME IInv, RInv, NEW p \in Requests, Starts(p)
  PROVE  RInv'
<1>1. /\ Values \subseteq Inputs /\ Contracts \subseteq Inputs /\ Cargos \subseteq Inputs
      /\ {"SIGNED", "READY", "KEEP"} \subseteq Inputs
  BY ValuesAssumption DEF Inputs, Contracts
<1>2. {"setContract", "setCargosStatus", "markContractSigned", "generateContract", "remove"}
        \subseteq Handlers \ Pricers
  BY DEF Handlers, Pricers
<1>3. CASE \E k \in Keys, v \in Vehicles, s \in Slots, to \in (Contracts \cup {"GENERATE"}) \cap NewValues :
             create(p, k, v, s, to)
  BY <1>3, createKeeps
<1>4. CASE \E b \in Bookings, v \in Vehicles \cup {NoVehicle}, s \in Slots \cup {NoSlot},
             to \in Values \ (Statuses \cup {"GENERATE"}) : update(p, b, v, s, to)
  BY <1>1, <1>4, updateKeeps
<1>5. CASE \E b \in Bookings, to \in Statuses \cap Values : transition(p, b, to)
  BY <1>5, transitionKeeps
<1>6. CASE \E b \in Bookings, t \in Terms \cup {NoTerms} : updatePricing(p, b, t)
  BY <1>6, updatePricingKeeps
<1>7. CASE \E b \in Bookings, to \in Contracts \cap Values : setContract(p, b, to)
  BY <1>1, <1>2, <1>7, ReadsKeeps DEF setContract
<1>8. CASE \E b \in Bookings, to \in Cargos \cap Values : setCargosStatus(p, b, to)
  BY <1>1, <1>2, <1>8, ReadsKeeps DEF setCargosStatus
<1>9. CASE \E b \in Bookings : markContractSigned(p, b) \/ generateContract(p, b) \/ remove(p, b)
  BY <1>1, <1>2, <1>9, ReadsKeeps DEF markContractSigned, generateContract, remove
<1> QED BY <1>3, <1>4, <1>5, <1>6, <1>7, <1>8, <1>9 DEF Starts

LEMMA LockKeyKeeps ==
  ASSUME IInv, RInv, NEW p \in Requests, LockKey(p)
  PROVE  RInv'
<1> DEFINE r == [req[p] EXCEPT !.pc = "schedule", !.need = {req[p].v}]
<1>1. req[p] \in Request /\ Shape(req[p]) /\ Order(req[p]) /\ req[p].pc = "key" /\ UNCHANGED booking
  BY DEF IInv, TypeOK, Good, RInv, Served, LockKey
<1>2. req[p].op = "create" /\ req[p].v \in Vehicles /\ req[p].v \in Nat /\ req[p].held = {}
  BY <1>1, SetsAssumption DEF Shape, Order, PastRecord, Pricers
<1>3. /\ r \in Request /\ r.need = {req[p].v} /\ r.held = {} /\ r.op = req[p].op /\ r.b = req[p].b
      /\ r.to = req[p].to /\ r.terms = req[p].terms /\ r.price = req[p].price /\ r.fresh = req[p].fresh
  BY <1>1, <1>2 DEF Request, PCs
<1>4. CASE Becomes(p, r)
  <2> HIDE DEF r
  <2>1. Order(r) /\ Below(r, req[p].v)
    BY <1>2, <1>3 DEF Order, Below
  <2> QED BY <1>1, <1>2, <1>3, <1>4, <2>1, SameRow, MovesOn
<1>5. CASE Ends(p)
  BY <1>1, <1>5, Ended
<1> QED BY <1>4, <1>5 DEF LockKey

LEMMA LockRecordKeeps ==
  ASSUME IInv, RInv, NEW p \in Requests, LockRecord(p)
  PROVE  RInv'
<1> DEFINE b == req[p].b
           v == IF req[p].v = NoVehicle THEN booking[b].vehicle ELSE req[p].v
           slot == IF req[p].slot = NoSlot THEN booking[b].slot ELSE req[p].slot
           d == IF <<v, slot>> # <<booking[b].vehicle, booking[b].slot>> THEN "YES" ELSE "NO"
<1>1. req[p] \in Request /\ Shape(req[p]) /\ Order(req[p]) /\ req[p].pc = "record" /\ UNCHANGED booking
  BY DEF IInv, TypeOK, Good, RInv, Served, LockRecord
<1>2. req[p].op \in {"update"} \cup Pricers /\ b \in Bookings /\ req[p].held = {}
  BY <1>1 DEF Shape, Order, PastRecord, Pricers
<1>3. CASE req[p].op # "update"
  <2> DEFINE r == [req[p] EXCEPT !.pc = "schedule", !.need = {req[p].seen}]
  <2>1. req[p].seen \in Vehicles /\ req[p].seen \in Nat
    BY <1>1, <1>2, <1>3, SetsAssumption DEF Shape
  <2>2. /\ r \in Request /\ r.need = {req[p].seen} /\ r.held = {} /\ r.op = req[p].op /\ r.b = req[p].b
        /\ r.to = req[p].to /\ r.terms = req[p].terms /\ r.price = req[p].price /\ r.fresh = req[p].fresh
    BY <1>1, <1>2, <2>1 DEF Request, PCs
  <2>3. Becomes(p, r)
    BY <1>3 DEF LockRecord
  <2> HIDE DEF r
  <2>4. Order(r) /\ Below(r, req[p].seen)
    BY <2>1, <2>2 DEF Order, Below
  <2> QED BY <1>1, <2>1, <2>2, <2>3, <2>4, SameRow, MovesOn
<1>4. CASE req[p].op = "update" /\ ~Found(b)
  BY <1>1, <1>4, Ended DEF LockRecord
<1>5. CASE req[p].op = "update" /\ Found(b)
  <2> DEFINE u == booking[b].vehicle
             r == [req[p] EXCEPT !.pc = "schedule", !.need = {u, v},
                                 !.v = v, !.slot = slot, !.seen = u, !.decided = d]
  <2>1. booking[b].vehicle \in Vehicles /\ booking[b].slot \in Slots
    BY <1>2, <1>5 DEF IInv, Found, Scheduled
  <2>2. v \in Vehicles /\ slot \in Slots /\ d \in {"NO", "YES"} /\ u \in Vehicles
    BY <1>1, <2>1 DEF Request
  <2>3. Becomes(p, r)
    BY <1>5 DEF LockRecord
  <2> HIDE DEF u, v, slot, d
  <2>4. /\ r \in Request /\ r.need = {u, v} /\ r.held = {} /\ r.op = "update" /\ r.b = b
    BY <1>1, <1>2, <1>5, <2>2 DEF Request, PCs
  <2> HIDE DEF r
  <2>5. u \in Nat /\ v \in Nat /\ u + v \in Nat /\ u <= u + v /\ v <= u + v
    BY <2>2, SetsAssumption
  <2>6. Served(r, booking[r.b]) /\ Below(r, u + v)
    <3>1. Called(req[p])
      BY DEF RInv, Served
    <3> QED BY <1>5, <2>4, <2>5, <3>1 DEF Served, Copy, Order, Called, Below
  <2> QED BY <1>1, <1>2, <2>3, <2>4, <2>5, <2>6, SameRow, Moves
<1> QED BY <1>3, <1>4, <1>5

LEMMA LockScheduleKeeps ==
  ASSUME IInv, RInv, NEW p \in Requests, NEW v \in Vehicles, LockSchedule(p, v)
  PROVE  RInv'
<1> DEFINE pc == IF req[p].need # {v} THEN "schedule"
                 ELSE IF req[p].op \in {"create", "update"} THEN "check" ELSE "commit"
           r == [req[p] EXCEPT !.need = req[p].need \ {v}, !.held = req[p].held \cup {v}, !.pc = pc]
<1>1. /\ req[p] \in Request /\ Order(req[p]) /\ Becomes(p, r) /\ UNCHANGED booking
      /\ v \in req[p].need /\ \A u \in req[p].need : v <= u
  BY DEF IInv, TypeOK, RInv, Served, LockSchedule, NextLock
<1>2. pc \in {"schedule", "check", "commit"}
  OBVIOUS
<1> HIDE DEF pc
<1>3. /\ r \in Request /\ r.pc = pc /\ r.need = req[p].need \ {v} /\ r.held = req[p].held \cup {v}
      /\ r.op = req[p].op /\ r.b = req[p].b
      /\ r.to = req[p].to /\ r.terms = req[p].terms /\ r.price = req[p].price /\ r.fresh = req[p].fresh
  <2>1. r \in Request
    <3>1. req[p] \in Request /\ pc \in PCs
      BY <1>1, <1>2 DEF PCs
    <3> QED BY <3>1 DEF Request
  <2>2. /\ r.pc = pc /\ r.need = req[p].need \ {v} /\ r.held = req[p].held \cup {v}
        /\ r.op = req[p].op /\ r.b = req[p].b
        /\ r.to = req[p].to /\ r.terms = req[p].terms /\ r.price = req[p].price /\ r.fresh = req[p].fresh
    BY <1>1 DEF Request
  <2> HIDE DEF r
  <2> QED BY <2>1, <2>2
<1> HIDE DEF r
<1>4. Order(r)
  <2>1. r.need \subseteq Nat /\ v \in Nat /\ \A w \in r.need : v <= w /\ v # w
    BY <1>1, <1>3, SetsAssumption DEF Request
  <2>2. \A w \in r.need : v < w
    BY <2>1
  <2> QED BY <1>1, <1>2, <1>3, <2>2 DEF Order, PastRecord
<1>5. PICK n \in Nat : Below(r, n)
  <2>1. PICK n \in Nat : Below(req[p], n)
    BY DEF RInv, Bounded
  <2> QED BY <1>1, <1>3, <2>1 DEF Below
<1> QED BY <1>1, <1>3, <1>4, <1>5, SameRow, MovesOn

\* CheckCreate and CheckUpdate go on to write, or end.
LEMMA CheckKeeps ==
  ASSUME IInv, RInv, NEW p \in Requests, CheckCreate(p) \/ CheckUpdate(p)
  PROVE  RInv'
<1> DEFINE r == [req[p] EXCEPT !.pc = "write"]
<1>1. req[p] \in Request /\ Order(req[p]) /\ UNCHANGED booking
  BY DEF IInv, TypeOK, RInv, Served, CheckCreate, CheckUpdate
<1>2. Becomes(p, r) \/ Ends(p)
  BY DEF CheckCreate, CheckUpdate
<1>3. /\ r \in Request /\ r.pc = "write" /\ r.need = req[p].need /\ r.held = req[p].held
      /\ r.op = req[p].op /\ r.b = req[p].b
      /\ r.to = req[p].to /\ r.terms = req[p].terms /\ r.price = req[p].price /\ r.fresh = req[p].fresh
  BY <1>1 DEF Request, PCs
<1> HIDE DEF r
<1>4. Order(r)
  BY <1>1, <1>3 DEF Order, PastRecord
<1>5. PICK n \in Nat : Below(r, n)
  BY <1>3 DEF RInv, Bounded, Below
<1>6. CASE Becomes(p, r)
  BY <1>1, <1>3, <1>4, <1>5, <1>6, SameRow, MovesOn
<1> QED BY <1>1, <1>2, <1>6, Ended

\* The document is not what the others have read.
LEMMA UpsertContractKeeps ==
  ASSUME IInv, RInv, NEW p \in Requests, UpsertContract(p)
  PROVE  RInv'
<1> DEFINE r == [req[p] EXCEPT !.pc = "blind"]
           b == req[p].b
<1>1. req[p] \in Request /\ Order(req[p]) /\ req[p].pc = "document" /\ Shape(req[p])
  BY DEF IInv, TypeOK, Good, RInv, Served, UpsertContract
<1>2. req[p].held = {} /\ b \in Bookings
  BY <1>1 DEF Order, PastRecord, Shape
<1>3. /\ r \in Request /\ r.need = req[p].need /\ r.held = req[p].held
      /\ r.op = req[p].op /\ r.b = req[p].b
      /\ r.to = req[p].to /\ r.terms = req[p].terms /\ r.price = req[p].price /\ r.fresh = req[p].fresh
  BY <1>1 DEF Request, PCs
<1>4. CASE Ends(p) /\ UNCHANGED booking
  BY <1>4, Ended
<1>5. CASE booking' = [booking EXCEPT ![b].document = "SET"] /\ Becomes(p, r)
  <2>1. \A c \in Bookings : SameTerms(booking[c], booking'[c])
    <3>1. booking \in [Bookings -> Booking]
      BY DEF IInv, TypeOK
    <3> QED BY <1>2, <1>5, <3>1 DEF SameTerms, Booking
  <2> HIDE DEF r
  <2>2. Order(r)
    BY <1>2, <1>3 DEF Order
  <2>3. PICK n \in Nat : Below(r, n)
    BY <1>3 DEF RInv, Bounded, Below
  <2> QED BY <1>3, <1>5, <2>1, <2>2, <2>3, MovesOn
<1> QED BY <1>4, <1>5 DEF UpsertContract

LEMMA WorksKeeps ==
  ASSUME IInv, RInv, NEW p \in Requests, Works(p)
  PROVE  RInv'
<1>1. Shape(req[p])
  BY DEF IInv, Good
<1>2. CASE CheckCreate(p) \/ CheckUpdate(p)
  BY <1>2, CheckKeeps
<1>3. CASE \E b \in Bookings, c \in Cargos \cap NewValues, km \in SUBSET (Readings \cap NewValues) :
             Insert(p, b, c, km)
  BY <1>3, Written DEF Insert
<1>4. CASE CommitUpdate(p)
  BY <1>1, <1>4, Written DEF CommitUpdate, Shape
<1>5. CASE CommitTransition(p)
  BY <1>1, <1>5, Written DEF CommitTransition, Shape
<1>6. CASE Refused(p)
  BY <1>6, Ended DEF Refused
<1>7. CASE \E km \in {"KNOWN", "UNKNOWN"} : CommitPricing(p, km)
  BY <1>1, <1>7, Written DEF CommitPricing, Shape
<1>8. CASE \E km \in {"KNOWN", "NULL", "UNKNOWN"} : CommitPreserving(p, km)
  <2>1. req[p].b \in Bookings
    BY <1>1, <1>8 DEF CommitPreserving, Preserves, Shape
  <2>2. \/ Ends(p) /\ UNCHANGED booking
        \/ \E x : Writes(p, req[p].b, x)
    BY <1>8 DEF CommitPreserving
  <2> QED BY <2>1, <2>2, Written, Ended
<1>9. CASE UpsertContract(p)
  BY <1>9, UpsertContractKeeps
<1>10. CASE BlindWrite(p)
  BY <1>1, <1>10, Written DEF BlindWrite, Shape, PastRecord
<1> QED BY <1>2, <1>3, <1>4, <1>5, <1>6, <1>7, <1>8, <1>9, <1>10 DEF Works

LEMMA InitRInv == Init => RInv
<1> SUFFICES ASSUME Init PROVE RInv
  OBVIOUS
<1>1. \A p \in Requests : req[p] = NoRequest
  BY DEF Init
<1>2. Bounded
  <2>1. \A p \in Requests : Below(req[p], 0)
    BY <1>1, NoRequestServed
  <2> QED BY <2>1 DEF Bounded
<1> QED BY <1>1, <1>2, NoRequestServed DEF RInv

LEMMA NextRInv == IInv /\ RInv /\ [Next]_vars => RInv'
<1> SUFFICES ASSUME IInv, RInv, [Next]_vars PROVE RInv'
  OBVIOUS
<1>1. CASE UNCHANGED vars
  BY <1>1 DEF vars, RInv, Bounded, Below
<1>2. ASSUME NEW p \in Requests, Locks(p) PROVE RInv'
  BY <1>2, LockKeyKeeps, LockRecordKeeps, LockScheduleKeeps DEF Locks
<1>3. ASSUME NEW p \in Requests, Fails(p) PROVE RInv'
  BY <1>3, Ended DEF Fails
<1> QED BY <1>1, <1>2, <1>3, StartsKeeps, WorksKeeps DEF Next

-----------------------------------------------------------------------------
(* What follows from the invariant in one state or one step.               *)

LEMMA CommitsAllowed ==
  ASSUME IInv, RInv, NEW p \in Requests, CommitTransition(p)
  PROVE  LET b == req[p].b
             x == booking[b]
         IN /\ b \in Bookings /\ Allowed(x, req[p].to)
            /\ booking'[b].status = req[p].to
            /\ booking'[b].slot = x.slot /\ booking'[b].terms = x.terms
            /\ booking'[b].total \in {x.total, Quote(x, req[p].to)}
            /\ \A c \in Bookings : c # b => booking'[c] = booking[c]
<1> DEFINE b == req[p].b
           x == booking[b]
           c == IF req[p].to = "CONTRACT_SIGNED" THEN "SIGNED" ELSE x.contract
           s == IF req[p].to = "CONTRACT_SIGNED" THEN "SET" ELSE x.signedAt
           t == IF req[p].price[2] # NoTerms THEN req[p].price ELSE x.total
           y == [x EXCEPT !.status = req[p].to, !.contract = c, !.signedAt = s, !.total = t]
<1>1. req[p].op = "transition" /\ Unchanged(p) /\ Writes(p, b, y)
  BY DEF CommitTransition
<1>2. b \in Bookings /\ Copy(req[p], x)
  BY <1>1 DEF IInv, Good, Shape, RInv, Served
<1>3. Allowed(x, req[p].to) /\ req[p].price = Quote(x, req[p].to)
  BY <1>1, <1>2 DEF Copy, Unchanged
<1>4. x \in Booking /\ booking \in [Bookings -> Booking]
  BY <1>2 DEF IInv, TypeOK
<1>5. t \in {x.total, Quote(x, req[p].to)}
  BY <1>3
<1> HIDE DEF c, s, t
<1>6. y.status = req[p].to /\ y.slot = x.slot /\ y.terms = x.terms /\ y.total = t
  BY <1>4 DEF Booking
<1> HIDE DEF y
<1>7. booking'[b] = y /\ \A d \in Bookings : d # b => booking'[d] = booking[d]
  BY <1>1, <1>2, <1>4 DEF Writes
<1> QED BY <1>2, <1>3, <1>5, <1>6, <1>7

LEMMA GuardedStep == IInv /\ RInv /\ [Next]_vars =>
  [\A p \in Requests : CommitTransition(p) => Allowed(booking[req[p].b], booking'[req[p].b].status)]_vars
  BY CommitsAllowed

\* The total of booking b after a step.
Priced(b) == booking'[b].total \notin {booking[b].total, NoPrice} =>
               booking'[b].total = <<booking'[b].slot, booking'[b].terms>>

LEMMA PricedWrite ==
  ASSUME IInv, NEW p \in Requests, NEW b \in Bookings, NEW x, Writes(p, b, x),
         x.total \in {booking[b].total, NoPrice, <<x.slot, x.terms>>}
  PROVE  \A c \in Bookings : Priced(c)
<1>1. booking'[b] = x /\ \A c \in Bookings : c # b => booking'[c] = booking[c]
  BY DEF Writes, IInv, TypeOK
<1> QED BY <1>1 DEF Priced

LEMMA EditedTotal ==
  ASSUME NEW x \in Booking, NEW to
  PROVE  Edited(x, to).total \in {x.total, NoPrice}
<1> DEFINE c == IF to \in Contracts THEN to ELSE x.contract
           s == IF to = "SIGNED" THEN "SET" ELSE IF to \in Contracts THEN "NULL" ELSE x.signedAt
           g == IF to \in Cargos THEN to ELSE x.cargos
           k == IF to \in Readings THEN x.km \cup {to} ELSE IF to = "NO_KM" THEN {} ELSE x.km
           t == IF to = "TOTAL" THEN NoPrice ELSE x.total
<1>1. Edited(x, to) = [x EXCEPT !.contract = c, !.signedAt = s, !.cargos = g, !.km = k, !.total = t]
  BY DEF Edited
<1>2. t \in {x.total, NoPrice}
  OBVIOUS
<1> HIDE DEF c, s, g, k, t
<1>3. Edited(x, to).total = t
  BY <1>1 DEF Booking
<1> QED BY <1>2, <1>3

LEMMA PricedStep ==
  ASSUME IInv, RInv, NEW p \in Requests, Works(p)
  PROVE  \A c \in Bookings : Priced(c)
<1> DEFINE b == req[p].b
           x == booking[b]
<1>1. /\ Shape(req[p]) /\ req[p] \in Request /\ Copy(req[p], x) /\ booking \in [Bookings -> Booking]
      /\ b \in Bookings => x \in Booking
  BY DEF IInv, TypeOK, Good, RInv, Served
<1>2. CASE UNCHANGED booking
  BY <1>2 DEF Priced
<1>3. CASE \E d \in Bookings, c \in Cargos \cap NewValues, km \in SUBSET (Readings \cap NewValues) :
             Insert(p, d, c, km)
  <2>1. PICK d \in Bookings, c \in Cargos \cap NewValues, km \in SUBSET (Readings \cap NewValues) :
             Insert(p, d, c, km)
    BY <1>3
  <2> DEFINE contract == IF req[p].to = "GENERATE" THEN "READY" ELSE req[p].to
             document == IF req[p].to = "GENERATE" THEN "SET" ELSE "NONE"
             y == [AbsentBooking EXCEPT !.status = "DRAFT", !.vehicle = req[p].v, !.slot = req[p].slot,
                                        !.contract = contract, !.document = document,
                                        !.cargos = c, !.km = km]
  <2>2. Writes(p, d, y)
    BY <2>1 DEF Insert
  <2>3. y.total = NoPrice
    BY DEF AbsentBooking
  <2> HIDE DEF y
  <2> QED BY <2>2, <2>3, PricedWrite
<1>4. CASE CommitUpdate(p)
  <2> DEFINE e == Edited(x, req[p].to)
             y == [e EXCEPT !.vehicle = req[p].v, !.slot = req[p].slot]
  <2>1. b \in Bookings /\ Writes(p, b, y)
    BY <1>1, <1>4 DEF CommitUpdate, Shape
  <2>2. e.total \in {x.total, NoPrice} /\ e \in Booking
    BY <1>1, <2>1, EditedTotal, EditedValue DEF Request
  <2> HIDE DEF e
  <2>3. y.total = e.total
    BY <2>2 DEF Booking
  <2> HIDE DEF y
  <2> QED BY <2>1, <2>2, <2>3, PricedWrite
<1>5. CASE CommitTransition(p)
  BY <1>5, CommitsAllowed DEF Priced, Quote
<1>6. CASE \E km \in {"KNOWN", "UNKNOWN"} : CommitPricing(p, km)
  <2>1. PICK km \in {"KNOWN", "UNKNOWN"} : CommitPricing(p, km)
    BY <1>6
  <2> DEFINE t == IF km = "KNOWN" THEN req[p].price ELSE x.total
             y == [x EXCEPT !.terms = req[p].terms, !.total = t]
  <2>2. Writes(p, b, y) /\ Unchanged(p) /\ req[p].op = "updatePricing" /\ req[p].terms # NoTerms
    BY <2>1 DEF CommitPricing
  <2>3. b \in Bookings /\ req[p].price = <<x.slot, req[p].terms>>
    BY <1>1, <2>2 DEF Shape, Copy, Unchanged
  <2>4. t \in {x.total, <<x.slot, req[p].terms>>}
    BY <2>3
  <2> HIDE DEF t
  <2>5. y.total = t /\ y.slot = x.slot /\ y.terms = req[p].terms
    BY <1>1, <2>3 DEF Booking
  <2> HIDE DEF y
  <2> QED BY <2>2, <2>3, <2>4, <2>5, PricedWrite
<1>7. CASE \E km \in {"KNOWN", "NULL", "UNKNOWN"} : CommitPreserving(p, km)
  <2> DEFINE n == [x EXCEPT !.total = NoPrice]
             k == [x EXCEPT !.total = <<x.slot, x.terms>>]
  <2>1. b \in Bookings /\ (UNCHANGED booking \/ Writes(p, b, n) \/ Writes(p, b, k))
    BY <1>1, <1>7 DEF CommitPreserving, Preserves, Shape
  <2>2. n.total = NoPrice /\ k.total = <<x.slot, x.terms>> /\ k.slot = x.slot /\ k.terms = x.terms
    BY <1>1, <2>1 DEF Booking
  <2> HIDE DEF n, k
  <2> QED BY <1>2, <2>1, <2>2, PricedWrite
<1>8. CASE UpsertContract(p)
  <2>1. UNCHANGED booking \/ (b \in Bookings /\ booking' = [booking EXCEPT ![b].document = "SET"])
    BY <1>1, <1>8 DEF UpsertContract, Shape, PastRecord
  <2> QED BY <1>1, <1>2, <2>1 DEF Priced, Booking
<1>9. CASE BlindWrite(p)
  <2> DEFINE y == BlindlyWritten(p, x)
             e == Edited(x, req[p].to)
  <2>1. b \in Bookings /\ Writes(p, b, y)
    BY <1>1, <1>9 DEF BlindWrite, Shape, PastRecord
  <2>2. e.total \in {x.total, NoPrice} /\ e \in Booking
    BY <1>1, <2>1, EditedTotal, EditedValue DEF Request
  <2>3. \/ \E st : y = [e EXCEPT !.status = st]
        \/ y = [x EXCEPT !.contract = "READY"]
        \/ y = [x EXCEPT !.status = "CANCELED", !.deletedAt = "SET"]
    BY DEF BlindlyWritten
  <2> HIDE DEF y, e
  <2>4. y.total \in {x.total, NoPrice}
    BY <1>1, <2>1, <2>2, <2>3 DEF Booking
  <2> QED BY <2>1, <2>4, PricedWrite
<1>10. UNCHANGED booking \/ ~(CheckCreate(p) \/ CheckUpdate(p) \/ Refused(p))
  BY DEF CheckCreate, CheckUpdate, Refused
<1> QED BY <1>2, <1>3, <1>4, <1>5, <1>6, <1>7, <1>8, <1>9, <1>10 DEF Works

LEMMA PricedNext == IInv /\ RInv /\ [Next]_vars => [\A b \in Bookings : Priced(b)]_vars
<1> SUFFICES ASSUME IInv, RInv, Next PROVE \A b \in Bookings : Priced(b)
  OBVIOUS
<1>1. ASSUME NEW p \in Requests, Starts(p) \/ Locks(p) \/ Fails(p)
      PROVE  UNCHANGED booking
  BY <1>1 DEF Starts, Locks, Fails, create, update, transition, updatePricing, setContract, setCargosStatus,
              markContractSigned, generateContract, remove, Reads, LockKey, LockRecord, LockSchedule
<1>2. CASE UNCHANGED booking
  BY <1>2 DEF Priced
<1> QED BY <1>1, <1>2, PricedStep DEF Next

\* Whoever a request waits for, if it waits too, waits for a schedule lock.
LEMMA WaitedFor ==
  ASSUME RInv, NEW p \in Requests, NEW q \in Requests, WaitsFor(p, q),
         NEW s \in Requests, WaitsFor(q, s)
  PROVE  req[q].pc = "schedule" /\ \E v \in Vehicles : NextLock(q, v)
<1>1. req[q].pc \in PastRecord
  BY DEF WaitsFor, RInv, Served, Order, PastRecord
<1> QED BY <1>1 DEF WaitsFor, PastRecord

\* A circle of requests would have one that waits for the largest vehicle; its holder waits
\* for a larger one.
LEMMA NoCircle == IInv /\ RInv => NoDeadlock
<1> SUFFICES ASSUME IInv, RInv, NEW S \in SUBSET Requests, \A p \in S : \E q \in S : WaitsFor(p, q), S # {}
             PROVE  FALSE
  BY DEF NoDeadlock
<1> DEFINE T == {v \in Vehicles : \E p \in S : req[p].pc = "schedule" /\ NextLock(p, v)}
<1>1. T # {}
  <2>1. PICK p \in S : TRUE
    OBVIOUS
  <2>2. PICK q \in S : WaitsFor(p, q)
    OBVIOUS
  <2>3. PICK s \in S : WaitsFor(q, s)
    OBVIOUS
  <2> QED BY <2>2, <2>3, WaitedFor
<1>2. PICK n \in Nat : \A p \in Requests : Below(req[p], n)
  BY DEF RInv, Bounded
<1>3. T \in SUBSET Nat /\ \A v \in T : v <= n
  BY <1>2, SetsAssumption DEF NextLock, Below
<1>4. PICK v \in T : \A w \in T : w <= v
  <2> HIDE DEF T
  <2> QED BY <1>1, <1>3, Greatest
<1>5. PICK p \in S : req[p].pc = "schedule" /\ NextLock(p, v)
  OBVIOUS
<1>6. PICK q \in S : v \in req[q].held
  <2>1. PICK q \in S : WaitsFor(p, q)
    OBVIOUS
  <2>2. PICK u \in Vehicles : NextLock(p, u) /\ u \in req[q].held
    BY <1>5, <2>1 DEF WaitsFor
  <2>3. u \in Nat /\ v \in Nat /\ u <= v /\ v <= u
    BY <1>3, <1>5, <2>2, SetsAssumption DEF NextLock
  <2>4. u = v
    BY <2>3
  <2> QED BY <2>2, <2>4
<1>7. Order(req[q])
  BY DEF RInv, Served
<1>8. PICK w \in Vehicles : req[q].pc = "schedule" /\ NextLock(q, w)
  <2>1. PICK s \in S : WaitsFor(q, s)
    OBVIOUS
  <2>2. req[q].pc \in PastRecord
    BY <1>6, <1>7 DEF Order
  <2> QED BY <2>1, <2>2 DEF WaitsFor, PastRecord
<1>9. w \in T /\ v < w
  BY <1>6, <1>7, <1>8 DEF Order, NextLock
<1>10. v \in Nat /\ w \in Nat /\ w <= v
  BY <1>3, <1>4, <1>9
<1> QED BY <1>9, <1>10

-----------------------------------------------------------------------------
(* Without the handlers that promote a booking by id.                      *)

Promoters == {"setContract", "setCargosStatus", "markContractSigned"}

\* Only transition, which may not leave a final status, and the promoters set a status.
LEMMA NoRevival ==
  ASSUME Ops \cap Promoters = {}, IInv, RInv, revived = {}, [Next]_vars
  PROVE  revived' = {}
<1>1. ASSUME NEW p \in Requests, NEW b \in Bookings, NEW x, Writes(p, b, x),
             x.status \in ACTIVE_BOOKING_STATUSES => booking[b].status \notin Final
      PROVE  revived' = {}
  BY <1>1 DEF Writes
<1>2. "ABSENT" \notin Final /\ "CANCELED" \notin ACTIVE_BOOKING_STATUSES
  BY DEF Final, ACTIVE_BOOKING_STATUSES
<1>3. \A st \in Statuses : st \in ACTIVE_BOOKING_STATUSES => st \notin Final
  BY DEF Statuses, Final, ACTIVE_BOOKING_STATUSES
<1>4. CASE UNCHANGED revived
  BY <1>4
<1>5. ASSUME NEW p \in Requests, Starts(p) \/ Locks(p) \/ Fails(p)
      PROVE  UNCHANGED revived
  BY <1>5 DEF Starts, Locks, Fails, create, update, transition, updatePricing, setContract, setCargosStatus,
              markContractSigned, generateContract, remove, Reads, LockKey, LockRecord, LockSchedule
<1>6. ASSUME NEW p \in Requests, Works(p)
      PROVE  revived' = {}
  <2> DEFINE b == req[p].b
             x == booking[b]
  <2>1. /\ Shape(req[p]) /\ req[p] \in Request /\ booking \in [Bookings -> Booking]
        /\ Called(req[p]) /\ (b \in Bookings => x \in Booking)
    BY DEF IInv, TypeOK, Good, RInv, Served
  <2>2. ASSUME NEW y, Writes(p, b, y), b \in Bookings, y.status = x.status
        PROVE  revived' = {}
    BY <1>1, <1>2, <1>3, <2>1, <2>2 DEF Booking
  <2>3. CASE \E d \in Bookings, c \in Cargos \cap NewValues, km \in SUBSET (Readings \cap NewValues) :
               Insert(p, d, c, km)
    BY <1>1, <1>2, <2>3 DEF Insert
  <2>4. CASE CommitUpdate(p)
    <3> DEFINE e == Edited(x, req[p].to)
               y == [e EXCEPT !.vehicle = req[p].v, !.slot = req[p].slot]
    <3>1. b \in Bookings /\ Writes(p, b, y)
      BY <2>1, <2>4 DEF CommitUpdate, Shape
    <3>2. e.status = x.status /\ e \in Booking
      BY <2>1, <3>1, EditedValue DEF Request
    <3> HIDE DEF e
    <3>3. y.status = x.status
      BY <3>2 DEF Booking
    <3> HIDE DEF y
    <3> QED BY <2>2, <3>1, <3>3
  <2>5. CASE CommitTransition(p)
    <3>1. b \in Bookings /\ Allowed(x, req[p].to)
      BY <2>5, CommitsAllowed
    <3>2. x.status \notin Final
      BY <3>1 DEF Allowed, canTransition, TRANSITIONS, Final
    <3> QED BY <2>5, <3>1, <3>2 DEF CommitTransition, Writes
  <2>6. CASE \E km \in {"KNOWN", "UNKNOWN"} : CommitPricing(p, km)
    <3>1. PICK t, y : y = [x EXCEPT !.terms = req[p].terms, !.total = t] /\ Writes(p, b, y)
      BY <2>6 DEF CommitPricing
    <3>2. b \in Bookings
      BY <2>1, <2>6 DEF CommitPricing, Shape
    <3>3. y.status = x.status
      BY <2>1, <3>1, <3>2 DEF Booking
    <3> QED BY <2>2, <3>1, <3>2, <3>3
  <2>7. CASE \E km \in {"KNOWN", "NULL", "UNKNOWN"} : CommitPreserving(p, km)
    <3>1. b \in Bookings
      BY <2>1, <2>7 DEF CommitPreserving, Preserves, Shape
    <3>2. UNCHANGED revived \/ \E t, y : y = [x EXCEPT !.total = t] /\ Writes(p, b, y)
      BY <2>7 DEF CommitPreserving
    <3>3. \A t : [x EXCEPT !.total = t].status = x.status
      BY <2>1, <3>1 DEF Booking
    <3> QED BY <1>4, <2>2, <3>1, <3>2, <3>3
  <2>8. CASE BlindWrite(p)
    <3> DEFINE y == BlindlyWritten(p, x)
    <3>1. b \in Bookings /\ Writes(p, b, y)
      BY <2>1, <2>8 DEF BlindWrite, Shape, PastRecord
    <3>2. req[p].op \notin Promoters
      BY <2>1, <2>8 DEF BlindWrite, Called, Promoters
    <3>3. y = [x EXCEPT !.contract = "READY"] \/ y = [x EXCEPT !.status = "CANCELED", !.deletedAt = "SET"]
      BY <3>2 DEF BlindlyWritten, Promoters
    <3> HIDE DEF y
    <3>4. y.status = x.status \/ y.status = "CANCELED"
      BY <2>1, <3>1, <3>3 DEF Booking
    <3> QED BY <1>1, <1>2, <2>2, <3>1, <3>4
  <2>9. UNCHANGED revived \/ ~(CheckCreate(p) \/ CheckUpdate(p) \/ Refused(p) \/ UpsertContract(p))
    BY DEF CheckCreate, CheckUpdate, Refused, UpsertContract
  <2> QED BY <1>4, <1>6, <2>3, <2>4, <2>5, <2>6, <2>7, <2>8, <2>9 DEF Works
<1> QED BY <1>4, <1>5, <1>6 DEF Next, vars

CargosHandlers == {"setCargosStatus"}

\* Booking b does not become ready for handover in this step without a signed contract.
HandedOver(b) ==
  booking[b].status # "READY_FOR_HANDOVER" /\ booking'[b].status = "READY_FOR_HANDOVER"
    => booking[b].contract = "SIGNED"

LEMMA HandoverWrite ==
  ASSUME IInv, NEW p \in Requests, NEW b \in Bookings, NEW x, Writes(p, b, x),
         x.status = booking[b].status \/ x.status # "READY_FOR_HANDOVER"
  PROVE  \A c \in Bookings : HandedOver(c)
<1>1. booking'[b] = x /\ \A c \in Bookings : c # b => booking'[c] = booking[c]
  BY DEF Writes, IInv, TypeOK
<1> QED BY <1>1 DEF HandedOver

LEMMA HandoverStep ==
  ASSUME "setCargosStatus" \notin Ops, IInv, RInv, NEW p \in Requests, Works(p)
  PROVE  \A c \in Bookings : HandedOver(c)
<1> DEFINE b == req[p].b
           x == booking[b]
<1>1. /\ Shape(req[p]) /\ req[p] \in Request /\ booking \in [Bookings -> Booking]
      /\ Called(req[p]) /\ (b \in Bookings => x \in Booking)
  BY DEF IInv, TypeOK, Good, RInv, Served
<1>2. CASE UNCHANGED booking
  BY <1>2 DEF HandedOver
<1>3. CASE \E d \in Bookings, c \in Cargos \cap NewValues, km \in SUBSET (Readings \cap NewValues) :
             Insert(p, d, c, km)
  <2>1. PICK d \in Bookings, c \in Cargos \cap NewValues, km \in SUBSET (Readings \cap NewValues) :
             Insert(p, d, c, km)
    BY <1>3
  <2> DEFINE contract == IF req[p].to = "GENERATE" THEN "READY" ELSE req[p].to
             document == IF req[p].to = "GENERATE" THEN "SET" ELSE "NONE"
             y == [AbsentBooking EXCEPT !.status = "DRAFT", !.vehicle = req[p].v, !.slot = req[p].slot,
                                        !.contract = contract, !.document = document,
                                        !.cargos = c, !.km = km]
  <2>2. Writes(p, d, y)
    BY <2>1 DEF Insert
  <2>3. y.status = "DRAFT"
    BY DEF AbsentBooking
  <2> HIDE DEF y
  <2> QED BY <2>2, <2>3, HandoverWrite
<1>4. CASE CommitUpdate(p)
  <2> DEFINE e == Edited(x, req[p].to)
             y == [e EXCEPT !.vehicle = req[p].v, !.slot = req[p].slot]
  <2>1. b \in Bookings /\ Writes(p, b, y)
    BY <1>1, <1>4 DEF CommitUpdate, Shape
  <2>2. e.status = x.status /\ e \in Booking
    BY <1>1, <2>1, EditedValue DEF Request
  <2> HIDE DEF e
  <2>3. y.status = x.status
    BY <2>2 DEF Booking
  <2> HIDE DEF y
  <2> QED BY <2>1, <2>3, HandoverWrite
<1>5. CASE CommitTransition(p)
  BY <1>5, CommitsAllowed DEF HandedOver, Allowed
<1>6. CASE \E km \in {"KNOWN", "UNKNOWN"} : CommitPricing(p, km)
  <2>1. PICK t, y : y = [x EXCEPT !.terms = req[p].terms, !.total = t] /\ Writes(p, b, y)
    BY <1>6 DEF CommitPricing
  <2>2. b \in Bookings
    BY <1>1, <1>6 DEF CommitPricing, Shape
  <2>3. y.status = x.status
    BY <1>1, <2>1, <2>2 DEF Booking
  <2> QED BY <2>1, <2>2, <2>3, HandoverWrite
<1>7. CASE \E km \in {"KNOWN", "NULL", "UNKNOWN"} : CommitPreserving(p, km)
  <2>1. b \in Bookings
    BY <1>1, <1>7 DEF CommitPreserving, Preserves, Shape
  <2>2. UNCHANGED booking \/ \E t, y : y = [x EXCEPT !.total = t] /\ Writes(p, b, y)
    BY <1>7 DEF CommitPreserving
  <2>3. \A t : [x EXCEPT !.total = t].status = x.status
    BY <1>1, <2>1 DEF Booking
  <2> QED BY <1>2, <2>1, <2>2, <2>3, HandoverWrite
<1>8. CASE UpsertContract(p)
  <2>1. UNCHANGED booking \/ (b \in Bookings /\ booking' = [booking EXCEPT ![b].document = "SET"])
    BY <1>1, <1>8 DEF UpsertContract, Shape, PastRecord
  <2> QED BY <1>1, <1>2, <2>1 DEF HandedOver, Booking
<1>9. CASE BlindWrite(p)
  <2> DEFINE y == BlindlyWritten(p, x)
             e == Edited(x, req[p].to)
  <2>1. b \in Bookings /\ Writes(p, b, y)
    BY <1>1, <1>9 DEF BlindWrite, Shape, PastRecord
  <2>2. e \in Booking
    BY <1>1, <2>1, EditedValue DEF Request
  <2>3. req[p].op # "setCargosStatus"
    BY <1>1 DEF Called
  <2>4. \/ y = [e EXCEPT !.status = "CONTRACT_SIGNED"] \/ y = [e EXCEPT !.status = x.status]
        \/ y = [x EXCEPT !.contract = "READY"]
        \/ y = [x EXCEPT !.status = "CANCELED", !.deletedAt = "SET"]
    BY <2>3 DEF BlindlyWritten
  <2> HIDE DEF y, e
  <2>5. y.status \in {"CONTRACT_SIGNED", "CANCELED", x.status}
    BY <1>1, <2>1, <2>2, <2>4 DEF Booking
  <2> QED BY <2>1, <2>5, HandoverWrite
<1>10. UNCHANGED booking \/ ~(CheckCreate(p) \/ CheckUpdate(p) \/ Refused(p))
  BY DEF CheckCreate, CheckUpdate, Refused
<1> QED BY <1>2, <1>3, <1>4, <1>5, <1>6, <1>7, <1>8, <1>9, <1>10 DEF Works

LEMMA HandoverNext ==
  ASSUME "setCargosStatus" \notin Ops
  PROVE  IInv /\ RInv /\ [Next]_vars => [\A b \in Bookings : HandedOver(b)]_vars
<1> SUFFICES ASSUME IInv, RInv, Next PROVE \A b \in Bookings : HandedOver(b)
  OBVIOUS
<1>1. ASSUME NEW p \in Requests, Starts(p) \/ Locks(p) \/ Fails(p)
      PROVE  UNCHANGED booking
  BY <1>1 DEF Starts, Locks, Fails, create, update, transition, updatePricing, setContract, setCargosStatus,
              markContractSigned, generateContract, remove, Reads, LockKey, LockRecord, LockSchedule
<1>2. CASE UNCHANGED booking
  BY <1>2 DEF HandedOver
<1> QED BY <1>1, <1>2, HandoverStep DEF Next

-----------------------------------------------------------------------------
(* The theorems.                                                           *)

\* What a request read is right while its copy is fresh, and locks are taken in order.
THEOREM ReadsStayTrue == Spec => []RInv
  BY Invariance, InitRInv, NextRInv, PTL DEF Spec

\* transition commits only what its rules allow for the row as it is at the commit: the
\* comparison of updatedAt makes the checks on the earlier copy valid then.
THEOREM GuardsHold == Spec => TransitionsAreGuarded
  BY Invariance, ReadsStayTrue, GuardedStep, PTL DEF Spec, TransitionsAreGuarded

\* A total that transition or updatePricing writes was computed from the dates and the terms
\* the booking has after the write.
THEOREM TotalsAreCurrent == Spec => PricedAsBooked
<1>1. [\A b \in Bookings : Priced(b)]_vars =>
        [\A b \in Bookings : booking'[b].total \notin {booking[b].total, NoPrice} =>
           booking'[b].total = <<booking'[b].slot, booking'[b].terms>>]_vars
  BY DEF Priced
<1> QED BY <1>1, Invariance, ReadsStayTrue, PricedNext, PTL DEF Spec, PricedAsBooked

\* However many requests there are, no set of them waits for each other's key, record and
\* schedule locks.
THEOREM DeadlockFree == Spec => []NoDeadlock
  BY Invariance, ReadsStayTrue, NoCircle, PTL

\* If no client calls setContract, setCargosStatus or markContractSigned, no two active
\* bookings ever claim one vehicle at the same time: the locks, the availability check and
\* the rules of transition leave no other way to a double booking.
THEOREM DoubleBookingNeedsPromotion ==
  ASSUME Ops \cap Promoters = {}
  PROVE  Spec => []NoDoubleBooking
<1>1. Init => revived = {}
  BY DEF Init
<1>2. IInv /\ RInv /\ revived = {} /\ [Next]_vars => (revived = {})'
  BY NoRevival
<1>3. IInv /\ revived = {} => NoDoubleBooking
  BY DEF IInv, NoClashUnlessRevived, NoDoubleBooking
<1> QED BY <1>1, <1>2, <1>3, Invariance, ReadsStayTrue, PTL DEF Spec

\* If no client calls setCargosStatus, a booking becomes READY_FOR_HANDOVER only with a
\* signed contract, although the contract can be taken back by id at any moment.
THEOREM HandoverNeedsCargos ==
  ASSUME Ops \cap CargosHandlers = {}
  PROVE  Spec => HandoverNeedsContract
<1> DEFINE A == \A b \in Bookings : /\ booking[b].status # "READY_FOR_HANDOVER"
                                    /\ booking'[b].status = "READY_FOR_HANDOVER"
                                    => booking[b].contract = "SIGNED"
<1>1. IInv /\ RInv /\ [Next]_vars => [A]_vars
  BY HandoverNext DEF HandedOver, CargosHandlers
<1> QED BY <1>1, Invariance, ReadsStayTrue, PTL DEF Spec, HandoverNeedsContract
=============================================================================
