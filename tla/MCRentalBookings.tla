-------------------------- MODULE MCRentalBookings --------------------------
(* Instances of RentalBookings for TLC.                                    *)
EXTENDS RentalBookings, TLC

CONSTANTS p1, p2, k1, k2, b1, b2

OneVehicle  == {1}
TwoVehicles == {1, 2}
OneSlot     == {<<0, 1>>}
\* Two intervals that overlap.
TwoSlots    == {<<0, 2>>, <<1, 3>>}

\* Requests, keys and bookings are interchangeable.
Perms2 == {f @@ g @@ h : f \in Permutations({p1, p2}), g \in Permutations({k1, k2}),
                         h \in Permutations({b1, b2})}
PermsRequests == Permutations({p1, p2})
=============================================================================
