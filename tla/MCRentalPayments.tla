-------------------------- MODULE MCRentalPayments --------------------------
(* An instance of RentalPayments for TLC.                                  *)
EXTENDS RentalPayments, TLC

TwoIntents == {1, 2}

\* Bound: deposits and extra charges share nothing but the request slots, so the two kinds
\* are explored side by side and not mixed.
OneKind == \/ \A d \in Deposits : row[d].status = "ABSENT"
           \/ \A x \in Extras : row[x].status = "ABSENT"

\* Bound: a second deposit competes with the first for the booking, without crashes and
\* before either ages, until it has an intent too.
TwoDeposits == (\A d \in Deposits : Exists(d)) =>
                 aged = {} /\ crashes = 0 /\ \E d \in Deposits : IntentsOf(d) = {}
=============================================================================
