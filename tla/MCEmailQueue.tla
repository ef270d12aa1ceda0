---------------------------- MODULE MCEmailQueue ----------------------------
(* Instances of EmailQueue for TLC.                                        *)
EXTENDS EmailQueue, TLC

CONSTANTS w1, w2

\* One row with records that must follow the queue, one behind an authorising dispatcher.
MCTypes2 == <<"BOOKING_CONTRACT", "REMINDER_EMAIL">>
MCTypes1 == <<"RENTAL_EXTRA_CHARGE_NOTICE">>
MCRows2 == 1..2
MCRows1 == 1..1
Perms == Permutations({w1, w2})
=============================================================================
