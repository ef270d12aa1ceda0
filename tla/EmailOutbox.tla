---------------------------- MODULE EmailOutbox -----------------------------
(***************************************************************************)
(* What Fleetum's e-mail queue promises its callers, without workers,      *)
(* leases, tokens or retries: a transactional outbox.  A message is queued *)
(* once, may reach the provider (possibly after it was given up: an answer *)
(* that never came back is a failure for the sender), and is settled once. *)
(* It is settled as SENT only if the provider accepted it, in the same     *)
(* step that records the delivery in the domain tables.                    *)
(***************************************************************************)
EXTENDS Naturals

CONSTANTS
  Rows,        \* messages
  MustRecord   \* messages whose delivery is recorded without exception

VARIABLES
  status,      \* ABSENT, PENDING, SENT or FAILED
  accepted,    \* messages the provider accepted
  records      \* number of delivery records written for each message

vars == <<status, accepted, records>>

Init == /\ status   = [r \in Rows |-> "ABSENT"]
        /\ accepted = {}
        /\ records  = [r \in Rows |-> 0]

Queue(r) == /\ status[r] = "ABSENT"
            /\ status' = [status EXCEPT ![r] = "PENDING"]
            /\ UNCHANGED <<accepted, records>>

Accept(r) == /\ status[r] # "ABSENT"
             /\ accepted' = accepted \cup {r}
             /\ UNCHANGED <<status, records>>

\* n = 0: the record the delivery is about is gone, and is skipped.
Settle(r, n) == /\ status[r] = "PENDING" /\ r \in accepted
                /\ r \in MustRecord => n = 1
                /\ status'  = [status EXCEPT ![r] = "SENT"]
                /\ records' = [records EXCEPT ![r] = @ + n]
                /\ UNCHANGED accepted

GiveUp(r) == /\ status[r] = "PENDING"
             /\ status' = [status EXCEPT ![r] = "FAILED"]
             /\ UNCHANGED <<accepted, records>>

Next == \E r \in Rows : \/ Queue(r) \/ Accept(r) \/ GiveUp(r)
                        \/ \E n \in {0, 1} : Settle(r, n)

Spec == Init /\ [][Next]_vars
=============================================================================
