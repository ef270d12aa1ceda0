---------------------------- MODULE PaymentLedger ----------------------------
(***************************************************************************)
(* What the deposits and extra charges of a rental promise the accountant, *)
(* without requests, retries, idempotency keys, webhooks or conflicts: a   *)
(* ledger that follows the payment provider.  At most one payment is ever  *)
(* asked for a charge, and none once the charge is dropped.  The book may  *)
(* lag behind the provider and may skip entries, but what it says of money *)
(* is so, with the amount, and an entry only moves forward: open, taken,   *)
(* returned, disputed; dropped is final.                                   *)
(***************************************************************************)
EXTENDS Naturals

CONSTANTS
  Charges,       \* what the customer may owe
  Whole,         \* charges that are taken in full or not at all
  Payments,      \* payments at the provider
  Amount,        \* what a charge amounts to
  NoCharge, NoPayment

VARIABLES
  account,   \* the provider's side: the payments
  book       \* the service's side: the charges

vars == <<account, book>>

Unused == [of |-> NoCharge, state |-> "OPEN", amount |-> 0, claims |-> {}]
Blank  == [state |-> "OPEN", payment |-> NoPayment, amount |-> 0]

Init == /\ account = [i \in Payments |-> Unused]
        /\ book    = [x \in Charges |-> Blank]

\* How much may be taken for a charge.
Takes(x) == IF x \in Whole THEN {Amount} ELSE 1..Amount

\* A payment is asked for: the first one of its charge.  It may be taken at once.
Ask(x, i) ==
  /\ account[i].of = NoCharge
  /\ \A j \in Payments : account[j].of # x
  /\ book[x] = Blank
  /\ \E a \in Takes(x) \cup {0} :
       account' = [account EXCEPT ![i] = [of |-> x, amount |-> a, claims |-> {},
                                          state |-> IF a = 0 THEN "OPEN" ELSE "TAKEN"]]
  /\ UNCHANGED book

Take(i) ==
  /\ account[i].of # NoCharge /\ account[i].state = "OPEN"
  /\ \E a \in Takes(account[i].of) :
       account' = [account EXCEPT ![i].state = "TAKEN", ![i].amount = a]
  /\ UNCHANGED book

Void(i) ==
  /\ account[i].of # NoCharge /\ account[i].state = "OPEN"
  /\ account' = [account EXCEPT ![i].state = "VOID"]
  /\ UNCHANGED book

\* The customer gets the money back, or claims it back.
Claim(i, c) ==
  /\ account[i].state = "TAKEN" /\ c \notin account[i].claims
  /\ account' = [account EXCEPT ![i].claims = @ \cup {c}]
  /\ UNCHANGED book

\* The entries that may follow an entry.
Later(s) == CASE s = "OPEN"     -> {"OPEN", "TAKEN", "RETURNED", "DISPUTED", "DROPPED"}
              [] s = "TAKEN"    -> {"RETURNED", "DISPUTED"}
              [] s = "RETURNED" -> {"DISPUTED"}
              [] OTHER          -> {}

\* What the provider must have done for an entry s about payment i.
Evidence(i, s) ==
  /\ s \in {"TAKEN", "RETURNED", "DISPUTED"} => account[i].state = "TAKEN"
  /\ s = "RETURNED" => "refunded" \in account[i].claims
  /\ s = "DISPUTED" => "disputed" \in account[i].claims
  /\ s = "DROPPED"  => account[i].state = "VOID"

\* The book catches up with the payment of a charge.
Enter(x, i) ==
  /\ account[i].of = x
  /\ book[x].payment \in {NoPayment, i}
  /\ \E s \in Later(book[x].state) :
       /\ Evidence(i, s)
       /\ book' = [book EXCEPT ![x] =
                     [state |-> s, payment |-> i,
                      amount |-> IF s \in {"OPEN", "DROPPED"} THEN 0 ELSE account[i].amount]]
  /\ UNCHANGED account

\* A charge is withdrawn before a payment was asked for.
Drop(x) ==
  /\ book[x] = Blank
  /\ \A j \in Payments : account[j].of # x
  /\ book' = [book EXCEPT ![x].state = "DROPPED"]
  /\ UNCHANGED account

Next == \/ \E x \in Charges, i \in Payments : Ask(x, i) \/ Enter(x, i)
        \/ \E i \in Payments : \/ Take(i) \/ Void(i)
                               \/ \E c \in {"refunded", "disputed"} : Claim(i, c)
        \/ \E x \in Charges : Drop(x)

Spec == Init /\ [][Next]_vars
=============================================================================
