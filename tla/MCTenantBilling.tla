--------------------------- MODULE MCTenantBilling ---------------------------
(* An instance of TenantBilling for TLC.                                   *)
EXTENDS TenantBilling, TLC

CONSTANTS p1, p2, b1, b2

\* Requests and subscriptions are interchangeable.
Perms == {f @@ g : f \in Permutations({p1, p2}), g \in Permutations({b1, b2})}
=============================================================================
