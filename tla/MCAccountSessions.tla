------------------------- MODULE MCAccountSessions --------------------------
(* An instance of AccountSessions for TLC.                                 *)
EXTENDS AccountSessions, TLC

CONSTANTS s1, s2, s3, l1, p1, p2

\* Sessions and requests are interchangeable.
Perms == {f @@ g : f \in Permutations({s1, s2, s3}), g \in Permutations({p1, p2})}
=============================================================================
