--------------------------- MODULE MCQuotaControl ---------------------------
(***************************************************************************)
(* Two administrators and a consumer.  The administrators demote and        *)
(* suspend each other, one promotes the consumer, who may then suspend; both *)
(* change the quota, one of them under two keys, one of which is also that  *)
(* of an account command.  One request and two operations spend the quota.  *)
(***************************************************************************)
EXTENDS QuotaControl, FiniteSets, TLC

CONSTANTS A, B, C, k1, k2, r1, r2, m1, m2, m3

MCUsers == {A, B, C}

MCFirstAccounts ==
    [u \in MCUsers |->
        [status |-> "active", role |-> IF u = C THEN "consumer" ELSE "platform_admin"]]

Policy(r, o, d) == [request |-> r, operation |-> o, daily |-> d]
MCDefaultPolicy == Policy(1, 1, 1)

Account(a, t, f, v, k) ==
    [op |-> "account", actor |-> a, target |-> t, field |-> f, value |-> v, key |-> k]

Quota(a, q, k) == [op |-> "quota", actor |-> a, quota |-> q, key |-> k]

MCSubmissions ==
    {Account(A, B, "status", "suspended", k1),
     Account(B, A, "role", "consumer", k1),
     Account(A, C, "role", "platform_admin", k2),
     Account(C, A, "status", "suspended", k1),
     Quota(A, Policy(1, 2, 2), k1), Quota(A, Policy(1, 1, 2), k2), Quota(B, Policy(1, 2, 2), k2)}

MCSlots == {r1, r2}
MCMarkers == {m1, m2, m3}
MCKind == [m \in MCMarkers |-> IF m = m1 THEN "request" ELSE "operation"]

\* While calls come in, the administrators make one change to the quota, which
\* is ready to commit.
OneChange == Quota(A, Policy(1, 2, 2), k1)
QuietAdmin ==
    /\ commands = {} /\ claims \subseteq {[cmd |-> OneChange, owner |-> 1]}
    /\ Cardinality({r \in Slots : pc[r] # "idle"}) =< Cardinality(claims)
    /\ \A r \in Slots : pc[r] # "idle" => pc[r] = "applying" /\ req[r] = OneChange
QuietGuard == now = 0 /\ calls = [m \in Markers |-> Guard!NoCall]
OneIsQuiet == QuietAdmin \/ QuietGuard

Symmetry == Permutations(MCSlots) \cup Permutations({m2, m3})
=============================================================================
