---------------------------- MODULE MCSavedCases ----------------------------
(* Two devices of a user import, edit and delete one case and log out, with  *)
(* a second import, keys used twice and room for two receipts.               *)
EXTENDS SavedCases, TLC

CONSTANTS a, b, k1, k2, i1, i2, d1, d2, r1, r2

MCSessions == {a, b}
MCRequests == {r1, r2}
MCImportKeys == {i1, i2}
MCDigests == {d1, d2}

Keyless(s, op, on, v) == [session |-> s, key |-> "none", cmd |-> [op |-> op, on |-> on, expected |-> v]]
Create(s, k, i, d) == [session |-> s, key |-> k, cmd |-> [op |-> "create", on |-> i, body |-> d]]
Update(s, k, op, v, d) ==
    [session |-> s, key |-> k, cmd |-> [op |-> op, on |-> 1, expected |-> v, body |-> d]]

MCSubmissions ==
    {Create(a, k1, i1, d1), Create(b, k2, i1, d1), Create(b, k1, i1, d2), Create(a, k2, i2, d1),
     Update(a, k1, "metadata", 1, d1), Update(b, k1, "metadata", 1, d2),
     Update(b, k2, "monitoring", 2, d1),
     Keyless(a, "delete", 1, 2),
     Keyless(a, "logout", 0, 0)}

Symmetry == Permutations(MCRequests)
=============================================================================
