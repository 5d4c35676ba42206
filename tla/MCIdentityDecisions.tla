----------------------- MODULE MCIdentityDecisions -----------------------
(* IdentityDecisions with two requests in flight, two resolutions and two  *)
(* cases: decisions that race from one version, an attachment superseded.  *)
EXTENDS IdentityDecisions, TLC

CONSTANTS x, y, xa, xb, ya, k1, k2, k3, k4, k5, k6, k7

MCOwner == (xa :> x) @@ (xb :> x) @@ (ya :> y)

Confirm(res, cand, v) ==
    [op |-> "confirm", resolution |-> res, candidate |-> cand, expected |-> v]
Reject(res, cand, v) ==
    [op |-> "reject", resolution |-> res, candidate |-> cand, expected |-> v]
Attach(n, res, v) ==
    [op |-> "attach", case |-> n, resolution |-> res, expected |-> v]

\* Two decisions race from version 1 of x, one key may close it two ways and
\* a third decision comes after either; y has one candidate; x and y are
\* attached to one case, which others change as well.
MCSubmissions ==
    { [key |-> k1, cmd |-> Confirm(x, xa, 1)],
      [key |-> k1, cmd |-> Reject(x, NoCandidate, 1)],
      [key |-> k2, cmd |-> Reject(x, xb, 1)],
      [key |-> k3, cmd |-> Confirm(x, xb, 2)],
      [key |-> k4, cmd |-> Confirm(y, ya, 1)],
      [key |-> k5, cmd |-> [op |-> "create_case"]],
      [key |-> k6, cmd |-> Attach(1, x, 1)],
      [key |-> k7, cmd |-> Attach(1, y, 2)] }

Symmetry == Permutations(Requests)
=============================================================================
