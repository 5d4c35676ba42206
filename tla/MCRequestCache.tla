--------------------------- MODULE MCRequestCache ---------------------------
(* Three calls and two keys over a cache with room for one of them: the     *)
(* owner of a key, the calls that join it and the bypass all meet.          *)
EXTENDS RequestCache, TLC

CONSTANTS c1, c2, c3, k1, k2

Three == {c1, c2, c3}
Both  == {k1, k2}

Symmetry == Permutations(Three) \cup Permutations(Both)
=============================================================================
