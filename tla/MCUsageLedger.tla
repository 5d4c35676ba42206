--------------------------- MODULE MCUsageLedger ----------------------------
(* Two observations of two rows, with room for one; a tick is half an hour. *)
EXTENDS UsageLedger, TLC

CONSTANTS o1, o2, r1, r2

Both   == {o1, o2}
Two    == {r1, r2}
RowsOf == o1 :> r1 @@ o2 :> r2
=============================================================================
