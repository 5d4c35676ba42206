---------------------------- MODULE MCCompactLoad ----------------------------
(***************************************************************************)
(* Five transactions on three roads, in batches of two.                     *)
(***************************************************************************)
EXTENDS CompactLoad

MCSize == [t \in Tables |->
              IF t \in {"facts", "evidence"} THEN 5 ELSE IF t \in {"roads", "aggregates"} THEN 3 ELSE 1]

MCRoadOf == [i \in 1 .. 5 |-> IF i < 3 THEN 1 ELSE IF i = 3 THEN 3 ELSE 2]
=============================================================================
