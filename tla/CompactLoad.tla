----------------------------- MODULE CompactLoad -----------------------------
(***************************************************************************)
(* The production loader of the compact PLVR schema:                        *)
(* scripts/compact_green_production_loader.py over migration 011.           *)
(*                                                                         *)
(* An operator runs the loader, and runs it again when it has ended without *)
(* success.  It fills the tables in a fixed order from a frozen source, one *)
(* transaction or one batch at a time, and decides by counting rows what an *)
(* earlier run has done.  A run may be killed at any moment; a transaction  *)
(* whose COMMIT it has sent then still commits, or not, a while later.      *)
(*                                                                         *)
(* Rows are numbered in the order in which the source yields them, which is *)
(* how the loader numbers them (the aggregates have their place in the      *)
(* source for a key).  A row of the facts has a road; what else a row says  *)
(* is left out.                                                             *)
(***************************************************************************)
EXTENDS Naturals, FiniteSets

CONSTANTS Size,      \* how many rows the source has for each table
          RoadOf,    \* the road of each transaction
          Batch,     \* BATCH_SIZE; that of the aggregates is another number
          MaxKills   \* bound

Dictionaries == {"generation", "artifacts", "geographies", "roads", "types"}
Tables == Dictionaries \cup {"facts", "evidence", "aggregates"}

VARIABLES db,      \* the rows of each table
          pc,      \* where the loader is, or "down", or "done"
          next,    \* how many rows have been handled in the current loop
          counted, \* what load_transactions has counted in the facts
          known,   \* the roads it has looked up
          orphan,  \* a transaction whose loader is dead, or NoTx
          kills

vars == <<db, pc, next, counted, known, orphan, kills>>

All(t) == 1 .. Size[t]
Count(t) == Cardinality(db[t])
Nothing == [t \in Tables |-> {}]
NoTx == Nothing

Init ==
    /\ db = Nothing
    /\ pc = "down" /\ next = 0 /\ counted = 0 /\ known = {}
    /\ orphan = NoTx /\ kills = 0

-----------------------------------------------------------------------------
\* A transaction that inserts the rows, in one table or in two.
Tx(ts, rows) == [t \in Tables |-> IF t \in ts THEN rows ELSE {}]

Meets(tx, rows) == \E t \in Tables : tx[t] \cap rows[t] # {}

\* An exception, a failed assertion, or the operator: the loader ends, and what
\* it has not committed is gone.
Ends == pc' = "down" /\ UNCHANGED <<db, next, counted, known, orphan>>

\* The loader moves on without writing.
Goto(l) == pc' = l /\ UNCHANGED <<db, next, counted, known, orphan, kills>>

\* Insert and commit, then move on: a row of a transaction in progress is waited
\* for, one that is there is an error; the loader may be killed before it learns
\* what has become of its COMMIT.
Insert(tx, l, n) ==
    /\ ~Meets(tx, orphan)
    /\ \/ /\ Meets(tx, db)
          /\ Ends /\ UNCHANGED kills
       \/ /\ ~Meets(tx, db)
          /\ db' = [t \in Tables |-> db[t] \cup tx[t]]
          /\ pc' = l /\ next' = n
          /\ UNCHANGED <<counted, known, orphan, kills>>
       \/ /\ ~Meets(tx, db)
          /\ kills < MaxKills /\ orphan = NoTx
          /\ pc' = "down" /\ orphan' = tx /\ kills' = kills + 1
          /\ UNCHANGED <<db, next, counted, known>>

\* The rows of the next batch.
NextRows(t) == {i \in All(t) : next < i /\ i =< next + Batch}

Run == pc = "down" /\ Goto("generation")

\* A dictionary of one transaction, unless it has rows.
Dictionary(t, l) ==
    /\ pc = t
    /\ IF db[t] # {} THEN Goto(l) ELSE Insert(Tx({t}, All(t)), l, 0)

\* The roads, unless there are some.
Roads ==
    /\ pc = "roads"
    /\ IF db["roads"] # {} THEN Goto("types")
       ELSE /\ pc' = "road batch" /\ next' = 0
            /\ UNCHANGED <<db, counted, known, orphan, kills>>

RoadBatch ==
    /\ pc = "road batch"
    /\ IF NextRows("roads") = {} THEN Goto("types")
       ELSE Insert(Tx({"roads"}, NextRows("roads")), "road batch", next + Batch)

\* load_transactions counts the facts, then the evidence, ...
CountFacts ==
    /\ pc = "count facts"
    /\ counted' = Count("facts")
    /\ pc' = "count evidence"
    /\ UNCHANGED <<db, next, known, orphan, kills>>

Beyond(t, n) == {i \in db[t] : i > n}

\* ... and deletes, if they differ, what one has beyond the other.
CountEvidence ==
    /\ pc = "count evidence"
    /\ LET evidence == Count("evidence")
           resume == IF counted < evidence THEN counted ELSE evidence
       IN \/ /\ counted = Size["facts"] /\ evidence = Size["facts"]
             /\ Goto("aggregates")
          \/ /\ ~(counted = Size["facts"] /\ evidence = Size["facts"])
             /\ db' = [db EXCEPT
                         !["facts"] = IF resume < counted THEN @ \ Beyond("facts", resume) ELSE @,
                         !["evidence"] = IF resume < evidence THEN @ \ Beyond("evidence", resume) ELSE @]
             /\ next' = resume
             /\ pc' = "look up"
             /\ UNCHANGED <<counted, known, orphan, kills>>

LookUp ==
    /\ pc = "look up"
    /\ known' = db["roads"]
    /\ pc' = "fact batch"
    /\ UNCHANGED <<db, next, counted, orphan, kills>>

\* A transaction whose road has not been looked up is a KeyError.
FactBatch ==
    /\ pc = "fact batch"
    /\ LET rows == NextRows("facts")
       IN IF rows = {} THEN Goto("aggregates")
          ELSE IF \E i \in rows : RoadOf[i] \notin known THEN Ends /\ UNCHANGED kills
          ELSE Insert(Tx({"facts", "evidence"}, rows), "fact batch", next + Batch)

\* The aggregates, from the start unless they are complete.
Aggregates ==
    /\ pc = "aggregates"
    /\ IF Count("aggregates") = Size["aggregates"] THEN Goto("verify")
       ELSE /\ db' = [db EXCEPT !["aggregates"] = {}]
            /\ pc' = "aggregate batch" /\ next' = 0
            /\ UNCHANGED <<counted, known, orphan, kills>>

AggregateBatch ==
    /\ pc = "aggregate batch"
    /\ IF NextRows("aggregates") = {} THEN Goto("verify")
       ELSE Insert(Tx({"aggregates"}, NextRows("aggregates")), "aggregate batch", next + Batch)

Verify ==
    /\ pc = "verify"
    /\ IF \A t \in {"facts", "evidence", "aggregates"} : Count(t) = Size[t]
       THEN Goto("done")
       ELSE Ends /\ UNCHANGED kills

Kill ==
    /\ pc \notin {"down", "done"} /\ kills < MaxKills
    /\ Ends /\ kills' = kills + 1

\* The transaction that was left behind commits, or is rolled back.
Settle ==
    /\ orphan # NoTx
    /\ \/ db' = [t \in Tables |-> db[t] \cup orphan[t]]
       \/ UNCHANGED db
    /\ orphan' = NoTx
    /\ UNCHANGED <<pc, next, counted, known, kills>>

Step ==
    \/ Run
    \/ Dictionary("generation", "artifacts") \/ Dictionary("artifacts", "geographies")
    \/ Dictionary("geographies", "roads") \/ Dictionary("types", "count facts")
    \/ Roads \/ RoadBatch
    \/ CountFacts \/ CountEvidence \/ LookUp \/ FactBatch
    \/ Aggregates \/ AggregateBatch \/ Verify

Next == Step \/ Kill \/ Settle

\* The loader makes progress, the operator runs it again, and the database
\* settles what was left behind.
Fairness == WF_vars(Step) /\ WF_vars(Settle)

Spec == Init /\ [][Next]_vars

FairSpec == Spec /\ Fairness

-----------------------------------------------------------------------------
\* A loader that says LOAD COMPLETE has loaded the source, every row once, also
\* after kills at any moment, and reruns (verify_final looks at counts only).
DoneMeansLoaded ==
    pc = "done" => \A t \in Tables : db[t] = All(t)

\* When the kills have stopped, running the loader again completes the load.
LoadCompletes == <>(pc = "done")
=============================================================================
