-------------------------- MODULE CompactLoadProofs --------------------------
(***************************************************************************)
(* A loader that says it is done has loaded the source, however often it    *)
(* was killed and run again, whatever became of its last COMMIT.            *)
(*                                                                         *)
(* The argument: no table ever holds a row that is not the source's, so a   *)
(* table with as many rows as the source has them all.  That is how         *)
(* verify_final sees the facts, the evidence and the aggregates.  The other *)
(* tables are not counted: those of one transaction hold everything or      *)
(* nothing; and of the roads, which may be there in part, every one is      *)
(* there at the end because the facts are and each has found its road.      *)
(***************************************************************************)
EXTENDS CompactLoad, FiniteSetTheorems, TLAPS

\* What the source is like: every road is that of some transaction.
SourceAssumption ==
    /\ Size \in [Tables -> Nat]
    /\ Size["facts"] = Size["evidence"]
    /\ RoadOf \in [All("facts") -> All("roads")]
    /\ \A r \in All("roads") : \E i \in All("facts") : RoadOf[i] = r

Whole == Dictionaries \ {"roads"}

\* Where the loader is when the dictionary must be there.
After(t) ==
    {"count facts", "count evidence", "look up", "fact batch", "aggregates",
     "aggregate batch", "verify", "done"} \cup
    CASE t = "generation" -> {"artifacts", "geographies", "roads", "road batch", "types"}
      [] t = "artifacts" -> {"geographies", "roads", "road batch", "types"}
      [] t = "geographies" -> {"roads", "road batch", "types"}
      [] OTHER -> {}

Bounded == db \in [Tables -> SUBSET Nat] /\ orphan \in [Tables -> SUBSET Nat]

FromTheSource == \A t \in Tables : db[t] \subseteq All(t) /\ orphan[t] \subseteq All(t)

AllOrNothing ==
    \A t \in Whole : db[t] \in {{}, All(t)} /\ orphan[t] \in {{}, All(t)}

DictionariesFirst == \A t \in Whole : pc \in After(t) => db[t] = All(t)

RoadsFound ==
    /\ known \subseteq db["roads"]
    /\ \A i \in db["facts"] \cup orphan["facts"] : RoadOf[i] \in db["roads"]

Complete ==
    pc = "done" => \A t \in {"facts", "evidence", "aggregates"} : db[t] = All(t)

Inv == Bounded /\ FromTheSource /\ AllOrNothing /\ DictionariesFirst /\ RoadsFound /\ Complete

-----------------------------------------------------------------------------
\* A table of the source's rows, as many as there are, is the source.
LEMMA CountedIsComplete ==
  ASSUME SourceAssumption, NEW t \in Tables, db[t] \subseteq All(t), Count(t) = Size[t]
  PROVE  db[t] = All(t)
<1>1. Size[t] \in Nat
  BY DEF SourceAssumption
<1>2. IsFiniteSet(All(t)) /\ Cardinality(All(t)) = Size[t]
  <2>1. 0 \in Int /\ Size[t] \in Int /\ 1 \in Int
    BY <1>1
  <2>2. All(t) = 1 .. Size[t]
    BY DEF All
  <2>3. IsFiniteSet(1 .. Size[t]) /\ Cardinality(1 .. Size[t]) = (IF 1 > Size[t] THEN 0 ELSE Size[t] - 1 + 1)
    BY <2>1, FS_Interval
  <2>. QED
    BY <1>1, <2>2, <2>3
<1>. QED
  BY <1>2, FS_Subset DEF Count

LEMMA InitHolds ==
  ASSUME SourceAssumption
  PROVE  Init => Inv
  BY DEF Init, Inv, Bounded, FromTheSource, AllOrNothing, DictionariesFirst, RoadsFound,
         Complete, Nothing, NoTx, Tables, Dictionaries, Whole, After

\* The invariant after a transaction of the loader that inserts, by tables.
LEMMA InsertKeeps ==
  ASSUME SourceAssumption, Inv, NEW tx \in [Tables -> SUBSET Nat], NEW l, NEW n,
         \A t \in Tables : tx[t] \subseteq All(t),
         \A t \in Whole : tx[t] \in {{}, All(t)},
         \A i \in tx["facts"] : RoadOf[i] \in db["roads"],
         \A t \in Whole : l \in After(t) => db[t] = All(t) \/ tx[t] = All(t),
         l # "done",
         Insert(tx, l, n)
  PROVE  Inv'
<1>. "facts" \in Tables /\ "roads" \in Tables /\ Whole \subseteq Tables
  BY DEF Tables, Dictionaries, Whole
<1>. USE DEF Inv, Bounded, FromTheSource, AllOrNothing, DictionariesFirst, RoadsFound, Complete
<1>0. \A t \in Whole : "down" \notin After(t)
  BY DEF After, Whole, Dictionaries
<1>1. CASE Ends
  BY <1>0, <1>1 DEF Ends, All
<1>2. CASE /\ db' = [t \in Tables |-> db[t] \cup tx[t]]
           /\ pc' = l /\ UNCHANGED <<known, orphan>>
  <2>1. \A t \in Tables : db'[t] = db[t] \cup tx[t]
    BY <1>2
  <2>2. Bounded'
    BY <1>2, <2>1
  <2>3. FromTheSource'
    BY <1>2, <2>1 DEF All
  <2>4. AllOrNothing'
    BY <1>2, <2>1 DEF All
  <2>5. DictionariesFirst'
    BY <1>2, <2>1 DEF All
  <2>6. RoadsFound'
    BY <1>2, <2>1
  <2>. QED
    BY <1>2, <2>2, <2>3, <2>4, <2>5, <2>6
<1>3. CASE /\ pc' = "down" /\ orphan' = tx
           /\ UNCHANGED <<db, known>>
  BY <1>0, <1>3 DEF All
<1>. QED
  BY <1>1, <1>2, <1>3 DEF Insert

\* The loader moves on, or ends, without a change of the tables.
LEMMA MoveKeeps ==
  ASSUME SourceAssumption, Inv, UNCHANGED <<db, orphan>>, known' \subseteq db["roads"],
         \A t \in Whole : pc' \in After(t) => db[t] = All(t),
         pc' # "done"
  PROVE  Inv'
<1>. Whole \subseteq Tables
  BY DEF Tables, Dictionaries, Whole
<1>. QED
  BY DEF Inv, Bounded, FromTheSource, AllOrNothing, DictionariesFirst, RoadsFound, Complete, All

LEMMA DictionaryKeeps ==
  ASSUME SourceAssumption, Inv, NEW t \in Whole, NEW l, l # "done",
         \A u \in Whole \ {t} : l \in After(u) => t \in After(u),
         Dictionary(t, l)
  PROVE  Inv'
<1>. t \in Tables /\ t \in Dictionaries /\ t # "roads" /\ t # "facts"
  BY DEF Tables, Dictionaries, Whole
<1>0. \A u \in Whole \ {t} : l \in After(u) => db[u] = All(u)
  BY DEF Dictionary, Inv, DictionariesFirst
<1>1. CASE db[t] # {}
  <2>1. db[t] = All(t)
    BY <1>1 DEF Inv, AllOrNothing
  <2>. QED
    BY <1>0, <1>1, <2>1, MoveKeeps DEF Dictionary, Goto, Inv, RoadsFound
<1>2. CASE db[t] = {}
  <2>. DEFINE tx == Tx({t}, All(t))
  <2>1. tx \in [Tables -> SUBSET Nat] /\ \A u \in Tables : tx[u] = IF u = t THEN All(t) ELSE {}
    BY DEF Tx, All, SourceAssumption
  <2>2. Whole \subseteq Tables /\ "facts" \in Tables
    BY DEF Tables, Dictionaries, Whole
  <2>3. \A u \in Tables : tx[u] \subseteq All(u)
    BY <2>1
  <2>4. \A u \in Whole : tx[u] \in {{}, All(u)}
    BY <2>1, <2>2
  <2>5. \A i \in tx["facts"] : RoadOf[i] \in db["roads"]
    BY <2>1, <2>2
  <2>6. \A u \in Whole : l \in After(u) => db[u] = All(u) \/ tx[u] = All(u)
    BY <1>0, <2>1, <2>2
  <2>7. Insert(tx, l, 0)
    BY <1>2 DEF Dictionary
  <2>. HIDE DEF tx
  <2>. QED
    BY <2>1, <2>3, <2>4, <2>5, <2>6, <2>7, InsertKeeps
<1>. QED
  BY <1>1, <1>2

\* A batch of a table that is no dictionary of one transaction.
LEMMA BatchKeeps ==
  ASSUME SourceAssumption, Inv,
         NEW ts \in SUBSET {"roads", "facts", "evidence", "aggregates"},
         NEW rows \in SUBSET Nat, \A t \in ts : rows \subseteq All(t),
         "facts" \in ts => \A i \in rows : RoadOf[i] \in db["roads"],
         NEW n, pc # "done", Insert(Tx(ts, rows), pc, n)
  PROVE  Inv'
<1>. DEFINE tx == Tx(ts, rows)
<1>1. tx \in [Tables -> SUBSET Nat] /\ \A u \in Tables : tx[u] = IF u \in ts THEN rows ELSE {}
  BY DEF Tx
<1>2. Whole \subseteq Tables /\ Whole \cap ts = {} /\ "facts" \in Tables
  BY DEF Tables, Dictionaries, Whole
<1>3. \A u \in Tables : tx[u] \subseteq All(u)
  BY <1>1
<1>4. \A u \in Whole : tx[u] \in {{}, All(u)}
  BY <1>1, <1>2
<1>5. \A i \in tx["facts"] : RoadOf[i] \in db["roads"]
  BY <1>1, <1>2
<1>6. \A u \in Whole : pc \in After(u) => db[u] = All(u) \/ tx[u] = All(u)
  BY DEF Inv, DictionariesFirst
<1>7. Insert(tx, pc, n)
  OBVIOUS
<1>. HIDE DEF tx
<1>. QED
  BY <1>1, <1>3, <1>4, <1>5, <1>6, <1>7, InsertKeeps

\* Rows of the facts, the evidence or the aggregates are deleted.
LEMMA DeletionKeeps ==
  ASSUME SourceAssumption, Inv, db' \in [Tables -> SUBSET Nat],
         \A t \in Dictionaries : db'[t] = db[t],
         \A t \in Tables : db'[t] \subseteq db[t],
         UNCHANGED <<known, orphan>>, pc' # "done",
         \A t \in Whole : pc' \in After(t) => pc \in After(t)
  PROVE  Inv'
<1>. /\ Whole \subseteq Dictionaries /\ Dictionaries \subseteq Tables
     /\ "roads" \in Dictionaries /\ "facts" \in Tables
  BY DEF Tables, Dictionaries, Whole
<1>. QED
  BY DEF Inv, Bounded, FromTheSource, AllOrNothing, DictionariesFirst, RoadsFound, Complete, All

-----------------------------------------------------------------------------
LEMMA StepKeeps ==
  ASSUME SourceAssumption, Inv, Step
  PROVE  Inv'
<1>. /\ {"generation", "artifacts", "geographies", "types"} = Whole
     /\ {"roads", "facts", "evidence", "aggregates"} \subseteq Tables
  BY DEF Whole, Dictionaries, Tables
<1>0. known \subseteq db["roads"]
  BY DEF Inv, RoadsFound
<1>1. CASE Run
  BY <1>0, <1>1, MoveKeeps DEF Run, Goto, After
<1>2. CASE Dictionary("generation", "artifacts")
  BY <1>2, DictionaryKeeps DEF After
<1>3. CASE Dictionary("artifacts", "geographies")
  BY <1>3, DictionaryKeeps DEF After
<1>4. CASE Dictionary("geographies", "roads")
  BY <1>4, DictionaryKeeps DEF After
<1>5. CASE Dictionary("types", "count facts")
  BY <1>5, DictionaryKeeps DEF After
<1>6. CASE Roads
  <2>1. /\ UNCHANGED <<db, orphan, known>> /\ pc' \in {"types", "road batch"}
        /\ pc = "roads"
    BY <1>6 DEF Roads, Goto
  <2>. QED
    BY <1>0, <2>1, MoveKeeps DEF After, Inv, DictionariesFirst
<1>7. CASE RoadBatch
  <2>1. CASE NextRows("roads") = {}
    BY <1>0, <1>7, <2>1, MoveKeeps DEF RoadBatch, Goto, After, Inv, DictionariesFirst
  <2>2. CASE NextRows("roads") # {}
    <3>1. NextRows("roads") \subseteq All("roads") /\ NextRows("roads") \in SUBSET Nat
      BY DEF NextRows, All
    <3>2. pc # "done" /\ Insert(Tx({"roads"}, NextRows("roads")), pc, next + Batch)
      BY <1>7, <2>2 DEF RoadBatch
    <3>. QED
      BY <3>1, <3>2, BatchKeeps
  <2>. QED
    BY <2>1, <2>2
<1>8. CASE CountFacts
  BY <1>0, <1>8, MoveKeeps DEF CountFacts, After, Inv, DictionariesFirst
<1>9. CASE CountEvidence
  <2>1. CASE Goto("aggregates")
    BY <1>0, <1>9, <2>1, MoveKeeps DEF CountEvidence, Goto, After, Inv, DictionariesFirst
  <2>2. CASE ~Goto("aggregates")
    <3>1. db \in [Tables -> SUBSET Nat]
      BY DEF Inv, Bounded
    <3>2. PICK n : db' = [db EXCEPT
                     !["facts"] = IF n < counted THEN @ \ Beyond("facts", n) ELSE @,
                     !["evidence"] = IF n < Count("evidence") THEN @ \ Beyond("evidence", n) ELSE @]
      BY <1>9, <2>2 DEF CountEvidence
    <3>3. "facts" \notin Dictionaries /\ "evidence" \notin Dictionaries /\ Dictionaries \subseteq Tables
      BY DEF Dictionaries, Tables
    <3>4. /\ db' \in [Tables -> SUBSET Nat]
          /\ \A t \in Dictionaries : db'[t] = db[t]
          /\ \A t \in Tables : db'[t] \subseteq db[t]
      BY <3>1, <3>2, <3>3
    <3>5. pc = "count evidence" /\ pc' = "look up" /\ UNCHANGED <<known, orphan>>
      BY <1>9, <2>2 DEF CountEvidence
    <3>. QED
      BY <3>4, <3>5, DeletionKeeps DEF After
  <2>. QED
    BY <2>1, <2>2
<1>10. CASE LookUp
  BY <1>10, MoveKeeps DEF LookUp, After, Inv, DictionariesFirst
<1>11. CASE FactBatch
  <2>. DEFINE rows == NextRows("facts")
  <2>1. CASE Goto("aggregates")
    BY <1>0, <1>11, <2>1, MoveKeeps DEF FactBatch, Goto, After, Inv, DictionariesFirst
  <2>2. CASE Ends
    BY <1>0, <2>2, MoveKeeps DEF Ends, After
  <2>3. CASE /\ \A i \in rows : RoadOf[i] \in known
             /\ Insert(Tx({"facts", "evidence"}, rows), pc, next + Batch)
    <3>1. rows \in SUBSET Nat /\ rows \subseteq All("facts") /\ rows \subseteq All("evidence")
      BY DEF NextRows, All, SourceAssumption
    <3>2. \A i \in rows : RoadOf[i] \in db["roads"]
      BY <1>0, <2>3
    <3>3. pc # "done"
      BY <1>11 DEF FactBatch
    <3>. HIDE DEF rows
    <3>. QED
      BY <2>3, <3>1, <3>2, <3>3, BatchKeeps
  <2>. QED
    BY <1>11, <2>1, <2>2, <2>3 DEF FactBatch
<1>12. CASE Aggregates
  <2>1. CASE Goto("verify")
    BY <1>0, <1>12, <2>1, MoveKeeps DEF Aggregates, Goto, After, Inv, DictionariesFirst
  <2>2. CASE db' = [db EXCEPT !["aggregates"] = {}] /\ pc' = "aggregate batch" /\ UNCHANGED <<known, orphan>>
    <3>1. db \in [Tables -> SUBSET Nat]
      BY DEF Inv, Bounded
    <3>2. "aggregates" \notin Dictionaries /\ Dictionaries \subseteq Tables
      BY DEF Dictionaries, Tables
    <3>3. /\ db' \in [Tables -> SUBSET Nat]
          /\ \A t \in Dictionaries : db'[t] = db[t]
          /\ \A t \in Tables : db'[t] \subseteq db[t]
      BY <2>2, <3>1, <3>2
    <3>. QED
      BY <1>12, <2>2, <3>3, DeletionKeeps DEF Aggregates, After
  <2>. QED
    BY <1>12, <2>1, <2>2 DEF Aggregates
<1>13. CASE AggregateBatch
  <2>1. CASE NextRows("aggregates") = {}
    BY <1>0, <1>13, <2>1, MoveKeeps DEF AggregateBatch, Goto, After, Inv, DictionariesFirst
  <2>2. CASE NextRows("aggregates") # {}
    <3>1. NextRows("aggregates") \subseteq All("aggregates") /\ NextRows("aggregates") \in SUBSET Nat
      BY DEF NextRows, All
    <3>2. /\ pc # "done"
          /\ Insert(Tx({"aggregates"}, NextRows("aggregates")), pc, next + Batch)
      BY <1>13, <2>2 DEF AggregateBatch
    <3>. QED
      BY <3>1, <3>2, BatchKeeps
  <2>. QED
    BY <2>1, <2>2
<1>14. CASE Verify
  <2>1. CASE Ends
    BY <1>0, <2>1, MoveKeeps DEF Ends, After
  <2>2. CASE Goto("done") /\ \A t \in {"facts", "evidence", "aggregates"} : Count(t) = Size[t]
    <3>1. \A t \in {"facts", "evidence", "aggregates"} : db[t] = All(t)
      BY <2>2, CountedIsComplete DEF Inv, FromTheSource
    <3>. QED
      BY <1>14, <2>2, <3>1 DEF Verify, Goto, Inv, Bounded, FromTheSource, AllOrNothing,
         DictionariesFirst, RoadsFound, Complete, All, After
  <2>. QED
    BY <1>14, <2>1, <2>2 DEF Verify
<1>. QED
  BY <1>1, <1>2, <1>3, <1>4, <1>5, <1>6, <1>7, <1>8, <1>9, <1>10, <1>11, <1>12, <1>13, <1>14
     DEF Step

LEMMA SettleKeeps ==
  ASSUME SourceAssumption, Inv, Settle
  PROVE  Inv'
<1>. /\ Whole \subseteq Tables
     /\ {"roads", "facts", "evidence", "aggregates"} \subseteq Tables
  BY DEF Tables, Dictionaries, Whole
<1>. USE DEF Inv, Bounded, FromTheSource, AllOrNothing, DictionariesFirst, RoadsFound, Complete
<1>1. /\ orphan' = NoTx /\ orphan' \in [Tables -> SUBSET Nat]
      /\ \A t \in Tables : orphan'[t] = {}
  BY DEF Settle, NoTx, Nothing
<1>2. UNCHANGED <<pc, known>>
  BY DEF Settle
<1>3. CASE db' = [t \in Tables |-> db[t] \cup orphan[t]]
  <2>1. \A t \in Tables : db'[t] = db[t] \cup orphan[t]
    BY <1>3
  <2>2. Bounded' /\ FromTheSource'
    BY <1>1, <1>3, <2>1 DEF All
  <2>3. AllOrNothing'
    <3>1. ASSUME NEW t \in Whole
          PROVE  db'[t] \in {{}, All(t)} /\ orphan'[t] = {} /\ All(t)' = All(t)
      <4>1. t \in Tables /\ db[t] \in {{}, All(t)} /\ orphan[t] \in {{}, All(t)}
        OBVIOUS
      <4>2. db'[t] = db[t] \cup orphan[t] /\ orphan'[t] = {}
        BY <1>1, <2>1, <4>1
      <4>. HIDE DEF Inv, Bounded, FromTheSource, AllOrNothing, DictionariesFirst, RoadsFound, Complete
      <4>. QED
        BY <4>1, <4>2 DEF All
    <3>. QED
      BY <3>1
  <2>4. DictionariesFirst'
    BY <1>2, <2>1 DEF All
  <2>5. RoadsFound'
    BY <1>1, <1>2, <2>1
  <2>6. Complete'
    <3>1. ASSUME NEW t \in {"facts", "evidence", "aggregates"}, pc = "done" PROVE db'[t] = All(t)
      <4>1. t \in Tables /\ db[t] = All(t) /\ orphan[t] \subseteq All(t)
        BY <3>1
      <4>. HIDE DEF Inv, Bounded, FromTheSource, AllOrNothing, DictionariesFirst, RoadsFound, Complete
      <4>. QED
        BY <2>1, <4>1
    <3>. QED
      BY <1>2, <3>1 DEF All
  <2>. QED
    BY <2>2, <2>3, <2>4, <2>5, <2>6
<1>4. CASE UNCHANGED db
  BY <1>1, <1>2, <1>4 DEF All
<1>. QED
  BY <1>3, <1>4 DEF Settle

LEMMA InvKept ==
  ASSUME SourceAssumption, Inv, [Next]_vars
  PROVE  Inv'
<1>1. CASE Kill
  BY <1>1, MoveKeeps DEF Kill, Ends, After, Inv, RoadsFound
<1>2. CASE UNCHANGED vars
  BY <1>2 DEF vars, Inv, Bounded, FromTheSource, AllOrNothing, DictionariesFirst, RoadsFound,
              Complete, All
<1>. QED
  BY <1>1, <1>2, StepKeeps, SettleKeeps DEF Next

\* In the end the roads are there because every one is that of a fact.
LEMMA InvIsEnough ==
  ASSUME SourceAssumption, Inv
  PROVE  DoneMeansLoaded
<1>. SUFFICES ASSUME pc = "done", NEW t \in Tables
              PROVE  db[t] = All(t)
  BY DEF DoneMeansLoaded
<1>1. CASE t \in Whole
  BY <1>1 DEF Inv, DictionariesFirst, After
<1>2. CASE t \in {"facts", "evidence", "aggregates"}
  BY <1>2 DEF Inv, Complete
<1>3. CASE t = "roads"
  <2>1. db["facts"] = All("facts")
    BY DEF Inv, Complete
  <2>2. \A r \in All("roads") : r \in db["roads"]
    BY <2>1 DEF SourceAssumption, Inv, RoadsFound
  <2>. QED
    BY <1>3, <2>2 DEF Inv, FromTheSource
<1>. QED
  BY <1>1, <1>2, <1>3 DEF Tables, Whole

\* The loader reports LOAD COMPLETE only over the whole source, each row once:
\* for every size of the tables and of the batches, any number of kills, and
\* any outcome of the COMMITs they leave behind.
THEOREM LoadedWhenDone ==
  ASSUME SourceAssumption
  PROVE  Spec => []DoneMeansLoaded
<1>1. Init => Inv
  BY InitHolds
<1>2. Inv /\ [Next]_vars => Inv'
  BY InvKept
<1>3. Inv => DoneMeansLoaded
  BY InvIsEnough
<1>. QED
  BY <1>1, <1>2, <1>3, PTL DEF Spec
=============================================================================
