-------------------------- MODULE IdentityProofs ---------------------------
(* The decisions on a resolution are numbered without gaps or repetitions   *)
(* and end with the one that closes it, and they refine the serial log of   *)
(* IdentityLog.  A key that succeeded has one row and any other key none,   *)
(* and the links of a case form one chain.  All of it for any number of     *)
(* requests, resolutions, candidates, keys and cases.                       *)
EXTENDS IdentityDecisions, FiniteSetTheorems, SequenceTheorems, TLAPS

Closes(d) == d.type \in {"confirmed", "resolution_rejected"}

Shape ==
    /\ decisions \subseteq Decisions /\ IsFiniteSet(decisions)
    /\ tx = [r \in Requests |-> tx[r]]
    /\ pc \in [Requests -> InFlight \cup {"idle"}]
    /\ req \in [Requests -> Submissions \cup {NoRequest}]
    /\ \A r \in Requests : pc[r] # "idle" => req[r] \in Submissions
    /\ \A r \in Requests : tx[r].row = "decision" => tx[r] \in Decisions

\* What every decision's row says of its candidate.
Fits(d) ==
    /\ d.candidate = NoCandidate <=> d.type = "resolution_rejected"
    /\ d.candidate # NoCandidate => Owner[d.candidate] = d.resolution
    /\ d.type = "confirmed" => d.candidate \in Confirmable

\* A row that waits for the guard is the one its request asks for.
Drafted ==
    \A r \in Requests : pc[r] = "guarding" /\ tx[r].row = "decision" =>
        /\ req[r].cmd.op \in {"confirm", "reject"}
        /\ tx[r].resolution = req[r].cmd.resolution
        /\ tx[r].candidate = req[r].cmd.candidate
        /\ tx[r].type = DecisionType(req[r].cmd)
        /\ tx[r].version = req[r].cmd.expected + 1

\* The guard let the row pass, on a snapshot that may be old by now.
Guarded(r) == tx[r].row = "decision" /\ pc[r] # "guarding"

\* The row is in the table and in its unique indexes.
Held(r) == Guarded(r) /\ pc[r] # "inserting"

\* What has been committed since a row was guarded is numbered from the row's
\* own number on: whatever would speak against the row as well.
GuardedRows ==
    \A r \in Requests : Guarded(r) =>
        /\ tx[r].version \in 2 .. Version(tx[r].resolution) + 1
        /\ Fits(tx[r])
        /\ \A d \in DecisionsOn(tx[r].resolution) :
              \/ Closes(d)
              \/ d.type = "candidate_rejected" /\ d.candidate = tx[r].candidate
              => d.version >= tx[r].version

\* No committed row, and no other one held, has the number of a held row.
HeldRows ==
    \A r \in Requests : Held(r) =>
        /\ \A d \in DecisionsOn(tx[r].resolution) : d.version # tx[r].version
        /\ \A q \in Requests \ {r} :
              Held(q) /\ tx[q].resolution = tx[r].resolution
                => tx[q].version # tx[r].version

Inv ==
    /\ Shape
    /\ Drafted
    /\ VersionsAreDense
    /\ ClosedForGood
    /\ \A d \in decisions : Fits(d)
    /\ GuardedRows
    /\ HeldRows

-----------------------------------------------------------------------------
LEMMA VersionType ==
    ASSUME Shape, NEW x
    PROVE  /\ IsFiniteSet(DecisionsOn(x))
           /\ Cardinality(DecisionsOn(x)) \in Nat
           /\ Version(x) \in Nat /\ Version(x) >= 1
<1>1. DecisionsOn(x) \subseteq decisions /\ IsFiniteSet(decisions)
  BY DEF Shape, DecisionsOn
<1>2. IsFiniteSet(DecisionsOn(x))
  BY <1>1, FS_Subset
<1>3. Cardinality(DecisionsOn(x)) \in Nat
  BY <1>2, FS_CardinalityType
<1> QED BY <1>2, <1>3 DEF Version

LEMMA InitInv == Init => Inv
<1> SUFFICES ASSUME Init PROVE Inv
  OBVIOUS
<1>1. Shape
  BY FS_EmptySet DEF Init, Shape, NoTx
<1>2. \A x : DecisionsOn(x) = {} /\ Version(x) = 1
  BY FS_EmptySet DEF Init, DecisionsOn, Version
<1>3. VersionsAreDense
  BY <1>2 DEF VersionsAreDense
<1>4. \A r \in Requests : tx[r].row = "none"
  BY DEF Init, NoTx
<1>5. Drafted /\ GuardedRows /\ HeldRows
  BY <1>4 DEF Drafted, GuardedRows, HeldRows, Guarded, Held
<1>6. ClosedForGood /\ \A d \in decisions : Fits(d)
  BY DEF Init, ClosedForGood
<1> QED BY <1>1, <1>3, <1>5, <1>6 DEF Inv

\* The row a command drafts is a decision's if and only if it decides.
LEMMA RowShape ==
    ASSUME NEW s \in Submissions, Row(s.cmd, s.key).row = "decision"
    PROVE  /\ Row(s.cmd, s.key) \in Decisions
           /\ s.cmd.op \in {"confirm", "reject"}
           /\ Row(s.cmd, s.key).resolution = s.cmd.resolution
           /\ Row(s.cmd, s.key).candidate = s.cmd.candidate
           /\ Row(s.cmd, s.key).type = DecisionType(s.cmd)
           /\ Row(s.cmd, s.key).version = s.cmd.expected + 1
<1>1. s.key \in Keys /\ s.cmd.op \in Ops
  BY SubmissionsAssumption
<1>2. s.cmd.op \in {"confirm", "reject"}
  BY <1>1 DEF Row, Ops
<1>3. Row(s.cmd, s.key) =
        [row |-> "decision", resolution |-> s.cmd.resolution,
         type |-> DecisionType(s.cmd), candidate |-> s.cmd.candidate,
         version |-> s.cmd.expected + 1, key |-> s.key]
  BY <1>2 DEF Row
<1>4. /\ s.cmd.resolution \in Resolutions
      /\ s.cmd.candidate \in Candidates \cup {NoCandidate}
      /\ s.cmd.expected \in Nat
  BY <1>2, SubmissionsAssumption
<1>5. DecisionType(s.cmd) \in {"confirmed", "candidate_rejected", "resolution_rejected"}
  BY DEF DecisionType
<1> QED BY <1>1, <1>2, <1>3, <1>4, <1>5 DEF Decisions

-----------------------------------------------------------------------------
\* A step that commits nothing and lets no new row past its guard or into
\* the table.
LEMMA Quiet ==
    ASSUME Inv, Shape', Drafted', UNCHANGED decisions,
           \A q \in Requests :
               /\ Guarded(q)' => Guarded(q) /\ tx'[q] = tx[q]
               /\ Held(q)' => Held(q)
    PROVE  Inv'
<1>1. \A z : DecisionsOn(z)' = DecisionsOn(z) /\ Version(z)' = Version(z)
  BY DEF DecisionsOn, Version
<1>2. VersionsAreDense' /\ ClosedForGood' /\ (\A d \in decisions : Fits(d))'
  BY <1>1 DEF Inv, VersionsAreDense, ClosedForGood, Fits
<1>3. GuardedRows'
  BY <1>1 DEF Inv, GuardedRows, Fits
<1>4. \A q \in Requests : Held(q)' => Held(q) /\ tx'[q] = tx[q]
  BY DEF Held
<1>5. HeldRows'
  BY <1>1, <1>4 DEF Inv, HeldRows
<1> QED BY <1>2, <1>3, <1>5 DEF Inv

LEMMA SendInv ==
    ASSUME Inv, NEW r \in Requests, Send(r)
    PROVE  Inv'
<1>1. Shape' /\ Drafted'
  BY DEF Inv, Shape, Drafted, Send, db, InFlight, InTransaction
<1>2. \A q \in Requests : (Guarded(q)' => Guarded(q)) /\ (Held(q)' => Held(q))
  BY DEF Inv, Shape, Send, db, Guarded, Held, NoTx
<1> QED BY <1>1, <1>2, Quiet DEF Send, db

LEMMA ReserveInv ==
    ASSUME Inv, NEW r \in Requests, Reserve(r)
    PROVE  Inv'
<1>1. Shape' /\ Drafted'
  BY DEF Inv, Shape, Drafted, Reserve, Goto, Answer, InFlight, InTransaction
<1>2. \A q \in Requests : (Guarded(q)' => Guarded(q)) /\ (Held(q)' => Held(q))
  BY DEF Inv, Shape, Reserve, Goto, Answer, Guarded, Held
<1> QED BY <1>1, <1>2, Quiet DEF Reserve

LEMMA CheckInv ==
    ASSUME Inv, NEW r \in Requests, Check(r)
    PROVE  Inv'
<1> DEFINE row == Row(req[r].cmd, req[r].key)
<1>1. req[r] \in Submissions /\ pc[r] = "checking" /\ UNCHANGED <<decisions, req>>
  BY DEF Inv, Shape, Check, Goto, db
<1>2. CASE tx' = [tx EXCEPT ![r] = row] /\
           pc' = [pc EXCEPT ![r] = IF req[r].cmd.op = "create_case"
                                   THEN "completing" ELSE "guarding"]
  <2>1. row.row = "decision" =>
            row \in Decisions /\ req[r].cmd.op \in {"confirm", "reject"}
    BY <1>1, RowShape
  <2>2. Shape'
    BY <1>1, <1>2, <2>1 DEF Inv, Shape, InFlight, InTransaction
  <2>3. Drafted'
    <3> SUFFICES ASSUME NEW q \in Requests, pc'[q] = "guarding",
                        tx'[q].row = "decision"
                 PROVE  /\ req[q].cmd.op \in {"confirm", "reject"}
                        /\ tx'[q].resolution = req[q].cmd.resolution
                        /\ tx'[q].candidate = req[q].cmd.candidate
                        /\ tx'[q].type = DecisionType(req[q].cmd)
                        /\ tx'[q].version = req[q].cmd.expected + 1
      BY <1>1 DEF Drafted
    <3>1. CASE q = r
      <4>1. tx'[q] = row
        BY <1>2, <3>1 DEF Inv, Shape
      <4> QED BY <1>1, <3>1, <4>1, RowShape
    <3>2. CASE q # r
      <4>1. tx'[q] = tx[q] /\ pc'[q] = pc[q]
        BY <1>2, <3>2 DEF Inv, Shape
      <4> QED BY <4>1 DEF Inv, Drafted
    <3> QED BY <3>1, <3>2
  <2>4. \A q \in Requests : Guarded(q)' => q # r
    BY <1>2, <2>1 DEF Inv, Shape, Guarded
  <2>5. \A q \in Requests : q # r => tx'[q] = tx[q] /\ pc'[q] = pc[q]
    BY <1>2 DEF Inv, Shape
  <2> QED BY <1>1, <2>2, <2>3, <2>4, <2>5, Quiet DEF Guarded, Held
<1>3. CASE Goto(r, "marking") /\ UNCHANGED tx
  <2>1. Shape' /\ Drafted'
    BY <1>1, <1>3 DEF Inv, Shape, Drafted, Goto, InFlight
  <2>2. \A q \in Requests : (Guarded(q)' => Guarded(q)) /\ (Held(q)' => Held(q))
    BY <1>1, <1>3 DEF Inv, Shape, Goto, Guarded, Held
  <2> QED BY <1>1, <1>3, <2>1, <2>2, Quiet
<1> QED BY <1>2, <1>3 DEF Check, Goto

LEMMA RollBackInv ==
    ASSUME Inv, NEW r \in Requests, pc[r] # "idle", RollBack(r),
           UNCHANGED decisions
    PROVE  Inv'
<1>1. Shape'
  BY DEF Inv, Shape, RollBack, Goto, InFlight, NoTx
<1>2. Drafted'
  BY DEF Inv, Shape, Drafted, RollBack, Goto, NoTx
<1>3. \A q \in Requests : Guarded(q)' => q # r
  BY DEF Inv, Shape, RollBack, Guarded, NoTx
<1>4. \A q \in Requests : q # r => tx'[q] = tx[q] /\ pc'[q] = pc[q]
  BY DEF Inv, Shape, RollBack, Goto
<1> QED BY <1>1, <1>2, <1>3, <1>4, Quiet DEF Guarded, Held

\* The guard counts again: the row is next in number, and nothing it sees is
\* against it.
LEMMA GuardInv ==
    ASSUME Inv, NEW r \in Requests, Guard(r)
    PROVE  Inv'
<1> DEFINE c == req[r].cmd
<1>1. pc[r] = "guarding" /\ UNCHANGED decisions
  BY DEF Guard, db
<1>2. CASE RollBack(r)
  BY <1>1, <1>2, RollBackInv
<1>3. CASE Allowed(c) /\ Goto(r, "inserting") /\ UNCHANGED tx
  <2>1. Shape' /\ Drafted'
    BY <1>1, <1>3 DEF Inv, Shape, Drafted, Goto, InFlight, InTransaction
  <2>2. \A q \in Requests : q # r => tx'[q] = tx[q] /\ pc'[q] = pc[q]
    BY <1>3 DEF Inv, Shape, Goto
  <2>3. \A z : DecisionsOn(z)' = DecisionsOn(z) /\ Version(z)' = Version(z)
    BY <1>1 DEF DecisionsOn, Version
  <2>4. VersionsAreDense' /\ ClosedForGood' /\ (\A d \in decisions : Fits(d))'
    BY <1>1, <2>3 DEF Inv, VersionsAreDense, ClosedForGood, Fits
  <2>5. pc'[r] = "inserting"
    BY <1>3 DEF Inv, Shape, Goto
  <2>6. HeldRows'
    <3>1. \A q \in Requests : Held(q)' => Held(q) /\ tx'[q] = tx[q]
      BY <2>2, <2>5 DEF Held, Guarded
    <3> QED BY <2>3, <3>1 DEF Inv, HeldRows
  <2>7. ASSUME tx[r].row = "decision"
        PROVE  /\ tx[r].version \in 2 .. Version(tx[r].resolution) + 1
               /\ Fits(tx[r])
               /\ \A d \in DecisionsOn(tx[r].resolution) :
                     \/ Closes(d)
                     \/ d.type = "candidate_rejected" /\ d.candidate = tx[r].candidate
                     => d.version >= tx[r].version
    <3>1. /\ c.op \in {"confirm", "reject"}
          /\ tx[r].resolution = c.resolution /\ tx[r].candidate = c.candidate
          /\ tx[r].type = DecisionType(c) /\ tx[r].version = c.expected + 1
      BY <1>1, <2>7 DEF Inv, Drafted
    <3>2. MayDecide(c)
      BY <1>3, <3>1 DEF Allowed
    <3>3. tx[r].version = Version(tx[r].resolution) + 1
      BY <3>1, <3>2 DEF MayDecide
    <3>4. Version(tx[r].resolution) \in Nat /\ Version(tx[r].resolution) >= 1
      BY VersionType DEF Inv
    <3>5. req[r] \in Submissions
      BY <1>1 DEF Inv, Shape
    <3>6. c.op = "confirm" => c.candidate # NoCandidate
      BY <3>5, SubmissionsAssumption
    <3>7. Fits(tx[r])
      BY <3>1, <3>2, <3>6 DEF Fits, MayDecide, DecisionType
    <3>8. \A d \in DecisionsOn(tx[r].resolution) : ~Closes(d)
      BY <3>1, <3>2 DEF MayDecide, Closed, Closes
    <3>9. \A d \in DecisionsOn(tx[r].resolution) :
             d.type = "candidate_rejected" => d.candidate # tx[r].candidate
      <4> SUFFICES ASSUME NEW d \in DecisionsOn(tx[r].resolution),
                          d.type = "candidate_rejected", d.candidate = tx[r].candidate
                   PROVE  FALSE
        OBVIOUS
      <4>1. d \in decisions /\ Fits(d)
        BY DEF DecisionsOn, Inv
      <4>2. c.candidate # NoCandidate
        BY <3>1, <4>1 DEF Fits
      <4>3. ~Rejected(c.candidate)
        BY <3>2, <4>2 DEF MayDecide
      <4> QED BY <3>1, <4>1, <4>3 DEF Rejected
    <3> QED BY <3>3, <3>4, <3>7, <3>8, <3>9
  <2>8. GuardedRows'
    <3> SUFFICES ASSUME NEW q \in Requests, Guarded(q)'
                 PROVE  /\ tx[q].version \in 2 .. Version(tx[q].resolution) + 1
                        /\ Fits(tx[q])
                        /\ \A d \in DecisionsOn(tx[q].resolution) :
                              \/ Closes(d)
                              \/ d.type = "candidate_rejected" /\ d.candidate = tx[q].candidate
                              => d.version >= tx[q].version
      BY <1>1, <1>3, <2>3 DEF GuardedRows, Fits
    <3>1. CASE q = r
      BY <2>7, <3>1, <1>3 DEF Guarded
    <3>2. CASE q # r
      BY <2>2, <3>2 DEF Inv, GuardedRows, Guarded
    <3> QED BY <3>1, <3>2
  <2> QED BY <2>1, <2>4, <2>6, <2>8 DEF Inv
<1> QED BY <1>2, <1>3 DEF Guard

LEMMA InsertInv ==
    ASSUME Inv, NEW r \in Requests, Insert(r)
    PROVE  Inv'
<1>1. pc[r] = "inserting" /\ ~MustWait(r) /\ UNCHANGED decisions
  BY DEF Insert, db
<1>2. CASE RollBack(r)
  BY <1>1, <1>2, RollBackInv
<1>3. CASE ~Duplicate(r) /\ Goto(r, "completing") /\ UNCHANGED tx
  <2>1. Shape' /\ Drafted'
    BY <1>1, <1>3 DEF Inv, Shape, Drafted, Goto, InFlight, InTransaction
  <2>2. \A z : DecisionsOn(z)' = DecisionsOn(z) /\ Version(z)' = Version(z)
    BY <1>1 DEF DecisionsOn, Version
  <2>3. VersionsAreDense' /\ ClosedForGood' /\ (\A d \in decisions : Fits(d))'
    BY <1>1, <2>2 DEF Inv, VersionsAreDense, ClosedForGood, Fits
  <2>4. \A q \in Requests : Guarded(q)' => Guarded(q)
    BY <1>1, <1>3 DEF Inv, Shape, Goto, Guarded
  <2>5. GuardedRows'
    BY <1>1, <1>3, <2>2, <2>4 DEF Inv, GuardedRows, Fits
  <2>6. \A q \in Requests : Held(q)' => Held(q) \/ q = r
    BY <1>1, <1>3 DEF Inv, Shape, Goto, Guarded, Held
  <2>7. ASSUME Guarded(r)
        PROVE  /\ \A d \in DecisionsOn(tx[r].resolution) : d.version # tx[r].version
               /\ \A q \in Requests \ {r} :
                     Held(q) /\ tx[q].resolution = tx[r].resolution
                       => tx[q].version # tx[r].version
    <3>1. tx[r].row = "decision"
      BY <2>7 DEF Guarded
    <3>2. \A d \in decisions : d.row = "decision"
      BY DEF Inv, Shape, Decisions
    <3>3. \A d \in DecisionsOn(tx[r].resolution) : d.version # tx[r].version
      BY <1>3, <3>1, <3>2 DEF Duplicate, Collide, DecisionsCollide, DecisionsOn
    <3>4. \A q \in Requests : Held(q) => Holding(q) /\ tx[q].row = "decision"
      BY DEF Held, Guarded, Holding, NoTx
    <3>5. \A q \in Requests \ {r} :
              Held(q) /\ tx[q].resolution = tx[r].resolution
                => tx[q].version # tx[r].version
      BY <1>1, <3>1, <3>4 DEF MustWait, Collide, DecisionsCollide
    <3> QED BY <3>3, <3>5
  <2>8. \A q \in Requests : Held(q)' => Guarded(q)
    BY <2>4 DEF Held
  <2>9. HeldRows'
    <3> SUFFICES ASSUME NEW q \in Requests, Held(q)'
                 PROVE  /\ \A d \in DecisionsOn(tx[q].resolution) :
                              d.version # tx[q].version
                        /\ \A p \in Requests \ {q} :
                              Held(p)' /\ tx[p].resolution = tx[q].resolution
                                => tx[p].version # tx[q].version
      BY <1>3, <2>2 DEF HeldRows
    <3>1. CASE q = r
      BY <2>6, <2>7, <2>8, <3>1
    <3>2. CASE q # r
      <4>1. Held(q)
        BY <2>6, <3>2
      <4>2. \A p \in Requests \ {q} :
               Held(p)' /\ tx[p].resolution = tx[q].resolution
                 => tx[p].version # tx[q].version
        BY <2>6, <2>7, <2>8, <3>2, <4>1 DEF Inv, HeldRows
      <4> QED BY <4>1, <4>2 DEF Inv, HeldRows
    <3> QED BY <3>1, <3>2
  <2> QED BY <2>1, <2>3, <2>5, <2>9 DEF Inv
<1> QED BY <1>2, <1>3 DEF Insert

\* A held row has the next number.
LEMMA HeldIsNext ==
    ASSUME Inv, NEW r \in Requests, Held(r)
    PROVE  tx[r].version = Version(tx[r].resolution) + 1
<1> DEFINE z == tx[r].resolution
<1>1. Guarded(r) /\ tx[r] \in Decisions
  BY DEF Inv, Shape, Held, Guarded
<1>2. z \in Resolutions /\ Version(z) \in Nat
  BY <1>1, VersionType DEF Decisions, Inv
<1>3. tx[r].version \in 2 .. Version(z) + 1
  BY <1>1 DEF Inv, GuardedRows
<1>4. tx[r].version \notin {d.version : d \in DecisionsOn(z)}
  BY DEF Inv, HeldRows
<1>5. {d.version : d \in DecisionsOn(z)} = 2 .. Version(z)
  BY <1>2 DEF Inv, VersionsAreDense
<1> QED BY <1>2, <1>3, <1>4, <1>5

\* What the commit of a decision does to the numbers.
LEMMA OneMore ==
    ASSUME Inv, NEW row, NEW z, z = row.resolution,
           decisions' = decisions \cup {row},
           \A d \in DecisionsOn(z) : d.version # row.version
    PROVE  /\ DecisionsOn(z)' = DecisionsOn(z) \cup {row}
           /\ Version(z)' = Version(z) + 1
           /\ \A w : w # z =>
                 DecisionsOn(w)' = DecisionsOn(w) /\ Version(w)' = Version(w)
<1>1. DecisionsOn(z)' = DecisionsOn(z) \cup {row}
  BY DEF DecisionsOn
<1>2. row \notin DecisionsOn(z)
  OBVIOUS
<1>3. Cardinality(DecisionsOn(z) \cup {row}) = Cardinality(DecisionsOn(z)) + 1
  BY <1>2, VersionType, FS_AddElement DEF Inv
<1>4. Version(z)' = 1 + (Cardinality(DecisionsOn(z)) + 1)
  BY <1>1, <1>3 DEF Version
<1>5. Version(z)' = Version(z) + 1
  BY <1>4, VersionType DEF Version, Inv
<1>6. \A w : w # z => DecisionsOn(w)' = DecisionsOn(w) /\ Version(w)' = Version(w)
  BY DEF DecisionsOn, Version
<1> QED BY <1>1, <1>5, <1>6

LEMMA CommitShape ==
    ASSUME Inv, NEW r \in Requests, Commit(r)
    PROVE  /\ Shape' /\ Drafted'
           /\ tx'[r] = NoTx /\ \A q \in Requests \ {r} : tx'[q] = tx[q] /\ pc'[q] = pc[q]
           /\ decisions' = IF tx[r].row = "decision" THEN decisions \cup {tx[r]}
                           ELSE decisions
           /\ tx[r].row = "decision" => Held(r)
<1>1. decisions' = IF tx[r].row = "decision" THEN decisions \cup {tx[r]} ELSE decisions
  BY DEF Commit
<1>2. tx'[r] = NoTx /\ \A q \in Requests \ {r} : tx'[q] = tx[q] /\ pc'[q] = pc[q]
  BY DEF Commit, Inv, Shape, Answer, Goto
<1>3. tx[r].row = "decision" => Held(r)
  BY DEF Commit, Sent, InTransaction, Held, Guarded
<1>4. decisions' \subseteq Decisions /\ IsFiniteSet(decisions')
  BY <1>1, FS_AddElement DEF Inv, Shape
<1>5. /\ pc' \in [Requests -> InFlight \cup {"idle"}]
      /\ req' \in [Requests -> Submissions \cup {NoRequest}]
      /\ tx' = [q \in Requests |-> tx'[q]]
  BY DEF Commit, Inv, Shape, Answer, Goto, InFlight
<1>6. \A q \in Requests : pc'[q] # "idle" => req'[q] \in Submissions
  BY DEF Commit, Inv, Shape, Answer, Goto
<1>7. Shape'
  BY <1>2, <1>4, <1>5, <1>6 DEF Inv, Shape, NoTx
<1>8. Drafted'
  BY <1>2 DEF Commit, Inv, Shape, Drafted, Answer, Goto, NoTx
<1> QED BY <1>1, <1>2, <1>3, <1>7, <1>8

LEMMA CommitInv ==
    ASSUME Inv, NEW r \in Requests, Commit(r)
    PROVE  Inv'
<1> SUFFICES ASSUME NEW row, row = tx[r], NEW z, z = row.resolution
             PROVE  Inv'
  OBVIOUS
<1>1. Shape' /\ Drafted'
  BY CommitShape
<1>2. \A q \in Requests : Guarded(q)' => q # r /\ Guarded(q) /\ tx'[q] = tx[q]
  BY CommitShape DEF Guarded, NoTx
<1>3. \A q \in Requests : Held(q)' => q # r /\ Held(q) /\ tx'[q] = tx[q]
  BY <1>2, CommitShape DEF Held
<1>4. CASE row.row # "decision"
  BY <1>1, <1>2, <1>3, <1>4, CommitShape, Quiet
<1>5. CASE row.row = "decision"
  <2>1. Held(r) /\ Guarded(r) /\ decisions' = decisions \cup {row}
    BY <1>5, CommitShape DEF Held
  <2>2. row \in Decisions /\ z \in Resolutions
    BY <1>5 DEF Inv, Shape, Decisions
  <2>3. row.version = Version(z) + 1
    BY <2>1, HeldIsNext
  <2>4. /\ DecisionsOn(z)' = DecisionsOn(z) \cup {row}
        /\ Version(z)' = Version(z) + 1
        /\ \A w : w # z => DecisionsOn(w)' = DecisionsOn(w) /\ Version(w)' = Version(w)
    BY <2>1, OneMore DEF Inv, HeldRows
  <2>5. \A w : Version(w) \in Nat /\ Version(w) >= 1
    BY VersionType DEF Inv
  <2>6. {d.version : d \in DecisionsOn(z)} = 2 .. Version(z)
    BY <2>2 DEF Inv, VersionsAreDense
  <2>7. VersionsAreDense'
    <3>1. {d.version : d \in DecisionsOn(z)'} = 2 .. Version(z)'
      <4>1. {d.version : d \in DecisionsOn(z)'}
              = {d.version : d \in DecisionsOn(z)} \cup {Version(z) + 1}
        BY <2>3, <2>4
      <4>2. (2 .. Version(z)) \cup {Version(z) + 1} = 2 .. Version(z) + 1
        BY <2>5
      <4> QED BY <4>1, <4>2, <2>4, <2>6
    <3>2. \A d, e \in DecisionsOn(z)' : d.version = e.version => d = e
      BY <2>1, <2>2, <2>4 DEF Inv, VersionsAreDense, HeldRows
    <3>3. \A w \in Resolutions : w # z =>
             /\ {d.version : d \in DecisionsOn(w)'} = 2 .. Version(w)'
             /\ \A d, e \in DecisionsOn(w)' : d.version = e.version => d = e
      BY <2>4 DEF Inv, VersionsAreDense
    <3> QED BY <3>1, <3>2, <3>3 DEF VersionsAreDense
  <2>8. ClosedForGood'
    <3> SUFFICES ASSUME NEW d \in decisions', NEW e \in decisions',
                        d.resolution = e.resolution, Closes(d)
                 PROVE  e.version =< d.version
      BY DEF ClosedForGood, Closes
    <3>1. \A f \in decisions : f.version \in Nat
      BY DEF Inv, Shape, Decisions
    <3>2. CASE d \in decisions /\ e \in decisions
      BY <3>2 DEF Inv, ClosedForGood, Closes
    <3>3. CASE d \in decisions /\ e = row
      <4>1. d \in DecisionsOn(z)
        BY <3>3 DEF DecisionsOn
      <4>2. d.version >= row.version
        BY <2>1, <4>1 DEF Inv, GuardedRows
      <4> QED BY <3>3, <4>2
    <3>4. CASE d = row /\ e \in decisions
      <4>1. e \in DecisionsOn(z)
        BY <3>4 DEF DecisionsOn
      <4>2. e.version \in 2 .. Version(z)
        BY <2>6, <4>1
      <4> QED BY <2>3, <2>5, <3>4, <4>2
    <3>5. CASE d = row /\ e = row
      BY <2>3, <2>5, <3>5
    <3> QED BY <2>1, <3>2, <3>3, <3>4, <3>5
  <2>9. (\A d \in decisions : Fits(d))'
    BY <2>1 DEF Inv, GuardedRows, Fits
  <2>10. GuardedRows'
    <3> SUFFICES ASSUME NEW q \in Requests, Guarded(q)', NEW w, w = tx[q]
                 PROVE  /\ w.version \in 2 .. Version(w.resolution)' + 1
                        /\ Fits(w)
                        /\ \A d \in DecisionsOn(w.resolution)' :
                              \/ Closes(d)
                              \/ d.type = "candidate_rejected" /\ d.candidate = w.candidate
                              => d.version >= w.version
      BY <1>2 DEF GuardedRows, Fits
    <3>1. /\ w.version \in 2 .. Version(w.resolution) + 1
          /\ Fits(w)
          /\ \A d \in DecisionsOn(w.resolution) :
                \/ Closes(d)
                \/ d.type = "candidate_rejected" /\ d.candidate = w.candidate
                => d.version >= w.version
      BY <1>2 DEF Inv, GuardedRows
    <3>2. CASE w.resolution = z
      BY <2>3, <2>4, <2>5, <3>1, <3>2
    <3>3. CASE w.resolution # z
      BY <2>4, <3>1, <3>3
    <3> QED BY <3>2, <3>3
  <2>11. HeldRows'
    <3> SUFFICES ASSUME NEW q \in Requests, Held(q)', NEW w, w = tx[q]
                 PROVE  /\ \A d \in DecisionsOn(w.resolution)' : d.version # w.version
                        /\ \A p \in Requests \ {q} :
                              Held(p)' /\ tx'[p].resolution = w.resolution
                                => tx'[p].version # w.version
      BY <1>3 DEF HeldRows
    <3>1. /\ Held(q) /\ q # r
          /\ \A d \in DecisionsOn(w.resolution) : d.version # w.version
      BY <1>3 DEF Inv, HeldRows
    <3>2. \A p \in Requests \ {q} :
             Held(p)' /\ tx'[p].resolution = w.resolution => tx'[p].version # w.version
      BY <1>3, <3>1 DEF Inv, HeldRows
    <3>3. w.resolution = z => row.version # w.version
      BY <2>1, <3>1 DEF Inv, HeldRows
    <3>4. \A d \in DecisionsOn(w.resolution)' : d.version # w.version
      BY <2>4, <3>1, <3>3
    <3> QED BY <3>2, <3>4
  <2> QED BY <1>1, <2>7, <2>8, <2>9, <2>10, <2>11 DEF Inv
<1> QED BY <1>4, <1>5

LEMMA CompleteInv ==
    ASSUME Inv, NEW r \in Requests, Complete(r)
    PROVE  Inv'
<1>1. pc[r] = "completing" /\ UNCHANGED decisions
  BY DEF Complete, db
<1>2. CASE RollBack(r)
  BY <1>1, <1>2, RollBackInv
<1>3. CASE Goto(r, "committing") /\ UNCHANGED tx
  <2>1. Shape' /\ Drafted'
    BY <1>1, <1>3 DEF Inv, Shape, Drafted, Goto, InFlight
  <2>2. \A q \in Requests : (Guarded(q)' => Guarded(q)) /\ (Held(q)' => Held(q))
    BY <1>1, <1>3 DEF Inv, Shape, Goto, Guarded, Held
  <2> QED BY <1>1, <1>3, <2>1, <2>2, Quiet
<1> QED BY <1>2, <1>3 DEF Complete

LEMMA AbortInv ==
    ASSUME Inv, NEW r \in Requests, Abort(r)
    PROVE  Inv'
<1>1. UNCHANGED decisions
  BY DEF Abort, db
<1>2. CASE pc[r] \in InTransaction \cup {"committing"} /\ RollBack(r)
  BY <1>1, <1>2, RollBackInv DEF InTransaction
<1>3. CASE tx' = [tx EXCEPT ![r] = NoTx] /\ UNCHANGED <<pc, req>>
  <2>1. Shape' /\ Drafted'
    BY <1>1, <1>3 DEF Inv, Shape, Drafted, NoTx
  <2>2. \A q \in Requests : Guarded(q)' => q # r
    BY <1>3 DEF Inv, Shape, Guarded, NoTx
  <2>3. \A q \in Requests : q # r => tx'[q] = tx[q]
    BY <1>3 DEF Inv, Shape
  <2> QED BY <1>1, <1>3, <2>1, <2>2, <2>3, Quiet DEF Guarded, Held
<1> QED BY <1>2, <1>3 DEF Abort

LEMMA LoseConnectionInv ==
    ASSUME Inv, NEW r \in Requests, LoseConnection(r)
    PROVE  Inv'
<1>1. UNCHANGED <<decisions, tx>> /\ pc[r] = "committing"
  BY DEF LoseConnection, db
<1>2. Shape' /\ Drafted'
  BY <1>1 DEF Inv, Shape, Drafted, LoseConnection, Goto, InFlight
<1>3. \A q \in Requests : (Guarded(q)' => Guarded(q)) /\ (Held(q)' => Held(q))
  BY <1>1 DEF Inv, Shape, LoseConnection, Goto, Guarded, Held
<1> QED BY <1>1, <1>2, <1>3, Quiet

LEMMA MarkFailedInv ==
    ASSUME Inv, NEW r \in Requests, MarkFailed(r)
    PROVE  Inv'
<1>1. UNCHANGED <<decisions, tx>> /\ pc[r] = "marking" /\ Answer(r)
  BY DEF MarkFailed
<1>2. Shape' /\ Drafted'
  BY <1>1 DEF Inv, Shape, Drafted, Answer
<1>3. \A q \in Requests : (Guarded(q)' => Guarded(q)) /\ (Held(q)' => Held(q))
  BY <1>1 DEF Inv, Shape, Answer, Guarded, Held
<1> QED BY <1>1, <1>2, <1>3, Quiet

LEMMA CrashInv ==
    ASSUME Inv, NEW r \in Requests, Crash(r)
    PROVE  Inv'
<1>1. UNCHANGED decisions /\ Answer(r) /\ pc[r] \in InFlight
  BY DEF Crash, db
<1>2. tx' = IF Sent(r) THEN tx ELSE [tx EXCEPT ![r] = NoTx]
  BY DEF Crash
<1>3. Shape' /\ Drafted'
  BY <1>1, <1>2 DEF Inv, Shape, Drafted, Answer, NoTx
<1>4. \A q \in Requests \ {r} : tx'[q] = tx[q] /\ pc'[q] = pc[q]
  BY <1>1, <1>2 DEF Inv, Shape, Answer
<1>5. Guarded(r)' => Held(r) /\ tx'[r] = tx[r]
  BY <1>2 DEF Inv, Shape, Guarded, Held, Sent, InTransaction, NoTx
<1> QED BY <1>1, <1>3, <1>4, <1>5, Quiet DEF Guarded, Held

LEMMA NextInv == Inv /\ [Next]_vars => Inv'
<1> SUFFICES ASSUME Inv, [Next]_vars PROVE Inv'
  OBVIOUS
<1>1. CASE UNCHANGED vars
  <2>1. Shape' /\ Drafted'
    BY <1>1 DEF Inv, Shape, Drafted, vars, db
  <2> QED BY <1>1, <2>1, Quiet DEF vars, db, Guarded, Held
<1>2. ASSUME NEW n \in DOMAIN cases, UpdateCase(n) PROVE Inv'
  <2>1. Shape' /\ Drafted'
    BY <1>2 DEF Inv, Shape, Drafted, UpdateCase
  <2> QED BY <1>2, <2>1, Quiet DEF UpdateCase, Guarded, Held
<1>3. ASSUME NEW r \in Requests,
             \/ Send(r) \/ Reserve(r) \/ Check(r) \/ Guard(r) \/ Insert(r) \/ Complete(r)
             \/ Commit(r) \/ Abort(r) \/ LoseConnection(r) \/ MarkFailed(r) \/ Crash(r)
      PROVE  Inv'
  BY <1>3, SendInv, ReserveInv, CheckInv, GuardInv, InsertInv, CompleteInv, CommitInv,
     AbortInv, LoseConnectionInv, MarkFailedInv, CrashInv
<1> QED BY <1>1, <1>2, <1>3 DEF Next

LEMMA InvAlways == Spec => []Inv
BY InitInv, NextInv, PTL DEF Spec

\* The decisions on a resolution are numbered 2, 3, 4, ... without a gap or a
\* repetition, although nothing but the counting trigger and the unique index
\* (016, guard_identity_decision) orders the transactions that make them.
THEOREM NumbersStayDense == Spec => []VersionsAreDense
<1>1. Inv => VersionsAreDense
  BY DEF Inv
<1> QED BY <1>1, InvAlways, PTL

\* A confirmation, or the rejection of the whole resolution, stays the last
\* decision on it, whatever transactions were under way when it was made.
THEOREM ClosingIsFinal == Spec => []ClosedForGood
<1>1. Inv => ClosedForGood
  BY DEF Inv
<1> QED BY <1>1, InvAlways, PTL

-----------------------------------------------------------------------------
(* The refinement.                                                         *)

LEMMA TheOne ==
    ASSUME NEW S, NEW v, NEW d \in S, d.version = v,
           \A e \in S : e.version = v => e = d
    PROVE  (CHOOSE e \in S : e.version = v) = d
OBVIOUS

Entry(d) == [type |-> d.type, candidate |-> d.candidate]

Entries == {Entry(d) : d \in Decisions}

\* Each entry of a log is one decision's.
Logged(z) ==
    /\ Log(z) \in Seq(Entries) /\ Len(Log(z)) = Version(z) - 1
    /\ \A d \in DecisionsOn(z) :
          d.version \in 2 .. Version(z) /\ Log(z)[d.version - 1] = Entry(d)
    /\ \A i \in 1 .. Len(Log(z)) : \E d \in DecisionsOn(z) : d.version = i + 1

LEMMA LogEntries == Inv => \A z \in Resolutions : Logged(z)
<1> SUFFICES ASSUME Inv, NEW z \in Resolutions
             PROVE  Logged(z)
  OBVIOUS
<1> DEFINE n == Cardinality(DecisionsOn(z))
<1>1. n = Version(z) - 1 /\ n \in Nat /\ Version(z) \in Nat
  BY VersionType DEF Inv, Version
<1>2. {d.version : d \in DecisionsOn(z)} = 2 .. Version(z)
  BY DEF Inv, VersionsAreDense
<1>3. ASSUME NEW d \in DecisionsOn(z)
      PROVE  d.version \in 2 .. Version(z) /\ Log(z)[d.version - 1] = Entry(d)
  <2>1. d.version \in 2 .. Version(z)
    BY <1>2
  <2>2. \A e \in DecisionsOn(z) : e.version = d.version => e = d
    BY DEF Inv, VersionsAreDense
  <2>3. (CHOOSE e \in DecisionsOn(z) : e.version = d.version) = d
    BY <2>2, TheOne
  <2>4. d.version - 1 \in 1 .. n /\ (d.version - 1) + 1 = d.version
    BY <1>1, <2>1
  <2>5. (CHOOSE e \in DecisionsOn(z) : e.version = (d.version - 1) + 1) = d
    BY <2>3, <2>4
  <2> QED BY <1>1, <2>1, <2>4, <2>5 DEF Log, Entry
<1>4. ASSUME NEW i \in 1 .. n
      PROVE  \E d \in DecisionsOn(z) : d.version = i + 1
  <2>1. i + 1 \in 2 .. Version(z)
    BY <1>1
  <2> QED BY <1>2, <2>1
<1>5. \A i \in 1 .. n : Log(z)[i] \in Entries
  <2> SUFFICES ASSUME NEW i \in 1 .. n PROVE Log(z)[i] \in Entries
    OBVIOUS
  <2>1. PICK d \in DecisionsOn(z) : d.version = i + 1
    BY <1>4
  <2>2. d.version - 1 = i
    BY <2>1
  <2>3. d \in Decisions
    BY DEF DecisionsOn, Inv, Shape
  <2> QED BY <1>3, <2>2, <2>3 DEF Entries
<1>6. Log(z) \in [1 .. n -> Entries]
  BY <1>5 DEF Log
<1>7. Log(z) \in Seq(Entries) /\ Len(Log(z)) = n
  BY <1>1, <1>6, SeqDef
<1> QED BY <1>1, <1>3, <1>4, <1>7 DEF Logged

LEMMA LogEntriesNext == (Inv => \A z \in Resolutions : Logged(z))'
BY LogEntries, PTL

\* The commit of a decision appends it to the log of its resolution.
LEMMA LogAppends ==
    ASSUME Inv, Inv', NEW z \in Resolutions, NEW row \in Decisions, z = row.resolution,
           row.version = Version(z) + 1, decisions' = decisions \cup {row}
    PROVE  Log(z)' = Append(Log(z), Entry(row))
<1> DEFINE old == Log(z)
<1>1. Logged(z)
  BY LogEntries
<1>2. Logged(z)'
  BY LogEntriesNext
<1>3. Version(z) \in Nat /\ Version(z) >= 1
  BY VersionType DEF Inv
<1>4. \A d \in DecisionsOn(z) : d.version # row.version
  BY <1>1, <1>3 DEF Logged
<1>5. DecisionsOn(z)' = DecisionsOn(z) \cup {row} /\ Version(z)' = Version(z) + 1
  BY <1>4, OneMore
<1> SUFFICES ASSUME NEW new, new = Log(z)'
             PROVE  new = Append(old, Entry(row))
  OBVIOUS
<1>6. /\ new \in Seq(Entries) /\ Len(new) = Len(old) + 1
      /\ \A d \in DecisionsOn(z) \cup {row} : new[d.version - 1] = Entry(d)
  BY <1>1, <1>2, <1>3, <1>5 DEF Logged, Entry
<1>7. /\ old \in Seq(Entries) /\ Len(old) = Version(z) - 1 /\ Len(old) \in Nat
      /\ \A d \in DecisionsOn(z) : old[d.version - 1] = Entry(d)
      /\ \A i \in 1 .. Len(old) : \E d \in DecisionsOn(z) : d.version = i + 1
  BY <1>1, <1>3 DEF Logged
<1>8. \A i \in 1 .. Len(old) : new[i] = old[i]
  <2> SUFFICES ASSUME NEW i \in 1 .. Len(old) PROVE new[i] = old[i]
    OBVIOUS
  <2>1. PICK d \in DecisionsOn(z) : d.version = i + 1
    BY <1>7
  <2>2. d.version - 1 = i
    BY <2>1
  <2> QED BY <1>6, <1>7, <2>2
<1>9. new[Len(old) + 1] = Entry(row)
  <2>1. row.version - 1 = Len(old) + 1
    BY <1>3, <1>7
  <2> QED BY <1>6, <2>1
<1>10. Entry(row) \in Entries
  BY DEF Entries
<1>11. /\ Append(old, Entry(row)) \in Seq(Entries)
       /\ Len(Append(old, Entry(row))) = Len(old) + 1
       /\ \A i \in 1 .. Len(old) : Append(old, Entry(row))[i] = old[i]
       /\ Append(old, Entry(row))[Len(old) + 1] = Entry(row)
  BY <1>7, <1>10
<1>12. \A i \in 1 .. Len(new) : new[i] = Append(old, Entry(row))[i]
  BY <1>6, <1>7, <1>8, <1>9, <1>11
<1> QED BY <1>6, <1>11, <1>12, SeqEqual

LEMMA LogStays ==
    ASSUME NEW z, DecisionsOn(z)' = DecisionsOn(z)
    PROVE  Log(z)' = Log(z)
BY DEF Log

LEMMA SerialInit == Init => Serial!Init
<1> SUFFICES ASSUME Init, NEW x \in Resolutions
             PROVE  Log(x) = << >>
  BY DEF Serial!Init
<1>1. DecisionsOn(x) = {} /\ Cardinality(DecisionsOn(x)) = 0
  BY FS_EmptySet DEF Init, DecisionsOn
<1> QED BY <1>1 DEF Log

LEMMA SerialCommit ==
    ASSUME Inv, Inv', NEW r \in Requests, Commit(r), tx[r].row = "decision"
    PROVE  Serial!Next
<1> SUFFICES ASSUME NEW row, row = tx[r], NEW z, z = row.resolution
             PROVE  Serial!Next
  OBVIOUS
<1> DEFINE log == [x \in Resolutions |-> Log(x)]
<1>1. Held(r) /\ Guarded(r) /\ decisions' = decisions \cup {row}
  BY CommitShape DEF Held
<1>2. row \in Decisions /\ z \in Resolutions
  BY DEF Inv, Shape, Decisions
<1>3. row.version = Version(z) + 1 /\ Version(z) \in Nat
  BY <1>1, HeldIsNext, VersionType DEF Inv
<1>4. Log(z)' = Append(Log(z), Entry(row))
  BY <1>1, <1>2, <1>3, LogAppends
<1>5. \A x \in Resolutions : x # z => Log(x)' = Log(x)
  <2>1. \A x : x # z => DecisionsOn(x)' = DecisionsOn(x)
    BY <1>1 DEF DecisionsOn
  <2> QED BY <2>1, LogStays
<1>6. log' = [log EXCEPT ![z] = Append(@, Entry(row))]
  BY <1>2, <1>4, <1>5
<1>7. \A i \in DOMAIN log[z] : \E d \in DecisionsOn(z) :
         log[z][i] = Entry(d) /\ d.version < row.version
  <2> SUFFICES ASSUME NEW i \in DOMAIN Log(z)
               PROVE  \E d \in DecisionsOn(z) :
                         Log(z)[i] = Entry(d) /\ d.version < row.version
    BY <1>2
  <2>1. Logged(z)
    BY <1>2, LogEntries
  <2>2. i \in 1 .. Len(Log(z)) /\ Len(Log(z)) \in Nat
    BY <2>1 DEF Logged
  <2>3. PICK d \in DecisionsOn(z) : d.version = i + 1
    BY <2>1, <2>2 DEF Logged
  <2>4. d.version \in 2 .. Version(z) /\ Log(z)[d.version - 1] = Entry(d)
    BY <2>1 DEF Logged
  <2>5. d.version - 1 = i /\ d.version < row.version
    BY <1>3, <2>2, <2>3, <2>4
  <2> QED BY <2>4, <2>5
<1>8. /\ Fits(row)
      /\ \A d \in DecisionsOn(z) :
            d.version < row.version =>
               /\ ~Closes(d)
               /\ ~(d.type = "candidate_rejected" /\ d.candidate = row.candidate)
  <2>1. \A d \in DecisionsOn(z) : d.version \in Nat
    BY DEF Inv, Shape, Decisions, DecisionsOn
  <2> QED BY <1>1, <1>2, <1>3, <2>1 DEF Inv, GuardedRows
<1>9. ~Serial!Closed(z)
  <2> SUFFICES ASSUME NEW i \in DOMAIN log[z],
                      log[z][i].type \in {"confirmed", "resolution_rejected"}
               PROVE  FALSE
    BY DEF Serial!Closed
  <2>1. PICK d \in DecisionsOn(z) : log[z][i] = Entry(d) /\ d.version < row.version
    BY <1>7
  <2>2. Closes(d)
    BY <2>1 DEF Entry, Closes
  <2> QED BY <1>8, <2>1, <2>2
<1>10. row.candidate # NoCandidate => ~Serial!Rejected(z, row.candidate)
  <2> SUFFICES ASSUME row.candidate # NoCandidate, NEW i \in DOMAIN log[z],
                      log[z][i].candidate = row.candidate
               PROVE  FALSE
    BY DEF Serial!Rejected
  <2>1. PICK d \in DecisionsOn(z) : log[z][i] = Entry(d) /\ d.version < row.version
    BY <1>7
  <2>2. d.candidate = row.candidate
    BY <2>1 DEF Entry
  <2>3. d \in Decisions /\ Fits(d)
    BY DEF DecisionsOn, Inv, Shape
  <2>4. d.type = "candidate_rejected"
    BY <1>8, <2>1, <2>3 DEF Decisions, Closes
  <2> QED BY <1>8, <2>1, <2>2, <2>4
<1>11. Serial!Decide(z, row.type, row.candidate)
  BY <1>6, <1>9 DEF Serial!Decide, Entry
<1>12. CASE row.candidate = NoCandidate
  <2>1. row.type = "resolution_rejected"
    BY <1>8, <1>12 DEF Fits
  <2>2. Serial!RejectResolution(z)
    BY <1>11, <1>12, <2>1 DEF Serial!RejectResolution
  <2> QED BY <1>2, <2>2 DEF Serial!Next
<1>13. CASE row.candidate # NoCandidate
  <2>1. row.candidate \in Candidates /\ row.type \in {"confirmed", "candidate_rejected"}
    BY <1>2, <1>8, <1>13 DEF Decisions, Fits
  <2>2. Owner[row.candidate] = z /\ (row.type = "confirmed" => row.candidate \in Confirmable)
    BY <1>8, <1>13 DEF Fits
  <2>3. Serial!RejectCandidate(z, row.candidate) \/ Serial!Confirm(z, row.candidate)
    BY <1>10, <1>11, <1>13, <2>1, <2>2 DEF Serial!RejectCandidate, Serial!Confirm
  <2> QED BY <1>2, <2>1, <2>3 DEF Serial!Next
<1> QED BY <1>12, <1>13

\* Only the commit of a decision touches the table of decisions.
LEMMA OnlyCommitDecides ==
    ASSUME [Next]_vars,
           \A r \in Requests : ~(Commit(r) /\ tx[r].row = "decision")
    PROVE  UNCHANGED decisions
<1>1. ASSUME NEW r \in Requests, Commit(r) PROVE UNCHANGED decisions
  BY <1>1 DEF Commit
<1> QED BY <1>1 DEF Next, vars, db, Send, Reserve, Check, Guard, Insert, Complete, Abort,
        LoseConnection, MarkFailed, Crash, UpdateCase

\* However the transactions overlap, the decisions are those of people who
\* take turns at an open resolution: the code's three looks at the tables
\* (repository, trigger, unique index) together implement the serial log.
THEOREM DecisionsRefineTheLog == Spec => DecisionsAreSerial
<1>1. ASSUME Inv, Inv', [Next]_vars
      PROVE  Serial!Next \/ UNCHANGED [x \in Resolutions |-> Log(x)]
  <2>1. CASE \E r \in Requests : Commit(r) /\ tx[r].row = "decision"
    BY <1>1, <2>1, SerialCommit
  <2>2. CASE \A r \in Requests : ~(Commit(r) /\ tx[r].row = "decision")
    <3>1. UNCHANGED decisions
      BY <1>1, <2>2, OnlyCommitDecides
    <3> QED BY <3>1 DEF Log, DecisionsOn
  <2> QED BY <2>1, <2>2
<1> QED BY <1>1, SerialInit, InvAlways, PTL DEF Spec, DecisionsAreSerial, Serial!Spec

-----------------------------------------------------------------------------
(* Keys and links.  The argument: a key that has a record has one slot at    *)
(* most that works under it or has sent a commit under it, and the record   *)
(* stays pending until that commit.  A link is guarded at the version of    *)
(* its case and committed at the same version, which every link raises: the *)
(* link it supersedes is the last one still.                                *)

Working == InTransaction \cup {"committing", "marking"}

Owns(r, k) ==
    \/ pc[r] \in Working /\ req[r].key = k
    \/ tx[r] # NoTx /\ tx[r].key = k

OneOwner == \A r, q \in Requests : \A k \in Keys : Owns(r, k) /\ Owns(q, k) => r = q

Placed(r) ==
    /\ pc[r] \in {"reserving", "checking"} => tx[r] = NoTx
    /\ pc[r] \in {"guarding", "inserting", "completing", "committing"} => tx[r] # NoTx
    /\ tx[r] # NoTx =>
          /\ pc[r] # "idle" => tx[r].key = req[r].key
          /\ idem[tx[r].key].status = "pending"
    /\ pc[r] = "checking" => idem[req[r].key].status = "pending"
    /\ pc[r] \in Working => idem[req[r].key] # NoRecord

Keyed == OneOwner /\ \A r \in Requests : Placed(r)

HasLink(r) == tx[r].row = "link"

Requested(r) ==
    /\ pc[r] # "idle" /\ req[r].cmd.op = "attach" => req[r].cmd.case \in DOMAIN cases
    /\ HasLink(r) => tx[r].case \in DOMAIN cases /\ tx[r].after >= 2
    /\ HasLink(r) /\ pc[r] = "guarding" =>
          /\ req[r].cmd.op = "attach" /\ tx[r].case = req[r].cmd.case
          /\ tx[r].resolution = req[r].cmd.resolution
          /\ tx[r].after = req[r].cmd.expected + 1

\* The guard let the link pass.
Passed(r) ==
    HasLink(r) /\ pc[r] # "guarding" =>
      /\ Confirmed(tx[r].resolution)
      /\ tx[r].after - 1 =< cases[tx[r].case].version
      /\ cases[tx[r].case].version = tx[r].after - 1 => tx[r].supersedes = CurrentLink(tx[r].case)

\* The link's transaction holds the row of its case.
Final(r) ==
    HasLink(r) /\ Sent(r) =>
      /\ cases[tx[r].case].version = tx[r].after - 1
      /\ \A q \in Requests : HasLink(q) /\ Sent(q) /\ tx[q].case = tx[r].case => q = r

LinksFit == \A l \in links : l.case \in DOMAIN cases /\ l.after >= 2

Last(n, l) == l \in LinksOf(n) /\ \A k \in LinksOf(n) : k.after =< l.after

OneCurrent ==
    \A n \in DOMAIN cases :
        /\ LinksOf(n) # {} => \E l \in LinksOf(n) : Last(n, l)
        /\ \A l, m \in LinksOf(n) : l.after < m.after => \E k \in LinksOf(n) : k.supersedes = l.after

Chained ==
    /\ LinksFit /\ OneCurrent /\ LinksFormAChain
    /\ \A r \in Requests : Requested(r) /\ Passed(r) /\ Final(r)

Tables == TypeOK /\ IsFiniteSet(links)

Kept == Inv /\ Tables /\ Keyed /\ Chained /\ SucceededIffRecorded

Rows == Decisions \cup Links \cup [row : {"case"}, key : Keys]

LEMMA RowIsTyped ==
    ASSUME Tables, NEW r \in Requests, tx[r] # NoTx
    PROVE  /\ tx[r] \in Rows /\ tx[r].key \in Keys
           /\ tx[r].row \in {"decision", "link", "case"}
           /\ tx[r].row = "link" => tx[r] \in Links
           /\ tx[r].row = "decision" => tx[r] \in Decisions
BY DEF Tables, TypeOK, Rows, Decisions, Links

LEMMA NothingSent ==
    NoTx.row = "none" /\ NoRecord.status = "none"
BY DEF NoTx, NoRecord

-----------------------------------------------------------------------------
\* The current link of a case is its last one.
LEMMA CurrentIsLast ==
    ASSUME Tables, Chained, NEW n \in DOMAIN cases
    PROVE  /\ CurrentLink(n) \in Nat
           /\ LinksOf(n) = {} => CurrentLink(n) = 0
           /\ \A l \in LinksOf(n) : Last(n, l) => CurrentLink(n) = l.after
<1> DEFINE current == {l \in LinksOf(n) : \A k \in LinksOf(n) : k.supersedes # l.after}
<1>0. \A l \in LinksOf(n) : l.after \in Nat /\ l.after >= 2 /\ l.supersedes \in Nat
  BY DEF LinksOf, Tables, TypeOK, Links, Chained, LinksFit
<1>1. CASE LinksOf(n) = {}
  BY <1>1 DEF CurrentLink
<1>2. CASE LinksOf(n) # {}
  <2>1. PICK l \in LinksOf(n) : Last(n, l)
    BY <1>2 DEF Chained, OneCurrent
  <2>2. \A k \in LinksOf(n) : k # l => k.after < l.after
    <3>1. \A j, k \in LinksOf(n) : j.after = k.after => j = k
      BY DEF Chained, LinksFormAChain
    <3>2. \A k \in LinksOf(n) : k.after =< l.after
      BY <2>1 DEF Last
    <3> QED BY <3>1, <3>2, <1>0, <2>1
  <2>3. ASSUME NEW k \in LinksOf(n) PROVE k.supersedes < l.after
    <3> DEFINE earlier == {j \in LinksOf(n) : j.after < k.after}
    <3>1. \/ k.supersedes = 0
          \/ \E j \in earlier : j.after = k.supersedes
      BY DEF Chained, LinksFormAChain
    <3>2. k.after =< l.after
      BY <2>1 DEF Last
    <3> QED BY <3>1, <3>2, <1>0, <2>1
  <2>4. l \in current
    BY <2>3, <1>0, <2>1
  <2>5. ASSUME NEW k \in current PROVE k = l
    <3>1. k # l => k.after < l.after
      BY <2>2
    <3>2. k # l => \E j \in LinksOf(n) : j.supersedes = k.after
      BY <3>1, <2>1 DEF Chained, OneCurrent
    <3> QED BY <3>2
  <2>6. current = {l}
    BY <2>4, <2>5
  <2>7. CurrentLink(n) = l.after
    <3>1. CurrentLink(n) = (CHOOSE j \in {l} : \A k \in {l} : k.after =< j.after).after
      BY <2>6 DEF CurrentLink
    <3>2. l.after =< l.after
      BY <1>0, <2>1
    <3>3. (CHOOSE j \in {l} : \A k \in {l} : k.after =< j.after) = l
      BY <3>2
    <3> QED BY <3>1, <3>3
  <2>8. \A k \in LinksOf(n) : Last(n, k) => k = l
    <3>1. \A k \in LinksOf(n) : Last(n, k) => l.after =< k.after
      BY <2>1 DEF Last
    <3> QED BY <3>1, <2>2, <1>0, <2>1
  <2> QED BY <1>0, <1>2, <2>1, <2>7, <2>8
<1> QED BY <1>1, <1>2

LEMMA DraftIsTyped ==
    ASSUME Kept, NEW r \in Requests, pc[r] = "checking"
    PROVE  LET c == req[r].cmd
               row == Row(c, req[r].key)
           IN /\ row \in Rows /\ row.key = req[r].key /\ row # NoTx
              /\ row.row = "case" <=> c.op = "create_case"
              /\ row.row = "link" =>
                    /\ c.op = "attach" /\ row.case = c.case /\ row.resolution = c.resolution
                    /\ row.after = c.expected + 1 /\ row.after >= 2
                    /\ row.case \in DOMAIN cases
<1> DEFINE c == req[r].cmd
           k == req[r].key
<1>0. req[r] \in Submissions
  BY DEF Kept, Inv, Shape
<1>1. k \in Keys /\ c.op \in Ops
  BY <1>0, SubmissionsAssumption
<1>2. CASE c.op \in {"confirm", "reject"}
  <2>1. Row(c, k) = [row |-> "decision", resolution |-> c.resolution, type |-> DecisionType(c),
                     candidate |-> c.candidate, version |-> c.expected + 1, key |-> k]
    BY <1>2 DEF Row
  <2>2. Row(c, k) \in Decisions
    BY <1>0, <2>1, RowShape
  <2> QED BY <1>2, <2>1, <2>2, NothingSent DEF Rows
<1>3. CASE c.op = "attach"
  <2>1. Row(c, k) = [row |-> "link", case |-> c.case, resolution |-> c.resolution,
                     after |-> c.expected + 1, supersedes |-> CurrentLink(c.case), key |-> k]
    BY <1>3 DEF Row
  <2>2. c.case \in DOMAIN cases
    BY <1>3 DEF Kept, Chained, Requested
  <2>3. CurrentLink(c.case) \in Nat
    BY <2>2, CurrentIsLast DEF Kept
  <2>4. c.case \in Nat \ {0} /\ c.resolution \in Resolutions /\ c.expected \in Nat \ {0}
    BY <1>0, <1>3, SubmissionsAssumption
  <2>5. Row(c, k) \in Links
    BY <1>1, <2>1, <2>3, <2>4 DEF Links
  <2> QED BY <1>3, <2>1, <2>2, <2>4, <2>5, NothingSent DEF Rows
<1>4. CASE c.op = "create_case"
  <2>1. Row(c, k) = [row |-> "case", key |-> k]
    BY <1>4 DEF Row
  <2> QED BY <1>1, <1>4, <2>1, NothingSent DEF Rows
<1> QED BY <1>1, <1>2, <1>3, <1>4 DEF Ops

-----------------------------------------------------------------------------
\* The steps of a slot are its own.
SlotStep(r) ==
    \/ Send(r) \/ Reserve(r) \/ Check(r) \/ Guard(r) \/ Insert(r) \/ Complete(r)
    \/ Commit(r) \/ Abort(r) \/ LoseConnection(r) \/ MarkFailed(r) \/ Crash(r)

LEMMA Others ==
    ASSUME TypeOK, NEW r \in Requests, SlotStep(r)
    PROVE  /\ DOMAIN pc' = Requests /\ DOMAIN tx' = Requests /\ DOMAIN req' = Requests
           /\ \A q \in Requests \ {r} : pc'[q] = pc[q] /\ tx'[q] = tx[q] /\ req'[q] = req[q]
<1> USE DEF TypeOK
<1>1. CASE Send(r)
  BY <1>1 DEF Send
<1>2. CASE Reserve(r)
  BY <1>2 DEF Reserve, Goto, Answer
<1>3. CASE Check(r)
  BY <1>3 DEF Check, Goto
<1>4. CASE Guard(r) \/ Insert(r) \/ Complete(r)
  BY <1>4 DEF Guard, Insert, Complete, RollBack, Goto
<1>5. CASE Commit(r)
  BY <1>5 DEF Commit, Answer, Goto
<1>6. CASE Abort(r) \/ LoseConnection(r)
  BY <1>6 DEF Abort, LoseConnection, RollBack, Goto
<1>7. CASE MarkFailed(r) \/ Crash(r)
  BY <1>7 DEF MarkFailed, Crash, Answer
<1> QED BY <1>1, <1>2, <1>3, <1>4, <1>5, <1>6, <1>7 DEF SlotStep

\* A request moves on, is answered, or rolled back: what these do to its slot.
LEMMA Slot ==
    ASSUME TypeOK, NEW r \in Requests
    PROVE  /\ \A l : Goto(r, l) => pc'[r] = l /\ req'[r] = req[r]
           /\ Answer(r) => pc'[r] = "idle"
           /\ RollBack(r) => pc'[r] = "marking" /\ tx'[r] = NoTx /\ req'[r] = req[r]
BY DEF TypeOK, Goto, Answer, RollBack

Cases == [version : Nat, confirmed : BOOLEAN, key : Keys]

\* What the commit of a row does to the tables.
LEMMA CommitWrites ==
    ASSUME Kept, NEW r \in Requests, Commit(r)
    PROVE  /\ tx[r] # NoTx /\ tx[r] \in Rows
           /\ tx[r].row = "decision" =>
                 decisions' = decisions \cup {tx[r]} /\ UNCHANGED <<links, cases>>
           /\ tx[r].row = "link" =>
                 /\ links' = links \cup {tx[r]} /\ cases' = CaseAttached(tx[r].case)
                 /\ UNCHANGED decisions
           /\ tx[r].row = "case" =>
                 /\ cases' = Append(cases, [version |-> 1, confirmed |-> FALSE, key |-> tx[r].key])
                 /\ UNCHANGED <<decisions, links>>
           /\ idem' = [idem EXCEPT ![tx[r].key].status = "succeeded"]
           /\ tx' = [tx EXCEPT ![r] = NoTx]
           /\ pc'[r] \in {"idle", "marking"} \/ pc'[r] = pc[r]
           /\ pc'[r] # "idle" => req'[r] = req[r]
           /\ pc[r] \notin InTransaction
<1>1. tx[r] # NoTx /\ pc[r] \notin InTransaction
  BY DEF Commit, Sent
<1>2. tx[r] \in Rows /\ tx[r].row \in {"decision", "link", "case"}
  BY <1>1, RowIsTyped DEF Kept
<1>3. \/ pc'[r] \in {"idle", "marking"} /\ (pc'[r] # "idle" => req'[r] = req[r])
      \/ pc'[r] = pc[r] /\ req'[r] = req[r]
  BY Slot DEF Commit, Kept, Tables
<1>4. tx[r].row = "decision" => decisions' = decisions \cup {tx[r]} /\ UNCHANGED <<links, cases>>
  BY DEF Commit
<1>5. tx[r].row = "link" =>
        links' = links \cup {tx[r]} /\ cases' = CaseAttached(tx[r].case) /\ UNCHANGED decisions
  BY DEF Commit
<1>6. tx[r].row = "case" =>
        /\ cases' = Append(cases, [version |-> 1, confirmed |-> FALSE, key |-> tx[r].key])
        /\ UNCHANGED <<decisions, links>>
  BY DEF Commit
<1>7. idem' = [idem EXCEPT ![tx[r].key].status = "succeeded"] /\ tx' = [tx EXCEPT ![r] = NoTx]
  BY DEF Commit
<1> QED BY <1>1, <1>2, <1>3, <1>4, <1>5, <1>6, <1>7

LEMMA CaseExcept ==
    ASSUME NEW e \in Cases
    PROVE  /\ [e EXCEPT !.version = @ + 1] =
                 [version |-> e.version + 1, confirmed |-> e.confirmed, key |-> e.key]
           /\ [e EXCEPT !.version = @ + 1] \in Cases
           /\ [e EXCEPT !.version = @ + 1].version = e.version + 1
           /\ [e EXCEPT !.version = @ + 1].key = e.key
BY DEF Cases

LEMMA CaseConfirmed ==
    ASSUME NEW e \in Cases
    PROVE  /\ [e EXCEPT !.confirmed = TRUE] \in Cases
           /\ [e EXCEPT !.confirmed = TRUE].version = e.version
           /\ [e EXCEPT !.confirmed = TRUE].confirmed = TRUE
           /\ [e EXCEPT !.confirmed = TRUE].key = e.key
<1>1. [e EXCEPT !.confirmed = TRUE] \in Cases
  BY DEF Cases
<1>2. [e EXCEPT !.confirmed = TRUE].version = e.version
  BY DEF Cases
<1>3. [e EXCEPT !.confirmed = TRUE].confirmed = TRUE
  BY DEF Cases
<1>4. [e EXCEPT !.confirmed = TRUE].key = e.key
  BY DEF Cases
<1> QED BY <1>1, <1>2, <1>3, <1>4

LEMMA AttachedTyped ==
    ASSUME cases \in Seq(Cases), NEW n \in DOMAIN cases
    PROVE  /\ CaseAttached(n) \in Seq(Cases) /\ DOMAIN CaseAttached(n) = DOMAIN cases
           /\ CaseAttached(n)[n].version = cases[n].version + 1
           /\ CaseAttached(n)[n].confirmed = TRUE /\ CaseAttached(n)[n].key = cases[n].key
           /\ \A m \in DOMAIN cases \ {n} : CaseAttached(n)[m] = cases[m]
<1> DEFINE e == [cases[n] EXCEPT !.version = @ + 1]
           new == [e EXCEPT !.confirmed = TRUE]
<1>1. cases[n] \in Cases
  BY ElementOfSeq
<1>2. e \in Cases /\ e.version = cases[n].version + 1 /\ e.key = cases[n].key
  <2>1. ASSUME NEW d \in Cases
        PROVE  LET f == [d EXCEPT !.version = @ + 1]
               IN  f \in Cases /\ f.version = d.version + 1 /\ f.key = d.key
    BY <2>1, CaseExcept
  <2> QED BY <1>1, <2>1
<1>3. /\ new \in Cases /\ new.version = e.version /\ new.key = e.key
      /\ new.confirmed = TRUE
  <2> HIDE DEF e
  <2> QED BY <1>2, CaseConfirmed
<1>4. CaseAttached(n) = [cases EXCEPT ![n] = new]
  BY DEF CaseAttached
<1> HIDE DEF e, new
<1>5. [cases EXCEPT ![n] = new] \in Seq(Cases)
  BY <1>3, ExceptSeq
<1> QED BY <1>2, <1>3, <1>4, <1>5

LEMMA UpdatedTyped ==
    ASSUME cases \in Seq(Cases), NEW n \in DOMAIN cases,
           cases' = [cases EXCEPT ![n].version = @ + 1]
    PROVE  /\ cases' \in Seq(Cases) /\ DOMAIN cases' = DOMAIN cases
           /\ cases'[n].version = cases[n].version + 1
           /\ cases'[n].confirmed = cases[n].confirmed /\ cases'[n].key = cases[n].key
           /\ \A m \in DOMAIN cases \ {n} : cases'[m] = cases[m]
<1> DEFINE new == [version |-> cases[n].version + 1, confirmed |-> cases[n].confirmed, key |-> cases[n].key]
<1>1. cases[n] \in Cases
  BY ElementOfSeq
<1>2. cases' = [cases EXCEPT ![n] = new]
  <2>1. [cases[n] EXCEPT !.version = @ + 1] = new
    BY <1>1, CaseExcept
  <2> HIDE DEF new
  <2> QED BY <2>1
<1>3. new \in Cases
  BY <1>1 DEF Cases
<1> HIDE DEF new
<1>4. [cases EXCEPT ![n] = new] \in Seq(Cases)
  BY <1>3, ExceptSeq
<1> QED BY <1>2, <1>4, <1>1 DEF new, Cases

LEMMA TypesKept ==
    ASSUME Kept, [Next]_vars
    PROVE  Tables'
<1> USE DEF Kept, Tables
<1>0. /\ pc \in [Requests -> InFlight \cup {"idle"}] /\ req \in [Requests -> Submissions \cup {NoRequest}]
      /\ tx \in [Requests -> Rows \cup {NoTx}] /\ idem \in [Keys -> Records]
      /\ cases \in Seq(Cases) /\ decisions \in SUBSET Decisions /\ links \in SUBSET Links
      /\ \A r \in Requests : pc[r] # "idle" => req[r] \in Submissions
  BY DEF TypeOK, Rows, Cases, Inv, Shape
<1> DEFINE Slots ==
             /\ pc' \in [Requests -> InFlight \cup {"idle"}]
             /\ req' \in [Requests -> Submissions \cup {NoRequest}]
             /\ tx' \in [Requests -> Rows \cup {NoTx}]
<1>1. ASSUME Slots, UNCHANGED db PROVE Tables'
  BY <1>1, <1>0 DEF TypeOK, Rows, Cases, db
<1>2. ASSUME NEW r \in Requests, Send(r) PROVE Tables'
  <2>1. Slots
    BY <1>0, <1>2 DEF Send, InFlight, InTransaction
  <2> QED BY <1>1, <1>2, <2>1 DEF Send
<1>3. ASSUME NEW r \in Requests, Reserve(r) PROVE Tables'
  <2>1. Slots
    BY <1>0, <1>3 DEF Reserve, Goto, Answer, InFlight, InTransaction
  <2>2. req[r] \in Submissions /\ UNCHANGED <<decisions, cases, links>>
    BY <1>0, <1>3 DEF Reserve
  <2>3. [status |-> "pending", cmd |-> req[r].cmd] \in Records
    BY <2>2 DEF Records, Commands
  <2>4. idem' \in [Keys -> Records]
    BY <1>0, <1>3, <2>3 DEF Reserve
  <2> QED BY <2>1, <2>2, <2>4, <1>0 DEF TypeOK, Rows, Cases
<1>4. ASSUME NEW r \in Requests, Check(r) PROVE Tables'
  <2>1. Row(req[r].cmd, req[r].key) \in Rows /\ UNCHANGED db
    BY <1>4, DraftIsTyped DEF Check
  <2>2. Slots
    BY <1>0, <1>4, <2>1 DEF Check, Goto, InFlight, InTransaction
  <2> QED BY <1>1, <2>1, <2>2
<1>5. ASSUME NEW r \in Requests, Guard(r) \/ Insert(r) \/ Complete(r) \/ Abort(r) \/ LoseConnection(r)
      PROVE  Tables'
  <2>1. Slots
    BY <1>0, <1>5 DEF Guard, Insert, Complete, Abort, LoseConnection, RollBack, Goto, InFlight, InTransaction
  <2>2. UNCHANGED db
    BY <1>5 DEF Guard, Insert, Complete, Abort, LoseConnection
  <2> QED BY <1>1, <2>1, <2>2
<1>6. ASSUME NEW r \in Requests, Crash(r) PROVE Tables'
  <2>1. Slots
    BY <1>0, <1>6 DEF Crash, Answer, InFlight
  <2> QED BY <1>1, <1>6, <2>1 DEF Crash
<1>7. ASSUME NEW r \in Requests, MarkFailed(r) PROVE Tables'
  <2>1. Slots /\ UNCHANGED <<decisions, cases, links>>
    BY <1>0, <1>7 DEF MarkFailed, Answer, InFlight
  <2>2. req[r] \in Submissions
    BY <1>0, <1>7 DEF MarkFailed
  <2>3. req[r].key \in Keys
    BY <2>2, SubmissionsAssumption
  <2>4. idem[req[r].key] \in Records
    BY <1>0, <2>3
  <2>5. Failed(req[r].key) \in Records
    BY <2>4 DEF Failed, Records, NoRecord
  <2>6. idem' \in [Keys -> Records]
    BY <1>0, <1>7, <2>5 DEF MarkFailed
  <2> QED BY <2>1, <2>6, <1>0 DEF TypeOK, Rows, Cases
<1>8. ASSUME NEW r \in Requests, Commit(r) PROVE Tables'
  <2>1. Slots
    BY <1>0, <1>8 DEF Commit, Answer, Goto, InFlight
  <2>2. tx[r] \in Rows /\ tx[r] # NoTx
    BY <1>8, CommitWrites
  <2>3. /\ tx[r].row \in {"decision", "link", "case"} /\ tx[r].key \in Keys
        /\ tx[r].row = "link" => tx[r] \in Links
        /\ tx[r].row = "decision" => tx[r] \in Decisions
    BY <2>2, RowIsTyped
  <2>4. decisions' \subseteq Decisions /\ links' \subseteq Links /\ IsFiniteSet(links')
    <3>0. IsFiniteSet(links)
      OBVIOUS
    <3>1. IsFiniteSet(links \cup {tx[r]})
      BY <3>0, FS_AddElement
    <3>2. decisions' = decisions \/ (tx[r].row = "decision" /\ decisions' = decisions \cup {tx[r]})
      BY <1>8, <2>3, CommitWrites
    <3>3. links' = links \/ (tx[r].row = "link" /\ links' = links \cup {tx[r]})
      BY <1>8, <2>3, CommitWrites
    <3> QED BY <1>0, <2>3, <3>0, <3>1, <3>2, <3>3
  <2>5. idem' \in [Keys -> Records]
    <3>1. idem[tx[r].key] \in Records /\ idem[tx[r].key].status = "pending"
      BY <1>0, <2>2, <2>3 DEF Keyed, Placed
    <3>2. idem[tx[r].key] \in [status : {"pending", "succeeded", "failed"}, cmd : Commands]
      BY <3>1, NothingSent DEF Records
    <3>3. [idem[tx[r].key] EXCEPT !.status = "succeeded"] \in Records
      BY <3>2 DEF Records
    <3>4. idem' = [idem EXCEPT ![tx[r].key].status = "succeeded"]
      BY <1>8, CommitWrites
    <3>5. idem \in [Keys -> Records] /\ tx[r].key \in Keys
      BY <1>0, <2>3
    <3> QED BY <3>3, <3>4, <3>5
  <2>6. cases' \in Seq(Cases)
    <3>1. CASE tx[r].row = "link"
      <4>1. tx[r].case \in DOMAIN cases
        BY <3>1 DEF Chained, Requested, HasLink
      <4>2. cases' = CaseAttached(tx[r].case)
        BY <1>8, <3>1, CommitWrites
      <4>3. cases \in Seq(Cases)
        BY <1>0
      <4> QED BY <4>1, <4>2, <4>3, AttachedTyped
    <3>2. CASE tx[r].row = "case"
      <4>1. [version |-> 1, confirmed |-> FALSE, key |-> tx[r].key] \in Cases
        BY <2>3 DEF Cases
      <4>2. Append(cases, [version |-> 1, confirmed |-> FALSE, key |-> tx[r].key]) \in Seq(Cases)
        BY <1>0, <4>1, AppendProperties
      <4> QED BY <1>8, <3>2, <4>2, CommitWrites
    <3> QED BY <1>0, <1>8, <2>3, <3>1, <3>2, CommitWrites
  <2> QED BY <2>1, <2>4, <2>5, <2>6 DEF TypeOK, Rows, Cases
<1>9. ASSUME NEW n \in DOMAIN cases, UpdateCase(n) PROVE Tables'
  <2>1. cases' \in Seq(Cases)
    BY <1>0, <1>9, UpdatedTyped DEF UpdateCase
  <2> QED BY <1>0, <1>9, <2>1 DEF TypeOK, Rows, Cases, UpdateCase
<1>10. CASE UNCHANGED vars
  BY <1>0, <1>1, <1>10 DEF vars
<1> QED BY <1>2, <1>3, <1>4, <1>5, <1>6, <1>7, <1>8, <1>9, <1>10 DEF Next

-----------------------------------------------------------------------------
\* A slot that moves within what it owns, and leaves the records alone.
LEMMA WithinItsKey ==
    ASSUME Keyed, NEW r \in Requests, UNCHANGED idem,
           \A q \in Requests \ {r} : pc'[q] = pc[q] /\ tx'[q] = tx[q] /\ req'[q] = req[q],
           Placed(r)', \A k \in Keys : Owns(r, k)' => Owns(r, k)
    PROVE  Keyed'
<1>1. \A q \in Requests \ {r} : Placed(q)'
  BY DEF Keyed, Placed
<1>2. \A q \in Requests \ {r} : \A k \in Keys : Owns(q, k)' <=> Owns(q, k)
  BY DEF Owns
<1>3. OneOwner'
  BY <1>2 DEF Keyed, OneOwner
<1> QED BY <1>1, <1>3 DEF Keyed

\* A key's record changes under the hands of its owner.
LEMMA OfItsKey ==
    ASSUME Keyed, NEW r \in Requests, NEW k \in Keys,
           \A j \in Keys \ {k} : idem'[j] = idem[j],
           \A q \in Requests \ {r} : pc'[q] = pc[q] /\ tx'[q] = tx[q] /\ req'[q] = req[q],
           \A q \in Requests \ {r} : ~Owns(q, k) /\ (tx[q] # NoTx => tx[q].key \in Keys)
               /\ (pc[q] # "idle" => req[q].key \in Keys),
           Placed(r)', \A j \in Keys \ {k} : Owns(r, j)' => Owns(r, j)
    PROVE  Keyed'
<1>1. ASSUME NEW q \in Requests \ {r} PROVE Placed(q)'
  <2>1. Placed(q)
    BY DEF Keyed
  <2>2. tx[q] # NoTx => idem'[tx[q].key] = idem[tx[q].key]
    BY DEF Owns
  <2>3. pc[q] \in Working => idem'[req[q].key] = idem[req[q].key]
    BY DEF Owns, Working, InTransaction
  <2> QED BY <2>1, <2>2, <2>3 DEF Placed, Working, InTransaction
<1>2. \A q \in Requests \ {r} : \A j \in Keys : Owns(q, j)' <=> Owns(q, j)
  BY DEF Owns
<1>3. OneOwner'
  BY <1>2 DEF Keyed, OneOwner
<1> QED BY <1>1, <1>3 DEF Keyed

LEMMA KeyedKept ==
    ASSUME Kept, [Next]_vars
    PROVE  Keyed'
<1>0. /\ TypeOK /\ Keyed /\ \A r \in Requests : Placed(r)
      /\ \A r \in Requests : pc[r] # "idle" => req[r] \in Submissions /\ req[r].key \in Keys
      /\ \A r \in Requests : tx[r] # NoTx => tx[r].key \in Keys
  <2>1. \A r \in Requests : pc[r] # "idle" => req[r] \in Submissions
    BY DEF Kept, Inv, Shape
  <2>2. \A r \in Requests : pc[r] # "idle" => req[r].key \in Keys
    BY <2>1, SubmissionsAssumption
  <2> QED BY <2>1, <2>2, RowIsTyped DEF Kept, Tables, Keyed
<1> USE DEF Working, InTransaction
<1>1. ASSUME NEW r \in Requests, Send(r) PROVE Keyed'
  <2>1. pc'[r] = "reserving" /\ tx'[r] = NoTx /\ UNCHANGED idem
    BY <1>0, <1>1 DEF Send, TypeOK, db
  <2>2. Placed(r)' /\ \A k \in Keys : ~Owns(r, k)'
    BY <2>1 DEF Placed, Owns
  <2> QED BY <1>0, <1>1, <2>1, <2>2, Others, WithinItsKey DEF SlotStep
<1>2. ASSUME NEW r \in Requests, Reserve(r) PROVE Keyed'
  <2>1. tx[r] = NoTx /\ UNCHANGED tx /\ pc[r] = "reserving" /\ req[r].key \in Keys
    BY <1>0, <1>2 DEF Placed, Reserve
  <2>2. CASE Answer(r) /\ UNCHANGED idem
    <3>1. pc'[r] = "idle"
      BY <1>0, <2>2, Slot
    <3>2. Placed(r)' /\ \A k \in Keys : ~Owns(r, k)'
      BY <2>1, <3>1 DEF Placed, Owns
    <3> QED BY <1>0, <1>2, <2>2, <3>2, Others, WithinItsKey DEF SlotStep
  <2>3. CASE /\ IsNew(r) /\ Goto(r, "checking")
             /\ idem' = [idem EXCEPT ![req[r].key] = [status |-> "pending", cmd |-> req[r].cmd]]
    <3> DEFINE k == req[r].key
    <3>1. pc'[r] = "checking" /\ req'[r] = req[r]
      BY <1>0, <2>3, Slot
    <3>2. idem'[k].status = "pending" /\ \A j \in Keys \ {k} : idem'[j] = idem[j]
      BY <1>0, <2>1, <2>3 DEF TypeOK
    <3>3. \A q \in Requests : ~Owns(q, k)
      BY <1>0, <2>3, NothingSent DEF IsNew, Record, Owns, Placed
    <3>4. Placed(r)'
      BY <2>1, <3>1, <3>2, NothingSent DEF Placed
    <3>5. \A j \in Keys \ {k} : ~Owns(r, j)'
      BY <2>1, <3>1 DEF Owns
    <3>6. k \in Keys
      BY <2>1
    <3>7. \A q \in Requests \ {r} : pc'[q] = pc[q] /\ tx'[q] = tx[q] /\ req'[q] = req[q]
      BY <1>0, <1>2, Others DEF SlotStep
    <3> HIDE DEF k
    <3> QED BY <1>0, <3>2, <3>3, <3>4, <3>5, <3>6, <3>7, OfItsKey
  <2> QED BY <1>2, <2>2, <2>3 DEF Reserve
<1>3. ASSUME NEW r \in Requests, Check(r) PROVE Keyed'
  <2> DEFINE row == Row(req[r].cmd, req[r].key)
  <2>1. pc[r] = "checking" /\ UNCHANGED idem
    BY <1>3 DEF Check, db
  <2>2. row # NoTx /\ row.key = req[r].key
    BY <1>3, <2>1, DraftIsTyped
  <2>3. /\ \/ pc'[r] \in {"guarding", "completing"} /\ tx'[r] = row
           \/ pc'[r] = "marking" /\ tx'[r] = tx[r]
        /\ req'[r] = req[r]
    <3>1. CASE /\ tx' = [tx EXCEPT ![r] = row]
               /\ Goto(r, IF req[r].cmd.op = "create_case" THEN "completing" ELSE "guarding")
      <4>1. tx'[r] = row
        BY <1>0, <3>1 DEF TypeOK
      <4>2. pc'[r] \in {"guarding", "completing"} /\ req'[r] = req[r]
        BY <1>0, <3>1, Slot
      <4> QED BY <4>1, <4>2
    <3>2. CASE Goto(r, "marking") /\ UNCHANGED tx
      BY <1>0, <3>2, Slot
    <3> QED BY <1>3, <3>1, <3>2 DEF Check
  <2> HIDE DEF row
  <2>4. Placed(r)'
    BY <1>0, <2>1, <2>2, <2>3 DEF Placed
  <2>5. \A k \in Keys : Owns(r, k)' => Owns(r, k)
    BY <1>0, <2>1, <2>2, <2>3 DEF Owns, Placed
  <2> QED BY <1>0, <1>3, <2>1, <2>4, <2>5, Others, WithinItsKey DEF SlotStep
<1>4. ASSUME NEW r \in Requests, pc[r] # "idle", RollBack(r), UNCHANGED idem, SlotStep(r), pc[r] # "reserving"
      PROVE  Keyed'
  <2>1. pc'[r] = "marking" /\ tx'[r] = NoTx /\ req'[r] = req[r]
    BY <1>0, <1>4, Slot
  <2>2. pc[r] \in InTransaction \cup {"committing", "marking"}
    BY <1>0, <1>4 DEF TypeOK, InFlight
  <2>3. Placed(r)' /\ \A k \in Keys : Owns(r, k)' => Owns(r, k)
    BY <1>0, <1>4, <2>1, <2>2 DEF Placed, Owns
  <2> QED BY <1>0, <1>4, <2>3, Others, WithinItsKey
<1>5. ASSUME NEW r \in Requests, NEW l, Goto(r, l), UNCHANGED <<idem, tx>>, SlotStep(r),
             \/ pc[r] \in {"guarding", "inserting", "completing"} /\ l \in {"inserting", "completing", "committing"}
             \/ pc[r] = "committing" /\ l = "marking"
      PROVE  Keyed'
  <2>1. pc'[r] = l /\ tx'[r] = tx[r] /\ req'[r] = req[r]
    BY <1>0, <1>5, Slot
  <2>2. Placed(r)' /\ \A k \in Keys : Owns(r, k)' => Owns(r, k)
    BY <1>0, <1>5, <2>1 DEF Placed, Owns
  <2> QED BY <1>0, <1>5, <2>2, Others, WithinItsKey
<1>6. ASSUME NEW r \in Requests, Guard(r) \/ Insert(r) \/ Complete(r) \/ LoseConnection(r) PROVE Keyed'
  BY <1>4, <1>5, <1>6 DEF Guard, Insert, Complete, LoseConnection, db, SlotStep
<1>7. ASSUME NEW r \in Requests, Abort(r) PROVE Keyed'
  <2>1. CASE pc[r] \in InTransaction \cup {"committing"} /\ RollBack(r)
    BY <1>4, <1>7, <2>1 DEF Abort, db, SlotStep
  <2>2. CASE pc[r] \in {"idle", "marking"} /\ tx' = [tx EXCEPT ![r] = NoTx] /\ UNCHANGED <<pc, req>>
    <3>1. tx'[r] = NoTx /\ UNCHANGED idem
      BY <1>0, <1>7, <2>2 DEF TypeOK, Abort, db
    <3>2. Placed(r)' /\ \A k \in Keys : Owns(r, k)' => Owns(r, k)
      BY <1>0, <2>2, <3>1 DEF Placed, Owns
    <3> QED BY <1>0, <1>7, <3>1, <3>2, Others, WithinItsKey DEF SlotStep
  <2> QED BY <1>7, <2>1, <2>2 DEF Abort
<1>8. ASSUME NEW r \in Requests, Crash(r) PROVE Keyed'
  <2>1. pc'[r] = "idle" /\ (tx'[r] = NoTx \/ tx'[r] = tx[r]) /\ UNCHANGED idem
    BY <1>0, <1>8 DEF Crash, Answer, TypeOK, db
  <2>2. Placed(r)' /\ \A k \in Keys : Owns(r, k)' => Owns(r, k)
    BY <1>0, <2>1 DEF Placed, Owns
  <2> QED BY <1>0, <1>8, <2>1, <2>2, Others, WithinItsKey DEF SlotStep
<1>9. ASSUME NEW r \in Requests, MarkFailed(r) PROVE Keyed'
  <2> DEFINE k == req[r].key
  <2>1. pc[r] = "marking" /\ pc'[r] = "idle" /\ UNCHANGED tx /\ k \in Keys /\ Owns(r, k)
    BY <1>0, <1>9, Slot DEF MarkFailed, Owns
  <2>2. CASE UNCHANGED idem
    <3>1. Placed(r)' /\ \A j \in Keys : Owns(r, j)' => Owns(r, j)
      BY <1>0, <2>1, <2>2 DEF Placed, Owns
    <3> QED BY <1>0, <1>9, <2>2, <3>1, Others, WithinItsKey DEF SlotStep
  <2>3. CASE /\ \A q \in Requests : Sent(q) => tx[q].key # k
             /\ idem' = [idem EXCEPT ![k] = Failed(k)]
    <3>1. tx[r] = NoTx
      BY <1>0, <2>1, <2>3 DEF Sent, Placed
    <3>2. Placed(r)' /\ \A j \in Keys : ~Owns(r, j)'
      BY <2>1, <3>1 DEF Placed, Owns
    <3>3. \A q \in Requests \ {r} : ~Owns(q, k)
      BY <1>0, <2>1 DEF Keyed, OneOwner
    <3>4. \A j \in Keys \ {k} : idem'[j] = idem[j]
      BY <1>0, <2>3 DEF TypeOK
    <3>5. \A q \in Requests \ {r} : pc'[q] = pc[q] /\ tx'[q] = tx[q] /\ req'[q] = req[q]
      BY <1>0, <1>9, Others DEF SlotStep
    <3>6. k \in Keys
      BY <2>1
    <3> HIDE DEF k
    <3> QED BY <1>0, <3>2, <3>3, <3>4, <3>5, <3>6, OfItsKey
  <2> QED BY <1>9, <2>2, <2>3 DEF MarkFailed
<1>10. ASSUME NEW r \in Requests, Commit(r) PROVE Keyed'
  <2> DEFINE k == tx[r].key
  <2>1. /\ tx[r] # NoTx /\ k \in Keys /\ Owns(r, k) /\ pc[r] \notin InTransaction
        /\ idem' = [idem EXCEPT ![k].status = "succeeded"]
        /\ tx'[r] = NoTx
        /\ pc'[r] \in {"idle", "marking"} \/ pc'[r] = pc[r]
        /\ pc'[r] # "idle" => req'[r] = req[r]
    BY <1>0, <1>10, CommitWrites DEF TypeOK, Owns
  <2>2. pc[r] \in {"idle", "marking", "committing"}
    BY <1>0, <2>1 DEF TypeOK, InFlight, Placed
  <2>3. pc'[r] \in {"idle", "marking"}
    BY <1>10, <1>0, <2>2, Slot DEF Commit
  <2>4. \A j \in Keys \ {k} : idem'[j] = idem[j]
    BY <1>0, <2>1 DEF TypeOK
  <2>5. idem'[k].status = "succeeded"
    <3>1. idem[k] \in Records /\ idem[k].status = "pending"
      BY <1>0, <2>1 DEF TypeOK, Placed
    <3>2. idem[k] \in [status : {"pending", "succeeded", "failed"}, cmd : Commands]
      BY <3>1, NothingSent DEF Records
    <3> QED BY <1>0, <2>1, <3>2 DEF TypeOK
  <2>6. pc'[r] = "marking" => req'[r].key = k
    <3>1. pc'[r] = "marking" => pc[r] # "idle"
      BY <1>10 DEF Commit
    <3> QED BY <1>0, <2>1, <3>1 DEF Placed
  <2>7. Placed(r)' /\ \A j \in Keys \ {k} : Owns(r, j)' => Owns(r, j)
    BY <2>1, <2>3, <2>5, <2>6, NothingSent DEF Placed, Owns
  <2>8. \A q \in Requests \ {r} : ~Owns(q, k)
    BY <1>0, <2>1 DEF Keyed, OneOwner
  <2>9. \A q \in Requests \ {r} : pc'[q] = pc[q] /\ tx'[q] = tx[q] /\ req'[q] = req[q]
    BY <1>0, <1>10, Others DEF SlotStep
  <2>10. k \in Keys
    BY <2>1
  <2> HIDE DEF k
  <2> QED BY <1>0, <2>4, <2>7, <2>8, <2>9, <2>10, OfItsKey
<1>11. ASSUME UNCHANGED <<idem, tx, pc, req>> PROVE Keyed'
  BY <1>0, <1>11 DEF Keyed, OneOwner, Owns, Placed
<1>12. ASSUME NEW n \in DOMAIN cases, UpdateCase(n) PROVE Keyed'
  BY <1>11, <1>12 DEF UpdateCase
<1>13. CASE UNCHANGED vars
  BY <1>11, <1>13 DEF vars, db
<1> QED BY <1>1, <1>2, <1>3, <1>6, <1>7, <1>8, <1>9, <1>10, <1>12, <1>13 DEF Next
-----------------------------------------------------------------------------
(* What carries a key.                                                       *)

DecidedUnder(k) == {d \in decisions : d.key = k}
LinkedUnder(k) == {l \in links : l.key = k}
CreatedUnder(k) == {n \in DOMAIN cases : cases[n].key = k}

Counts(k) ==
    Cardinality(DecidedUnder(k)) + Cardinality(LinkedUnder(k)) + Cardinality(CreatedUnder(k))
        = IF idem[k].status = "succeeded" THEN 1 ELSE 0

LEMMA CountsAll == SucceededIffRecorded <=> \A k \in Keys : Counts(k)
BY DEF SucceededIffRecorded, Counts, DecidedUnder, LinkedUnder, CreatedUnder

LEMMA CountsAllNext == SucceededIffRecorded' <=> \A k \in Keys : Counts(k)'
BY DEF SucceededIffRecorded, Counts, DecidedUnder, LinkedUnder, CreatedUnder

LEMMA NothingYet ==
    ASSUME Kept, NEW k \in Keys, idem[k].status # "succeeded"
    PROVE  DecidedUnder(k) = {} /\ LinkedUnder(k) = {} /\ CreatedUnder(k) = {}
<1>1. IsFiniteSet(DecidedUnder(k)) /\ IsFiniteSet(LinkedUnder(k)) /\ IsFiniteSet(CreatedUnder(k))
  <2>1. IsFiniteSet(decisions) /\ IsFiniteSet(links)
    BY DEF Kept, Inv, Shape, Tables
  <2>2. DOMAIN cases = 1 .. Len(cases) /\ Len(cases) \in Nat
    BY DEF Kept, Tables, TypeOK
  <2>3. IsFiniteSet(DOMAIN cases)
    BY <2>2, FS_Interval
  <2>4. /\ DecidedUnder(k) \subseteq decisions /\ LinkedUnder(k) \subseteq links
        /\ CreatedUnder(k) \subseteq DOMAIN cases
    BY DEF DecidedUnder, LinkedUnder, CreatedUnder
  <2> QED BY <2>1, <2>3, <2>4, FS_Subset
<1>2. /\ Cardinality(DecidedUnder(k)) \in Nat /\ Cardinality(LinkedUnder(k)) \in Nat
      /\ Cardinality(CreatedUnder(k)) \in Nat
  BY <1>1, FS_CardinalityType
<1>3. Cardinality(DecidedUnder(k)) + Cardinality(LinkedUnder(k)) + Cardinality(CreatedUnder(k)) = 0
  BY CountsAll DEF Kept, Counts
<1>4. /\ Cardinality(DecidedUnder(k)) = 0 /\ Cardinality(LinkedUnder(k)) = 0
      /\ Cardinality(CreatedUnder(k)) = 0
  BY <1>2, <1>3
<1> QED BY <1>1, <1>4, FS_EmptySet

LEMMA CountStays ==
    ASSUME NEW k \in Keys, Counts(k), DecidedUnder(k)' = DecidedUnder(k),
           LinkedUnder(k)' = LinkedUnder(k), CreatedUnder(k)' = CreatedUnder(k),
           idem'[k].status = "succeeded" <=> idem[k].status = "succeeded"
    PROVE  Counts(k)'
BY DEF Counts

\* The commit of a row is the first and the last thing recorded under its key.
LEMMA CommitCounts ==
    ASSUME Kept, NEW r \in Requests, Commit(r)
    PROVE  SucceededIffRecorded'
<1> DEFINE row == tx[r]
           k == row.key
<1>1. /\ row # NoTx /\ k \in Keys /\ row.row \in {"decision", "link", "case"}
      /\ idem[k] \in Records /\ idem[k].status = "pending"
  <2>1. row # NoTx /\ k \in Keys /\ row.row \in {"decision", "link", "case"}
    BY CommitWrites, RowIsTyped DEF Kept
  <2> QED BY <2>1 DEF Kept, Keyed, Placed, Tables, TypeOK
<1>2. DecidedUnder(k) = {} /\ LinkedUnder(k) = {} /\ CreatedUnder(k) = {}
  BY <1>1, NothingYet
<1>3. /\ \A j \in Keys \ {k} : idem'[j] = idem[j]
      /\ idem'[k].status = "succeeded"
  <2>1. idem[k] \in [status : {"pending", "succeeded", "failed"}, cmd : Commands]
    BY <1>1, NothingSent DEF Records
  <2>2. idem' = [idem EXCEPT ![k].status = "succeeded"] /\ idem \in [Keys -> Records]
    BY CommitWrites DEF Kept, Tables, TypeOK
  <2> QED BY <1>1, <2>1, <2>2
<1>4. /\ \A j \in Keys : DecidedUnder(j)' = IF row.row = "decision" /\ j = k THEN {row} ELSE DecidedUnder(j)
      /\ \A j \in Keys : LinkedUnder(j)' = IF row.row = "link" /\ j = k THEN {row} ELSE LinkedUnder(j)
  <2>1. /\ row.row = "decision" => decisions' = decisions \cup {row} /\ links' = links
        /\ row.row = "link" => decisions' = decisions /\ links' = links \cup {row}
        /\ row.row = "case" => decisions' = decisions /\ links' = links
    BY CommitWrites
  <2> QED BY <1>1, <1>2, <2>1 DEF DecidedUnder, LinkedUnder
<1>5. \A j \in Keys : CreatedUnder(j)' =
         IF row.row = "case" /\ j = k THEN {Len(cases) + 1} ELSE CreatedUnder(j)
  <2>0. cases \in Seq(Cases)
    BY DEF Kept, Tables, TypeOK, Cases
  <2>1. CASE row.row = "decision"
    BY <2>1, CommitWrites DEF CreatedUnder
  <2>2. CASE row.row = "link"
    <3>1. row.case \in DOMAIN cases /\ cases' = CaseAttached(row.case)
      BY <2>2, CommitWrites DEF Kept, Chained, Requested, HasLink
    <3> DEFINE n == row.case
    <3>2. /\ DOMAIN cases' = DOMAIN cases /\ cases'[n].key = cases[n].key
          /\ \A m \in DOMAIN cases \ {n} : cases'[m] = cases[m]
      BY <2>0, <3>1, AttachedTyped
    <3>3. \A m \in DOMAIN cases : cases'[m].key = cases[m].key
      BY <3>2
    <3> QED BY <2>2, <3>2, <3>3 DEF CreatedUnder
  <2>3. CASE row.row = "case"
    <3> DEFINE new == [version |-> 1, confirmed |-> FALSE, key |-> k]
    <3>1. cases' = Append(cases, new)
      BY <2>3, CommitWrites
    <3>2. new \in Cases /\ new.key = k
      BY <1>1 DEF Cases
    <3>3. DOMAIN cases = 1 .. Len(cases) /\ Len(cases) \in Nat
      BY <2>0
    <3> HIDE DEF new
    <3>4. DOMAIN cases' = 1 .. Len(cases) + 1
      BY <2>0, <3>1, <3>2, AppendProperties
    <3>5. cases'[Len(cases) + 1] = new /\ \A m \in 1 .. Len(cases) : cases'[m] = cases[m]
      BY <2>0, <3>1, <3>2, AppendProperties
    <3>6. \A j \in Keys : CreatedUnder(j)' =
            CreatedUnder(j) \cup (IF j = k THEN {Len(cases) + 1} ELSE {})
      BY <3>2, <3>3, <3>4, <3>5 DEF CreatedUnder
    <3> QED BY <1>2, <2>3, <3>6
  <2> QED BY <1>1, <2>1, <2>2, <2>3
<1>6. ASSUME NEW j \in Keys, j # k PROVE Counts(j)'
  <2>1. Counts(j)
    BY CountsAll DEF Kept
  <2>2. idem'[j].status = "succeeded" <=> idem[j].status = "succeeded"
    BY <1>3, <1>6
  <2> HIDE DEF row, k
  <2> QED BY <1>4, <1>5, <1>6, <2>1, <2>2, CountStays
<1>7. ASSUME NEW j \in Keys, j = k PROVE Counts(j)'
  <2>1. \A x : Cardinality({x}) = 1
    BY FS_Singleton
  <2>2. Cardinality({}) = 0
    BY FS_EmptySet
  <2>3. /\ Cardinality(DecidedUnder(j)') = IF row.row = "decision" THEN 1 ELSE 0
        /\ Cardinality(LinkedUnder(j)') = IF row.row = "link" THEN 1 ELSE 0
        /\ Cardinality(CreatedUnder(j)') = IF row.row = "case" THEN 1 ELSE 0
    <3>1. DecidedUnder(j) = {} /\ LinkedUnder(j) = {} /\ CreatedUnder(j) = {}
      BY <1>2, <1>7
    <3>4. /\ row.row = "decision" => DecidedUnder(j)' = {row}
          /\ row.row = "link" => LinkedUnder(j)' = {row}
          /\ row.row = "case" => CreatedUnder(j)' = {Len(cases) + 1}
      BY <1>1, <1>4, <1>5, <1>7
    <3>5. /\ row.row # "decision" => DecidedUnder(j)' = {}
          /\ row.row # "link" => LinkedUnder(j)' = {}
          /\ row.row # "case" => CreatedUnder(j)' = {}
      BY <3>1, <1>4, <1>5
    <3> HIDE DEF row
    <3> QED BY <3>4, <3>5, <2>1, <2>2
  <2>4. Cardinality(DecidedUnder(j)') + Cardinality(LinkedUnder(j)') + Cardinality(CreatedUnder(j)') = 1
    BY <1>1, <2>3
  <2>5. idem'[j].status = "succeeded"
    BY <1>3, <1>7
  <2> QED BY <2>4, <2>5 DEF Counts
<1> QED BY <1>6, <1>7, CountsAllNext

LEMMA CountedKept ==
    ASSUME Kept, [Next]_vars
    PROVE  SucceededIffRecorded'
<1>1. ASSUME UNCHANGED <<decisions, links>>, DOMAIN cases' = DOMAIN cases,
             \A n \in DOMAIN cases : cases'[n].key = cases[n].key,
             \A k \in Keys : idem'[k].status = "succeeded" <=> idem[k].status = "succeeded"
      PROVE  SucceededIffRecorded'
  <2>1. ASSUME NEW k \in Keys PROVE Counts(k)'
    <3>1. Counts(k) /\ CreatedUnder(k)' = CreatedUnder(k)
      BY <1>1, CountsAll DEF Kept, CreatedUnder
    <3>2. DecidedUnder(k)' = DecidedUnder(k) /\ LinkedUnder(k)' = LinkedUnder(k)
      BY <1>1 DEF DecidedUnder, LinkedUnder
    <3> QED BY <1>1, <3>1, <3>2, CountStays
  <2> QED BY <2>1, CountsAllNext
<1>2. ASSUME NEW r \in Requests, Reserve(r) PROVE SucceededIffRecorded'
  <2>1. /\ UNCHANGED <<decisions, links, cases>>
        /\ \/ UNCHANGED idem
           \/ /\ idem' = [idem EXCEPT ![req[r].key] = [status |-> "pending", cmd |-> req[r].cmd]]
              /\ idem[req[r].key] = NoRecord
    BY <1>2 DEF Reserve, IsNew, Record
  <2>2. \A k \in Keys : idem'[k].status = "succeeded" <=> idem[k].status = "succeeded"
    BY <2>1, NothingSent DEF Kept, Tables, TypeOK
  <2> QED BY <1>1, <2>1, <2>2
<1>3. ASSUME NEW r \in Requests, MarkFailed(r) PROVE SucceededIffRecorded'
  <2> DEFINE k == req[r].key
  <2>1. /\ UNCHANGED <<decisions, links, cases>>
        /\ UNCHANGED idem \/ idem' = [idem EXCEPT ![k] = Failed(k)]
    BY <1>3 DEF MarkFailed
  <2>2. k \in Keys /\ idem[k] \in Records
    <3>1. req[r] \in Submissions
      BY <1>3 DEF Kept, Inv, Shape, MarkFailed
    <3>2. k \in Keys
      BY <3>1, SubmissionsAssumption
    <3> QED BY <3>2 DEF Kept, Tables, TypeOK
  <2>3. Failed(k).status = "succeeded" <=> idem[k].status = "succeeded"
    <3>1. idem[k].status = "pending" =>
            idem[k] \in [status : {"pending", "succeeded", "failed"}, cmd : Commands]
      BY <2>2, NothingSent DEF Records
    <3> QED BY <3>1 DEF Failed
  <2>4. \A j \in Keys : idem'[j].status = "succeeded" <=> idem[j].status = "succeeded"
    <3> HIDE DEF k
    <3> QED BY <2>1, <2>2, <2>3 DEF Kept, Tables, TypeOK
  <2> QED BY <1>1, <2>1, <2>4
<1>4. ASSUME UNCHANGED db PROVE SucceededIffRecorded'
  BY <1>1, <1>4 DEF db
<1>5. ASSUME NEW r \in Requests,
             \/ Send(r) \/ Check(r) \/ Guard(r) \/ Insert(r) \/ Complete(r)
             \/ Abort(r) \/ LoseConnection(r) \/ Crash(r)
      PROVE  SucceededIffRecorded'
  BY <1>4, <1>5 DEF Send, Check, Guard, Insert, Complete, Abort, LoseConnection, Crash
<1>6. ASSUME NEW n \in DOMAIN cases, UpdateCase(n) PROVE SucceededIffRecorded'
  <2>1. cases \in Seq(Cases)
    BY DEF Kept, Tables, TypeOK, Cases
  <2>2. /\ DOMAIN cases' = DOMAIN cases /\ cases'[n].key = cases[n].key
        /\ \A m \in DOMAIN cases \ {n} : cases'[m] = cases[m]
    BY <1>6, <2>1, UpdatedTyped DEF UpdateCase
  <2>3. \A m \in DOMAIN cases : cases'[m].key = cases[m].key
    BY <2>2
  <2> QED BY <1>1, <1>6, <2>2, <2>3 DEF UpdateCase
<1> QED BY <1>2, <1>3, <1>4, <1>5, <1>6, CommitCounts DEF Next, vars
-----------------------------------------------------------------------------
(* The links of a case, as a set on its own.                                 *)

On(S, n) == {l \in S : l.case = n}

ConfirmedIn(D, x) == \E d \in D : d.resolution = x /\ d.type = "confirmed"

CurrentIn(S) ==
    LET current == {l \in S : \A k \in S : k.supersedes # l.after}
    IN  IF current = {} THEN 0
        ELSE (CHOOSE l \in current : \A k \in current : k.after =< l.after).after

Follows(S, l) ==
    LET earlier == {k \in S : k.after < l.after}
    IN  IF earlier = {} THEN l.supersedes = 0
        ELSE /\ \E k \in earlier : k.after = l.supersedes
             /\ \A k \in earlier : k.after =< l.supersedes

Orderly(S, c) ==
    /\ c.confirmed = (S # {})
    /\ \A l \in S : l.after =< c.version /\ Follows(S, l)
    /\ \A k, l \in S : k.after = l.after => k = l
    /\ S # {} => \E l \in S : \A k \in S : k.after =< l.after
    /\ \A l, m \in S : l.after < m.after => \E k \in S : k.supersedes = l.after

Chains(D, C, S) ==
    \A n \in DOMAIN C :
        Orderly(On(S, n), C[n]) /\ \A l \in On(S, n) : ConfirmedIn(D, l.resolution)

PassedOn(t, D, C, S) ==
    /\ ConfirmedIn(D, t.resolution)
    /\ t.after - 1 =< C[t.case].version
    /\ C[t.case].version = t.after - 1 => t.supersedes = CurrentIn(On(S, t.case))

LEMMA ConfirmedHere ==
    /\ \A x : Confirmed(x) <=> ConfirmedIn(decisions, x)
    /\ \A x : Confirmed(x)' <=> ConfirmedIn(decisions', x)
BY DEF Confirmed, ConfirmedIn, DecisionsOn

LEMMA ChainsHere ==
    OneCurrent /\ LinksFormAChain <=> Chains(decisions, cases, links)
<1>1. \A n : LinksOf(n) = On(links, n)
  BY DEF LinksOf, On
<1>2. OneCurrent <=>
        \A n \in DOMAIN cases : LET S == On(links, n) IN
          /\ S # {} => \E l \in S : \A k \in S : k.after =< l.after
          /\ \A l, m \in S : l.after < m.after => \E k \in S : k.supersedes = l.after
  BY <1>1 DEF OneCurrent, Last
<1>3. LinksFormAChain <=>
        \A n \in DOMAIN cases : LET S == On(links, n) IN
          /\ cases[n].confirmed = (S # {})
          /\ \A l \in S : l.after =< cases[n].version /\ ConfirmedIn(decisions, l.resolution) /\ Follows(S, l)
          /\ \A k, l \in S : k.after = l.after => k = l
  BY <1>1, ConfirmedHere DEF LinksFormAChain, Follows
<1> QED BY <1>2, <1>3 DEF Chains, Orderly

LEMMA ChainsNext ==
    (OneCurrent /\ LinksFormAChain)' <=> Chains(decisions', cases', links')
<1>1. \A n : LinksOf(n)' = On(links', n)
  BY DEF LinksOf, On
<1>2. OneCurrent' <=>
        \A n \in DOMAIN cases' : LET S == On(links', n) IN
          /\ S # {} => \E l \in S : \A k \in S : k.after =< l.after
          /\ \A l, m \in S : l.after < m.after => \E k \in S : k.supersedes = l.after
  BY <1>1 DEF OneCurrent, Last
<1>3. LinksFormAChain' <=>
        \A n \in DOMAIN cases' : LET S == On(links', n) IN
          /\ cases'[n].confirmed = (S # {})
          /\ \A l \in S : l.after =< cases'[n].version /\ ConfirmedIn(decisions', l.resolution) /\ Follows(S, l)
          /\ \A k, l \in S : k.after = l.after => k = l
  BY <1>1, ConfirmedHere DEF LinksFormAChain, Follows
<1> QED BY <1>2, <1>3 DEF Chains, Orderly

LEMMA PassedHere ==
    ASSUME NEW r \in Requests
    PROVE  Passed(r) <=> (tx[r].row = "link" /\ pc[r] # "guarding" => PassedOn(tx[r], decisions, cases, links))
BY ConfirmedHere DEF Passed, PassedOn, HasLink, CurrentLink, CurrentIn, LinksOf, On

LEMMA PassedNext ==
    ASSUME NEW r \in Requests
    PROVE  Passed(r)' <=>
             (tx'[r].row = "link" /\ pc'[r] # "guarding" => PassedOn(tx'[r], decisions', cases', links'))
BY DEF Passed, PassedOn, HasLink, CurrentLink, CurrentIn, LinksOf, On, Confirmed, ConfirmedIn, DecisionsOn

\* A link made at the case's next version, which supersedes the last one,
\* lengthens the chain.
LEMMA ChainGrows ==
    ASSUME NEW S, NEW c, NEW e, NEW row, Orderly(S, c),
           \A l \in S \cup {row} : l.after \in Nat /\ l.after >= 2 /\ l.supersedes \in Nat,
           c.version \in Nat, row.after = c.version + 1,
           S = {} => row.supersedes = 0,
           \A l \in S : (\A k \in S : k.after =< l.after) => row.supersedes = l.after,
           e.version = c.version + 1, e.confirmed = TRUE
    PROVE  Orderly(S \cup {row}, e)
<1> DEFINE T == S \cup {row}
<1>1. \A l \in S : l.after < row.after /\ l # row
  BY DEF Orderly
<1>2. ASSUME NEW l \in S PROVE Follows(T, l)
  <2>1. {k \in T : k.after < l.after} = {k \in S : k.after < l.after}
    BY <1>1
  <2> QED BY <2>1 DEF Orderly, Follows
<1>3. Follows(T, row)
  <2>1. {k \in T : k.after < row.after} = S
    BY <1>1
  <2> HIDE DEF T
  <2>2. S = {} => row.supersedes = 0
    OBVIOUS
  <2>3. S # {} => /\ \E k \in S : k.after = row.supersedes
                  /\ \A k \in S : k.after =< row.supersedes
    BY DEF Orderly
  <2> QED BY <2>1, <2>2, <2>3 DEF Follows
<1>4. \A k, l \in T : k.after = l.after => k = l
  BY <1>1 DEF Orderly
<1>5. \E l \in T : \A k \in T : k.after =< l.after
  BY <1>1
<1>6. ASSUME NEW l \in T, NEW m \in T, l.after < m.after PROVE \E k \in T : k.supersedes = l.after
  <2>1. l \in S
    BY <1>1, <1>6
  <2>2. CASE m \in S
    BY <1>6, <2>1, <2>2 DEF Orderly
  <2>3. CASE m = row
    <3>1. CASE \A k \in S : k.after =< l.after
      BY <2>1, <3>1
    <3>2. CASE \E k \in S : ~(k.after =< l.after)
      <4>1. PICK k \in S : l.after < k.after
        BY <2>1, <3>2
      <4> QED BY <2>1, <4>1 DEF Orderly
    <3> QED BY <3>1, <3>2
  <2> QED BY <2>2, <2>3
<1>7. \A l \in T : l.after =< e.version
  BY <1>1
<1>8. e.confirmed = (T # {})
  OBVIOUS
<1> HIDE DEF T
<1>9. \A l \in T : Follows(T, l)
  BY <1>2, <1>3 DEF T
<1> QED BY <1>4, <1>5, <1>6, <1>7, <1>8, <1>9 DEF Orderly, T
-----------------------------------------------------------------------------
(* Every step keeps the chains.                                              *)

\* A step of one slot that leaves the tables alone.
LEMMA SlotMoves ==
    ASSUME Kept, NEW r \in Requests, UNCHANGED <<decisions, cases, links>>,
           \A q \in Requests \ {r} : pc'[q] = pc[q] /\ tx'[q] = tx[q] /\ req'[q] = req[q],
           Requested(r)', Passed(r)',
           HasLink(r)' /\ Sent(r)' =>
             /\ tx'[r] = tx[r]
             /\ \/ Sent(r)
                \/ CaseRowFree(tx[r].case) /\ cases[tx[r].case].version = tx[r].after - 1
    PROVE  Chained'
<1>0. /\ LinksFit /\ OneCurrent /\ LinksFormAChain
      /\ \A q \in Requests : Requested(q) /\ Passed(q) /\ Final(q)
  BY DEF Kept, Chained
<1>1. LinksFit'
  BY <1>0 DEF LinksFit
<1>2. (OneCurrent /\ LinksFormAChain)'
  <2>1. Chains(decisions, cases, links)
    BY <1>0, ChainsHere
  <2>2. Chains(decisions', cases', links')
    BY <2>1
  <2> QED BY <2>2, ChainsNext
<1>3. ASSUME NEW q \in Requests PROVE Requested(q)'
  BY <1>0 DEF Requested, HasLink
<1>4. ASSUME NEW q \in Requests PROVE Passed(q)'
  <2>1. CASE q # r
    BY <1>0, <2>1, PassedHere, PassedNext
  <2> QED BY <2>1
<1>5. ASSUME NEW q \in Requests, HasLink(q)', Sent(q)'
      PROVE  /\ cases[tx'[q].case].version = tx'[q].after - 1
             /\ \A p \in Requests : HasLink(p)' /\ Sent(p)' /\ tx'[p].case = tx'[q].case => p = q
  <2>1. \A p \in Requests \ {r} : HasLink(p)' /\ Sent(p)' <=> HasLink(p) /\ Sent(p)
    BY DEF HasLink, Sent
  <2>2. /\ tx'[q] = tx[q] /\ HasLink(q)
        /\ \A p \in Requests : HasLink(p)' /\ Sent(p)' => tx'[p] = tx[p] /\ HasLink(p)
    BY <1>5 DEF HasLink
  <2>3. cases[tx[q].case].version = tx[q].after - 1
    BY <1>0, <1>5, <2>1, <2>2 DEF Final
  <2>4. ASSUME NEW p \in Requests, HasLink(p)', Sent(p)', tx[p].case = tx[q].case PROVE p = q
    <3>1. CASE Sent(p) /\ Sent(q)
      BY <1>0, <2>2, <2>4, <3>1 DEF Final
    <3>2. CASE p = r /\ q # r /\ CaseRowFree(tx[r].case)
      BY <1>5, <2>1, <2>2, <2>4, <3>2 DEF CaseRowFree, HasLink, Sent
    <3>3. CASE q = r /\ p # r /\ CaseRowFree(tx[r].case)
      BY <1>5, <2>1, <2>2, <2>4, <3>3 DEF CaseRowFree, HasLink, Sent
    <3> QED BY <1>5, <2>1, <2>4, <3>1, <3>2, <3>3
  <2> QED BY <2>2, <2>3, <2>4
<1>6. \A q \in Requests : Final(q)'
  BY <1>5 DEF Final
<1> QED BY <1>1, <1>2, <1>3, <1>4, <1>6 DEF Chained

\* The other client raises the version of a case that no link is about to raise.
LEMMA CaseMoves ==
    ASSUME Kept, NEW n \in DOMAIN cases, UpdateCase(n)
    PROVE  Chained'
<1>0. /\ LinksFit /\ OneCurrent /\ LinksFormAChain
      /\ \A q \in Requests : Requested(q) /\ Passed(q) /\ Final(q)
      /\ TypeOK /\ \A m \in DOMAIN cases : cases[m].version \in Nat
      /\ \A l \in links : l.after \in Nat
  <2>1. TypeOK /\ cases \in Seq(Cases)
    BY DEF Kept, Tables, TypeOK, Cases
  <2>2. \A m \in DOMAIN cases : cases[m] \in Cases
    BY <2>1, ElementOfSeq
  <2> QED BY <2>1, <2>2 DEF Kept, Chained, Cases, TypeOK, Links
<1>1. /\ DOMAIN cases' = DOMAIN cases
      /\ cases'[n].version = cases[n].version + 1 /\ cases'[n].confirmed = cases[n].confirmed
      /\ \A m \in DOMAIN cases \ {n} : cases'[m] = cases[m]
      /\ UNCHANGED <<decisions, links, tx, pc, req>>
  <2>1. cases \in Seq(Cases)
    BY <1>0 DEF TypeOK, Cases
  <2> QED BY <2>1, UpdatedTyped DEF UpdateCase
<1>2. LinksFit'
  BY <1>0, <1>1 DEF LinksFit
<1>3. (OneCurrent /\ LinksFormAChain)'
  <2>1. Chains(decisions, cases, links)
    BY <1>0, ChainsHere
  <2>2. ASSUME NEW m \in DOMAIN cases PROVE Orderly(On(links, m), cases'[m])
    <3>1. Orderly(On(links, m), cases[m])
      BY <2>1 DEF Chains
    <3>2. cases'[m].confirmed = cases[m].confirmed /\ cases'[m].version >= cases[m].version
          /\ cases'[m].version \in Nat /\ cases[m].version \in Nat
      BY <1>0, <1>1
    <3>3. \A l \in On(links, m) : l.after \in Nat
      BY <1>0 DEF On
    <3> QED BY <3>1, <3>2, <3>3 DEF Orderly
  <2>3. Chains(decisions', cases', links')
    BY <1>1, <2>1, <2>2 DEF Chains
  <2> QED BY <2>3, ChainsNext
<1>4. ASSUME NEW q \in Requests PROVE Requested(q)'
  BY <1>0, <1>1 DEF Requested, HasLink
<1>5. ASSUME NEW q \in Requests PROVE Passed(q)'
  <2> SUFFICES ASSUME tx[q].row = "link", pc[q] # "guarding"
               PROVE  PassedOn(tx[q], decisions, cases', links)
    BY <1>1, PassedNext
  <2>1. PassedOn(tx[q], decisions, cases, links)
    BY <1>0, PassedHere
  <2>2. tx[q].case \in DOMAIN cases /\ tx[q] \in Links
    BY <1>0, NothingSent, RowIsTyped DEF Requested, HasLink, Kept
  <2>3. tx[q].after \in Nat
    BY <2>2 DEF Links
  <2>4. CASE tx[q].case # n
    BY <1>1, <2>1, <2>2, <2>4 DEF PassedOn
  <2>5. CASE tx[q].case = n
    BY <1>0, <1>1, <2>1, <2>2, <2>3, <2>5 DEF PassedOn
  <2> QED BY <2>4, <2>5
<1>6. ASSUME NEW q \in Requests PROVE Final(q)'
  <2>1. HasLink(q) /\ Sent(q) => tx[q].case \in DOMAIN cases \ {n}
    BY <1>0 DEF UpdateCase, CaseRowFree, HasLink, Sent, Requested
  <2> QED BY <1>0, <1>1, <2>1 DEF Final, HasLink, Sent
<1> QED BY <1>2, <1>3, <1>4, <1>5, <1>6 DEF Chained
\* What a commit of r leaves to the other slots: the tables have grown, and the
\* cases that a slot's link names have not moved unless r's own link moved them.
LEMMA CommitChains ==
    ASSUME Kept, NEW r \in Requests, Commit(r)
    PROVE  Chained'
<1> DEFINE row == tx[r]
<1>0. /\ LinksFit /\ OneCurrent /\ LinksFormAChain
      /\ \A q \in Requests : Requested(q) /\ Passed(q) /\ Final(q)
      /\ cases \in Seq(Cases) /\ \A m \in DOMAIN cases : cases[m].version \in Nat
      /\ \A l \in links : l \in Links /\ l.after \in Nat /\ l.supersedes \in Nat
      /\ Chains(decisions, cases, links)
      /\ DOMAIN cases = 1 .. Len(cases) /\ Len(cases) \in Nat
  <2>1. TypeOK /\ cases \in Seq(Cases)
    BY DEF Kept, Tables, TypeOK, Cases
  <2>2. \A m \in DOMAIN cases : cases[m] \in Cases
    BY <2>1, ElementOfSeq
  <2>3. \A l \in links : l \in Links /\ l.after \in Nat /\ l.supersedes \in Nat
    BY <2>1 DEF TypeOK, Links
  <2> QED BY <2>1, <2>2, <2>3, ChainsHere DEF Kept, Chained, Cases
<1>1. /\ \A q \in Requests \ {r} : pc'[q] = pc[q] /\ tx'[q] = tx[q] /\ req'[q] = req[q]
      /\ tx'[r] = NoTx /\ tx'[r].row # "link"
  BY Others, CommitWrites, NothingSent DEF SlotStep, Kept, Tables, TypeOK
<1>2. /\ row # NoTx /\ row \in Rows /\ row.row \in {"decision", "link", "case"}
      /\ row.row = "link" => row \in Links
      /\ row.key \in Keys
  BY CommitWrites, RowIsTyped DEF Kept
<1>3. \A x : ConfirmedIn(decisions, x) => ConfirmedIn(decisions', x)
  <2>1. decisions \subseteq decisions'
    BY <1>2, CommitWrites
  <2> QED BY <2>1 DEF ConfirmedIn
<1>4. ASSUME DOMAIN cases \subseteq DOMAIN cases' PROVE \A q \in Requests : Requested(q)'
  <2>1. \A q \in Requests \ {r} : Requested(q)'
    BY <1>0, <1>1, <1>4 DEF Requested, HasLink
  <2>2. pc'[r] # "idle" => pc[r] # "idle" /\ req'[r] = req[r]
    BY CommitWrites, Slot DEF Commit, Kept, Tables
  <2>3. Requested(r)'
    BY <1>0, <1>1, <1>4, <2>2 DEF Requested, HasLink
  <2> QED BY <2>1, <2>3
<1>5. \A q \in Requests : HasLink(q) => tx[q].case \in DOMAIN cases /\ tx[q].after \in Nat
  BY <1>0, NothingSent, RowIsTyped DEF Requested, HasLink, Kept, Links
<1>6. ASSUME DOMAIN cases \subseteq DOMAIN cases', \A m \in DOMAIN cases : cases'[m] = cases[m],
             links' = links, Chains(decisions', cases', links')
      PROVE  Chained'
  <2>1. LinksFit'
    BY <1>0, <1>6 DEF LinksFit
  <2>2. (OneCurrent /\ LinksFormAChain)'
    BY <1>6, ChainsNext
  <2>3. ASSUME NEW q \in Requests PROVE Passed(q)'
    <3> SUFFICES ASSUME tx'[q].row = "link", pc'[q] # "guarding"
                 PROVE  PassedOn(tx'[q], decisions', cases', links')
      BY PassedNext
    <3>1. q # r /\ tx'[q] = tx[q] /\ pc'[q] = pc[q]
      BY <1>1
    <3>2. PassedOn(tx[q], decisions, cases, links) /\ tx[q].case \in DOMAIN cases
      BY <1>0, <1>5, <3>1, PassedHere DEF HasLink
    <3> QED BY <1>3, <1>6, <3>1, <3>2 DEF PassedOn
  <2>4. ASSUME NEW q \in Requests PROVE Final(q)'
    BY <1>0, <1>1, <1>5, <1>6 DEF Final, HasLink, Sent
  <2> QED BY <1>4, <1>6, <2>1, <2>2, <2>3, <2>4 DEF Chained
<1>7. CASE row.row = "decision"
  <2>1. UNCHANGED <<links, cases>>
    BY <1>7, CommitWrites
  <2>2. Chains(decisions', cases', links')
    BY <1>0, <1>3, <2>1 DEF Chains
  <2> QED BY <1>6, <2>1, <2>2
<1>8. CASE row.row = "case"
  <2> DEFINE new == [version |-> 1, confirmed |-> FALSE, key |-> row.key]
  <2>1. cases' = Append(cases, new) /\ links' = links
    BY <1>8, CommitWrites
  <2>2. new \in Cases /\ new.confirmed = FALSE
    BY <1>2 DEF Cases
  <2> HIDE DEF new
  <2>3. DOMAIN cases' = 1 .. Len(cases) + 1
    BY <1>0, <2>1, <2>2, AppendProperties
  <2>4. cases'[Len(cases) + 1] = new /\ \A m \in DOMAIN cases : cases'[m] = cases[m]
    BY <1>0, <2>1, <2>2, AppendProperties
  <2>5. On(links, Len(cases) + 1) = {}
    <3>1. \A l \in links : l.case \in 1 .. Len(cases)
      BY <1>0 DEF LinksFit
    <3> QED BY <1>0, <3>1 DEF On
  <2>6. Orderly({}, new)
    BY <2>2 DEF Orderly
  <2>7. ASSUME NEW m \in DOMAIN cases'
        PROVE  /\ Orderly(On(links, m), cases'[m])
               /\ \A l \in On(links, m) : ConfirmedIn(decisions', l.resolution)
    <3>1. CASE m = Len(cases) + 1
      BY <2>4, <2>5, <2>6, <3>1
    <3>2. CASE m \in DOMAIN cases
      BY <1>0, <1>3, <2>4, <3>2 DEF Chains
    <3> QED BY <1>0, <2>3, <3>1, <3>2
  <2>8. Chains(decisions', cases', links')
    BY <2>1, <2>7 DEF Chains
  <2>9. DOMAIN cases \subseteq DOMAIN cases'
    BY <1>0, <2>3
  <2> QED BY <1>6, <2>1, <2>4, <2>8, <2>9
<1>9. CASE row.row = "link"
  <2> DEFINE n == row.case
  <2>1. /\ n \in DOMAIN cases /\ links' = links \cup {row} /\ cases' = CaseAttached(n)
        /\ UNCHANGED decisions
    BY <1>5, <1>9, CommitWrites DEF HasLink
  <2>2. /\ DOMAIN cases' = DOMAIN cases
        /\ cases'[n].version = cases[n].version + 1 /\ cases'[n].confirmed = TRUE
        /\ \A m \in DOMAIN cases \ {n} : cases'[m] = cases[m]
    BY <1>0, <2>1, AttachedTyped
  <2>3. Sent(r) /\ HasLink(r) /\ pc[r] # "guarding"
    BY <1>9 DEF Commit, Sent, HasLink, InTransaction
  <2>4. /\ cases[n].version = row.after - 1
        /\ \A q \in Requests : HasLink(q) /\ Sent(q) /\ tx[q].case = n => q = r
    BY <1>0, <2>3 DEF Final
  <2>5. /\ row.after \in Nat /\ row.after >= 2 /\ row.supersedes \in Nat
        /\ Confirmed(row.resolution) /\ row.supersedes = CurrentLink(n)
    BY <1>0, <1>2, <1>9, <2>3, <2>4 DEF Links, Passed, Requested
  <2>6. LinksFit'
    BY <1>0, <2>1, <2>2, <2>5 DEF LinksFit
  <2>7. On(links', n) = On(links, n) \cup {row} /\ \A m : m # n => On(links', m) = On(links, m)
    BY <2>1 DEF On
  <2>8. Orderly(On(links', n), cases'[n])
    <3> DEFINE S == On(links, n)
               c == cases[n]
               e == cases'[n]
    <3>1. Orderly(S, c)
      BY <1>0, <2>1 DEF Chains
    <3>2. \A l \in S \cup {row} : l.after \in Nat /\ l.after >= 2 /\ l.supersedes \in Nat
      BY <1>0, <2>5 DEF On, LinksFit
    <3>3. LinksOf(n) = S
      BY DEF LinksOf, On
    <3>4. S = {} => row.supersedes = 0
      BY <2>1, <2>5, <3>3, CurrentIsLast DEF Kept
    <3>5. \A l \in S : (\A k \in S : k.after =< l.after) => row.supersedes = l.after
      BY <2>1, <2>5, <3>3, CurrentIsLast DEF Kept, Last
    <3>6. c.version \in Nat /\ row.after = c.version + 1 /\ e.version = c.version + 1 /\ e.confirmed = TRUE
      BY <1>0, <2>1, <2>2, <2>4, <2>5
    <3> HIDE DEF S, c, e
    <3>7. Orderly(S \cup {row}, e)
      <4> HIDE DEF row
      <4> QED BY <3>1, <3>2, <3>4, <3>5, <3>6, ChainGrows
    <3> QED BY <2>7, <3>7 DEF S, e
  <2>9. Chains(decisions', cases', links')
    <3>1. ASSUME NEW m \in DOMAIN cases
          PROVE  /\ Orderly(On(links', m), cases'[m])
                 /\ \A l \in On(links', m) : ConfirmedIn(decisions', l.resolution)
      <4>1. CASE m = n
        <5>1. \A l \in On(links, n) : ConfirmedIn(decisions, l.resolution)
          BY <1>0, <2>1 DEF Chains
        <5>2. ConfirmedIn(decisions, row.resolution)
          BY <2>5, ConfirmedHere
        <5> QED BY <1>3, <2>7, <2>8, <4>1, <5>1, <5>2
      <4>2. CASE m # n
        BY <1>0, <1>3, <2>2, <2>7, <4>2 DEF Chains
      <4> QED BY <4>1, <4>2
    <3> QED BY <2>2, <3>1 DEF Chains
  <2>10. (OneCurrent /\ LinksFormAChain)'
    BY <2>9, ChainsNext
  <2>11. ASSUME NEW q \in Requests PROVE Passed(q)'
    <3> SUFFICES ASSUME tx'[q].row = "link", pc'[q] # "guarding"
                 PROVE  PassedOn(tx'[q], decisions', cases', links')
      BY PassedNext
    <3>1. q # r /\ tx'[q] = tx[q] /\ pc'[q] = pc[q]
      BY <1>1
    <3>2. PassedOn(tx[q], decisions, cases, links) /\ tx[q].case \in DOMAIN cases /\ tx[q].after \in Nat
      BY <1>0, <1>5, <3>1, PassedHere DEF HasLink
    <3>3. CASE tx[q].case = n
      <4>1. tx[q].after - 1 =< cases[n].version /\ cases[n].version \in Nat
        BY <1>0, <2>1, <3>2, <3>3 DEF PassedOn
      <4>2. cases'[n].version # tx[q].after - 1 /\ tx[q].after - 1 =< cases'[n].version
        BY <2>2, <3>2, <4>1
      <4> QED BY <1>3, <3>1, <3>2, <3>3, <4>2 DEF PassedOn
    <3>4. CASE tx[q].case # n
      BY <1>3, <2>2, <2>7, <3>1, <3>2, <3>4 DEF PassedOn
    <3> QED BY <3>3, <3>4
  <2>12. ASSUME NEW q \in Requests PROVE Final(q)'
    <3>1. \A p \in Requests : HasLink(p)' /\ Sent(p)' => p # r /\ HasLink(p) /\ Sent(p) /\ tx'[p] = tx[p]
      BY <1>1 DEF HasLink, Sent
    <3>2. HasLink(q) /\ Sent(q) /\ q # r => tx[q].case \in DOMAIN cases \ {n}
      BY <1>5, <2>4
    <3> QED BY <1>0, <2>2, <3>1, <3>2 DEF Final
  <2> QED BY <1>4, <2>2, <2>6, <2>10, <2>11, <2>12 DEF Chained
<1> QED BY <1>2, <1>7, <1>8, <1>9

LEMMA ChainedKept ==
    ASSUME Kept, [Next]_vars
    PROVE  Chained'
<1>0. /\ TypeOK /\ \A r \in Requests : Requested(r) /\ Passed(r) /\ Final(r) /\ Placed(r)
      /\ \A r \in Requests : pc[r] # "idle" => req[r] \in Submissions
  BY DEF Kept, Tables, Chained, Keyed, Inv, Shape
<1> USE DEF InTransaction
<1>1. ASSUME NEW r \in Requests, SlotStep(r), UNCHANGED <<decisions, cases, links>>, tx'[r] = NoTx,
             pc'[r] # "idle" => pc[r] # "idle" /\ req'[r] = req[r]
      PROVE  Chained'
  <2>1. ~HasLink(r)'
    BY <1>1, NothingSent DEF HasLink
  <2>2. Requested(r)' /\ Passed(r)'
    BY <1>0, <1>1, <2>1 DEF Requested, Passed, HasLink
  <2> QED BY <1>0, <1>1, <2>1, <2>2, Others, SlotMoves
<1>2. ASSUME NEW r \in Requests, SlotStep(r), UNCHANGED db, RollBack(r), pc[r] # "idle"
      PROVE  Chained'
  BY <1>0, <1>1, <1>2, Slot DEF db
<1>3. ASSUME NEW r \in Requests, SlotStep(r), UNCHANGED <<decisions, cases, links, tx>>,
             pc[r] # "guarding", pc'[r] # "guarding",
             pc'[r] # "idle" => pc[r] # "idle" /\ req'[r] = req[r],
             HasLink(r) /\ Sent(r)' =>
                Sent(r) \/ (CaseRowFree(tx[r].case) /\ cases[tx[r].case].version = tx[r].after - 1)
      PROVE  Chained'
  <2>1. Requested(r)'
    BY <1>0, <1>3 DEF Requested, HasLink
  <2>2. Passed(r)'
    BY <1>0, <1>3, PassedHere, PassedNext
  <2> QED BY <1>0, <1>3, <2>1, <2>2, Others, SlotMoves DEF HasLink
<1>4. ASSUME NEW r \in Requests, Send(r) PROVE Chained'
  <2>1. tx'[r] = NoTx /\ UNCHANGED db /\ req'[r] \in Submissions /\ Found(req'[r].cmd)
    BY <1>0, <1>4 DEF Send, TypeOK
  <2>2. ~HasLink(r)'
    BY <2>1, NothingSent DEF HasLink
  <2>3. Requested(r)'
    <3>1. req'[r].cmd.op = "attach" => req'[r].cmd.case \in Nat \ {0} /\ req'[r].cmd.case =< Len(cases)
      BY <2>1, SubmissionsAssumption DEF Found
    <3>2. DOMAIN cases = 1 .. Len(cases) /\ Len(cases) \in Nat
      BY <1>0 DEF TypeOK
    <3> QED BY <2>1, <2>2, <3>1, <3>2 DEF Requested, db
  <2>4. Passed(r)'
    BY <2>2 DEF Passed
  <2> QED BY <1>0, <1>4, <2>1, <2>2, <2>3, <2>4, Others, SlotMoves DEF SlotStep, db
<1>5. ASSUME NEW r \in Requests, Reserve(r) PROVE Chained'
  <2>1. tx'[r] = NoTx /\ UNCHANGED <<decisions, cases, links>> /\ pc[r] # "idle"
    BY <1>0, <1>5 DEF Reserve, Placed
  <2>2. pc'[r] # "idle" => req'[r] = req[r]
    BY <1>0, <1>5, Slot DEF Reserve
  <2> QED BY <1>1, <1>5, <2>1, <2>2 DEF SlotStep
<1>6. ASSUME NEW r \in Requests, Check(r) PROVE Chained'
  <2> DEFINE c == req[r].cmd
             row == Row(c, req[r].key)
  <2>1. pc[r] = "checking" /\ UNCHANGED db /\ tx[r] = NoTx
    BY <1>0, <1>6 DEF Check, Placed
  <2>2. CASE Goto(r, "marking") /\ UNCHANGED tx
    BY <1>0, <1>1, <1>6, <2>1, <2>2, Slot DEF SlotStep, db
  <2>3. CASE /\ tx' = [tx EXCEPT ![r] = row]
             /\ Goto(r, IF c.op = "create_case" THEN "completing" ELSE "guarding")
    <3>1. tx'[r] = row /\ req'[r] = req[r]
      BY <1>0, <2>3, Slot DEF TypeOK
    <3>2. pc'[r] = IF c.op = "create_case" THEN "completing" ELSE "guarding"
      BY <1>0, <2>3, Slot
    <3>3. /\ row.row = "case" <=> c.op = "create_case"
          /\ row.row = "link" =>
                /\ c.op = "attach" /\ row.case = c.case /\ row.resolution = c.resolution
                /\ row.after = c.expected + 1 /\ row.after >= 2
                /\ row.case \in DOMAIN cases
      BY <1>6, <2>1, DraftIsTyped
    <3> HIDE DEF row
    <3>4. Requested(r)'
      BY <1>0, <2>1, <3>1, <3>2, <3>3 DEF Requested, HasLink, db
    <3>5. Passed(r)' /\ ~Sent(r)'
      BY <3>1, <3>2, <3>3 DEF Passed, HasLink, Sent
    <3> QED BY <1>0, <1>6, <2>1, <3>4, <3>5, Others, SlotMoves DEF SlotStep, db
  <2> QED BY <1>6, <2>2, <2>3 DEF Check
<1>7. ASSUME NEW r \in Requests, Guard(r) PROVE Chained'
  <2>1. pc[r] = "guarding" /\ UNCHANGED db
    BY <1>7 DEF Guard
  <2>2. CASE RollBack(r)
    BY <1>2, <1>7, <2>1, <2>2 DEF SlotStep
  <2>3. CASE /\ Allowed(req[r].cmd) /\ Goto(r, "inserting") /\ UNCHANGED tx
             /\ req[r].cmd.op = "attach" => tx[r].supersedes = CurrentLink(req[r].cmd.case)
    <3>1. pc'[r] = "inserting" /\ req'[r] = req[r] /\ tx'[r] = tx[r]
      BY <1>0, <2>3, Slot
    <3>2. Requested(r)'
      BY <1>0, <2>1, <3>1 DEF Requested, HasLink, db
    <3>3. HasLink(r) =>
            /\ Confirmed(tx[r].resolution) /\ cases[tx[r].case].version = tx[r].after - 1
            /\ tx[r].supersedes = CurrentLink(tx[r].case)
      <4> SUFFICES ASSUME HasLink(r)
                   PROVE  /\ Confirmed(tx[r].resolution) /\ cases[tx[r].case].version = tx[r].after - 1
                          /\ tx[r].supersedes = CurrentLink(tx[r].case)
        OBVIOUS
      <4>1. /\ req[r].cmd.op = "attach" /\ tx[r].case = req[r].cmd.case
            /\ tx[r].resolution = req[r].cmd.resolution /\ tx[r].after = req[r].cmd.expected + 1
            /\ req[r] \in Submissions
        BY <1>0, <2>1 DEF Requested
      <4>2. req[r].cmd.expected \in Nat
        BY <4>1, SubmissionsAssumption
      <4> QED BY <2>3, <4>1, <4>2 DEF Allowed, MayAttach
    <3>4. HasLink(r) => tx[r].after \in Nat
      BY NothingSent, RowIsTyped DEF HasLink, Kept, Links
    <3>5. HasLink(r) => PassedOn(tx[r], decisions, cases, links)
      BY <3>3, <3>4, ConfirmedHere DEF PassedOn, CurrentLink, CurrentIn, LinksOf, On
    <3>6. Passed(r)'
      BY <2>1, <3>1, <3>5, PassedNext DEF db, HasLink
    <3> QED BY <1>0, <1>7, <2>1, <3>1, <3>2, <3>6, Others, SlotMoves DEF SlotStep, db, Sent
  <2> QED BY <1>7, <2>2, <2>3 DEF Guard
<1>8. ASSUME NEW r \in Requests, Insert(r) PROVE Chained'
  <2>1. pc[r] = "inserting" /\ UNCHANGED db
    BY <1>8 DEF Insert
  <2>2. CASE RollBack(r)
    BY <1>2, <1>8, <2>1, <2>2 DEF SlotStep
  <2>3. CASE Goto(r, "completing") /\ UNCHANGED tx
    <3>1. pc'[r] = "completing" /\ req'[r] = req[r]
      BY <1>0, <2>3, Slot
    <3> QED BY <1>3, <1>8, <2>1, <2>3, <3>1 DEF SlotStep, db, Sent
  <2> QED BY <1>8, <2>2, <2>3 DEF Insert
<1>9. ASSUME NEW r \in Requests, Complete(r) PROVE Chained'
  <2>1. pc[r] = "completing" /\ UNCHANGED db
    BY <1>9 DEF Complete
  <2>2. CASE RollBack(r)
    BY <1>2, <1>9, <2>1, <2>2 DEF SlotStep
  <2>3. CASE (tx[r].row = "link" => ~CaseChanged(r)) /\ Goto(r, "committing") /\ UNCHANGED tx
    <3>1. pc'[r] = "committing" /\ req'[r] = req[r]
      BY <1>0, <2>3, Slot
    <3>2. HasLink(r) => CaseRowFree(tx[r].case) /\ cases[tx[r].case].version = tx[r].after - 1
      BY <1>9, <2>3 DEF HasLink, Complete, CaseChanged
    <3> QED BY <1>3, <1>9, <2>1, <2>3, <3>1, <3>2 DEF SlotStep, db
  <2> QED BY <1>9, <2>2, <2>3 DEF Complete
<1>10. ASSUME NEW r \in Requests, Abort(r) PROVE Chained'
  <2>1. CASE pc[r] \in InTransaction \cup {"committing"} /\ RollBack(r)
    BY <1>2, <1>10, <2>1 DEF Abort, SlotStep
  <2>2. CASE tx' = [tx EXCEPT ![r] = NoTx] /\ UNCHANGED <<pc, req>>
    <3>1. tx'[r] = NoTx
      BY <1>0, <2>2 DEF TypeOK
    <3> QED BY <1>1, <1>10, <2>2, <3>1 DEF Abort, SlotStep, db
  <2> QED BY <1>10, <2>1, <2>2 DEF Abort
<1>11. ASSUME NEW r \in Requests, LoseConnection(r) PROVE Chained'
  <2>1. pc[r] = "committing" /\ pc'[r] = "marking" /\ req'[r] = req[r] /\ UNCHANGED <<db, tx>>
    BY <1>0, <1>11, Slot DEF LoseConnection
  <2> QED BY <1>3, <1>11, <2>1 DEF SlotStep, db, Sent
<1>12. ASSUME NEW r \in Requests, MarkFailed(r) PROVE Chained'
  <2>1. pc[r] = "marking" /\ pc'[r] = "idle" /\ UNCHANGED <<decisions, cases, links, tx>>
    BY <1>0, <1>12, Slot DEF MarkFailed
  <2> QED BY <1>3, <1>12, <2>1 DEF SlotStep, Sent
<1>13. ASSUME NEW r \in Requests, Crash(r) PROVE Chained'
  <2>1. pc'[r] = "idle" /\ UNCHANGED db
    BY <1>0, <1>13, Slot DEF Crash
  <2>2. CASE Sent(r) /\ UNCHANGED tx
    <3>1. pc[r] # "guarding"
      BY <2>2 DEF Sent
    <3> QED BY <1>3, <1>13, <2>1, <2>2, <3>1 DEF SlotStep, db
  <2>3. CASE tx' = [tx EXCEPT ![r] = NoTx]
    <3>1. tx'[r] = NoTx
      BY <1>0, <2>3 DEF TypeOK
    <3> QED BY <1>1, <1>13, <2>1, <3>1 DEF SlotStep, db
  <2> QED BY <1>13, <2>2, <2>3 DEF Crash
<1>14. CASE UNCHANGED vars
  <2>1. \A r \in Requests : Requested(r)' /\ Final(r)'
    BY <1>0, <1>14 DEF Requested, Final, HasLink, Sent, vars, db
  <2>2. \A r \in Requests : Passed(r)'
    BY <1>0, <1>14, PassedHere, PassedNext DEF vars, db
  <2>3. (OneCurrent /\ LinksFormAChain)'
    BY <1>14, ChainsHere, ChainsNext DEF vars, db, Kept, Chained
  <2> QED BY <1>14, <2>1, <2>2, <2>3 DEF Chained, LinksFit, Kept, vars, db
<1> QED BY <1>4, <1>5, <1>6, <1>7, <1>8, <1>9, <1>10, <1>11, <1>12, <1>13, <1>14,
           CommitChains, CaseMoves DEF Next
-----------------------------------------------------------------------------
LEMMA InitKept == Init => Kept
<1> SUFFICES ASSUME Init PROVE Kept
  OBVIOUS
<1>1. Inv
  BY InitInv
<1>2. Tables
  <2>1. IsFiniteSet({})
    BY FS_EmptySet
  <2> QED BY <2>1 DEF Init, Tables, TypeOK, Records, InFlight
<1>3. Keyed
  BY DEF Init, Keyed, OneOwner, Owns, Placed, Working, InTransaction
<1>4. Chained
  <2>1. DOMAIN cases = {}
    BY DEF Init
  <2> QED BY <2>1, NothingSent DEF Init, Chained, LinksFit, OneCurrent, LinksFormAChain,
                                   Requested, Passed, Final, HasLink
<1>5. SucceededIffRecorded
  <2>1. ASSUME NEW k \in Keys PROVE Counts(k)
    <3>1. DecidedUnder(k) = {} /\ LinkedUnder(k) = {} /\ CreatedUnder(k) = {}
      BY DEF Init, DecidedUnder, LinkedUnder, CreatedUnder
    <3>2. Cardinality({}) = 0
      BY FS_EmptySet
    <3>3. idem[k].status # "succeeded"
      BY NothingSent DEF Init
    <3> QED BY <3>1, <3>2, <3>3 DEF Counts
  <2> QED BY <2>1, CountsAll
<1> QED BY <1>1, <1>2, <1>3, <1>4, <1>5 DEF Kept

LEMMA KeptAlways == Spec => []Kept
<1>1. Kept /\ [Next]_vars => Kept'
  <2> SUFFICES ASSUME Kept, [Next]_vars PROVE Kept'
    OBVIOUS
  <2>1. Inv'
    BY NextInv DEF Kept
  <2> QED BY <2>1, TypesKept, KeyedKept, ChainedKept, CountedKept DEF Kept
<1> QED BY <1>1, InitKept, PTL DEF Spec

\* The tables hold rows of their types, a request's transaction a row of its
\* command, and a slot a step of the handler: IdentityCommandApplicationService
\* and migration 016.
THEOREM RowsKeepTheirTypes == Spec => []TypeOK
<1>1. Kept => TypeOK
  BY DEF Kept, Tables
<1> QED BY <1>1, KeptAlways, PTL

\* An idempotency key that succeeded has exactly one decision, link or case,
\* and any other key none: over crashes, lost acknowledgements, clients that
\* repeat their request and mark_failed running late.
THEOREM RecordedExactlyOnce == Spec => []SucceededIffRecorded
<1>1. Kept => SucceededIffRecorded
  BY DEF Kept
<1> QED BY <1>1, KeptAlways, PTL

\* The links of a case are one chain and its version and confirmation follow
\* them, although attach_resolution, its guard and the update of the case each
\* read the case in a snapshot of their own.
THEOREM LinksStayAChain == Spec => []LinksFormAChain
<1>1. Kept => LinksFormAChain
  BY DEF Kept, Chained
<1> QED BY <1>1, KeptAlways, PTL
=============================================================================
