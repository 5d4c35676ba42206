------------------------- MODULE IdentityDecisions -------------------------
(***************************************************************************)
(* How a property's identity is decided and a case is tied to it:          *)
(* IdentityCommandApplicationService over PostgresIdentityCommandRepository *)
(* and migration 016.                                                      *)
(*                                                                         *)
(* A resolution starts at version 1 and every decision on it adds one.     *)
(* Nothing locks the resolution: the repository and then the guard trigger *)
(* count the decisions they can see, each in a snapshot of its own, and    *)
(* the unique indexes have the last word.  An insert that meets another    *)
(* transaction's uncommitted row in one of them waits for its end.         *)
(*                                                                         *)
(* A request slot r is one HTTP request being handled; tx[r] is what its   *)
(* command transaction has written.  A decision is a record                *)
(* [resolution, type, candidate, version, key], a link ties a case to the  *)
(* confirmation of a resolution and is named by the case's version after   *)
(* it.  Operators marked (slip) are wrong variants of the one that follows. *)
(***************************************************************************)
EXTENDS Integers, Sequences, FiniteSets

CONSTANTS Resolutions, Candidates,
          Owner,        \* the resolution of each candidate
          Confirmable,  \* the candidates whose own data allow a confirmation
          NoCandidate,  \* the candidate of a whole resolution's rejection
          Keys,         \* idempotency keys, each with its actor and route
          Requests,     \* slots for requests in flight
          Submissions,  \* the keys and commands clients may send together
          MaxCases, MaxCaseVersion   \* bounds

Ops == {"confirm", "reject", "create_case", "attach"}

ASSUME OwnerAssumption ==
    /\ Owner \in [Candidates -> Resolutions]
    /\ Confirmable \subseteq Candidates
    /\ NoCandidate \notin Candidates

ASSUME SubmissionsAssumption ==
    \A s \in Submissions :
        /\ s.key \in Keys
        /\ s.cmd.op \in Ops
        /\ s.cmd.op \in {"confirm", "reject"} =>
              /\ s.cmd.resolution \in Resolutions
              /\ s.cmd.candidate \in Candidates \cup {NoCandidate}
              /\ s.cmd.op = "confirm" => s.cmd.candidate # NoCandidate
              /\ s.cmd.expected \in Nat \ {0}
        /\ s.cmd.op = "attach" =>
              /\ s.cmd.resolution \in Resolutions
              /\ s.cmd.case \in Nat \ {0}
              /\ s.cmd.expected \in Nat \ {0}

VARIABLES decisions,  \* vnext_core.identity_decisions, the committed rows
          cases,      \* vnext_core.cases, in the order they were created
          links,      \* vnext_core.case_property_links
          idem,       \* vnext_private.idempotency_records, by key
          tx, pc, req

db == <<decisions, cases, links, idem>>
vars == <<db, tx, pc, req>>

NoCommand == [op |-> "none"]
NoRecord  == [status |-> "none", cmd |-> NoCommand]
NoRequest == [key |-> "none", cmd |-> NoCommand]
NoTx      == [row |-> "none"]

InTransaction == {"checking", "guarding", "inserting", "completing"}
InFlight == InTransaction \cup {"reserving", "committing", "marking"}

Init ==
    /\ decisions = {}
    /\ cases = <<>>
    /\ links = {}
    /\ idem = [k \in Keys |-> NoRecord]
    /\ tx = [r \in Requests |-> NoTx]
    /\ pc = [r \in Requests |-> "idle"]
    /\ req = [r \in Requests |-> NoRequest]

-----------------------------------------------------------------------------
(* What the tables say.                                                    *)

DecisionsOn(x) == {d \in decisions : d.resolution = x}

Version(x) == 1 + Cardinality(DecisionsOn(x))

\* (slip) only a confirmation is taken to close a resolution
ConfirmedOnly(x) == \E d \in DecisionsOn(x) : d.type = "confirmed"

Closed(x) ==
    \E d \in DecisionsOn(x) : d.type \in {"confirmed", "resolution_rejected"}

Confirmed(x) == \E d \in DecisionsOn(x) : d.type = "confirmed"

\* (slip) the earlier rejections of a candidate are not looked up
NeverRejected(c) == FALSE

Rejected(c) ==
    \E d \in decisions : d.candidate = c /\ d.type = "candidate_rejected"

LinksOf(n) == {l \in links : l.case = n}

\* (slip) a link is taken for the first of its case
NoLinkYet(n) == 0

\* The link of a case that no later one supersedes, named by its version.
CurrentLink(n) ==
    LET current == {l \in LinksOf(n) : \A k \in LinksOf(n) : k.supersedes # l.after}
    IN  IF current = {} THEN 0
        ELSE (CHOOSE l \in current : \A k \in current : k.after =< l.after).after

-----------------------------------------------------------------------------
(* The request before and after its command.                               *)

Goto(r, l) == pc' = [pc EXCEPT ![r] = l] /\ UNCHANGED req

\* The client is answered, with a result or an error.
Answer(r) ==
    /\ pc' = [pc EXCEPT ![r] = "idle"]
    /\ req' = [req EXCEPT ![r] = NoRequest]

Record(r) == idem[req[r].key]

\* What the service reads before it reserves: the resolution or the case, and
\* for an attachment the one confirmation of its resolution.
Found(c) == c.op = "attach" => c.case =< Len(cases) /\ Confirmed(c.resolution)

Send(r) ==
    /\ pc[r] = "idle"
    /\ tx[r] = NoTx
    /\ \E s \in Submissions :
          /\ Found(s.cmd)
          /\ req' = [req EXCEPT ![r] = s]
    /\ pc' = [pc EXCEPT ![r] = "reserving"]
    /\ UNCHANGED <<db, tx>>

IsNew(r) == Record(r) = NoRecord

\* reserve inserts a pending record and the command goes on, or it finds the
\* one there is: of another command, pending, failed or succeeded, its answer
\* changes nothing.
Reserve(r) ==
    /\ pc[r] = "reserving"
    /\ \/ /\ IsNew(r)
          /\ idem' = [idem EXCEPT ![req[r].key] =
                         [status |-> "pending", cmd |-> req[r].cmd]]
          /\ Goto(r, "checking")
       \/ ~IsNew(r) /\ Answer(r) /\ UNCHANGED idem
    /\ UNCHANGED <<decisions, cases, links, tx>>

-----------------------------------------------------------------------------
(* The command's transaction.                                              *)

\* Whether the rows of one snapshot allow the decision c.
MayDecide(c) ==
    /\ c.expected = Version(c.resolution)
    /\ ~Closed(c.resolution)
    /\ c.candidate # NoCandidate =>
          Owner[c.candidate] = c.resolution /\ ~Rejected(c.candidate)
    /\ c.op = "confirm" => c.candidate \in Confirmable

MayAttach(c) == cases[c.case].version = c.expected /\ Confirmed(c.resolution)

Allowed(c) ==
    /\ c.op \in {"confirm", "reject"} => MayDecide(c)
    /\ c.op = "attach" => MayAttach(c)

DecisionType(c) ==
    IF c.op = "confirm" THEN "confirmed"
    ELSE IF c.candidate = NoCandidate THEN "resolution_rejected"
    ELSE "candidate_rejected"

\* The row a command is about to insert.
Row(c, k) ==
    CASE c.op \in {"confirm", "reject"} ->
           [row |-> "decision", resolution |-> c.resolution, type |-> DecisionType(c),
            candidate |-> c.candidate, version |-> c.expected + 1, key |-> k]
      [] c.op = "attach" ->
           [row |-> "link", case |-> c.case, resolution |-> c.resolution,
            after |-> c.expected + 1, supersedes |-> CurrentLink(c.case), key |-> k]
      [] OTHER -> [row |-> "case", key |-> k]

\* confirm, reject, attach_resolution: the repository's own look at the rows.
Check(r) ==
    /\ pc[r] = "checking"
    /\ LET c == req[r].cmd
       IN IF Allowed(c)
          THEN /\ tx' = [tx EXCEPT ![r] = Row(c, req[r].key)]
               /\ Goto(r, IF c.op = "create_case" THEN "completing" ELSE "guarding")
          ELSE Goto(r, "marking") /\ UNCHANGED tx
    /\ UNCHANGED db

\* The command failed and its transaction is rolled back.
RollBack(r) == Goto(r, "marking") /\ tx' = [tx EXCEPT ![r] = NoTx]

\* guard_identity_decision and guard_case_property_link look again, just
\* before the row goes into the table.
Guard(r) ==
    /\ pc[r] = "guarding"
    /\ LET c == req[r].cmd
       IN IF /\ Allowed(c)
             /\ Record(r).status = "pending"
             /\ c.op = "attach" => tx[r].supersedes = CurrentLink(c.case)
          THEN Goto(r, "inserting") /\ UNCHANGED tx
          ELSE RollBack(r)
    /\ UNCHANGED db

\* (slip) without uq_vnext_identity_decisions_resolution_version
SameTypeOnly(x, y) ==
    /\ x.resolution = y.resolution
    /\ \/ x.type = y.type /\ x.type # "candidate_rejected"
       \/ x.type = y.type /\ x.candidate = y.candidate

\* The unique indexes of identity_decisions: one decision for a version, one
\* confirmation, one rejection of the resolution, one of each candidate.
DecisionsCollide(x, y) ==
    /\ x.resolution = y.resolution
    /\ \/ x.version = y.version
       \/ x.type = y.type /\ x.type # "candidate_rejected"
       \/ x.type = y.type /\ x.candidate = y.candidate

\* Those of case_property_links: a version, a confirmation.
LinksCollide(x, y) ==
    x.case = y.case /\ (x.after = y.after \/ x.resolution = y.resolution)

\* Both tables have one on the idempotency record as well.
Collide(x, y) ==
    /\ x.row = y.row
    /\ \/ x.key = y.key
       \/ x.row = "decision" /\ DecisionsCollide(x, y)
       \/ x.row = "link" /\ LinksCollide(x, y)

\* Transactions whose row is in the table and not yet committed.
Holding(q) == tx[q] # NoTx /\ pc[q] \notin {"guarding", "inserting"}

\* The insert waits for every transaction that holds a colliding row.
MustWait(r) == \E q \in Requests \ {r} : Holding(q) /\ Collide(tx[q], tx[r])

Duplicate(r) == \E x \in decisions \cup links : Collide(x, tx[r])

Insert(r) ==
    /\ pc[r] = "inserting"
    /\ ~MustWait(r)
    /\ IF Duplicate(r) THEN RollBack(r) ELSE Goto(r, "completing") /\ UNCHANGED tx
    /\ UNCHANGED db

CaseChanged(r) == cases[tx[r].case].version # tx[r].after - 1

RecordIsPending(r) == Record(r).status = "pending"

\* No transaction past its completion holds the row of case n.
CaseRowFree(n) ==
    \A q \in Requests :
        tx[q].row = "link" /\ pc[q] \notin InTransaction => tx[q].case # n

\* An attachment updates the case, once the case's row is free; then every
\* command completes its record, writes the audit event and sends COMMIT.
Complete(r) ==
    /\ pc[r] = "completing"
    /\ tx[r].row = "link" => CaseRowFree(tx[r].case)
    /\ tx[r].row = "case" => Len(cases) < MaxCases
    /\ IF (tx[r].row = "link" => ~CaseChanged(r)) /\ RecordIsPending(r)
       THEN Goto(r, "committing") /\ UNCHANGED tx
       ELSE RollBack(r)
    /\ UNCHANGED db

\* COMMIT has been sent for r; the slot may have moved on since.
Sent(r) == tx[r] # NoTx /\ pc[r] \notin InTransaction

CaseAttached(n) == [cases EXCEPT ![n].version = @ + 1, ![n].confirmed = TRUE]

\* The server commits.  The client learns of it if it is still there and the
\* acknowledgement arrives; a reread of the resolution that then fails is
\* answered with an error but marks nothing.
Commit(r) ==
    /\ Sent(r)
    /\ LET row == tx[r]
       IN /\ decisions' = IF row.row = "decision" THEN decisions \cup {row} ELSE decisions
          /\ links' = IF row.row = "link" THEN links \cup {row} ELSE links
          /\ cases' = CASE row.row = "link" -> CaseAttached(row.case)
                        [] row.row = "case" ->
                             Append(cases, [version |-> 1, confirmed |-> FALSE,
                                            key |-> row.key])
                        [] OTHER -> cases
          /\ idem' = [idem EXCEPT ![row.key].status = "succeeded"]
    /\ tx' = [tx EXCEPT ![r] = NoTx]
    /\ \/ pc[r] = "committing" /\ (Answer(r) \/ Goto(r, "marking"))
       \/ pc[r] # "committing" /\ UNCHANGED <<pc, req>>

\* The server aborts the transaction: an error, a broken connection.
Abort(r) ==
    /\ \/ pc[r] \in InTransaction \cup {"committing"} /\ RollBack(r)
       \/ pc[r] \in {"idle", "marking"} /\ Sent(r)
          /\ tx' = [tx EXCEPT ![r] = NoTx] /\ UNCHANGED <<pc, req>>
    /\ UNCHANGED db

\* The connection breaks after COMMIT was sent and before it took effect.
LoseConnection(r) ==
    /\ pc[r] = "committing"
    /\ Goto(r, "marking")
    /\ UNCHANGED <<db, tx>>

\* (slip) without "AND operation_status = 'pending'"
FailedAnyway(k) == [idem[k] EXCEPT !.status = "failed"]

Failed(k) ==
    IF idem[k].status = "pending" THEN [idem[k] EXCEPT !.status = "failed"] ELSE idem[k]

\* mark_failed waits for the record's row, which a transaction past its
\* completion holds, and leaves a final record alone.  It may itself fail,
\* which the service swallows.
MarkFailed(r) ==
    /\ pc[r] = "marking"
    /\ LET k == req[r].key
       IN \/ /\ \A q \in Requests : Sent(q) => tx[q].key # k
             /\ idem' = [idem EXCEPT ![k] = Failed(k)]
          \/ UNCHANGED idem
    /\ Answer(r)
    /\ UNCHANGED <<decisions, cases, links, tx>>

\* The process handling r dies; the server rolls back what has not been sent.
Crash(r) ==
    /\ pc[r] \in InFlight
    /\ Answer(r)
    /\ tx' = IF Sent(r) THEN tx ELSE [tx EXCEPT ![r] = NoTx]
    /\ UNCHANGED db

\* update_case: another client changes the case, once its row is free.
UpdateCase(n) ==
    /\ cases[n].version < MaxCaseVersion
    /\ CaseRowFree(n)
    /\ cases' = [cases EXCEPT ![n].version = @ + 1]
    /\ UNCHANGED <<decisions, links, idem, tx, pc, req>>

Next ==
    \/ \E r \in Requests :
          \/ Send(r) \/ Reserve(r) \/ Check(r) \/ Guard(r) \/ Insert(r) \/ Complete(r)
          \/ Commit(r) \/ Abort(r) \/ LoseConnection(r) \/ MarkFailed(r) \/ Crash(r)
    \/ \E n \in DOMAIN cases : UpdateCase(n)

Spec == Init /\ [][Next]_vars
-----------------------------------------------------------------------------
(* Types.                                                                  *)

Commands == {s.cmd : s \in Submissions}

Decisions == [row : {"decision"}, resolution : Resolutions,
              type : {"confirmed", "candidate_rejected", "resolution_rejected"},
              candidate : Candidates \cup {NoCandidate}, version : Nat, key : Keys]

Links == [row : {"link"}, case : Nat, resolution : Resolutions, after : Nat,
          supersedes : Nat, key : Keys]

Records == {NoRecord} \cup [status : {"pending", "succeeded", "failed"}, cmd : Commands]

TypeOK ==
    /\ decisions \in SUBSET Decisions
    /\ cases \in Seq([version : Nat, confirmed : BOOLEAN, key : Keys])
    /\ links \in SUBSET Links
    /\ idem \in [Keys -> Records]
    /\ tx \in [Requests -> Decisions \cup Links \cup [row : {"case"}, key : Keys]
                             \cup {NoTx}]
    /\ pc \in [Requests -> InFlight \cup {"idle"}]
    /\ req \in [Requests -> Submissions \cup {NoRequest}]

-----------------------------------------------------------------------------
(* Safety.                                                                 *)

\* The decisions on a resolution are numbered 2, 3, 4, ... without a gap and
\* without a number used twice, although transactions that see none of each
\* other's rows choose the numbers by counting (guard_identity_decision).
VersionsAreDense ==
    \A x \in Resolutions :
        /\ {d.version : d \in DecisionsOn(x)} = 2 .. Version(x)
        /\ \A d, e \in DecisionsOn(x) : d.version = e.version => d = e

\* A confirmation, or the rejection of the whole resolution, is the last
\* decision on it: none is made afterwards, by a transaction that began before
\* it either.
ClosedForGood ==
    \A d, e \in decisions :
        /\ d.resolution = e.resolution
        /\ d.type \in {"confirmed", "resolution_rejected"}
        => e.version =< d.version

\* Exactly once: a key's record says succeeded if and only if one decision,
\* one link or one case carries the key.
SucceededIffRecorded ==
    \A k \in Keys :
        Cardinality({d \in decisions : d.key = k}) + Cardinality({l \in links : l.key = k})
          + Cardinality({n \in DOMAIN cases : cases[n].key = k})
            = IF idem[k].status = "succeeded" THEN 1 ELSE 0

\* The links of a case form one chain: each supersedes the one before it, the
\* versions rise along it, the case has moved at least as far as its last
\* link, and it is confirmed if and only if it has one.
LinksFormAChain ==
    \A n \in DOMAIN cases :
        /\ cases[n].confirmed = (LinksOf(n) # {})
        /\ \A l \in LinksOf(n) :
              /\ l.after =< cases[n].version
              /\ Confirmed(l.resolution)
              /\ LET earlier == {k \in LinksOf(n) : k.after < l.after}
                 IN  IF earlier = {} THEN l.supersedes = 0
                     ELSE /\ \E k \in earlier : k.after = l.supersedes
                          /\ \A k \in earlier : k.after =< l.supersedes
        /\ \A k, l \in LinksOf(n) : k.after = l.after => k = l

-----------------------------------------------------------------------------
(* Refinement.                                                             *)

\* The decisions on x in the order of their numbers.
Log(x) ==
    [i \in 1 .. Cardinality(DecisionsOn(x)) |->
        LET d == CHOOSE e \in DecisionsOn(x) : e.version = i + 1
        IN  [type |-> d.type, candidate |-> d.candidate]]

Serial == INSTANCE IdentityLog WITH log <- [x \in Resolutions |-> Log(x)]

\* However the transactions overlap, the decisions are those of people who
\* take turns: each is made on a resolution that is open, and a rejected
\* candidate is not decided on again.
DecisionsAreSerial == Serial!Spec

=============================================================================
