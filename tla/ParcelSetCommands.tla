------------------------- MODULE ParcelSetCommands -------------------------
(***************************************************************************)
(* How parcel-set commands run: CaseParcelSetApplicationService over       *)
(* PostgresCaseParcelSetRepository and PostgresIdempotencyRepository.      *)
(*                                                                         *)
(* A request slot r is one HTTP request being handled; its steps are the   *)
(* transactions the service runs, each READ COMMITTED:                     *)
(*   require_case, reserve, the command itself, and mark_failed.           *)
(* The command's transaction takes the set's row lock and keeps it and the *)
(* idempotency record's until it commits, so at most one is open: tx.  It  *)
(* outlives the client that opened it when the connection breaks after     *)
(* COMMIT was sent; the server then commits or aborts it on its own.       *)
(* Operators marked (slip) are wrong variants of the one that follows.     *)
(***************************************************************************)
EXTENDS ParcelSetData

CONSTANTS Keys,        \* idempotency keys, each with its actor
          Requests,    \* slots for requests in flight
          Submissions  \* the keys and commands clients may send together

ASSUME SubmissionsAssumption == Submissions \subseteq [key : Keys, cmd : Commands]

VARIABLES archived,  \* cases.status = 'archived'
          idem,      \* vnext_private.idempotency_records, by key
          audit,     \* vnext_private.audit_events of the set
          tx,        \* the open command transaction
          pc, req, answer

db == <<archived, pset, idem, audit>>
vars == <<archived, pset, idem, audit, tx, pc, req, answer>>

NoCommand == [op |-> "none"]
NoRecord  == [status |-> "none", cmd |-> NoCommand, error |-> "none"]
NoRequest == [key |-> "none", cmd |-> NoCommand]
NoTx      == [open |-> FALSE]

Errors == {"validation_failed", "not_found", "version_conflict",
           "idempotency_conflict", "maintenance", "internal_error"}
InFlight == {"reserving", "replaying", "opening", "locking", "committing",
             "marking"}

Init ==
    /\ archived = FALSE
    /\ pset = NoSet
    /\ idem = [k \in Keys |-> NoRecord]
    /\ audit = <<>>
    /\ tx = NoTx
    /\ pc = [r \in Requests |-> "idle"]
    /\ req = [r \in Requests |-> NoRequest]
    /\ answer = [r \in Requests |-> "none"]

-----------------------------------------------------------------------------
Goto(r, l) == pc' = [pc EXCEPT ![r] = l]

Answer(r, a) ==
    /\ Goto(r, "answered")
    /\ answer' = [answer EXCEPT ![r] = a]

\* The command failed: the error goes to the client once mark_failed is done.
Fail(r, error) ==
    /\ Goto(r, "marking")
    /\ answer' = [answer EXCEPT ![r] = error]

Record(r) == idem[req[r].key]

\* (slip) the fingerprint and the route are not compared
SameKey(r) == TRUE

SameRequest(r) == Record(r).cmd = req[r].cmd

\* A request arrives; the service checks it and that the case is open.
Send(r) ==
    /\ pc[r] \in {"idle", "answered"}
    /\ \E s \in Submissions : req' = [req EXCEPT ![r] = s]
    /\ IF archived
       THEN Answer(r, "not_found")
       ELSE Goto(r, "reserving") /\ answer' = [answer EXCEPT ![r] = "none"]
    /\ UNCHANGED <<db, tx>>

\* reserve: under the key's advisory lock, insert a pending record or find the
\* one there is.  A pending one may only be waited for, a failed one repeats
\* its error.
Reserve(r) ==
    /\ pc[r] = "reserving"
    /\ \/ /\ Record(r) = NoRecord
          /\ idem' = [idem EXCEPT ![req[r].key] =
                         [status |-> "pending", cmd |-> req[r].cmd, error |-> "none"]]
          /\ Goto(r, "opening")
          /\ UNCHANGED answer
       \/ /\ Record(r) # NoRecord /\ ~SameRequest(r)
          /\ Answer(r, "idempotency_conflict")
          /\ UNCHANGED idem
       \/ /\ SameRequest(r) /\ Record(r).status = "pending"
          /\ Answer(r, "maintenance")
          /\ UNCHANGED idem
       \/ /\ SameRequest(r) /\ Record(r).status = "failed"
          /\ Answer(r, Record(r).error)
          /\ UNCHANGED idem
       \/ /\ SameRequest(r) /\ Record(r).status = "succeeded"
          /\ Goto(r, "replaying")
          /\ UNCHANGED <<idem, answer>>
    /\ UNCHANGED <<archived, pset, audit, tx, req>>

\* The replay of a success reads the set as it is now.
Replay(r) ==
    /\ pc[r] = "replaying"
    /\ Answer(r, IF archived THEN "not_found" ELSE "replayed")
    /\ UNCHANGED <<db, tx, req>>

\* The first statement of the command sees a snapshot: initialize shares the
\* case's row lock, the others join the set with an open case.
Open(r) ==
    /\ pc[r] = "opening"
    /\ IF archived \/ (req[r].cmd.op # "initialize" /\ pset.version = 0)
       THEN Fail(r, "not_found")
       ELSE Goto(r, "locking") /\ UNCHANGED answer
    /\ UNCHANGED <<db, tx, req>>

\* (slip) the change is made without looking at the locked row
OutcomeUnchecked(r) == "none"

\* Why the command's transaction gives up, "none" if it does not.
Outcome(r) ==
    LET refusal == Refusal(req[r].cmd, pset)
    IN  IF refusal = "none" /\ Record(r).status # "pending"
        THEN "idempotency_conflict"
        ELSE refusal

\* It waits for the set's row lock (initialize: for the unique index), reads
\* the latest version under it, writes the change, the success and the audit
\* event, and sends COMMIT.
Execute(r) ==
    /\ pc[r] = "locking"
    /\ tx = NoTx
    /\ IF Outcome(r) = "none"
       THEN /\ tx' = [open |-> TRUE, by |-> r, key |-> req[r].key,
                      set |-> Applied(req[r].cmd, pset)]
            /\ Goto(r, "committing")
            /\ UNCHANGED answer
       ELSE Fail(r, Outcome(r)) /\ UNCHANGED tx
    /\ UNCHANGED <<db, req>>

\* The server commits the open transaction.  The client learns of it if it is
\* still there and the acknowledgement arrives.
Commit ==
    /\ tx # NoTx
    /\ pset' = tx.set
    /\ idem' = [idem EXCEPT ![tx.key].status = "succeeded"]
    /\ audit' = Append(audit, [key |-> tx.key, new |-> tx.set.version,
                               previous |-> idem[tx.key].cmd.expected])
    /\ tx' = NoTx
    /\ IF pc[tx.by] = "committing"
       THEN Answer(tx.by, "ok") \/ Fail(tx.by, "internal_error")
       ELSE UNCHANGED <<pc, answer>>
    /\ UNCHANGED <<archived, req>>

\* The server aborts it: a broken connection, a deadlock, a failed check.
Abort ==
    /\ tx # NoTx
    /\ tx' = NoTx
    /\ IF pc[tx.by] = "committing"
       THEN \E error \in {"maintenance", "internal_error"} : Fail(tx.by, error)
       ELSE UNCHANGED <<pc, answer>>
    /\ UNCHANGED <<db, req>>

\* The client's connection breaks; after COMMIT was sent the transaction stays.
LoseConnection(r) ==
    /\ pc[r] \in {"opening", "locking", "committing"}
    /\ Fail(r, "internal_error")
    /\ UNCHANGED <<db, tx, req>>

\* (slip) the failure is written past the row lock
RecordUnlocked(r) == TRUE

\* (slip) the failure is retried until the record is pending
RecordPending(r) == Record(r).status = "pending"

RecordFree(r) == tx # NoTx => tx.key # req[r].key

\* (slip) without "AND operation_status = 'pending'"
FailedAnyway(r) == [Record(r) EXCEPT !.status = "failed", !.error = answer[r]]

Failed(r) ==
    IF Record(r).status = "pending"
    THEN [Record(r) EXCEPT !.status = "failed", !.error = answer[r]]
    ELSE Record(r)

\* mark_failed waits for the record's row and leaves a final record alone; the
\* service swallows the conflict that reports it.
MarkFailed(r) ==
    /\ pc[r] = "marking"
    /\ RecordFree(r)
    /\ idem' = [idem EXCEPT ![req[r].key] = Failed(r)]
    /\ Answer(r, answer[r])
    /\ UNCHANGED <<archived, pset, audit, tx, req>>

\* mark_failed itself fails, which the service swallows too.
MarkLost(r) ==
    /\ pc[r] = "marking"
    /\ Answer(r, answer[r])
    /\ UNCHANGED <<db, tx, req>>

\* The process handling r dies at any point.
Crash(r) ==
    /\ pc[r] \in InFlight
    /\ Goto(r, "idle")
    /\ answer' = [answer EXCEPT ![r] = "none"]
    /\ UNCHANGED <<db, tx, req>>

\* (slip) the case row is read without FOR SHARE
CaseUnshared == FALSE

\* A transaction of initialize, orphaned or not, shares the case's row lock.
CaseShared ==
    \/ \E r \in Requests :
          req[r].cmd.op = "initialize" /\ pc[r] \in {"locking", "committing"}
    \/ tx # NoTx /\ tx.set.version = 1

\* update_case archives the case, once nobody shares its row lock.
Archive ==
    /\ ~archived
    /\ ~CaseShared
    /\ archived' = TRUE
    /\ UNCHANGED <<pset, idem, audit, tx, pc, req, answer>>

Step(r) == Reserve(r) \/ Replay(r) \/ Open(r) \/ Execute(r) \/ MarkFailed(r)

Next ==
    \/ \E r \in Requests :
          Send(r) \/ Step(r) \/ LoseConnection(r) \/ MarkLost(r) \/ Crash(r)
    \/ Commit \/ Abort \/ Archive

\* Every handler runs on, and the server resolves every open transaction.
\* Nothing makes clients send, cases be archived or anything fail.
Fairness ==
    /\ \A r \in Requests : WF_vars(Step(r))
    /\ WF_vars(Commit \/ Abort)

Spec == Init /\ [][Next]_vars /\ Fairness
-----------------------------------------------------------------------------
(* Types.                                                                  *)

Records ==
    {NoRecord}
    \cup [status : {"pending", "succeeded"}, cmd : Commands, error : {"none"}]
    \cup [status : {"failed"}, cmd : Commands, error : Errors]

Transactions == [open : {TRUE}, by : Requests, key : Keys, set : PSets]

TypeOK ==
    /\ archived \in BOOLEAN
    /\ pset \in PSets
    /\ idem \in [Keys -> Records]
    /\ audit \in Seq([key : Keys, previous : Nat, new : Nat])
    /\ tx \in Transactions \cup {NoTx}
    /\ pc \in [Requests -> InFlight \cup {"idle", "answered"}]
    /\ req \in [Requests -> [key : Keys, cmd : Commands] \cup {NoRequest}]
    /\ answer \in [Requests -> Errors \cup {"none", "ok", "replayed"}]

-----------------------------------------------------------------------------
(* Safety.                                                                 *)

\* Exactly once: a key's record says succeeded if and only if the audit log
\* holds its change, and then it holds it once.  Lost acknowledgements,
\* crashes, retries and mark_failed racing an orphaned COMMIT included.
SucceededIffApplied ==
    \A k \in Keys :
        Cardinality({i \in DOMAIN audit : audit[i].key = k})
            = IF idem[k].status = "succeeded" THEN 1 ELSE 0

\* Optimistic concurrency: the versions in the audit log are 1, 2, 3, ... and
\* each change was asked for against the version just before it, so of two
\* keys that race from the same version at most one is applied.
NoLostUpdate ==
    /\ pset.version = Len(audit)
    /\ \A i \in DOMAIN audit :
          /\ audit[i].new = i
          /\ idem[audit[i].key].cmd.op # "initialize" => audit[i].previous = i - 1

\* The open transaction was computed from the set as committed now and its
\* key is still pending: nothing it read can have gone stale under its locks.
TransactionIsFresh ==
    tx # NoTx =>
        /\ idem[tx.key].status = "pending"
        /\ Refusal(idem[tx.key].cmd, pset) = "none"
        /\ tx.set = Applied(idem[tx.key].cmd, pset)

\* A client that was told its command succeeded can rely on it: the record of
\* its key is succeeded and holds the very command it sent.
OkMeansApplied ==
    \A r \in Requests :
        answer[r] \in {"ok", "replayed"} =>
            /\ Record(r).status = "succeeded"
            /\ Record(r).cmd = req[r].cmd

\* A record's outcome is final (guard_idempotency_update) and the command
\* under a key is never exchanged for another.
OutcomeIsFinal ==
    [][\A k \in Keys :
          idem[k].status # "none" =>
              /\ idem'[k].cmd = idem[k].cmd
              /\ idem[k].status # "pending" => idem'[k] = idem[k]]_vars

\* No set appears for a case that is archived: initialize holds the case's
\* share lock, which update_case waits for, until its transaction is over.
ArchivedCaseGetsNoSet ==
    [][archived /\ pset.version = 0 => pset'.version = 0]_vars

-----------------------------------------------------------------------------
(* Refinement and liveness.                                                *)

Fate(k) == CASE idem[k].status = "succeeded" -> "applied"
             [] idem[k].status = "failed"    -> "refused"
             [] OTHER                        -> "open"

Promise == INSTANCE ParcelSet WITH fate <- [k \in Keys |-> Fate(k)]

\* The service keeps the promise of ParcelSet: every step of it is one
\* application or one refusal of one open key, or changes neither.
KeepsPromise == Promise!Spec

\* No request waits for ever: for a lock, for an orphaned transaction to let
\* go of its record, or for another request.
EveryRequestEnds ==
    \A r \in Requests : pc[r] \in InFlight ~> pc[r] \notin InFlight

\* While the case is open, a client that keeps retrying a key with its command
\* and is answered each time learns an outcome in the end, once no process
\* crashes any more: what a retryable error code and the contract's rules on
\* in-progress duplicates suggest.
RetriedKeySettles ==
    \A k \in Keys, r \in Requests :
        (/\ [](~archived)
         /\ <>[][\A x \in Requests : ~Crash(x)]_vars
         /\ []<>(pc[r] = "reserving" /\ req[r].key = k)
         /\ []<>(pc[r] = "answered" /\ req[r].key = k))
            => <>(idem[k].status \in {"succeeded", "failed"})

=============================================================================
