----------------------------- MODULE SavedCases -----------------------------
(***************************************************************************)
(* The personal cases of one user: CaseService and PrivateCaseService over   *)
(* the CaseTransaction of PostgresCaseRepository (database/userdb/001).      *)
(*                                                                         *)
(* A request is admitted by a transaction of its own and then runs one more. *)
(* Both take the user's advisory lock; the second keeps it until it ends,    *)
(* which may be after the handler that began it has died.  Everything that   *)
(* transaction reads, the clock included, it reads under the lock.           *)
(* Operators marked (slip) are wrong variants of the one that follows.       *)
(***************************************************************************)
EXTENDS Integers, Sequences, FiniteSets

CONSTANTS Sessions, ImportKeys, Digests,
          Requests,     \* slots for requests in flight
          Submissions,  \* what clients may send
          Window,       \* COMMAND_REPLAY_WINDOW
          Batch,        \* expired receipts an admission prunes
          MaxReceipts,  \* MAX_COMMAND_RECEIPTS
          MaxTime       \* bound of the clock

Keyed == {"create", "metadata", "monitoring"}
Edits == {"metadata", "monitoring"}
Ops == Keyed \cup {"delete", "logout"}

ASSUME SavedCasesAssumption ==
    /\ Window \in Nat \ {0} /\ Batch \in Nat
    /\ \A s \in Submissions :
          /\ s.session \in Sessions /\ s.cmd.op \in Ops
          /\ s.cmd.op = "create" => s.cmd.on \in ImportKeys /\ s.cmd.body \in Digests
          /\ s.cmd.op \in Edits \cup {"delete"} =>
                s.cmd.on \in Nat \ {0} /\ s.cmd.expected \in Nat \ {0}

VARIABLES now,
          cases,     \* professor_user.saved_cases, in the order of their creation
          revoked,   \* professor_user.revoked_sessions
          receipts,  \* professor_user.case_commands
          made,      \* every receipt there has been
          last,      \* the last change, as CaseLog has it
          tx,        \* the open transaction of each request
          pc, req, answer

db == <<cases, revoked, receipts, made, last>>
vars == <<now, cases, revoked, receipts, made, last, tx, pc, req, answer>>

Log == INSTANCE CaseLog

NoTx == [open |-> FALSE]
NoRequest == [cmd |-> [op |-> "none"]]

Init ==
    /\ Log!Init
    /\ now = 0 /\ receipts = {} /\ made = {}
    /\ tx = [r \in Requests |-> NoTx]
    /\ pc = [r \in Requests |-> "idle"]
    /\ req = [r \in Requests |-> NoRequest]
    /\ answer = [r \in Requests |-> "none"]

-----------------------------------------------------------------------------
Cmd(r) == req[r].cmd

\* (slip) without pg_advisory_xact_lock
Unlocked == TRUE

\* No transaction of the user is open.
LockFree == \A r \in Requests : tx[r] = NoTx

\* The method and the route, with the case it names, and the key.
Scope(s) ==
    [op |-> s.cmd.op, case |-> IF s.cmd.op = "create" THEN 0 ELSE s.cmd.on, key |-> s.key]

\* find_command: the live receipt, if there is one.
Found(r) ==
    {x \in receipts : Cmd(r).op \in Keyed /\ x.scope = Scope(req[r]) /\ x.expires > now}

\* find_import, of deleted cases too.
ImportedAs(i) == {c \in DOMAIN cases : cases[c].import = i}

\* The case the command finds.
Target(r) ==
    IF Cmd(r).op = "create"
    THEN IF Found(r) = {} THEN ImportedAs(Cmd(r).on) ELSE {x.case : x \in Found(r)}
    ELSE {Cmd(r).on} \cap DOMAIN cases

\* There is no such case, or it has been deleted: CaseTransaction._row.
Missing(r) ==
    IF Cmd(r).op = "create" THEN \E c \in Target(r) : cases[c].deleted
    ELSE Cmd(r).op # "logout" /\ \A c \in Target(r) : cases[c].deleted

\* The key, or the import key, stands for something else.
Differs(r) ==
    \/ \E x \in Found(r) : x.cmd # Cmd(r)
    \/ /\ Cmd(r).op = "create" /\ Found(r) = {}
       /\ \E c \in Target(r) : cases[c].digest # Cmd(r).body

Stale(r) ==
    /\ Cmd(r).op \in Edits \cup {"delete"} /\ Found(r) = {}
    /\ \E c \in Target(r) : cases[c].revision # Cmd(r).expected

Refusal(r) ==
    CASE req[r].session \in revoked -> "authentication_required"
      [] req[r].session \notin revoked /\ Missing(r) -> "not_found"
      [] req[r].session \notin revoked /\ ~Missing(r) /\ Differs(r) -> "idempotency_conflict"
      [] req[r].session \notin revoked /\ ~Missing(r) /\ ~Differs(r) /\ Stale(r) -> "version_conflict"
      [] OTHER -> "none"

\* A receipt's case has not gone back behind it.
Behind(r) == \E x \in Found(r) : cases[x.case].revision < x.revision

\* The cases after the command; an import of what was imported changes nothing.
Changes(s) == s.cmd.op = "create" => ImportedAs(s.cmd.on) = {}

After(s) ==
    CASE s.cmd.op = "create" /\ Changes(s) -> Append(cases, Log!New(s.cmd.on, s.cmd.body))
      [] s.cmd.op \in Edits -> [cases EXCEPT ![s.cmd.on].revision = @ + 1]
      [] s.cmd.op = "delete" -> [cases EXCEPT ![s.cmd.on].revision = @ + 1, ![s.cmd.on].deleted = TRUE]
      [] OTHER -> cases

\* The receipt of a keyed command that found none.
CaseOf(r) ==
    IF Cmd(r).op # "create" THEN Cmd(r).on
    ELSE IF Target(r) = {} THEN Len(cases) + 1 ELSE CHOOSE c \in Target(r) : TRUE

Receipt(r) ==
    [scope |-> Scope(req[r]), cmd |-> Cmd(r), case |-> CaseOf(r),
     revision |-> After(req[r])[CaseOf(r)].revision, expires |-> now + Window]

\* (slip) receipts that are about to expire are pruned with them
ExpiresSoon(x) == x.expires =< now + 1

Expired(x) == x.expires =< now

\* append_command prunes some expired receipts, a batch of them at most.
Prunings ==
    LET old == {x \in receipts : Expired(x)}
    IN {p \in SUBSET old : Cardinality(p) = IF Cardinality(old) < Batch THEN Cardinality(old) ELSE Batch}

\* It then refuses if there are too many left, expired ones counted, or if the
\* primary key is still taken by an expired one.
Fits(r, left) ==
    /\ Cardinality(left) < MaxReceipts
    /\ \A x \in left : x.scope # Scope(req[r])

-----------------------------------------------------------------------------
Answer(r, a) ==
    /\ pc' = [pc EXCEPT ![r] = "answered"]
    /\ req' = [req EXCEPT ![r] = NoRequest]
    /\ answer' = [answer EXCEPT ![r] = a]

\* There is nobody left to answer, or only a MAINTENANCE that says nothing.
Forget(r) ==
    /\ pc' = [pc EXCEPT ![r] = "idle"]
    /\ req' = [req EXCEPT ![r] = NoRequest]
    /\ UNCHANGED answer

\* A request is admitted: its session was not revoked when that was looked up.
Send(r) ==
    /\ pc[r] \in {"idle", "answered"} /\ LockFree
    /\ \E s \in Submissions :
          /\ s.session \notin revoked
          /\ req' = [req EXCEPT ![r] = s]
    /\ pc' = [pc EXCEPT ![r] = "waiting"]
    /\ answer' = [answer EXCEPT ![r] = "none"]
    /\ UNCHANGED <<now, db, tx>>

Ready(r) == pc[r] = "waiting" /\ LockFree

\* The transaction ends without having written: an error, or a replay.
Refuse(r) ==
    /\ Ready(r)
    /\ \/ /\ Refusal(r) # "none"
          /\ Answer(r, Refusal(r))
       \/ /\ Refusal(r) = "none" /\ Found(r) # {}
          /\ Answer(r, IF Behind(r) THEN "maintenance" ELSE "replayed")
    /\ UNCHANGED <<now, db, tx>>

Open(r, pruned, new) ==
    /\ tx' = [tx EXCEPT ![r] = [open |-> TRUE, pruned |-> pruned, new |-> new]]
    /\ pc' = [pc EXCEPT ![r] = "committing"]
    /\ UNCHANGED <<req, answer>>

\* It writes the change and the receipt and sends COMMIT.
Write(r) ==
    /\ Ready(r)
    /\ Refusal(r) = "none" /\ Found(r) = {}
    /\ IF Cmd(r).op \in Keyed
       THEN \E p \in Prunings :
                IF Fits(r, receipts \ p) THEN Open(r, p, {Receipt(r)})
                ELSE Answer(r, "maintenance") /\ UNCHANGED tx
       ELSE Open(r, {}, {})
    /\ UNCHANGED <<now, db>>

\* What the command did, for CaseLog.
Made(s) ==
    [op      |-> IF s.cmd.op \in Edits THEN "edit" ELSE s.cmd.op,
     session |-> s.session,
     seen    |-> IF s.cmd.op \in Edits \cup {"delete"} THEN s.cmd.expected ELSE 0]

\* The server commits.  The handler learns of it, if it is still there and hears of it.
Commit(r) ==
    /\ tx[r] # NoTx
    /\ cases' = After(req[r])
    /\ revoked' = IF Cmd(r).op = "logout" THEN revoked \cup {req[r].session} ELSE revoked
    /\ receipts' = (receipts \ tx[r].pruned) \cup tx[r].new
    /\ made' = made \cup tx[r].new
    /\ last' = IF Changes(req[r]) THEN Made(req[r]) ELSE last
    /\ tx' = [tx EXCEPT ![r] = NoTx]
    /\ \/ Forget(r)
       \/ pc[r] = "committing" /\ Answer(r, "ok")
    /\ UNCHANGED now

\* The server rolls back: a deadlock, a restart, a connection that broke.
Abort(r) ==
    /\ tx[r] # NoTx
    /\ tx' = [tx EXCEPT ![r] = NoTx]
    /\ Forget(r)
    /\ UNCHANGED <<now, db>>

\* The handler dies, or gives up when the lock, a statement or a connection of the
\* pool takes too long; what it has sent to the server may still be committed.
GiveUp(r) ==
    /\ \/ pc[r] = "waiting" /\ Forget(r)
       \/ /\ pc[r] = "committing"
          /\ pc' = [pc EXCEPT ![r] = "orphaned"]
          /\ UNCHANGED <<req, answer>>
    /\ UNCHANGED <<now, db, tx>>

Tick ==
    /\ now < MaxTime
    /\ now' = now + 1
    /\ UNCHANGED <<db, tx, pc, req, answer>>

Next ==
    \/ \E r \in Requests :
          Send(r) \/ Refuse(r) \/ Write(r) \/ Commit(r) \/ Abort(r) \/ GiveUp(r)
    \/ Tick

Spec == Init /\ [][Next]_vars

-----------------------------------------------------------------------------
\* Every commit is legal at the moment it happens, not only when it was checked:
\* its session has not been logged out, its import key is new, its revision is
\* the current one and its case not deleted.  Two devices, handlers that have
\* died and commits nobody heard of included; deleted cases never come back.
CasesAreSerial == Log!Spec

\* Until its receipt expires a command that was committed is replayed when it is
\* sent again, or not found once the case is deleted, but never carried out
\* again nor refused for the revision it has moved itself; nor is another command
\* carried out under its key.  Pruning and a full table change nothing of it.
RetryIsReplayed ==
    [][\A r \in Requests, m \in made :
          (/\ pc[r] = "waiting" /\ pc'[r] # "waiting"
           /\ Cmd(r).op \in Keyed /\ m.scope = Scope(req[r]) /\ m.expires > now) =>
              \/ pc'[r] = "idle"
              \/ /\ pc'[r] = "answered"
                 /\ \/ answer'[r] = "replayed" /\ m.cmd = Cmd(r)
                    \/ answer'[r] = "idempotency_conflict" /\ m.cmd # Cmd(r)
                    \/ answer'[r] = "not_found" /\ cases[m.case].deleted
                    \/ answer'[r] = "authentication_required" /\ req[r].session \in revoked
      ]_vars
=============================================================================
