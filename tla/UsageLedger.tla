----------------------------- MODULE UsageLedger ----------------------------
(***************************************************************************)
(* Usage telemetry from a process to PostgreSQL: UsageAggregator collects, *)
(* UsageFlusher takes what is pending as a batch and writes it, under a    *)
(* token that makes a repeated write harmless, until it succeeds or is an  *)
(* hour old; markers of tokens are pruned after two hours by whoever       *)
(* writes.  What can go wrong is the write: refused, or its connection     *)
(* lost with the COMMIT on its way, which leaves the server a transaction  *)
(* it ends by itself; the process, which may be killed; and its clock.     *)
(*                                                                         *)
(* The model counts observations, each once, where the code sums counters; *)
(* _recent, the in-memory view, only matters as a reason to drop.          *)
(* Operators marked (slip) are wrong variants of the one that follows.     *)
(***************************************************************************)
EXTENDS Integers, FiniteSets

CONSTANTS Observations,  \* what the process observes, once each
          Rows, RowOf,   \* the aggregate row of each
          MaxRows,       \* max_rows
          Retention,     \* RETENTION_SECONDS
          MarkerTTL,     \* age at which markers are pruned
          MaxSkew,       \* bound: how far the process's clock is off, either way
          MaxTime,       \* bound: ticks
          MaxCrashes     \* bound: kills of the process

\* "Never replay a batch beyond its two-hour marker TTL" holds with this margin.
ASSUME LedgerAssumption ==
    /\ RowOf \in [Observations -> Rows]
    /\ Retention \in Nat /\ MarkerTTL \in Nat /\ MaxSkew \in Nat
    /\ Retention + 2 * MaxSkew <= MarkerTTL

VARIABLES pending,  \* _pending
          dropped,  \* _dropped
          expired,  \* _expired
          batch,    \* pending_rows, _batch_id, _batch_created_at
          writing,  \* write_batch is running
          thread,   \* where _run is
          stopping, \* _stop is set
          drained,  \* the last flush of _run succeeded
          hourly,   \* api_usage.hourly: how often each observation was added
          markers,  \* api_usage.flush_batches
          orphans,  \* transactions whose client has gone
          now, skew, issued, crashes,
          seen,     \* observations made
          taken,    \* those this process accepted
          early     \* those it had accepted when it was told to stop

aggregator == <<pending, dropped, expired>>
flusher    == <<batch, writing, thread, drained>>
db         == <<hourly, markers, orphans>>
history    == <<seen, taken, early>>
vars == <<aggregator, flusher, stopping, db, now, skew, issued, crashes, history>>

Wall    == now + skew
NoBatch == [token |-> 0, rows |-> {}, at |-> 0]

Init ==
    /\ pending = {} /\ dropped = 0 /\ expired = 0
    /\ batch = NoBatch /\ writing = FALSE
    /\ thread = "loop" /\ stopping = FALSE /\ drained = FALSE
    /\ taken = {} /\ early = {}
    /\ hourly = [o \in Observations |-> 0]
    /\ markers = {} /\ orphans = {}
    /\ now = 0 /\ skew = 0 /\ issued = 0 /\ crashes = 0
    /\ seen = {}

-----------------------------------------------------------------------------
(* The aggregator.                                                         *)

PendingRows == {RowOf[o] : o \in pending}
HasRoom(o) == RowOf[o] \in PendingRows \/ Cardinality(PendingRows) < MaxRows

Observe(o) ==
    /\ o \notin seen
    /\ seen' = seen \cup {o}
    /\ \/ /\ HasRoom(o)
          /\ pending' = pending \cup {o}
          /\ taken' = taken \cup {o}
          /\ UNCHANGED dropped
       \/ /\ dropped' = dropped + 1  \* no room, here or in _recent
          /\ UNCHANGED <<pending, taken>>
    /\ UNCHANGED <<expired, flusher, stopping, db, now, skew, issued, crashes, early>>

-----------------------------------------------------------------------------
(* flush_once, by the flusher's thread.                                    *)

\* (slip) the second flush of the end is left out
EndsAtOnce(ok) == "ended"
AfterDrain(ok) == IF ok THEN "last" ELSE "ended"

Return(ok) ==
    /\ writing' = FALSE
    /\ thread' = CASE thread = "loop"  -> "loop"
                   [] thread = "drain" -> AfterDrain(ok)
                   [] OTHER -> "ended"
    /\ drained' = (thread' = "ended" /\ ok)

Untaken(b) == pending \ b.rows

\* take_pending and a new token, unless a batch is retained.  An empty batch
\* leaves no marker.
Current ==
    IF batch.rows # {} THEN batch
    ELSE [token |-> IF pending = {} THEN 0 ELSE issued + 1, rows |-> pending, at |-> Wall]

\* (slip) no batch is too old
NeverTooOld(b) == FALSE
TooOld(b) == Wall - b.at > Retention

\* (slip)
NotRecorded(b) == expired
RecordExpired(b) == expired + Cardinality(b.rows)

Flush ==
    /\ ~writing /\ thread # "ended" /\ (thread = "loop" => ~stopping)
    /\ LET b == Current
       IN  /\ pending' = Untaken(b)
           /\ issued' = IF b.rows = {} THEN issued ELSE b.token
           /\ IF TooOld(b)
              THEN /\ expired' = RecordExpired(b)
                   /\ batch' = NoBatch
                   /\ Return(TRUE)
              ELSE /\ batch' = b
                   /\ writing' = TRUE
                   /\ UNCHANGED <<expired, thread, drained>>
    /\ UNCHANGED <<dropped, stopping, db, now, skew, crashes, history>>

Tokens == {m.token : m \in markers}
Live(m) == now - m.at <= MarkerTTL

\* The transaction of write_batch: its marker, its rows if the marker is new,
\* and the pruning of old markers.
Commit(b) ==
    /\ hourly' = [o \in Observations |->
                    IF o \in b.rows /\ b.token \notin Tokens THEN hourly[o] + 1 ELSE hourly[o]]
    /\ markers' = {m \in markers \cup (IF b.rows = {} \/ b.token \in Tokens THEN {}
                                       ELSE {[token |-> b.token, at |-> now]}) : Live(m)}

\* While an earlier transaction of the token is open, its marker blocks this
\* one until lock_timeout.
Unblocked == \A t \in orphans : t.token # batch.token

WriteSucceeds ==
    /\ writing /\ Unblocked
    /\ Commit(batch)
    /\ batch' = NoBatch
    /\ Return(TRUE)
    /\ UNCHANGED <<aggregator, stopping, orphans, now, skew, issued, crashes, history>>

\* What the server may still have of a write whose connection is lost.
Sent == IF Unblocked /\ batch.rows # {} THEN {batch} ELSE {}

\* (slip) a batch whose write failed is let go
LetGo == NoBatch
Kept == batch

WriteFails ==
    /\ writing
    /\ batch' = Kept
    /\ Return(FALSE)
    /\ UNCHANGED <<aggregator, stopping, db, now, skew, issued, crashes, history>>

\* The connection is lost after COMMIT was sent.
WriteIsLost ==
    /\ writing
    /\ orphans' = orphans \cup Sent
    /\ batch' = Kept
    /\ Return(FALSE)
    /\ UNCHANGED <<aggregator, stopping, hourly, markers, now, skew, issued, crashes, history>>

LeaveLoop ==
    /\ thread = "loop" /\ stopping /\ ~writing
    /\ thread' = "drain"
    /\ UNCHANGED <<aggregator, batch, writing, drained, stopping, db, now, skew, issued,
                   crashes, history>>

Stop ==
    /\ ~stopping
    /\ stopping' = TRUE
    /\ early' = taken
    /\ UNCHANGED <<aggregator, flusher, db, now, skew, issued, crashes, seen, taken>>

-----------------------------------------------------------------------------
(* The server, the other writers, the clocks, and a kill.                  *)

OrphanEnds(t) ==
    /\ orphans' = orphans \ {t}
    /\ Commit(t) \/ UNCHANGED <<hourly, markers>>
    /\ UNCHANGED <<aggregator, flusher, stopping, now, skew, issued, crashes, history>>

\* Another process's flush; it deletes at most 5000 markers a time.
Prune(m) ==
    /\ ~Live(m)
    /\ markers' = markers \ {m}
    /\ UNCHANGED <<aggregator, flusher, stopping, hourly, orphans, now, skew, issued,
                   crashes, history>>

\* A tick is half an hour; a transaction ends within seconds (_timeouts).
Tick ==
    /\ now < MaxTime /\ ~writing /\ orphans = {}
    /\ now' = now + 1
    /\ UNCHANGED <<aggregator, flusher, stopping, db, skew, issued, crashes, history>>

\* time.time() is set.
SetClock(d) ==
    /\ d # skew
    /\ skew' = d
    /\ UNCHANGED <<aggregator, flusher, stopping, db, now, issued, crashes, history>>

\* A transaction that was being written is lost with the process.
Crash ==
    /\ crashes < MaxCrashes
    /\ crashes' = crashes + 1
    /\ pending' = {} /\ dropped' = 0 /\ expired' = 0
    /\ batch' = NoBatch /\ writing' = FALSE
    /\ thread' = "loop" /\ stopping' = FALSE /\ drained' = FALSE
    /\ taken' = {} /\ early' = {}
    /\ orphans' = IF writing THEN orphans \cup Sent ELSE orphans
    /\ UNCHANGED <<hourly, markers, now, skew, issued, seen>>

Next ==
    \/ \E o \in Observations : Observe(o)
    \/ Flush \/ WriteSucceeds \/ WriteFails \/ WriteIsLost
    \/ LeaveLoop \/ Stop
    \/ \E t \in orphans : OrphanEnds(t)
    \/ \E m \in markers : Prune(m)
    \/ Tick
    \/ \E d \in -MaxSkew..MaxSkew : SetClock(d)
    \/ Crash

Spec == Init /\ [][Next]_vars

-----------------------------------------------------------------------------
(* Properties.                                                             *)

Batches == [token : Nat, rows : SUBSET Observations, at : Int]

\* Every variable keeps its type; what is pending is not also in the batch.
TypeOK ==
    /\ pending \subseteq Observations /\ dropped \in Nat /\ expired \in Nat
    /\ batch \in Batches /\ writing \in BOOLEAN
    /\ thread \in {"loop", "drain", "last", "ended"}
    /\ stopping \in BOOLEAN /\ drained \in BOOLEAN
    /\ hourly \in [Observations -> Nat]
    /\ markers \subseteq [token : Nat, at : Nat]
    /\ orphans \subseteq Batches
    /\ now \in Nat /\ skew \in -MaxSkew..MaxSkew /\ issued \in Nat /\ crashes \in Nat
    /\ early \subseteq taken /\ taken \subseteq seen /\ seen \subseteq Observations
    /\ pending \cap batch.rows = {}

\* No observation is added to the hourly table twice, whichever attempts were
\* committed without the process knowing and however late it tries again: the
\* token's marker outlives the last retry (RETENTION_SECONDS, line 15).
CountedOnce == \A o \in Observations : hourly[o] <= 1

\* "every abandoned observation reported as loss": what a process accepted is
\* pending, in its batch, in the table, or in expired_observations.
LossIsReported ==
    Cardinality({o \in taken : o \notin pending \cup batch.rows /\ hourly[o] = 0}) <= expired

\* "Drain the retained batch and at most one newly aggregated batch": when the
\* last flush succeeded, nothing accepted before stop is left in the process.
DrainedOnStop == drained => early \cap (pending \cup batch.rows) = {}
=============================================================================
