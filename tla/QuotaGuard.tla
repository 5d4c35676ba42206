----------------------------- MODULE QuotaGuard -----------------------------
(***************************************************************************)
(* The durable quota of one subject: api_usage.consume and api_usage.prune  *)
(* of migration 021, and the calls PostgresQuotaGuard makes for the HTTP    *)
(* requests and the provider operations of that subject.                    *)
(*                                                                         *)
(* A call reads the policy, waits for the subject's advisory lock, reads    *)
(* the clock again and decides; what it writes appears when its transaction *)
(* commits.  An operation has a marker of its own; a request keeps its      *)
(* marker and is asked for again until it is known to be admitted.          *)
(*                                                                         *)
(* Time is counted in ticks no shorter than the statement timeout (2 s), so *)
(* that a call sees one tick at most.  Hours and days are numbered.  Left   *)
(* out: the capabilities (the counters are shared by all), the count of     *)
(* rejections, the limit of 100000 subjects, the retention of the ledger    *)
(* (30 days).  Operators marked (slip) are wrong variants of the next one.  *)
(***************************************************************************)
EXTENDS Integers, FiniteSets, Functions

CONSTANTS Markers,
          Kind,        \* of the call that carries a marker
          Hour, Day,   \* in ticks
          MarkerTTL,   \* 10 minutes
          SubjectTTL,  \* 2 days
          MaxMarkers,  \* 2048
          Batch,       \* 256
          MaxTime      \* bound

VARIABLES policy,   \* api_usage.quota_policy: [request, operation, daily]
          now,      \* clock_timestamp()
          subject,  \* the row of quota_subjects, or NoSubject
          markers,  \* the row of reservation_markers: when, or NoTime
          hourly,   \* quota_hourly, summed over the capabilities
          calls     \* the latest call with each marker

quotaVars == <<now, subject, markers, hourly, calls>>
vars == <<policy, quotaVars>>

NoSubject == [hour |-> "none"]
NoTime == -1
NoCall == [at |-> "idle"]
Over == [at |-> "over"]

HourOf(t) == t \div Hour
DayOf(t) == t \div Day
Hours == 0 .. HourOf(MaxTime)
HoursOf(d) == {h \in Hours : DayOf(h * Hour) = d}

EmptyLedger == [h \in Hours |-> [request |-> 0, operation |-> 0]]

Init ==
    /\ now = 0
    /\ subject = NoSubject
    /\ markers = [m \in Markers |-> NoTime]
    /\ hourly = EmptyLedger
    /\ calls = [m \in Markers |-> NoCall]

-----------------------------------------------------------------------------
NewSubject(t) ==
    [hour |-> HourOf(t), day |-> DayOf(t), request |-> 0, operation |-> 0,
     daily |-> 0, updated |-> now]

\* The counters of a row, in the hour and the day of time t.
Rolled(row, t) ==
    [request |-> IF row.hour = HourOf(t) THEN row.request ELSE 0,
     operation |-> IF row.hour = HourOf(t) THEN row.operation ELSE 0,
     daily |-> IF row.day = DayOf(t) THEN row.daily ELSE 0]

\* (slip) the day's total is not looked at
AllowedThisHour(kind, spent, p) ==
    IF kind = "request" THEN spent.request < p.request ELSE spent.operation < p.operation

Allowed(kind, spent, p) ==
    IF kind = "request"
    THEN spent.request < p.request
    ELSE spent.operation < p.operation /\ spent.daily < p.daily

Live == {m \in Markers : markers[m] # NoTime}
Stale(t) == {m \in Live : markers[m] + MarkerTTL < t}

Goto(m, c) == calls' = [calls EXCEPT ![m] = c]

\* A call that has no answer, or a refusal: its request may ask again.
Unadmitted(m) == IF Kind[m] = "request" THEN NoCall ELSE Over

Arrive(m) ==
    /\ calls[m].at = "idle"
    /\ Goto(m, [at |-> "waiting", policy |-> policy, since |-> now])
    /\ UNCHANGED <<policy, now, subject, markers, hourly>>

\* (slip) without pg_advisory_xact_lock(hashtextextended(p_subject,831)), and
\* without FOR UPDATE
Unlocked(m) == TRUE

LockFree(m) == \A n \in Markers \ {m} : calls[n].at # "deciding"

\* (slip) the clock is not read again after the wait
TimeOfArrival(m) == calls[m].since

TimeOfDecision(m) == now

\* The lock is granted: the call sees the subject's row, which it inserts if
\* there is none, with the hour and the day of its arrival.
Lock(m) ==
    /\ calls[m].at = "waiting"
    /\ LockFree(m)
    /\ LET since == calls[m].since
           row == IF subject = NoSubject THEN NewSubject(since) ELSE subject
       IN Goto(m, [at |-> "deciding", policy |-> calls[m].policy, since |-> since,
                   row |-> row, time |-> TimeOfDecision(m)])
    /\ UNCHANGED <<policy, now, subject, markers, hourly>>

Charged(spent, kind, t) ==
    [hour |-> HourOf(t), day |-> DayOf(t),
     request |-> spent.request + (IF kind = "request" THEN 1 ELSE 0),
     operation |-> spent.operation + (IF kind = "operation" THEN 1 ELSE 0),
     daily |-> spent.daily + (IF kind = "operation" THEN 1 ELSE 0),
     updated |-> t]

\* The transaction commits, after a part of the stale markers has been
\* deleted.  A marker that is there is a duplicate (admitted, without a
\* charge) or, if it is stale, invalid; too many are a refusal; otherwise the
\* policy read on arrival decides.  The answer may be lost.
Commit(m) ==
    LET c == calls[m]
        spent == Rolled(c.row, c.time)
    IN /\ c.at = "deciding"
       /\ \E dead \in SUBSET Stale(c.time) :
             /\ Cardinality(dead) = Batch \/ (Cardinality(dead) < Batch /\ dead = Stale(c.time))
             /\ LET left == Live \ dead
                    fresh == m \notin left /\ Cardinality(left) < MaxMarkers
                    kept == [n \in Markers |-> IF n \in dead THEN NoTime ELSE markers[n]]
                IN \/ /\ fresh /\ Allowed(Kind[m], spent, c.policy)
                      /\ subject' = Charged(spent, Kind[m], c.time)
                      /\ markers' = [kept EXCEPT ![m] = c.time]
                      /\ hourly' = [hourly EXCEPT ![HourOf(c.time)][Kind[m]] = @ + 1]
                      /\ Goto(m, Over) \/ Goto(m, Unadmitted(m))
                   \/ /\ ~(fresh /\ Allowed(Kind[m], spent, c.policy))
                      /\ subject' = c.row /\ markers' = kept
                      /\ IF m \in left /\ m \notin Stale(c.time)
                         THEN Goto(m, Over) \/ Goto(m, Unadmitted(m))
                         ELSE Goto(m, Unadmitted(m))
                      /\ UNCHANGED hourly
       /\ UNCHANGED <<policy, now>>

\* A timeout, a broken connection, a process that dies: nothing is written,
\* and the guard refuses.
Fail(m) ==
    /\ calls[m].at \in {"waiting", "deciding"}
    /\ Goto(m, Unadmitted(m))
    /\ UNCHANGED <<policy, now, subject, markers, hourly>>

InFlight == {m \in Markers : calls[m].at \in {"waiting", "deciding"}}

Tick ==
    /\ now < MaxTime
    /\ \A m \in InFlight : calls[m].since = now
    /\ now' = now + 1
    /\ UNCHANGED <<policy, subject, markers, hourly, calls>>

\* prune deletes stale markers, as many as it likes.
PruneMarkers ==
    /\ Stale(now) # {}
    /\ \E dead \in SUBSET Stale(now) \ {{}} :
          markers' = [n \in Markers |-> IF n \in dead THEN NoTime ELSE markers[n]]
    /\ UNCHANGED <<policy, now, subject, hourly, calls>>

Idle == Live = {} /\ subject.updated + SubjectTTL < now

\* prune deletes a subject nobody has used for long and no call has locked.
PruneSubject ==
    /\ subject # NoSubject /\ Idle
    /\ \A m \in Markers : calls[m].at # "deciding"
    /\ subject' = NoSubject
    /\ UNCHANGED <<policy, now, markers, hourly, calls>>

Next ==
    \/ \E m \in Markers : Arrive(m) \/ Lock(m) \/ Commit(m) \/ Fail(m)
    \/ Tick \/ PruneMarkers \/ PruneSubject

-----------------------------------------------------------------------------
\* The operations of a day, by the ledger.
OperationsOf(d, ledger) ==
    SumFunctionOnSet([h \in Hours |-> ledger[h].operation], HoursOf(d))

\* What the row says has been spent in the current hour and day ...
SpentByRow ==
    IF subject = NoSubject THEN [request |-> 0, operation |-> 0, daily |-> 0] ELSE Rolled(subject, now)

\* ... and what the ledger says was admitted.
SpentByLedger ==
    [request |-> hourly[HourOf(now)].request,
     operation |-> hourly[HourOf(now)].operation,
     daily |-> OperationsOf(DayOf(now), hourly)]

\* The counters that admit the next call are those of the ledger: no call that
\* waits across the hour or the day, no pruning and no concurrent call loses
\* or resets what the current hour and day have spent (consume, lines 185-221).
CountersMatchTheLedger == SpentByRow = SpentByLedger

\* An admission never takes the hour, or the day, beyond the policy its call
\* read, however many calls are in flight (consume, lines 222-223).
AdmittedWithinPolicy ==
    [][\A m \in Markers : hourly' # hourly /\ calls[m].at = "deciding" /\ calls'[m].at # "deciding" =>
          LET p == calls[m].policy
              h == HourOf(calls[m].time)
          IN IF Kind[m] = "request"
             THEN hourly'[h].request =< p.request
             ELSE /\ hourly'[h].operation =< p.operation
                  /\ OperationsOf(DayOf(calls[m].time), hourly') =< p.daily]_vars
=============================================================================
