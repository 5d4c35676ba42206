----------------------- MODULE EarthEngineWorkerPool ------------------------
(***************************************************************************)
(* EarthEngineWorkerManager: a pool of worker processes behind an asyncio  *)
(* fetch.  Its actors, which the lock only partly serialises:              *)
(*   - one fetch coroutine per request, admitted up to MaxAdmitted;        *)
(*   - the executor thread that runs a fetch's job on the worker it holds; *)
(*   - the controller thread: the startup controller, then the replacement *)
(*     controller (the pool is not available before startup has finished,  *)
(*     and nothing is replaced before it is available);                    *)
(*   - the caller of shutdown;                                             *)
(*   - the worker processes.                                               *)
(* A worker is its slot index and its generation.  Stopping one takes two  *)
(* steps, outside the lock: end the process, then check and close it; any  *)
(* use of a closed Process raises a ValueError that _stop_slot lets out.   *)
(*                                                                         *)
(* Operators marked (slip) are wrong variants of the one that follows.     *)
(***************************************************************************)
EXTENDS Integers, FiniteSets, Sequences, SequencesExt

CONSTANTS MaxLive,       \* MAX_LIVE_WORKERS
          MaxAdmitted,   \* MAX_ADMITTED_REQUESTS
          Requests,      \* the fetches made, once each
          Resisting,     \* workers that may outlive kill
          MaxShutdowns   \* calls of shutdown, one after the other

Indexes     == 0..(MaxLive - 1)
\* each request retires at most one worker
Generations == 1..(Cardinality(Requests) + 1)
Workers     == Indexes \X Generations

ASSUME PoolAssumption ==
    /\ MaxLive \in Nat \ {0}
    /\ MaxAdmitted \in Nat
    /\ IsFiniteSet(Requests)
    /\ Resisting \subseteq Workers
    /\ MaxShutdowns \in Nat

VARIABLES state,     \* _state
          closing,   \* _shutdown_event is set
          slots,     \* _slots, in the dict's order
          idle,      \* _idle_slots
          events,    \* _replacement_events
          attempts,  \* _replacement_attempts
          executor,  \* "none", "up", or "shut": no new jobs
          proc,      \* worker processes
          work,      \* the request a worker is working on
          mail,      \* what the parent has not read of a worker's pipe
          fetch,     \* each request's coroutine
          clock,     \* its deadline: far, within the cleanup reserve, past
          stale,     \* control.mark_stale() was called
          job,       \* its executor job
          held,      \* the worker it was given
          answer,    \* the job's result
          ctl,       \* the controller thread
          shut       \* the caller of shutdown

pool    == <<state, closing, slots, idle, events, attempts>>
workers == <<proc, work, mail>>
calls   == <<fetch, clock, stale>>
jobs    == <<job, held, answer>>
vars    == <<pool, executor, workers, calls, jobs, ctl, shut>>

Nobody == <<-1, 0>>
None   == "none"
Idle   == [at |-> "none", boot |-> FALSE, w |-> Nobody, pending |-> {}, todo |-> <<>>]

Unfinished == {"queued", "polling", "retire", "kill", "close", "pop", "schedule"}
Running    == Unfinished \ {"queued"}
InFlight   == {"acquiring", "waiting", "containing"}

Init ==
    /\ state = "stopped" /\ closing = FALSE
    /\ slots = <<>> /\ idle = <<>> /\ events = <<>> /\ attempts = {}
    /\ executor = "none"
    /\ proc = [w \in Workers |-> "unborn"]
    /\ work = [w \in Workers |-> None]
    /\ mail = [w \in Workers |-> None]
    /\ fetch = [r \in Requests |-> "new"]
    /\ clock = [r \in Requests |-> "far"]
    /\ stale = [r \in Requests |-> FALSE]
    /\ job = [r \in Requests |-> "none"]
    /\ held = [r \in Requests |-> Nobody]
    /\ answer = [r \in Requests |-> None]
    /\ ctl = Idle
    /\ shut = [at |-> "none", calls |-> 0, todo |-> <<>>, error |-> FALSE]

-----------------------------------------------------------------------------
(* The dict of slots, the idle queue, and stopping a worker.               *)

Registered(w) == w \in ToSet(slots)

\* _release_slot
Release(w) ==
    idle' = IF state = "available" /\ Registered(w) THEN Append(idle, w) ELSE idle

\* self._slots[w.index] = w
Put(w) == IF \E v \in ToSet(slots) : v[1] = w[1]
          THEN [i \in DOMAIN slots |-> IF slots[i][1] = w[1] THEN w ELSE slots[i]]
          ELSE Append(slots, w)

Alive(w) == proc[w] \in {"starting", "live"}

\* The process ends, by itself, by terminate or by kill, unless it resists.
Kill(w) ==
    IF Alive(w)
    THEN \/ proc' = [proc EXCEPT ![w] = "dead"] /\ work' = [work EXCEPT ![w] = None]
         \/ w \in Resisting /\ UNCHANGED <<proc, work>>
    ELSE UNCHANGED <<proc, work>>

\* The pipe and the Process object are closed; what was in the pipe is gone.
Close(w) ==
    /\ proc' = [proc EXCEPT ![w] = "closed"]
    /\ mail' = [mail EXCEPT ![w] = None]

-----------------------------------------------------------------------------
(* start, and the controller thread.                                       *)

Start(enabled) ==
    /\ state = "stopped" /\ executor = "none" /\ shut.calls = 0
    /\ IF enabled
       THEN /\ state' = "starting"
            /\ executor' = "up"
            /\ ctl' = [at |-> "spawn", boot |-> TRUE, w |-> <<0, 1>>,
                       pending |-> {}, todo |-> <<>>]
       ELSE state' = "unavailable" /\ UNCHANGED <<executor, ctl>>
    /\ UNCHANGED <<closing, slots, idle, events, attempts, workers, calls, jobs, shut>>

CtlGoto(l) == ctl' = [ctl EXCEPT !.at = l]

\* Only the startup loop looks at the shutdown event before each spawn.
CtlSpawn ==
    /\ ctl.at = "spawn"
    /\ \/ /\ ctl.boot /\ closing
          /\ ctl' = Idle
          /\ UNCHANGED proc
       \/ /\ ~(ctl.boot /\ closing)
          /\ proc' = [proc EXCEPT ![ctl.w] = "starting"]
          /\ CtlGoto("register")
       \/ /\ ~(ctl.boot /\ closing)
          /\ ctl' = [ctl EXCEPT !.at = "condemn", !.w = Nobody]  \* process.start failed
          /\ UNCHANGED proc
    /\ UNCHANGED <<pool, executor, work, mail, calls, jobs, shut>>

Wanted == IF ctl.boot THEN state = "starting" ELSE state = "available" /\ ~closing

\* Under the lock: register the worker, or stop it before anyone knows it.
CtlRegister ==
    /\ ctl.at = "register"
    /\ IF Wanted
       THEN /\ slots' = Put(ctl.w)
            /\ ctl' = IF ctl.boot /\ ctl.w[1] + 1 \in Indexes
                      THEN [ctl EXCEPT !.at = "spawn", !.w[1] = @ + 1,
                                       !.pending = @ \cup {ctl.w}]
                      ELSE [ctl EXCEPT !.at = "await", !.pending = @ \cup {ctl.w}]
            /\ UNCHANGED <<proc, mail>>
       ELSE /\ \/ Close(ctl.w) /\ CtlGoto("exit")
               \/ /\ ctl.w \in Resisting
                  /\ ctl' = IF ctl.boot THEN [ctl EXCEPT !.at = "condemn", !.w = Nobody]
                                        ELSE [ctl EXCEPT !.at = "rescue"]
                  /\ UNCHANGED <<proc, mail>>
            /\ UNCHANGED slots
    /\ UNCHANGED <<state, closing, idle, events, attempts, executor, work, calls,
                   jobs, shut>>

CtlReady ==
    /\ ctl.at = "await"
    /\ \E w \in ctl.pending :
          /\ mail[w] = "ready"
          /\ mail' = [mail EXCEPT ![w] = None]
          /\ ctl' = [ctl EXCEPT !.pending = @ \ {w}]
    /\ UNCHANGED <<pool, executor, proc, work, calls, jobs, shut>>

\* (slip) the wait has no timeout and does not look at the shutdown event
StartFailed == \E w \in ctl.pending : ~Alive(w) \/ mail[w] = "failed"

\* A timeout, a death, another message, or the shutdown event.
MayGiveUp == ctl.pending # {}

CtlGivesUp ==
    /\ ctl.at = "await" /\ MayGiveUp
    /\ CtlGoto("condemn")
    /\ UNCHANGED <<pool, executor, workers, calls, jobs, shut>>

CtlEnlist ==
    /\ ctl.at = "await" /\ ctl.pending = {}
    /\ IF Wanted /\ ~closing
       THEN /\ idle' = idle \o (IF ctl.boot THEN slots ELSE <<ctl.w>>)
            /\ state' = "available"
            /\ IF ctl.boot THEN ctl' = Idle ELSE CtlGoto("loop")
       ELSE CtlGoto("exit") /\ UNCHANGED <<idle, state>>
    /\ UNCHANGED <<closing, slots, events, attempts, executor, workers, calls,
                   jobs, shut>>

\* _mark_unavailable_and_cleanup, which leaves a closing pool to shutdown.
CtlCondemn ==
    /\ ctl.at = "condemn"
    /\ IF state = "closing"
       THEN CtlGoto("exit") /\ UNCHANGED pool
       ELSE /\ state' = "unavailable"
            /\ slots' = <<>> /\ idle' = <<>> /\ events' = <<>>
            /\ ctl' = [ctl EXCEPT !.at = "sweep", !.todo = slots]
            /\ UNCHANGED <<closing, attempts>>
    /\ UNCHANGED <<executor, workers, calls, jobs, shut>>

CtlSweep ==
    /\ ctl.at = "sweep"
    /\ IF ctl.todo = <<>>
       THEN CtlGoto("exit") /\ UNCHANGED <<proc, work>>
       ELSE Kill(Head(ctl.todo)) /\ CtlGoto("sweep-close")
    /\ UNCHANGED <<pool, executor, mail, calls, jobs, shut>>

\* (slip) the handler only marks the pool unavailable
AfterValueErrorOnlyMark == [ctl EXCEPT !.at = "condemn", !.w = Nobody]

\* A ValueError leaves the loop, the rest of the list is not stopped.  The handler
\* marks the pool again, after a replacement has stopped the worker it has just
\* spawned.  In the handler, which holds Nobody, a ValueError ends the thread.
AfterValueError ==
    CASE ctl.w = Nobody -> [ctl EXCEPT !.at = "exit"]
      [] ctl.w # Nobody /\ ctl.boot -> [ctl EXCEPT !.at = "condemn", !.w = Nobody]
      [] ctl.w # Nobody /\ ~ctl.boot -> [ctl EXCEPT !.at = "rescue"]

CtlSweepClose ==
    /\ ctl.at = "sweep-close"
    /\ LET w == Head(ctl.todo)
       IN  \/ /\ proc[w] = "closed"
              /\ ctl' = AfterValueError
              /\ UNCHANGED <<proc, mail, slots>>
           \/ /\ proc[w] = "dead"
              /\ Close(w)
              /\ ctl' = [ctl EXCEPT !.at = "sweep", !.todo = Tail(@)]
              /\ UNCHANGED slots
           \/ /\ Alive(w)
              /\ slots' = Put(w)
              /\ ctl' = [ctl EXCEPT !.at = "sweep", !.todo = Tail(@)]
              /\ UNCHANGED <<proc, mail>>
    /\ UNCHANGED <<state, closing, idle, events, attempts, executor, work, calls,
                   jobs, shut>>

\* except BaseException of the replacement controller: what stopping raises
\* there ends the thread.
CtlRescue ==
    /\ ctl.at = "rescue"
    /\ \/ /\ proc[ctl.w] = "closed"
          /\ CtlGoto("exit")
          /\ UNCHANGED workers
       \/ /\ proc[ctl.w] # "closed"
          /\ Close(ctl.w)
          /\ work' = [work EXCEPT ![ctl.w] = None]
          /\ ctl' = [ctl EXCEPT !.at = "condemn", !.w = Nobody]
       \/ /\ Alive(ctl.w) /\ ctl.w \in Resisting
          /\ CtlGoto("exit")
          /\ UNCHANGED workers
    /\ UNCHANGED <<pool, executor, calls, jobs, shut>>

\* The next event, as long as there are any and the pool is not shut down.
CtlLoop ==
    /\ ctl.at = "loop"
    /\ IF closing \/ events = <<>>
       THEN CtlGoto("exit") /\ UNCHANGED events
       ELSE /\ ctl' = [Idle EXCEPT !.at = "spawn",
                                   !.w = <<Head(events)[1], Head(events)[2] + 1>>]
            /\ events' = Tail(events)
    /\ UNCHANGED <<state, closing, slots, idle, attempts, executor, workers, calls,
                   jobs, shut>>

\* (slip) the thread just ends
EndsAnyway == FALSE

\* An event may have come after the loop saw none: the thread is replaced.
MustGoOn == state = "available" /\ ~closing /\ events # <<>>

CtlExit ==
    /\ ctl.at = "exit"
    /\ ctl' = IF ~ctl.boot /\ MustGoOn THEN [Idle EXCEPT !.at = "loop"] ELSE Idle
    /\ UNCHANGED <<pool, executor, workers, calls, jobs, shut>>

Ctl == \/ CtlSpawn \/ CtlRegister \/ CtlReady \/ CtlGivesUp \/ CtlEnlist
       \/ CtlCondemn \/ CtlSweep \/ CtlSweepClose \/ CtlRescue \/ CtlLoop \/ CtlExit

-----------------------------------------------------------------------------
(* fetch.                                                                  *)

FetchGoto(r, l) == fetch' = [fetch EXCEPT ![r] = l]

Admitted == {r \in Requests : fetch[r] \in InFlight}

Admit(r) ==
    /\ fetch[r] = "new"
    /\ FetchGoto(r, IF state = "available" /\ Cardinality(Admitted) < MaxAdmitted
                    THEN "acquiring" ELSE "done")
    /\ UNCHANGED <<pool, executor, workers, clock, stale, jobs, ctl, shut>>

\* (slip) waits for a worker without a deadline, whatever the pool's state
WaitsForSlot(r) == FALSE

StopsWaiting(r) == clock[r] # "far" \/ (idle = <<>> /\ state # "available")

\* Take an idle worker and submit the job, which fails once the executor is
\* shut down; give up near the deadline, or when the pool is not available.
Acquire(r) ==
    /\ fetch[r] = "acquiring"
    /\ \/ /\ StopsWaiting(r)
          /\ FetchGoto(r, "done")
          /\ UNCHANGED <<idle, job, held>>
       \/ /\ clock[r] = "far" /\ idle # <<>>
          /\ idle' = Tail(idle)
          /\ IF executor = "up"
             THEN /\ job' = [job EXCEPT ![r] = "queued"]
                  /\ held' = [held EXCEPT ![r] = Head(idle)]
                  /\ FetchGoto(r, "waiting")
             ELSE FetchGoto(r, "done") /\ UNCHANGED <<job, held>>
    /\ UNCHANGED <<state, closing, slots, events, attempts, executor, workers,
                   clock, stale, answer, ctl, shut>>

Receive(r) ==
    /\ fetch[r] = "waiting" /\ job[r] \in {"done", "cancelled"}
    /\ FetchGoto(r, "done")
    /\ UNCHANGED <<pool, executor, workers, clock, stale, jobs, ctl, shut>>

\* The deadline passes: the job is given the cleanup reserve to contain it.
Expire(r) ==
    /\ fetch[r] = "waiting" /\ clock[r] = "past"
    /\ FetchGoto(r, "containing")
    /\ stale' = [stale EXCEPT ![r] = TRUE]
    /\ UNCHANGED <<pool, executor, workers, clock, jobs, ctl, shut>>

\* The client goes away.
Cancel(r) ==
    /\ fetch[r] \in {"acquiring", "waiting"}
    /\ FetchGoto(r, IF fetch[r] = "waiting" THEN "containing" ELSE "done")
    /\ stale' = [stale EXCEPT ![r] = TRUE]
    /\ UNCHANGED <<pool, executor, workers, clock, jobs, ctl, shut>>

\* The job ended, or _CLEANUP_RESERVE_SECONDS did, or a second cancellation.
Contain(r) ==
    /\ fetch[r] = "containing"
    /\ FetchGoto(r, "done")
    /\ UNCHANGED <<pool, executor, workers, clock, stale, jobs, ctl, shut>>

\* Time passes; a request being contained is stale whatever the time.
Tick(r) ==
    /\ fetch[r] \in {"acquiring", "waiting"} /\ clock[r] # "past"
    /\ clock' = [clock EXCEPT ![r] = IF @ = "far" THEN "reserve" ELSE "past"]
    /\ UNCHANGED <<pool, executor, workers, fetch, stale, jobs, ctl, shut>>

Fetch(r) == Admit(r) \/ Acquire(r) \/ Receive(r) \/ Expire(r) \/ Contain(r)

-----------------------------------------------------------------------------
(* The executor job: _execute_request, _retire_slot, _schedule_replacement. *)

JobGoto(r, l) == job' = [job EXCEPT ![r] = l]

JobEnds(r, a) ==
    /\ JobGoto(r, "done")
    /\ answer' = [answer EXCEPT ![r] = a]
    /\ held' = [held EXCEPT ![r] = Nobody]

JobStays(r, l) == JobGoto(r, l) /\ UNCHANGED <<answer, held>>

Busy == Cardinality({r \in Requests : job[r] \in Running})

\* Its turn: check under the lock that the pool, the worker and the request
\* are still good, and send.  Sending to a dead worker shows when polling.
Dispatch(r) ==
    /\ job[r] = "queued" /\ Busy < MaxLive
    /\ LET w == held[r]
       IN  IF state = "available" /\ Registered(w) /\ ~stale[r] /\ clock[r] # "past"
           THEN /\ JobStays(r, "polling")
                /\ work' = IF proc[w] = "live" THEN [work EXCEPT ![w] = r] ELSE work
                /\ UNCHANGED idle
           ELSE /\ JobEnds(r, "timeout")
                /\ Release(w)
                /\ UNCHANGED work
    /\ UNCHANGED <<state, closing, slots, events, attempts, executor, proc, mail,
                   calls, ctl, shut>>

\* (slip) any message is taken for the answer
AcceptsAnything(r) == TRUE

\* _valid_result: this generation, this request, a known outcome
Accepts(r) == mail[held[r]] = r

Take(r) ==
    /\ job[r] = "polling" /\ mail[held[r]] # None
    /\ mail' = [mail EXCEPT ![held[r]] = None]
    /\ IF Accepts(r)
       THEN JobEnds(r, mail[held[r]]) /\ Release(held[r])
       ELSE JobStays(r, "retire") /\ UNCHANGED idle
    /\ UNCHANGED <<state, closing, slots, events, attempts, executor, proc, work,
                   calls, ctl, shut>>

\* (slip) a worker that is late is given back
TooLate(r, w) == JobEnds(r, "timeout") /\ Release(w)

\* (slip) a worker that is late is given back, and stopped all the same
TooLateTwice(r, w) == JobStays(r, "retire") /\ Release(w)

\* Near the deadline, or stale: the worker is not trusted any more.
GiveUp(r, w) == JobStays(r, "retire") /\ UNCHANGED idle

GiveUpJob(r) ==
    /\ job[r] = "polling"
    /\ stale[r] \/ clock[r] # "far"
    /\ GiveUp(r, held[r])
    /\ UNCHANGED <<state, closing, slots, events, attempts, executor, workers, calls,
                   ctl, shut>>

LoseWorker(r) ==
    /\ job[r] = "polling" /\ ~Alive(held[r])
    /\ JobStays(r, "retire")
    /\ UNCHANGED <<pool, executor, workers, calls, ctl, shut>>

\* Someone else may have taken the slot over already.
Retire(r) ==
    /\ job[r] = "retire"
    /\ IF Registered(held[r])
       THEN JobStays(r, "kill")
       ELSE JobEnds(r, "error")
    /\ UNCHANGED <<pool, executor, workers, calls, ctl, shut>>

RetireKill(r) ==
    /\ job[r] = "kill"
    /\ Kill(held[r])
    /\ JobStays(r, "close")
    /\ UNCHANGED <<pool, executor, mail, calls, ctl, shut>>

\* (slip) a worker that could not be stopped is replaced like any other
UnstoppedIgnored(r, w) == JobStays(r, "pop") /\ UNCHANGED <<state, slots, idle, events>>

\* The worker could not be stopped: the pool fails closed, without replacement.
Unstopped(r, w) ==
    /\ state' = "unavailable"
    /\ slots' = Put(w)
    /\ idle' = <<>> /\ events' = <<>>
    /\ JobEnds(r, "error")

RetireClose(r) ==
    /\ job[r] = "close"
    /\ LET w == held[r]
       IN  \/ /\ proc[w] = "closed"                      \* ValueError
              /\ JobEnds(r, "error")
              /\ UNCHANGED <<state, slots, idle, events, proc, mail>>
           \/ /\ proc[w] = "dead"
              /\ Close(w)
              /\ JobStays(r, "pop")
              /\ UNCHANGED <<state, slots, idle, events>>
           \/ /\ Alive(w)
              /\ Unstopped(r, w)
              /\ UNCHANGED <<proc, mail>>
    /\ UNCHANGED <<closing, attempts, executor, work, calls, ctl, shut>>

\* self._slots.pop(slot.index), when it is this worker's
Without(w) == IF Registered(w)
              THEN RemoveAt(slots, CHOOSE i \in DOMAIN slots : slots[i] = w)
              ELSE slots

RetirePop(r) ==
    /\ job[r] = "pop"
    /\ slots' = Without(held[r])
    /\ JobStays(r, "schedule")
    /\ UNCHANGED <<state, closing, idle, events, attempts, executor, workers, calls,
                   ctl, shut>>

\* One replacement per retired generation of an available pool.
Schedule(r) ==
    /\ job[r] = "schedule"
    /\ IF state # "available" \/ closing \/ held[r] \in attempts
       THEN UNCHANGED <<events, attempts, ctl>>
       ELSE /\ attempts' = {w \in attempts : w[1] # held[r][1]} \cup {held[r]}
            /\ events' = Append(events, held[r])
            /\ ctl' = IF ctl.at = "none" THEN [Idle EXCEPT !.at = "loop"] ELSE ctl
    /\ JobEnds(r, "error")
    /\ UNCHANGED <<state, closing, slots, idle, executor, workers, calls, shut>>

Job(r) == \/ Dispatch(r) \/ Take(r) \/ GiveUpJob(r) \/ LoseWorker(r) \/ Retire(r)
          \/ RetireKill(r) \/ RetireClose(r) \/ RetirePop(r) \/ Schedule(r)

-----------------------------------------------------------------------------
(* The worker process, _earth_engine_worker_entry.                         *)

WorkerInitializes(w) ==
    /\ proc[w] = "starting"
    /\ \/ /\ proc' = [proc EXCEPT ![w] = "live"]
          /\ mail' = [mail EXCEPT ![w] = "ready"]
       \/ /\ proc' = [proc EXCEPT ![w] = "dead"]
          /\ mail' = [mail EXCEPT ![w] = "failed"]
    /\ UNCHANGED <<pool, executor, work, calls, jobs, ctl, shut>>

WorkerAnswers(w) ==
    /\ proc[w] = "live" /\ work[w] # None
    /\ mail' = [mail EXCEPT ![w] = work[w]] \/ mail' = [mail EXCEPT ![w] = "garbage"]
    /\ work' = [work EXCEPT ![w] = None]
    /\ UNCHANGED <<pool, executor, proc, calls, jobs, ctl, shut>>

WorkerDies(w) ==
    /\ Alive(w)
    /\ proc' = [proc EXCEPT ![w] = "dead"]
    /\ work' = [work EXCEPT ![w] = None]
    /\ UNCHANGED <<pool, executor, mail, calls, jobs, ctl, shut>>

-----------------------------------------------------------------------------
(* shutdown.                                                               *)

ShutGoto(l) == shut' = [shut EXCEPT !.at = l]

ShutBegin ==
    /\ shut.at \in {"none", "returned", "raised"} /\ shut.calls < MaxShutdowns
    /\ state # "stopped" \/ slots # <<>>
    /\ state' = "closing" /\ closing' = TRUE
    /\ shut' = [at |-> "join", calls |-> shut.calls + 1, todo |-> <<>>, error |-> FALSE]
    /\ UNCHANGED <<slots, idle, events, attempts, executor, workers, calls, jobs, ctl>>

\* (slip) the controller threads are not joined
ControllersLeft == TRUE

ControllersJoined == ctl.at = "none"

ShutJoin ==
    /\ shut.at = "join" /\ ControllersJoined
    /\ slots' = <<>> /\ idle' = <<>>
    /\ shut' = [shut EXCEPT !.at = "stop", !.todo = slots]
    /\ UNCHANGED <<state, closing, events, attempts, executor, workers, calls, jobs, ctl>>

\* _stop_slot(graceful=True) asks is_alive() first.
ShutStop ==
    /\ shut.at = "stop"
    /\ IF shut.todo = <<>>
       THEN ShutGoto("executor") /\ UNCHANGED <<proc, work>>
       ELSE IF proc[Head(shut.todo)] = "closed"
            THEN ShutGoto("raised") /\ UNCHANGED <<proc, work>>
            ELSE Kill(Head(shut.todo)) /\ ShutGoto("close")
    /\ UNCHANGED <<pool, executor, mail, calls, jobs, ctl>>

ShutClose ==
    /\ shut.at = "close"
    /\ LET w == Head(shut.todo)
       IN  \/ /\ proc[w] = "closed"
              /\ ShutGoto("raised")
              /\ UNCHANGED <<proc, mail, slots>>
           \/ /\ proc[w] = "dead"
              /\ Close(w)
              /\ shut' = [shut EXCEPT !.at = "stop", !.todo = Tail(@)]
              /\ UNCHANGED slots
           \/ /\ Alive(w)
              /\ slots' = Put(w)
              /\ shut' = [shut EXCEPT !.at = "stop", !.todo = Tail(@), !.error = TRUE]
              /\ UNCHANGED <<proc, mail>>
    /\ UNCHANGED <<state, closing, idle, events, attempts, executor, work, calls, jobs,
                   ctl>>

\* executor.shutdown(wait=True, cancel_futures=True): cancel, then wait.
ShutExecutor ==
    /\ shut.at = "executor"
    /\ executor' = IF executor = "up" THEN "shut" ELSE executor
    /\ job' = [r \in Requests |-> IF job[r] = "queued" THEN "cancelled" ELSE job[r]]
    /\ ShutGoto("drain")
    /\ UNCHANGED <<pool, workers, calls, held, answer, ctl>>

ShutFinish ==
    /\ shut.at = "drain" /\ Busy = 0
    /\ events' = <<>> /\ attempts' = {}
    /\ executor' = "none"
    /\ state' = IF slots # <<>> THEN "unavailable" ELSE "stopped"
    /\ ShutGoto(IF shut.error THEN "raised" ELSE "returned")
    /\ UNCHANGED <<closing, slots, idle, workers, calls, jobs, ctl>>

Shut == ShutJoin \/ ShutStop \/ ShutClose \/ ShutExecutor \/ ShutFinish

-----------------------------------------------------------------------------
Next ==
    \/ \E enabled \in BOOLEAN : Start(enabled)
    \/ Ctl
    \/ \E r \in Requests : Fetch(r) \/ Cancel(r) \/ Tick(r) \/ Job(r)
    \/ \E w \in Workers : WorkerInitializes(w) \/ WorkerAnswers(w) \/ WorkerDies(w)
    \/ ShutBegin \/ Shut

\* Threads and coroutines run on, every wait in them has a timeout and time
\* passes; workers and the Earth Engine service owe nothing. A coroutine and
\* its clock make finitely many steps each, so one assumption serves both.
Fairness ==
    /\ WF_vars(Ctl)
    /\ \A r \in Requests : WF_vars(Fetch(r) \/ Tick(r)) /\ WF_vars(Job(r))
    /\ WF_vars(Shut)

Spec == Init /\ [][Next]_vars /\ Fairness

-----------------------------------------------------------------------------
(* Types.                                                                  *)

TypeOK ==
    /\ state \in {"stopped", "starting", "available", "unavailable", "closing"}
    /\ closing \in BOOLEAN
    /\ slots \in Seq(Workers) /\ idle \in Seq(Workers) /\ events \in Seq(Workers)
    /\ attempts \subseteq Workers
    /\ executor \in {"none", "up", "shut"}
    /\ proc \in [Workers -> {"unborn", "starting", "live", "dead", "closed"}]
    /\ work \in [Workers -> Requests \cup {None}]
    /\ mail \in [Workers -> Requests \cup {None, "ready", "failed", "garbage"}]
    /\ fetch \in [Requests -> InFlight \cup {"new", "done"}]
    /\ clock \in [Requests -> {"far", "reserve", "past"}]
    /\ stale \in [Requests -> BOOLEAN]
    /\ job \in [Requests -> Unfinished \cup {"none", "done", "cancelled"}]
    /\ held \in [Requests -> Workers \cup {Nobody}]
    /\ answer \in [Requests -> Requests \cup {None, "timeout", "error"}]
    /\ ctl.at \in {"none", "spawn", "register", "await", "condemn", "sweep",
                   "sweep-close", "rescue", "loop", "exit"}
    /\ ctl.w \in Workers \cup {Nobody}
    /\ ctl.pending \subseteq Workers /\ ctl.todo \in Seq(Workers)
    /\ shut.at \in {"none", "join", "stop", "close", "executor", "drain",
                    "returned", "raised"}
    /\ shut.todo \in Seq(Workers)

-----------------------------------------------------------------------------
(* Safety.                                                                 *)

Holders(w) == {r \in Requests : held[r] = w /\ job[r] \in Unfinished}

\* "A slot cannot be assigned twice": a worker is queued as idle at most once,
\* and then no unfinished job holds it; no two jobs hold the same one.
OneOwner ==
    /\ \A i, j \in DOMAIN idle : idle[i] = idle[j] => i = j
    /\ \A w \in Workers :
          Cardinality(Holders(w)) + (IF w \in ToSet(idle) THEN 1 ELSE 0) <= 1

\* An idle worker has nothing of an earlier request left: it is not working and
\* its pipe is empty, so the next request cannot read a late answer.
IdleIsClean ==
    \A w \in ToSet(idle) :
        Registered(w) /\ work[w] = None /\ mail[w] = None

\* "A replacement is not started until the prior process is confirmed dead":
\* at most one process of each slot is alive, MaxLive in all.
OneProcessPerSlot ==
    \A v, w \in Workers : v[1] = w[1] /\ Alive(v) /\ Alive(w) => v = w

\* A request is answered with what was made for it, never with what a worker
\* made for another request or should not have sent at all.
AnswerIsOwn == \A r \in Requests : answer[r] \in {r, None, "timeout", "error"}

\* No slot is lost while the pool says it is available and no controller is at
\* work: every index has a worker that is idle or held by an unfinished job.
\* A replacement event that nobody wakes up for would break it.
NoCapacityLost ==
    state = "available" /\ ctl.at = "none" =>
        \A i \in Indexes :
            \E g \in Generations :
                <<i, g>> \in ToSet(idle) \/ Holders(<<i, g>>) # {}

\* "Leaves zero worker processes alive": once the pool has been given up and
\* everyone who was stopping a worker is done, none lives.  (A pool given up
\* because a worker resisted keeps the others until shutdown.)  It holds of the
\* code's two slots; with three, the ValueError that one rescue answers would
\* drop more than one worker from the sweep's list.
FailedPoolIsEmpty ==
    state = "unavailable" /\ ctl.at = "none" /\ Busy = 0 =>
        \A w \in Workers : ~Alive(w)

\* "No worker may remain after shutdown completes": a stopped pool has no worker
\* alive but one that resisted.  It holds of the first call of shutdown; a call
\* that raised a ValueError has dropped its list, and the next one finds none.
StoppedMeansNoWorker ==
    state = "stopped" => \A w \in Workers : Alive(w) => w \in Resisting

-----------------------------------------------------------------------------
(* Liveness.                                                               *)

\* Every admitted fetch ends, whatever workers, controllers and shutdown do.
EveryFetchEnds == \A r \in Requests : fetch[r] \in InFlight ~> fetch[r] = "done"

\* shutdown returns or raises: it waits for the controllers and the executor,
\* none of which may be waiting for it.
ShutdownEnds == shut.at = "join" ~> shut.at \in {"returned", "raised"}

\* An available pool gets a retired slot back or stops calling itself available.
CapacityReturns ==
    \A i \in Indexes :
        state = "available" ~>
            \/ state # "available"
            \/ \E g \in Generations : Registered(<<i, g>>) /\ proc[<<i, g>>] # "closed"
=============================================================================
