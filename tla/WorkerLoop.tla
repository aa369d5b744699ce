----------------------------- MODULE WorkerLoop -----------------------------
(***************************************************************************)
(* One worker process: the claim loop of teamEvolver/runtime/worker.py     *)
(* (run_worker and the tenant scan of process_once), the tenant list and   *)
(* the dispatch passes it refreshes, and the readiness, drain and shutdown *)
(* order of teamEvolver/runtime/lifecycle.py.                              *)
(*                                                                         *)
(* What happens inside one attempt is WorkerTasks; here a task is only     *)
(* ready, running in this process, or left behind under its lease.  Each   *)
(* action is what the event loop does between two awaits.                  *)
(***************************************************************************)
EXTENDS Naturals, Sequences

CONSTANTS
    TenantOrder,         \* every tenant, in the order of tenant_id
    Busy,                \* tenants whose users submit work without end
    FloatExponentLimit,  \* the least n with 2.0 ** n an OverflowError: 1024
    MaxPending,          \* bound: ready tasks of a tenant
    MaxArrivals,         \* bound: tasks submitted by the tenants not in Busy
    MaxFaults,           \* bound: times PostgreSQL goes away or a lease is lost
    MaxFailures,         \* bound: consecutive failed iterations of the loop
    MaxChurn             \* bound: tenants created or suspended

Tenants == {TenantOrder[i] : i \in 1..Len(TenantOrder)}

ASSUME TenantOrderAssumption == TenantOrder \in Seq(Tenants)
ASSUME BusyAssumption == Busy \subseteq Tenants
ASSUME BoundsAssumption ==
    /\ MaxPending \in Nat \ {0}
    /\ FloatExponentLimit \in Nat
    /\ {MaxArrivals, MaxFaults, MaxFailures, MaxChurn} \subseteq Nat

VARIABLES
    pc,        \* where run_worker is
    active,    \* its copy of the tenant list
    cursor,    \* next tenant of the scan or of the dispatch passes
    current,   \* tenant of the claimed task
    due,       \* more than TENANT_REFRESH_SECONDS since the last refresh
    failures,  \* consecutive failed iterations
    healthy,   \* RuntimeLifecycle._healthy
    accepting, \* RuntimeLifecycle._ready
    stop,      \* the stop event
    life,      \* where startup and shutdown are
    pool,      \* whether the database pool is open
    db,        \* whether PostgreSQL answers
    registry,  \* tenants with status 'active'
    pending,   \* ready tasks, by tenant
    leased,    \* tasks left behind under a lease, by tenant
    late,      \* tasks claimed after the stop event was set
    used       \* how much of the bounds is used up

loopVars == <<pc, active, cursor, current, due, failures, healthy>>
lifeVars == <<accepting, stop, life, pool>>
envVars  == <<db, registry, used>>
taskVars == <<pending, leased>>
vars == <<loopVars, lifeVars, envVars, taskVars, late>>

Ended == {"ended", "died"}
Location == {"off", "check", "refresh", "schedule", "scan", "running",
             "backoff", "idle"} \cup Ended

Bounded == {"arrivals", "faults", "churn"}

TypeOK ==
    /\ pc \in Location
    /\ active \in Seq(Tenants)
    /\ cursor \in 1..(Len(active) + 1)
    /\ current \in Tenants
    /\ failures \in 0..(MaxFailures + 1)
    /\ {due, healthy, accepting, stop, db} \subseteq BOOLEAN
    /\ life \in {"new", "serving", "draining", "cancelling", "closing", "stopped"}
    /\ pool \in {"open", "closed"}
    /\ registry \subseteq Tenants
    /\ pending \in [Tenants -> Nat]
    /\ leased \in [Tenants -> Nat]
    /\ late \in Nat
    /\ used \in [Bounded -> Nat]

Init ==
    /\ pc = "off"
    /\ active = << >>
    /\ cursor = 1
    /\ current = TenantOrder[1]
    /\ due = TRUE
    /\ failures = 0
    /\ healthy = TRUE
    /\ accepting = FALSE
    /\ stop = FALSE
    /\ life = "new"
    /\ pool = "open"
    /\ db = TRUE
    /\ registry \in (SUBSET Tenants) \ {{}}
    /\ pending = [t \in Tenants |-> 0]
    /\ leased = [t \in Tenants |-> 0]
    /\ late = 0
    /\ used = [b \in Bounded |-> 0]

\* RuntimeLifecycle.ready, what /readyz answers.
Ready == accepting /\ healthy /\ pc \notin Ended

Spend(b, max) ==
    /\ used[b] < max
    /\ used' = [used EXCEPT ![b] = @ + 1]

-----------------------------------------------------------------------------
(* run_worker.  Definitions marked "Mistake" are not part of the model: each  *)
(* is a plausible error in the definition below it that a property rules out. *)

\* Mistake: the claim loop drains the queue before it looks at the stop event.
StoppingOnlyWhenIdle == stop /\ \A t \in Tenants : pending[t] = 0

\* while not stop_event.is_set()
Stopping == stop

Check ==
    /\ pc = "check"
    /\ pc' = IF Stopping THEN "ended" ELSE IF due THEN "refresh" ELSE "scan"
    /\ cursor' = 1
    /\ UNCHANGED <<active, current, due, failures, healthy>>
    /\ UNCHANGED <<lifeVars, envVars, taskVars, late>>

\* SELECT tenant_id ... WHERE status='active' ORDER BY tenant_id, over the first n
\* tenants.
ActiveAmong[n \in 0..Len(TenantOrder)] ==
    IF n = 0 THEN << >>
    ELSE IF TenantOrder[n] \in registry
    THEN Append(ActiveAmong[n - 1], TenantOrder[n])
    ELSE ActiveAmong[n - 1]

\* Mistake: the clock is reset although the tenant list is not read again.
SameTenants == active

ActiveTenants == ActiveAmong[Len(TenantOrder)]

Refresh ==
    /\ pc = "refresh"
    /\ db
    /\ active' = ActiveTenants
    /\ due' = FALSE
    /\ cursor' = 1
    /\ pc' = "schedule"
    /\ UNCHANGED <<current, failures, healthy>>
    /\ UNCHANGED <<lifeVars, envVars, taskVars, late>>

\* The dispatch passes for one tenant: they may submit a task, and whatever
\* they raise is logged and dropped.
Schedule ==
    /\ pc = "schedule"
    /\ IF cursor > Len(active)
       THEN /\ pc' = "scan"
            /\ cursor' = 1
            /\ UNCHANGED <<pending, used>>
       ELSE /\ cursor' = cursor + 1
            /\ UNCHANGED pc
            /\ \/ UNCHANGED <<pending, used>>
               \/ /\ db
                  /\ used["arrivals"] < MaxArrivals
                  /\ pending[active[cursor]] < MaxPending
                  /\ pending' = [pending EXCEPT ![active[cursor]] = @ + 1]
                  /\ used' = [used EXCEPT !["arrivals"] = @ + 1]
    /\ UNCHANGED <<active, current, due, failures, healthy, db, registry, leased>>
    /\ UNCHANGED <<lifeVars, late>>

\* Mistake: claim's subquery is taken to find a row always.
AlwaysWork(t) == TRUE

HasWork(t) == pending[t] > 0

\* process_once, one tenant: claim a task ...
ScanClaim ==
    /\ pc = "scan"
    /\ cursor <= Len(active)
    /\ db
    /\ HasWork(active[cursor])
    /\ pending' = [pending EXCEPT ![active[cursor]] = @ - 1]
    /\ current' = active[cursor]
    /\ late' = IF stop THEN late + 1 ELSE late
    /\ pc' = "running"
    /\ UNCHANGED <<active, cursor, due, failures, healthy, leased>>
    /\ UNCHANGED <<lifeVars, envVars>>

\* ... or go on to the next one.
ScanEmpty ==
    /\ pc = "scan"
    /\ cursor <= Len(active)
    /\ db
    /\ ~HasWork(active[cursor])
    /\ cursor' = cursor + 1
    /\ UNCHANGED <<pc, active, current, due, failures, healthy>>
    /\ UNCHANGED <<lifeVars, envVars, taskVars, late>>

\* Mistake: the counter is reset and the probe is not told.
RecoveredSilently ==
    /\ failures' = 0
    /\ UNCHANGED healthy

\* An iteration ended without an exception: "if failures: ... on_health(True)".
Recovered ==
    /\ failures' = 0
    /\ healthy' = IF failures > 0 THEN TRUE ELSE healthy

\* A full round of tenants yielded nothing: sleep.
ScanDone ==
    /\ pc = "scan"
    /\ cursor > Len(active)
    /\ pc' = "idle"
    /\ Recovered
    /\ UNCHANGED <<active, cursor, current, due>>
    /\ UNCHANGED <<lifeVars, envVars, taskVars, late>>

\* The handler returned and its result is written.
RunDone ==
    /\ pc = "running"
    /\ db
    /\ pc' = "check"
    /\ Recovered
    /\ UNCHANGED <<active, cursor, current, due>>
    /\ UNCHANGED <<lifeVars, envVars, taskVars, late>>

\* The task in work stays under its lease.
LeftBehind == leased' = [leased EXCEPT ![current] = @ + 1]

\* A heartbeat raised, or found that another process has the task by now (which
\* may leave it behind in its turn, or settle it): _run_renewing gives the attempt
\* up without an exception, so process_once returns as if it had been processed.
RunLost ==
    /\ pc = "running"
    /\ \/ ~db /\ LeftBehind /\ UNCHANGED used
       \/ db /\ Spend("faults", MaxFaults) /\ (LeftBehind \/ UNCHANGED leased)
    /\ pc' = "check"
    /\ Recovered
    /\ UNCHANGED <<active, cursor, current, due, pending>>
    /\ UNCHANGED <<lifeVars, db, registry, late>>

\* Mistake: the failed iteration is logged only.
HealthUnreported == healthy

\* on_health(False)
HealthAfterFailure == FALSE

\* Claim, refresh or result write raised.  The delay is computed before the
\* loop sleeps, and 2.0 ** (failures - 1) can itself raise: that exception is
\* outside the try and ends run_worker.
Failed ==
    /\ ~db
    /\ failures <= MaxFailures
    /\ \/ pc = "refresh"
       \/ pc = "scan" /\ cursor <= Len(active)
       \/ pc = "running"
    /\ failures' = failures + 1
    /\ healthy' = HealthAfterFailure
    /\ pc' = IF failures >= FloatExponentLimit THEN "died" ELSE "backoff"
    /\ IF pc = "running" THEN LeftBehind ELSE UNCHANGED leased
    /\ UNCHANGED <<active, cursor, current, due, pending>>
    /\ UNCHANGED <<lifeVars, envVars, late>>

\* The back-off or the idle sleep is over, or the stop event cut it short.
Wake ==
    /\ pc \in {"backoff", "idle"}
    /\ pc' = "check"
    /\ UNCHANGED <<active, cursor, current, due, failures, healthy>>
    /\ UNCHANGED <<lifeVars, envVars, taskVars, late>>

\* TENANT_REFRESH_SECONDS have passed.
RefreshDue ==
    /\ ~due
    /\ pc \notin Ended
    /\ due' = TRUE
    /\ UNCHANGED <<pc, active, cursor, current, failures, healthy>>
    /\ UNCHANGED <<lifeVars, envVars, taskVars, late>>

-----------------------------------------------------------------------------
(* RuntimeLifecycle *)

Startup ==
    /\ life = "new"
    /\ life' = "serving"
    /\ accepting' = TRUE
    /\ pc' = "check"
    /\ UNCHANGED <<active, cursor, current, due, failures, healthy, stop, pool>>
    /\ UNCHANGED <<envVars, taskVars, late>>

\* shutdown up to its first await: readiness goes, then the stop event is set.
Shutdown ==
    /\ life = "serving"
    /\ accepting' = FALSE
    /\ stop' = TRUE
    /\ life' = "draining"
    /\ UNCHANGED <<loopVars, pool>>
    /\ UNCHANGED <<envVars, taskVars, late>>

\* Mistake: the drain waits for the task in work however long it takes.
NoTimeout == FALSE

\* The drain_timeout is over while the loop still runs.
TimeoutExpires == pc \notin Ended

\* The drain is given up: cancel().
DrainTimeout ==
    /\ life = "draining"
    /\ TimeoutExpires
    /\ life' = "cancelling"
    /\ UNCHANGED <<loopVars, accepting, stop, pool>>
    /\ UNCHANGED <<envVars, taskVars, late>>

\* The CancelledError has gone through the loop and the handler in work, however
\* long the handler's own finally clauses took.
LoopCancelled ==
    /\ life = "cancelling"
    /\ pc \notin Ended
    /\ pc' = "ended"
    /\ IF pc = "running" THEN LeftBehind ELSE UNCHANGED leased
    /\ UNCHANGED <<active, cursor, current, due, failures, healthy>>
    /\ UNCHANGED <<lifeVars, envVars, pending, late>>

\* Mistake: a loop that was cancelled is not awaited.
LoopOverOrCancelled == pc \in Ended \/ life = "cancelling"

LoopOver == pc \in Ended

\* shutdown's await of the loop returns, in drain_timeout or after the cancel().
Drained ==
    /\ life \in {"draining", "cancelling"}
    /\ LoopOver
    /\ life' = "closing"
    /\ UNCHANGED <<loopVars, accepting, stop, pool>>
    /\ UNCHANGED <<envVars, taskVars, late>>

\* on_close: the pool is closed.
Close ==
    /\ life = "closing"
    /\ pool' = "closed"
    /\ life' = "stopped"
    /\ UNCHANGED <<loopVars, accepting, stop>>
    /\ UNCHANGED <<envVars, taskVars, late>>

-----------------------------------------------------------------------------
(* The database, the tenants and their users *)

DbDown ==
    /\ db
    /\ Spend("faults", MaxFaults)
    /\ db' = FALSE
    /\ UNCHANGED <<loopVars, lifeVars, taskVars, late, registry>>

DbUp ==
    /\ ~db
    /\ db' = TRUE
    /\ UNCHANGED <<loopVars, lifeVars, taskVars, late, registry, used>>

\* A tenant is created or suspended, and the loop's copy does not know yet.
TenantChanges(t) ==
    /\ db
    /\ Spend("churn", MaxChurn)
    /\ registry' = IF t \in registry THEN registry \ {t} ELSE registry \cup {t}
    /\ UNCHANGED <<loopVars, lifeVars, taskVars, late, db>>

Arrive(t) ==
    /\ db
    /\ t \in registry
    /\ pending[t] < MaxPending
    /\ t \in Busy \/ used["arrivals"] < MaxArrivals
    /\ pending' = [pending EXCEPT ![t] = @ + 1]
    /\ used' = IF t \in Busy THEN used ELSE [used EXCEPT !["arrivals"] = @ + 1]
    /\ UNCHANGED <<loopVars, lifeVars, late, leased, db, registry>>

\* The lease on an abandoned task runs out: claim may take it again.
LeaseExpires(t) ==
    /\ leased[t] > 0
    /\ leased' = [leased EXCEPT ![t] = @ - 1]
    /\ pending' = [pending EXCEPT ![t] = @ + 1]
    /\ UNCHANGED <<loopVars, lifeVars, envVars, late>>

-----------------------------------------------------------------------------
\* A loop that is cancelled takes no step of its own any more.
Loop ==
    /\ life # "cancelling"
    /\ \/ Check
       \/ Refresh
       \/ Schedule
       \/ ScanClaim
       \/ ScanEmpty
       \/ ScanDone
       \/ RunDone
       \/ RunLost
       \/ Failed
       \/ Wake

Next ==
    \/ Loop
    \/ RefreshDue
    \/ Startup
    \/ Shutdown
    \/ Drained
    \/ DrainTimeout
    \/ LoopCancelled
    \/ Close
    \/ DbDown
    \/ DbUp
    \/ \E t \in Tenants : TenantChanges(t)
    \/ \E t \in Tenants : Arrive(t)
    \/ \E t \in Tenants : LeaseExpires(t)

Spec == Init /\ [][Next]_vars

\* The event loop runs what is ready, timers fire, an outage ends and leases run
\* out.  That a handler returns by itself is not assumed: the properties that need
\* it say so (HandlersReturn).  That a cancelled handler ends is: none of them
\* catches CancelledError, and what they await in a finally clause is bounded.
Fairness ==
    /\ WF_vars(Startup)
    /\ WF_vars(Loop /\ pc # "running")
    /\ WF_vars(RefreshDue)
    /\ WF_vars(Drained)
    /\ WF_vars(DrainTimeout)
    /\ WF_vars(LoopCancelled)
    /\ WF_vars(Close)
    /\ WF_vars(DbUp)
    /\ \A t \in Tenants : WF_vars(LeaseExpires(t))

FairSpec == Spec /\ Fairness

-----------------------------------------------------------------------------
(* Safety *)

\* The pool is closed only once no iteration of the loop can use it any more.
PoolOutlivesLoop ==
    pool = "closed" => pc \in Ended

\* After the stop event at most the iteration in progress claims a task.
OneLateClaimAtMost ==
    late <= 1

\* /readyz says 503 for as long as iterations fail, and from the first moment of
\* a shutdown on.
ReadinessIsHonest ==
    Ready => failures = 0 /\ ~stop

\* "A database outage ... must not end the loop": it ends by the stop event only.
OutageDoesNotEndLoop ==
    pc # "died"

-----------------------------------------------------------------------------
(* Liveness *)

HandlersReturn == []<>(pc # "running")

\* A shutdown completes even if the handler in work never returns by itself.
ShutdownCompletes ==
    stop ~> life = "stopped"

\* Readiness comes back by itself after an outage.
ReadyAgain ==
    HandlersReturn => (life = "serving" ~> Ready \/ stop)

\* Every active tenant's ready work is claimed, tenants created after the worker
\* started included, unless the process is told to stop.
EveryTenantServed ==
    HandlersReturn =>
        \A t \in Tenants :
            pending[t] > 0 /\ t \in registry
            ~> \/ pending[t] = 0
               \/ stop
               \/ t \notin registry
=============================================================================
