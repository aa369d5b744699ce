---------------------------- MODULE WorkerTasks ----------------------------
(***************************************************************************)
(* The durable task queue: the worker_tasks table                          *)
(* (teamEvolver/runtime/repository.py, database/schema/001_init.sql), the  *)
(* worker's claim -> run handler -> write fenced result protocol           *)
(* (teamEvolver/runtime/worker.py) and the job endpoints that cancel and   *)
(* re-queue a task (teamEvolver/operations/api).                           *)
(*                                                                         *)
(* Each action is one PostgreSQL transaction, or one local step of a       *)
(* worker process between two transactions.  A row's lease_until and       *)
(* available_at are kept as the time left on the database clock, so Tick   *)
(* is the passing of that clock for every row at once.                     *)
(***************************************************************************)
EXTENDS Integers, Sequences

CONSTANTS
    Tasks,            \* task ids of one tenant
    NoTask,           \* no task id: what an idle worker works on
    Workers,          \* worker processes
    OwnerId,          \* [Workers -> owner id], hostname:pid; may be shared
    NoOwner,          \* the empty owner_id
    DedupeKey,        \* [Tasks -> dedupe key], kind and dedupe_key together
    NoKey,            \* the empty dedupe_key: never deduplicated
    ReconcileCancel,  \* tasks whose handler sets reconcile_cancellation
    MaxAttempts,      \* DEFAULT_MAX_ATTEMPTS
    LeaseTicks,       \* lease_seconds, in ticks
    RetryBackoff,     \* RETRY_BACKOFF_SECONDS, in ticks
    HandlerBackoffs,  \* the backoff_seconds a handler may ask for, in ticks
    MaxStalls         \* bound: stalls, crashes, parked attempts and re-queues

ASSUME NoTaskAssumption == NoTask \notin Tasks
ASSUME OwnerAssumption == \A w \in Workers : OwnerId[w] # NoOwner
ASSUME LimitsAssumption ==
    /\ MaxAttempts \in Nat \ {0}
    /\ LeaseTicks \in Nat \ {0}
    /\ MaxStalls \in Nat
    /\ RetryBackoff \in Seq(Nat)
    /\ RetryBackoff # << >>
    /\ HandlerBackoffs \subseteq Nat

VARIABLES
    row,      \* worker_tasks, by task id
    worker,   \* what each worker process is doing
    commit,   \* fence of the last attempt that committed domain state
    settled,  \* fence of the last attempt whose result was accepted
    stalls    \* how much of MaxStalls is used up

vars == <<row, worker, commit, settled, stalls>>

-----------------------------------------------------------------------------
(* Types *)

Terminal == {"succeeded", "failed", "cancelled"}
Waiting  == {"queued", "retry_wait"}
Active   == {"running", "reconciling", "waiting_external"}
Status   == {"absent"} \cup Waiting \cup Active \cup Terminal

Outcomes == {"succeed", "fail", "retry", "wait_external", "reconcile", "cancelled"}

NullLease == -1     \* lease_until IS NULL; 0 is an expired lease

Owners == {OwnerId[w] : w \in Workers}

TaskRow == [status  : Status,
            attempt : Nat,
            fence   : Nat,
            owner   : Owners \cup {NoOwner},
            lease   : Nat \cup {NullLease},
            delay   : Nat,
            cancel  : BOOLEAN]

NoRow == [status |-> "absent", attempt |-> 0, fence |-> 0, owner |-> NoOwner,
          lease |-> NullLease, delay |-> 0, cancel |-> FALSE]

\* The ClaimedTask a worker works from, and where it is in process_once.
Attempt == [pc      : {"idle", "handler", "write"},
            task    : Tasks \cup {NoTask},
            attempt : Nat,
            fence   : Nat,
            outcome : Outcomes \cup {"none"}]

Idle == [pc |-> "idle", task |-> NoTask, attempt |-> 0, fence |-> 0,
         outcome |-> "none"]

TypeOK ==
    /\ row \in [Tasks -> TaskRow]
    /\ worker \in [Workers -> Attempt]
    /\ \A w \in Workers : worker[w].pc # "idle" => worker[w].task \in Tasks
    /\ commit \in [Tasks -> Nat]
    /\ settled \in [Tasks -> Nat]
    /\ stalls \in 0..MaxStalls

Init ==
    /\ row = [t \in Tasks |-> NoRow]
    /\ worker = [w \in Workers |-> Idle]
    /\ commit = [t \in Tasks |-> 0]
    /\ settled = [t \in Tasks |-> 0]
    /\ stalls = 0

-----------------------------------------------------------------------------
(* The table's guards.  A definition marked "Mistake" is not part of the     *)
(* model: it is a plausible error in the definition below it, which one of   *)
(* the properties has to rule out.                                           *)

Live(t) == row[t].status \notin Terminal \cup {"absent"}

\* Mistake: the index covers the rows that wait, and forgets the ones in work.
KeyFreeAmongWaiting(t) ==
    \/ DedupeKey[t] = NoKey
    \/ \A u \in Tasks \ {t} : row[u].status \in Waiting => DedupeKey[u] # DedupeKey[t]

\* worker_tasks_dedupe_idx: no other live row has t's key.
KeyFree(t) ==
    \/ DedupeKey[t] = NoKey
    \/ \A u \in Tasks \ {t} : Live(u) => DedupeKey[u] # DedupeKey[t]

\* Mistake: any row with an expired lease, whatever its status.
ClaimableByLease(t) ==
    /\ row[t].delay = 0
    /\ row[t].status \in Waiting \/ row[t].lease = 0

\* Mistake: parked tasks are not recovered.
ClaimableUnlessParked(t) ==
    /\ row[t].delay = 0
    /\ \/ row[t].status \in Waiting
       \/ row[t].status \in {"running", "reconciling"} /\ row[t].lease = 0

\* The WHERE clause of claim: due, and either waiting or abandoned.
Claimable(t) ==
    /\ row[t].delay = 0
    /\ \/ row[t].status \in Waiting
       \/ row[t].status \in Active /\ row[t].lease = 0

\* The row of the task that worker w has claimed.
Held(w) == row[worker[w].task]

\* Mistake: the owner_id alone identifies the attempt.
FencedByOwner(w, from) ==
    /\ row[worker[w].task].owner = OwnerId[w]
    /\ row[worker[w].task].status \in from

\* The owner_id + fence + status guard of every result write.
Fenced(w, from) ==
    LET r == row[worker[w].task]
    IN  /\ r.owner = OwnerId[w]
        /\ r.fence = worker[w].fence
        /\ r.status \in from

\* Mistake: the lease is current, but whose attempt it is goes unchecked.
RequireLease(w) ==
    LET r == row[worker[w].task]
    IN  /\ r.owner = OwnerId[w]
        /\ r.status \in {"running", "reconciling"}
        /\ r.lease > 0
        /\ worker[w].task \in ReconcileCancel \/ ~r.cancel

\* require_current, taken FOR UPDATE in the transaction that commits.
RequireCurrent(w) ==
    LET r == row[worker[w].task]
    IN  /\ Fenced(w, {"running", "reconciling"})
        /\ r.attempt = worker[w].attempt
        /\ r.lease > 0
        /\ worker[w].task \in ReconcileCancel \/ ~r.cancel

BackoffForAttempt(n) ==
    RetryBackoff[IF n < Len(RetryBackoff) THEN n ELSE Len(RetryBackoff)]

\* Mistake: the attempt that reaches the cap is retried as well.
RetryAtCap(n) == n <= MaxAttempts

MayRetry(n) == n < MaxAttempts

\* Spend one unit of the bound on disturbances.
Stall ==
    /\ stalls < MaxStalls
    /\ stalls' = stalls + 1

-----------------------------------------------------------------------------
(* Callers: enqueue, request_cancel, requeue *)

\* enqueue with available_in_seconds = d.  A live row with the same key makes
\* it return that row's id, and a row with this id makes the INSERT fail: both
\* leave the table as it is.
Enqueue(t, d) ==
    /\ row[t].status = "absent"
    /\ KeyFree(t)
    /\ row' = [row EXCEPT ![t] = [NoRow EXCEPT !.status = "queued", !.delay = d]]
    /\ UNCHANGED <<worker, commit, settled, stalls>>

\* Mistake: a task in work is given a status of its own.
CancellingStatus(status) ==
    IF status \in Waiting THEN "cancelled" ELSE "cancelling"

CancelledStatus(status) ==
    IF status \in Waiting THEN "cancelled" ELSE status

RequestCancel(t) ==
    /\ Live(t)
    /\ ~row[t].cancel
    /\ row' = [row EXCEPT ![t] = [row[t] EXCEPT !.cancel = TRUE,
                                                !.status = CancelledStatus(row[t].status)]]
    /\ UNCHANGED <<worker, commit, settled, stalls>>

\* Mistake: a fresh attempt starts from a fresh fence.
RequeuedAfresh(r) == [NoRow EXCEPT !.status = "queued"]

Requeued(r) == [r EXCEPT !.status = "queued", !.owner = NoOwner,
                         !.lease = NullLease, !.cancel = FALSE, !.delay = 0]

\* retry_job reads the row in one transaction and re-queues in another; only
\* the second one's WHERE clause decides.
Requeue(t) ==
    /\ row[t].status = "failed"
    /\ KeyFree(t)
    /\ Stall
    /\ row' = [row EXCEPT ![t] = Requeued(row[t])]
    /\ UNCHANGED <<worker, commit, settled>>

-----------------------------------------------------------------------------
(* A worker's attempt: claim, handler, heartbeat *)

\* Mistake: the owner changes hands and the fence does not.
SameFence(r) == r.fence

NextFence(r) == r.fence + 1

\* claim, and the branch of process_once that answers a cancel before the
\* handler starts.
Claim(w, t) ==
    /\ worker[w].pc = "idle"
    /\ Claimable(t)
    /\ row' = [row EXCEPT ![t] = [row[t] EXCEPT !.status = "running",
                                                !.owner = OwnerId[w],
                                                !.attempt = row[t].attempt + 1,
                                                !.fence = NextFence(row[t]),
                                                !.lease = LeaseTicks]]
    /\ LET refuse == row[t].cancel /\ t \notin ReconcileCancel
       IN  worker' = [worker EXCEPT ![w] =
                        [pc      |-> IF refuse THEN "write" ELSE "handler",
                         task    |-> t,
                         attempt |-> row[t].attempt + 1,
                         fence   |-> NextFence(row[t]),
                         outcome |-> IF refuse THEN "cancelled" ELSE "none"]]
    /\ UNCHANGED <<commit, settled, stalls>>

\* A handler commits domain state in the transaction that locked its attempt.
DomainCommit(w) ==
    /\ worker[w].pc = "handler"
    /\ RequireCurrent(w)
    /\ commit' = [commit EXCEPT ![worker[w].task] = worker[w].fence]
    /\ UNCHANGED <<row, worker, settled, stalls>>

\* The handler returns a HandlerResult, or raises: process_once turns an
\* exception (a failed require_current is one) into a retry.  Outcomes that
\* park the attempt without an end count against the bound.
HandlerReturns(w, outcome) ==
    /\ worker[w].pc = "handler"
    /\ IF outcome \in {"wait_external", "reconcile"} THEN Stall ELSE UNCHANGED stalls
    /\ worker' = [worker EXCEPT ![w] = [worker[w] EXCEPT !.pc = "write",
                                                         !.outcome = outcome]]
    /\ UNCHANGED <<row, commit, settled>>

\* _run_renewing: every lease_seconds/3 the lease is extended ...
Heartbeat(w) ==
    /\ worker[w].pc = "handler"
    /\ Fenced(w, Active)
    /\ row[worker[w].task].lease \in 1..(LeaseTicks - 1)
    /\ row' = [row EXCEPT ![worker[w].task] = [Held(w) EXCEPT !.lease = LeaseTicks]]
    /\ UNCHANGED <<worker, commit, settled, stalls>>

\* ... and when that fails the handler is cancelled and nothing is written.
HeartbeatLost(w) ==
    /\ worker[w].pc = "handler"
    /\ ~(Fenced(w, Active) /\ row[worker[w].task].lease > 0)
    /\ worker' = [worker EXCEPT ![w] = Idle]
    /\ UNCHANGED <<row, commit, settled, stalls>>

\* The process dies, is drained, or cannot reach PostgreSQL for a heartbeat or
\* a result write: the attempt ends and the row keeps its lease.
Abandon(w) ==
    /\ worker[w].pc # "idle"
    /\ Stall
    /\ worker' = [worker EXCEPT ![w] = Idle]
    /\ UNCHANGED <<row, commit, settled>>

-----------------------------------------------------------------------------
(* _write: one transition of the row per outcome, or a rejected write *)

\* The states each result write may start from.
FromStates(outcome) ==
    CASE outcome = "wait_external" -> {"running"}
      [] outcome = "reconcile"     -> {"running", "waiting_external"}
      [] OTHER                     -> Active

\* Mistake: the write is sent again, as after a connection lost at commit.
StillWriting(w) == worker[w]

AfterWrite(w) == Idle

WriteResult(w, outcome, new) ==
    /\ worker[w].pc = "write"
    /\ worker[w].outcome = outcome
    /\ Fenced(w, FromStates(outcome))
    /\ row' = [row EXCEPT ![worker[w].task] = new]
    /\ worker' = [worker EXCEPT ![w] = AfterWrite(w)]
    /\ settled' = [settled EXCEPT ![worker[w].task] = worker[w].fence]
    /\ UNCHANGED <<commit, stalls>>

Succeed(w) == WriteResult(w, "succeed", [Held(w) EXCEPT !.status = "succeeded"])

Fail(w) == WriteResult(w, "fail", [Held(w) EXCEPT !.status = "failed"])

MarkCancelled(w) == WriteResult(w, "cancelled", [Held(w) EXCEPT !.status = "cancelled"])

Retry(w) ==
    /\ worker[w].pc = "write"
    /\ MayRetry(worker[w].attempt)
    /\ \E b \in HandlerBackoffs \cup {BackoffForAttempt(worker[w].attempt)} :
          WriteResult(w, "retry", [Held(w) EXCEPT !.status = "retry_wait",
                                                  !.owner = NoOwner,
                                                  !.lease = NullLease,
                                                  !.delay = b])

RetriesExhausted(w) ==
    /\ ~MayRetry(worker[w].attempt)
    /\ WriteResult(w, "retry", [Held(w) EXCEPT !.status = "failed"])

\* Mistake: a parked task gives its lease up.
ParkedUnleased(r, status) == [r EXCEPT !.status = status, !.lease = NullLease]

\* The attempt ends and the row keeps its owner and lease, so that the task is
\* claimed again when the lease runs out.
Parked(r, status) == [r EXCEPT !.status = status]

WaitExternal(w) ==
    WriteResult(w, "wait_external", Parked(Held(w), "waiting_external"))

Reconcile(w) == WriteResult(w, "reconcile", Parked(Held(w), "reconciling"))

\* A newer attempt took the row, or the row left the states this write may
\* start from: the UPDATE matches nothing.
RejectedWrite(w) ==
    /\ worker[w].pc = "write"
    /\ ~Fenced(w, FromStates(worker[w].outcome))
    /\ worker' = [worker EXCEPT ![w] = Idle]
    /\ UNCHANGED <<row, commit, settled, stalls>>

-----------------------------------------------------------------------------
(* The database clock *)

Dec(n) == IF n > 0 THEN n - 1 ELSE n

\* Workers still inside process_once on task t's current attempt.
Holders(t) ==
    {w \in Workers : /\ worker[w].pc # "idle"
                     /\ worker[w].task = t
                     /\ worker[w].fence = row[t].fence}

\* A tick that lets a lease run out under a worker that is still at it counts
\* as a stall of that worker: its renewals did not come in time.
Tick ==
    /\ \E t \in Tasks : row[t].lease > 0 \/ row[t].delay > 0
    /\ row' = [t \in Tasks |-> [row[t] EXCEPT !.lease = Dec(row[t].lease),
                                              !.delay = Dec(row[t].delay)]]
    /\ IF \E t \in Tasks : row[t].lease = 1 /\ row[t].status \in Active /\ Holders(t) # {}
       THEN Stall
       ELSE UNCHANGED stalls
    /\ UNCHANGED <<worker, commit, settled>>

-----------------------------------------------------------------------------
Write(w) ==
    \/ Succeed(w)
    \/ Fail(w)
    \/ MarkCancelled(w)
    \/ Retry(w)
    \/ RetriesExhausted(w)
    \/ WaitExternal(w)
    \/ Reconcile(w)
    \/ RejectedWrite(w)

Next ==
    \/ \E t \in Tasks, d \in {0} \cup HandlerBackoffs : Enqueue(t, d)
    \/ \E t \in Tasks : RequestCancel(t)
    \/ \E t \in Tasks : Requeue(t)
    \/ \E w \in Workers, t \in Tasks : Claim(w, t)
    \/ \E w \in Workers : DomainCommit(w)
    \/ \E w \in Workers, o \in Outcomes : HandlerReturns(w, o)
    \/ \E w \in Workers : Heartbeat(w)
    \/ \E w \in Workers : HeartbeatLost(w)
    \/ \E w \in Workers : Abandon(w)
    \/ \E w \in Workers : Write(w)
    \/ Tick

Spec == Init /\ [][Next]_vars

\* A worker that is not drained or stalled keeps taking its steps, the database
\* clock advances, and the claim query's ORDER BY available_at passes over no
\* ready task for ever.  Callers and domain commits owe nothing.
Fairness ==
    /\ \A t \in Tasks : WF_vars(\E w \in Workers : Claim(w, t))
    /\ \A w \in Workers : /\ WF_vars(\E o \in Outcomes : HandlerReturns(w, o))
                          /\ WF_vars(Heartbeat(w))
                          /\ WF_vars(HeartbeatLost(w))
                          /\ WF_vars(Write(w))
    /\ WF_vars(Tick)

FairSpec == Spec /\ Fairness

-----------------------------------------------------------------------------
(* Safety *)

\* Two worker processes are never inside process_once on the same attempt of a
\* task: claim takes a fence nobody else holds, even when the processes share
\* an owner_id.
OneHolderPerFence ==
    \A v, w \in Workers :
        /\ v # w
        /\ worker[v].pc # "idle" /\ worker[w].pc # "idle"
        /\ worker[v].task = worker[w].task
        => worker[v].fence # worker[w].fence

\* An attempt that still holds the row's fence has had no result accepted, so
\* _write is applied at most once per attempt.
ResultAcceptedOnce ==
    \A w \in Workers :
        /\ worker[w].pc # "idle"
        /\ worker[w].fence = row[worker[w].task].fence
        => settled[worker[w].task] < worker[w].fence

\* A row that no attempt is working on or has parked got there through the
\* latest attempt's own result, never through a superseded one's late write.
RestingRowsSettled ==
    \A t \in Tasks : row[t].status \notin Active => settled[t] = row[t].fence

\* worker_tasks_dedupe_idx, which enqueue and the re-queue of a failed job have
\* to respect: at most one live row per (kind, dedupe_key).
OneLiveRowPerKey ==
    \A t, u \in Tasks :
        /\ t # u
        /\ DedupeKey[t] # NoKey
        /\ Live(t)
        /\ Live(u)
        => DedupeKey[t] # DedupeKey[u]

\* No live row is out of claim's reach for ever: an active one keeps an owner
\* and a lease that runs out, a waiting one has neither.
EveryLiveRowReclaimable ==
    \A t \in Tasks :
        /\ row[t].status \in Active => row[t].owner # NoOwner /\ row[t].lease # NullLease
        /\ row[t].status \in Waiting => row[t].owner = NoOwner /\ row[t].lease = NullLease

\* _write schedules no retry once the cap on attempts is reached.
RetryUnderCap ==
    \A t \in Tasks : row[t].status = "retry_wait" => row[t].attempt < MaxAttempts

-----------------------------------------------------------------------------
(* What a step may never do *)

\* Domain commits of a task follow the order of its fences: once a newer attempt
\* has committed, an older one never does.
CommitsFollowFences ==
    [][\A t \in Tasks : commit[t] <= commit'[t]]_vars

\* A terminal row never changes again, except that a failed one is re-queued by
\* an operator, which keeps its fence.
TerminalIsFinal ==
    [][\A t \in Tasks :
          row[t].status \in Terminal /\ row'[t].status # row[t].status
          => /\ row[t].status = "failed"
             /\ row'[t].status = "queued"
             /\ row'[t].fence = row[t].fence]_vars

-----------------------------------------------------------------------------
(* Liveness *)

\* Every accepted task reaches a terminal status, whatever mixture of stalls,
\* crashes, parked attempts and retries (within the bound) it goes through.
EveryTaskSettles ==
    \A t \in Tasks : Live(t) ~> ~Live(t)

-----------------------------------------------------------------------------
(* The promise to callers *)

Queue == INSTANCE FencedQueue
    WITH st <- [t \in Tasks |-> IF Live(t) THEN "open" ELSE row[t].status],
         epoch <- [t \in Tasks |-> row[t].fence]

\* The table and the workers implement FencedQueue.
ImplementsFencedQueue == Queue!Spec

-----------------------------------------------------------------------------
(* The promise to handlers *)

\* The row a domain module keeps of a task: without the clock and the owner, and
\* with one status for the parked attempts.
Rows == INSTANCE TaskAttempts

Seen(r) == [status |-> IF r.status = "waiting_external" THEN "reconciling" ELSE r.status,
            n      |-> r.fence,
            leased |-> r.status \in Active /\ r.lease > 0,
            cancel |-> r.cancel]

SeenOutcome(outcome) == IF outcome = "wait_external" THEN "reconcile" ELSE outcome

\* An accepted result write, of the attempt that a worker is at.
SeenWrite(w, t) ==
    /\ worker[w].pc = "write" /\ worker[w].task = t /\ worker[w].outcome \in Outcomes
    /\ Rows!Fenced(Seen(row[t]), worker[w].fence)
    /\ Seen(row'[t]) = Rows!Written(Seen(row[t]), SeenOutcome(worker[w].outcome))

\* The steps TaskAttempts has: an enqueue, a claim of a waiting or abandoned row,
\* the result of an attempt, a cancel, a re-queue, and an expiry.
SeenStep(t) ==
    LET old == Seen(row[t])
        new == Seen(row'[t])
    IN  \/ new = old
        \/ old = Rows!Absent /\ new = Rows!Enqueued
        \/ Rows!Claimable(old) /\ new = Rows!Claimed(old)
        \/ \E w \in Workers : SeenWrite(w, t)
        \/ Rows!Cancellable(old) /\ new = Rows!CancelAsked(old)
        \/ Rows!Requeuable(old) /\ new = Rows!Requeued(old)
        \/ old.leased /\ new = [old EXCEPT !.leased = FALSE]

\* A handler commits domain state as the row's current attempt.
SeenCommit(t) ==
    \E w \in Workers : /\ worker[w].pc = "handler" /\ worker[w].task = t
                       /\ Rows!Current(Seen(row[t]), worker[w].fence)
                       /\ commit'[t] = worker[w].fence

\* Seen from a handler, the table and its workers do only what TaskAttempts has:
\* the clock, heartbeats, backoff, shared owner ids and the second counter make
\* no other difference to it, and no commit comes from a superseded attempt.
RowsAreAttempts ==
    [][\A t \in Tasks : SeenStep(t) /\ (commit'[t] # commit[t] => SeenCommit(t))]_vars
=============================================================================
