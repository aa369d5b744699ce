---------------------------- MODULE TaskAttempts ----------------------------
(***************************************************************************)
(* A task row as its handler sees it: what WorkerTasks promises, without   *)
(* the clock.  A lease is unexpired or not, a retry is due at any time,    *)
(* and since every claim adds one to both attempt and fence and nothing    *)
(* resets them, n stands for the two (and for the owner_id, which changes  *)
(* only with them).  The domain modules keep one such row per task.        *)
(***************************************************************************)
EXTENDS Naturals

CONSTANT MaxAttempts    \* DEFAULT_MAX_ATTEMPTS

ASSUME MaxAttemptsAssumption == MaxAttempts \in Nat \ {0}

Terminal == {"succeeded", "failed", "cancelled"}
Waiting  == {"queued", "retry_wait"}
Active   == {"running", "reconciling"}
Outcomes == {"succeed", "fail", "cancelled", "retry", "reconcile"}

TaskRow == [status : {"absent"} \cup Waiting \cup Active \cup Terminal,
            n      : Nat,
            leased : BOOLEAN,
            cancel : BOOLEAN]

Absent == [status |-> "absent", n |-> 0, leased |-> FALSE, cancel |-> FALSE]

\* enqueue of a new task id.
Enqueued == [Absent EXCEPT !.status = "queued"]

\* The WHERE clause and the SET list of claim.
Claimable(row) ==
    \/ row.status \in Waiting
    \/ row.status \in Active /\ ~row.leased

Claimed(row) == [row EXCEPT !.status = "running", !.n = row.n + 1, !.leased = TRUE]

\* Mistake: whoever holds the lease is as good as the attempt that asks.
LeaseHeld(row, n) == row.status \in Active /\ row.leased

\* require_current(allow_cancel=True) of attempt n.
Current(row, n) == row.n = n /\ row.status \in Active /\ row.leased

\* The owner_id + fence + status guard of a result write: no look at the lease.
Fenced(row, n) == row.n = n /\ row.status \in Active

\* _write: the row after an accepted result of its current attempt.  What is
\* left of a lease matters to nobody unless the row stays active.
Written(row, outcome) ==
    CASE outcome = "succeed"   -> [row EXCEPT !.status = "succeeded", !.leased = FALSE]
      [] outcome = "fail"      -> [row EXCEPT !.status = "failed", !.leased = FALSE]
      [] outcome = "cancelled" -> [row EXCEPT !.status = "cancelled", !.leased = FALSE]
      [] outcome = "reconcile" -> [row EXCEPT !.status = "reconciling"]
      [] outcome = "retry"     -> [row EXCEPT !.status = IF row.n < MaxAttempts
                                                         THEN "retry_wait" ELSE "failed",
                                              !.leased = FALSE]

\* request_cancel and requeue, with their WHERE clauses.
Cancellable(row) == row.status \in Waiting \cup Active /\ ~row.cancel

\* Mistake: a task in work is given a status of its own.
CancellingInWork(row) ==
    [row EXCEPT !.cancel = TRUE,
                !.status = IF row.status \in Waiting THEN "cancelled" ELSE "cancelling"]

CancelAsked(row) ==
    [row EXCEPT !.cancel = TRUE,
                !.status = IF row.status \in Waiting THEN "cancelled" ELSE row.status]

Requeuable(row) == row.status = "failed"

Requeued(row) == [row EXCEPT !.status = "queued", !.leased = FALSE, !.cancel = FALSE]
=============================================================================
