-------------------------- MODULE WorkerTasksProofs --------------------------
(***************************************************************************)
(* Proofs about WorkerTasks for every set of tasks and workers, every      *)
(* assignment of owner ids and every value of the limits.                  *)
(***************************************************************************)
EXTENDS WorkerTasks, TLAPS

USE LimitsAssumption, NoTaskAssumption, OwnerAssumption

-----------------------------------------------------------------------------
(* Type correctness *)

\* An attempt's number is positive from its claim on, which is what makes the
\* backoff schedule's index legal.
AttemptPositive ==
    \A w \in Workers : worker[w].pc # "idle" => worker[w].attempt > 0

TypeInv == TypeOK /\ AttemptPositive

\* backoff_for_attempt stays inside the schedule for every attempt >= 1.
LEMMA BackoffType ==
    ASSUME NEW n \in Nat \ {0}
    PROVE  BackoffForAttempt(n) \in Nat
  BY DEF BackoffForAttempt

\* The row updates of the callers, of claim and of the clock keep a row's type.
LEMMA RowTypes ==
    ASSUME NEW r \in TaskRow
    PROVE  /\ Requeued(r) \in TaskRow
           /\ [r EXCEPT !.cancel = TRUE, !.status = CancelledStatus(r.status)] \in TaskRow
           /\ [r EXCEPT !.lease = Dec(r.lease), !.delay = Dec(r.delay)] \in TaskRow
           /\ \A w \in Workers :
                [r EXCEPT !.status = "running", !.owner = OwnerId[w],
                          !.attempt = r.attempt + 1, !.fence = NextFence(r),
                          !.lease = LeaseTicks] \in TaskRow
  <1> USE DEF TaskRow, Status, Waiting, Active, Terminal, NullLease
  <1>1. Requeued(r) \in TaskRow
    BY DEF Requeued
  <1>2. [r EXCEPT !.cancel = TRUE, !.status = CancelledStatus(r.status)] \in TaskRow
    BY DEF CancelledStatus
  <1>3. Dec(r.lease) \in Nat \cup {NullLease} /\ Dec(r.delay) \in Nat
    BY DEF Dec
  <1>4. [r EXCEPT !.lease = Dec(r.lease), !.delay = Dec(r.delay)] \in TaskRow
    BY <1>3
  <1>5. ASSUME NEW w \in Workers
        PROVE  [r EXCEPT !.status = "running", !.owner = OwnerId[w],
                         !.attempt = r.attempt + 1, !.fence = NextFence(r),
                         !.lease = LeaseTicks] \in TaskRow
    <2>1. OwnerId[w] \in Owners
      BY DEF Owners
    <2>2. NextFence(r) \in Nat /\ r.attempt + 1 \in Nat
      BY DEF NextFence
    <2> HIDE DEF NullLease
    <2> QED
      BY <2>1, <2>2
  <1> QED
    BY <1>1, <1>2, <1>4, <1>5

\* The row that enqueue inserts is a task row.
LEMMA NewRowType ==
    ASSUME NEW d \in Nat
    PROVE  [NoRow EXCEPT !.status = "queued", !.delay = d] \in TaskRow
  <1>1. NoRow \in TaskRow
    BY DEF NoRow, TaskRow, Status, NullLease
  <1> QED
    BY <1>1 DEF TaskRow, Status, Waiting

\* The count of disturbances stays within its bound.
LEMMA StallType ==
    ASSUME stalls \in 0..MaxStalls, Stall \/ UNCHANGED stalls
    PROVE  stalls' \in 0..MaxStalls
  BY DEF Stall

\* A worker that has dropped its attempt is well typed.
LEMMA IdleType == Idle \in Attempt
  BY DEF Idle, Attempt

\* A result write that stores a well-typed row keeps the state well typed.
LEMMA WriteResultType ==
    ASSUME TypeInv, NEW w \in Workers, NEW o \in Outcomes,
           NEW new \in TaskRow, WriteResult(w, o, new)
    PROVE  TypeInv'
  BY IdleType DEF TypeInv, TypeOK, AttemptPositive, WriteResult, AfterWrite, Idle, Attempt

\* Every step keeps the state well typed.
LEMMA TypeInvStep == TypeInv /\ [Next]_vars => TypeInv'
  <1> SUFFICES ASSUME TypeInv, [Next]_vars PROVE TypeInv'
    OBVIOUS
  <1> USE DEF TypeInv, TypeOK, AttemptPositive
  <1>1. ASSUME NEW t \in Tasks, NEW d \in {0} \cup HandlerBackoffs, Enqueue(t, d)
        PROVE  TypeInv'
    <2>1. [NoRow EXCEPT !.status = "queued", !.delay = d] \in TaskRow
      <3>1. d \in Nat
        OBVIOUS
      <3> QED
        BY <3>1, NewRowType
    <2> QED
      BY <1>1, <2>1 DEF Enqueue
  <1>2. ASSUME NEW t \in Tasks, RequestCancel(t) PROVE TypeInv'
    BY <1>2, RowTypes DEF RequestCancel
  <1>3. ASSUME NEW t \in Tasks, Requeue(t) PROVE TypeInv'
    <2>1. row' \in [Tasks -> TaskRow]
      BY <1>3, RowTypes DEF Requeue
    <2>2. stalls' \in 0..MaxStalls
      BY <1>3, StallType DEF Requeue
    <2> QED
      BY <1>3, <2>1, <2>2 DEF Requeue
  <1>4. ASSUME NEW w \in Workers, NEW t \in Tasks, Claim(w, t) PROVE TypeInv'
    <2>1. row' \in [Tasks -> TaskRow]
      BY <1>4, RowTypes DEF Claim
    <2>2. row[t].attempt \in Nat /\ row[t].fence \in Nat
      BY DEF TaskRow
    <2> DEFINE a == [pc      |-> IF row[t].cancel /\ t \notin ReconcileCancel
                                 THEN "write" ELSE "handler",
                     task    |-> t,
                     attempt |-> row[t].attempt + 1,
                     fence   |-> NextFence(row[t]),
                     outcome |-> IF row[t].cancel /\ t \notin ReconcileCancel
                                 THEN "cancelled" ELSE "none"]
    <2>3. a \in Attempt /\ a.task \in Tasks /\ a.attempt > 0
      BY <2>2 DEF NextFence, Attempt, Outcomes
    <2>4. worker' = [worker EXCEPT ![w] = a]
      BY <1>4 DEF Claim
    <2> HIDE DEF a
    <2> QED
      BY <1>4, <2>1, <2>3, <2>4 DEF Claim
  <1>5. ASSUME NEW w \in Workers, DomainCommit(w) PROVE TypeInv'
    BY <1>5 DEF DomainCommit, Attempt
  <1>6. ASSUME NEW w \in Workers, NEW o \in Outcomes, HandlerReturns(w, o)
        PROVE  TypeInv'
    <2>1. [worker[w] EXCEPT !.pc = "write", !.outcome = o] \in Attempt
      BY DEF Attempt
    <2>2. stalls' \in 0..MaxStalls
      BY <1>6, StallType DEF HandlerReturns
    <2> QED
      BY <1>6, <2>1, <2>2 DEF HandlerReturns
  <1>7. ASSUME NEW w \in Workers, Heartbeat(w) PROVE TypeInv'
    BY <1>7 DEF Heartbeat, Held, TaskRow
  <1>8. ASSUME NEW w \in Workers, HeartbeatLost(w) PROVE TypeInv'
    BY <1>8, IdleType DEF HeartbeatLost, Idle
  <1>9. ASSUME NEW w \in Workers, Abandon(w) PROVE TypeInv'
    <2>1. stalls' \in 0..MaxStalls
      BY <1>9, StallType DEF Abandon
    <2> QED
      BY <1>9, <2>1, IdleType DEF Abandon, Idle
  <1>10. ASSUME NEW w \in Workers, Write(w) PROVE TypeInv'
    <2> USE DEF Status, Waiting, Active, Terminal
    <2>1. worker[w].pc = "write" => Held(w) \in TaskRow
      BY DEF Held
    <2>2. CASE Succeed(w)
      BY <2>1, <2>2, WriteResultType DEF Succeed, WriteResult, TaskRow, Outcomes
    <2>3. CASE Fail(w)
      BY <2>1, <2>3, WriteResultType DEF Fail, WriteResult, TaskRow, Outcomes
    <2>4. CASE MarkCancelled(w)
      BY <2>1, <2>4, WriteResultType DEF MarkCancelled, WriteResult, TaskRow, Outcomes
    <2>5. CASE Retry(w)
      <3>1. PICK b \in HandlerBackoffs \cup {BackoffForAttempt(worker[w].attempt)} :
              WriteResult(w, "retry", [Held(w) EXCEPT !.status = "retry_wait",
                                                      !.owner = NoOwner,
                                                      !.lease = NullLease,
                                                      !.delay = b])
        BY <2>5 DEF Retry
      <3>2. b \in Nat
        BY <3>1, BackoffType DEF WriteResult, Attempt
      <3> QED
        BY <2>1, <3>1, <3>2, WriteResultType DEF WriteResult, TaskRow, Outcomes, NullLease
    <2>6. CASE RetriesExhausted(w)
      BY <2>1, <2>6, WriteResultType DEF RetriesExhausted, WriteResult, TaskRow, Outcomes
    <2>7. CASE WaitExternal(w)
      BY <2>1, <2>7, WriteResultType DEF WaitExternal, WriteResult, Parked, TaskRow, Outcomes
    <2>8. CASE Reconcile(w)
      BY <2>1, <2>8, WriteResultType DEF Reconcile, WriteResult, Parked, TaskRow, Outcomes
    <2>9. CASE RejectedWrite(w)
      BY <2>9, IdleType DEF RejectedWrite, Idle
    <2> QED
      BY <1>10, <2>2, <2>3, <2>4, <2>5, <2>6, <2>7, <2>8, <2>9 DEF Write
  <1>11. CASE Tick
    <2>1. row' \in [Tasks -> TaskRow]
      <3>1. \A t \in Tasks : [row[t] EXCEPT !.lease = Dec(row[t].lease),
                                           !.delay = Dec(row[t].delay)] \in TaskRow
        BY RowTypes
      <3> QED
        BY <1>11, <3>1 DEF Tick
    <2>2. stalls' \in 0..MaxStalls
      <3>1. Stall \/ UNCHANGED stalls
        BY <1>11 DEF Tick
      <3> QED
        BY <3>1, StallType
    <2> QED
      BY <1>11, <2>1, <2>2 DEF Tick
  <1>12. CASE UNCHANGED vars
    BY <1>12 DEF vars
  <1> QED
    BY <1>1, <1>2, <1>3, <1>4, <1>5, <1>6, <1>7, <1>8, <1>9, <1>10, <1>11, <1>12
    DEF Next

\* The table and the worker processes stay within their types under every
\* interleaving of claims, heartbeats, results, cancels, re-queues and crashes.
THEOREM TypeCorrect == Spec => []TypeOK
  <1>1. Init => TypeInv
    BY IdleType DEF Init, TypeInv, TypeOK, AttemptPositive, NoRow, TaskRow, Status,
                    NullLease, Idle
  <1>2. TypeInv => TypeOK
    BY DEF TypeInv
  <1> QED
    BY <1>1, <1>2, TypeInvStep, PTL DEF Spec

-----------------------------------------------------------------------------
(* Fencing *)

\* Fences only grow at a claim: nobody holds one the row has not given out, and
\* attempt numbers are the fences themselves.
FencesBounded ==
    /\ \A t \in Tasks : /\ commit[t] <= row[t].fence
                        /\ settled[t] <= row[t].fence
                        /\ row[t].attempt = row[t].fence
                        /\ row[t].status = "absent" => row[t].fence = 0
    /\ \A w \in Workers : worker[w].pc # "idle" =>
          /\ worker[w].fence <= row[worker[w].task].fence
          /\ worker[w].attempt = worker[w].fence

\* OneHolderPerFence, ResultAcceptedOnce and RestingRowsSettled support one
\* another: a claim can reuse no fence, the only holder of a fence is the only
\* one who can settle it, and a row that rests has no holder left to write.
FenceInv ==
    /\ TypeInv
    /\ FencesBounded
    /\ OneHolderPerFence
    /\ ResultAcceptedOnce
    /\ RestingRowsSettled

\* The fields of a row have the types the column constraints give them.
LEMMA RowFields ==
    ASSUME TypeInv, NEW t \in Tasks
    PROVE  /\ row[t].fence \in Nat
           /\ row[t].attempt \in Nat
           /\ row[t].lease \in Nat \cup {NullLease}
           /\ commit[t] \in Nat
           /\ settled[t] \in Nat
  BY DEF TypeInv, TypeOK, TaskRow

\* A worker inside process_once works on a task, with a fence of its own.
LEMMA AttemptFields ==
    ASSUME TypeInv, NEW w \in Workers
    PROVE  /\ worker[w].fence \in Nat
           /\ worker[w].attempt \in Nat
           /\ worker[w].task \in Tasks \cup {NoTask}
           /\ worker[w].pc # "idle" => worker[w].task \in Tasks
  BY DEF TypeInv, TypeOK, Attempt

\* Steps of the callers, of the heartbeat and of the clock: they touch rows only,
\* and there neither a fence nor what is in work.
LEMMA TableStep ==
    ASSUME FenceInv, TypeInv', UNCHANGED <<worker, commit, settled>>,
           \A t \in Tasks :
              /\ row'[t].fence = row[t].fence
              /\ row'[t].attempt = row[t].attempt
              /\ row'[t].status \notin Active => row[t].status \notin Active
              /\ row'[t].status = "absent" => row[t].status = "absent"
    PROVE  FenceInv'
  <1> USE DEF FenceInv
  <1>1. FencesBounded'
    BY AttemptFields DEF FencesBounded
  <1>2. OneHolderPerFence'
    BY DEF OneHolderPerFence
  <1>3. ResultAcceptedOnce'
    BY AttemptFields DEF ResultAcceptedOnce
  <1>4. RestingRowsSettled'
    BY DEF RestingRowsSettled
  <1> QED
    BY <1>1, <1>2, <1>3, <1>4

\* Steps local to a worker process: it goes on with its attempt, or drops it.
LEMMA LocalStep ==
    ASSUME FenceInv, TypeInv', UNCHANGED <<row, commit, settled>>,
           NEW w \in Workers, NEW a, worker' = [worker EXCEPT ![w] = a],
           \/ a = Idle
           \/ /\ worker[w].pc # "idle"
              /\ a.task = worker[w].task
              /\ a.fence = worker[w].fence
              /\ a.attempt = worker[w].attempt
    PROVE  FenceInv'
  <1> USE DEF FenceInv
  <1>1. \A v \in Workers : worker'[v] = IF v = w THEN a ELSE worker[v]
    BY DEF TypeInv, TypeOK
  <1>2. Idle.pc = "idle" /\ Idle.task = NoTask
    BY DEF Idle
  <1>3. FencesBounded'
    BY <1>1, <1>2 DEF FencesBounded
  <1>4. OneHolderPerFence'
    BY <1>1, <1>2, AttemptFields DEF OneHolderPerFence
  <1>5. ResultAcceptedOnce'
    BY <1>1, <1>2 DEF ResultAcceptedOnce
  <1>6. RestingRowsSettled'
    BY DEF RestingRowsSettled
  <1> QED
    BY <1>3, <1>4, <1>5, <1>6

\* A claim takes a fence above every one held.
LEMMA ClaimStep ==
    ASSUME FenceInv, TypeInv', NEW w \in Workers, NEW t \in Tasks, Claim(w, t)
    PROVE  FenceInv'
  <1> USE DEF FenceInv
  <1>1. /\ row'[t].fence = row[t].fence + 1
        /\ row'[t].attempt = row[t].attempt + 1
        /\ row'[t].status = "running"
        /\ \A u \in Tasks \ {t} : row'[u] = row[u]
    BY DEF Claim, NextFence, TypeInv, TypeOK, TaskRow
  <1>2. /\ worker'[w].pc # "idle"
        /\ worker'[w].task = t
        /\ worker'[w].fence = row[t].fence + 1
        /\ worker'[w].attempt = row[t].attempt + 1
        /\ \A v \in Workers \ {w} : worker'[v] = worker[v]
    BY DEF Claim, NextFence, TypeInv, TypeOK
  <1>3. UNCHANGED <<commit, settled>>
    BY DEF Claim
  <1>4. \A u \in Tasks : /\ row[u].fence \in Nat
                         /\ commit[u] \in Nat
                         /\ settled[u] \in Nat
    BY RowFields
  <1>5. \A v \in Workers : /\ worker[v].fence \in Nat
                           /\ worker[v].pc # "idle" => worker[v].task \in Tasks
    BY AttemptFields
  <1>6. FencesBounded'
    <2>1. ASSUME NEW u \in Tasks
          PROVE  (/\ commit[u] <= row[u].fence
                  /\ settled[u] <= row[u].fence
                  /\ row[u].attempt = row[u].fence
                  /\ row[u].status = "absent" => row[u].fence = 0)'
      <3>1. CASE u = t
        BY <1>1, <1>3, <1>4, <3>1 DEF FencesBounded
      <3>2. CASE u # t
        BY <1>1, <1>3, <3>2 DEF FencesBounded
      <3> QED
        BY <3>1, <3>2
    <2>2. ASSUME NEW v \in Workers, worker'[v].pc # "idle"
          PROVE  (/\ worker[v].fence <= row[worker[v].task].fence
                  /\ worker[v].attempt = worker[v].fence)'
      <3>1. CASE v = w
        BY <1>1, <1>2, <1>4, <3>1 DEF FencesBounded
      <3>2. CASE v # w /\ worker[v].task = t
        <4>1. worker'[v] = worker[v] /\ worker[v].fence <= row[t].fence
          BY <1>2, <2>2, <3>2 DEF FencesBounded
        <4> QED
          BY <1>1, <1>4, <1>5, <2>2, <3>2, <4>1 DEF FencesBounded
      <3>3. CASE v # w /\ worker[v].task # t
        <4>1. worker'[v] = worker[v] /\ row'[worker[v].task] = row[worker[v].task]
          BY <1>1, <1>2, <1>5, <2>2, <3>3
        <4> QED
          BY <2>2, <4>1 DEF FencesBounded
      <3> QED
        BY <3>1, <3>2, <3>3
    <2> QED
      BY <2>1, <2>2 DEF FencesBounded
  <1>7. \A v \in Workers : worker[v].pc # "idle" /\ worker[v].task = t
                           => worker[v].fence # row[t].fence + 1
    BY <1>4, <1>5 DEF FencesBounded
  <1>8. OneHolderPerFence'
    <2>1. ASSUME NEW v \in Workers, NEW x \in Workers, v # x,
                 worker'[v].pc # "idle", worker'[x].pc # "idle",
                 worker'[v].task = worker'[x].task
          PROVE  worker'[v].fence # worker'[x].fence
      <3>1. CASE v # w /\ x # w
        BY <1>2, <2>1, <3>1 DEF OneHolderPerFence
      <3>2. CASE v = w
        <4>1. worker'[x] = worker[x] /\ worker[x].task = t
          BY <1>2, <2>1, <3>2
        <4> QED
          BY <1>2, <1>7, <2>1, <3>2, <4>1
      <3>3. CASE x = w
        <4>1. worker'[v] = worker[v] /\ worker[v].task = t
          BY <1>2, <2>1, <3>3
        <4> QED
          BY <1>2, <1>7, <2>1, <3>3, <4>1
      <3> QED
        BY <3>1, <3>2, <3>3
    <2> QED
      BY <2>1 DEF OneHolderPerFence
  <1>9. ResultAcceptedOnce'
    <2>1. ASSUME NEW v \in Workers, worker'[v].pc # "idle",
                 worker'[v].fence = row'[worker'[v].task].fence
          PROVE  settled'[worker'[v].task] < worker'[v].fence
      <3>1. CASE v = w
        BY <1>2, <1>3, <1>4, <3>1 DEF FencesBounded
      <3>2. CASE v # w
        <4>1. worker'[v] = worker[v] /\ worker[v].task \in Tasks
          BY <1>2, <1>5, <2>1, <3>2
        <4>2. worker[v].task # t
          BY <1>1, <1>7, <2>1, <4>1
        <4> QED
          BY <1>1, <1>3, <2>1, <4>1, <4>2 DEF ResultAcceptedOnce
      <3> QED
        BY <3>1, <3>2
    <2> QED
      BY <2>1 DEF ResultAcceptedOnce
  <1>10. RestingRowsSettled'
    BY <1>1, <1>3 DEF RestingRowsSettled, Active
  <1> QED
    BY <1>6, <1>8, <1>9, <1>10

\* A domain commit is stamped with the row's own fence.
LEMMA CommitStep ==
    ASSUME FenceInv, TypeInv', NEW w \in Workers, DomainCommit(w)
    PROVE  FenceInv'
  <1> USE DEF FenceInv
  <1>1. UNCHANGED <<row, worker, settled>>
    BY DEF DomainCommit
  <1>2. \A t \in Tasks : commit'[t] <= row[t].fence
    BY RowFields, AttemptFields
    DEF DomainCommit, RequireCurrent, Fenced, FencesBounded, TypeInv, TypeOK
  <1>3. FencesBounded'
    BY <1>1, <1>2 DEF FencesBounded
  <1>4. OneHolderPerFence' /\ ResultAcceptedOnce' /\ RestingRowsSettled'
    BY <1>1 DEF OneHolderPerFence, ResultAcceptedOnce, RestingRowsSettled
  <1> QED
    BY <1>3, <1>4

\* An accepted result settles the row's own fence and ends its only holder.
LEMMA WriteStep ==
    ASSUME FenceInv, TypeInv', NEW w \in Workers, NEW o, NEW r,
           WriteResult(w, o, r),
           r.fence = Held(w).fence,
           r.attempt = Held(w).attempt,
           r.status # "absent"
    PROVE  FenceInv'
  <1> USE DEF FenceInv
  <1> DEFINE t == worker[w].task
  <1>1. /\ t \in Tasks
        /\ worker[w].pc = "write"
        /\ row[t].fence = worker[w].fence
        /\ UNCHANGED commit
    BY AttemptFields DEF WriteResult, Fenced
  <1>2. /\ row'[t].fence = row[t].fence
        /\ row'[t].attempt = row[t].attempt
        /\ row'[t].status # "absent"
        /\ \A u \in Tasks \ {t} : row'[u] = row[u]
    BY <1>1 DEF WriteResult, Held, TypeInv, TypeOK
  <1>3. /\ worker'[w].pc = "idle"
        /\ worker'[w].task = NoTask
        /\ \A v \in Workers \ {w} : worker'[v] = worker[v]
    BY DEF WriteResult, AfterWrite, Idle, TypeInv, TypeOK
  <1>4. /\ settled'[t] = row[t].fence
        /\ \A u \in Tasks \ {t} : settled'[u] = settled[u]
    BY <1>1 DEF WriteResult, TypeInv, TypeOK
  <1> HIDE DEF t
  <1>5. FencesBounded'
    <2>1. row[t].fence \in Nat
      BY <1>1, RowFields
    <2> QED
      BY <1>1, <1>2, <1>3, <1>4, <2>1, AttemptFields DEF FencesBounded
  <1>6. OneHolderPerFence'
    BY <1>3, AttemptFields DEF OneHolderPerFence
  <1>7. \A v \in Workers \ {w} :
           worker[v].pc # "idle" /\ worker[v].task = t => worker[v].fence # row[t].fence
    BY <1>1 DEF OneHolderPerFence, t
  <1>8. ResultAcceptedOnce'
    BY <1>1, <1>2, <1>3, <1>4, <1>7, AttemptFields DEF ResultAcceptedOnce
  <1>9. RestingRowsSettled'
    BY <1>1, <1>2, <1>4 DEF RestingRowsSettled
  <1> QED
    BY <1>5, <1>6, <1>8, <1>9

\* The results that change nothing but the row's status.
LEMMA StatusWriteStep ==
    ASSUME FenceInv, TypeInv', NEW w \in Workers, NEW o, NEW s, s # "absent",
           WriteResult(w, o, [Held(w) EXCEPT !.status = s])
    PROVE  FenceInv'
  <1>1. Held(w) \in TaskRow
    BY AttemptFields DEF Held, WriteResult, FenceInv, TypeInv, TypeOK
  <1> DEFINE r == [Held(w) EXCEPT !.status = s]
  <1>2. r.fence = Held(w).fence /\ r.attempt = Held(w).attempt /\ r.status # "absent"
    BY <1>1 DEF TaskRow
  <1>3. WriteResult(w, o, r)
    OBVIOUS
  <1> HIDE DEF r
  <1> QED
    BY <1>2, <1>3, WriteStep

\* Every step keeps the fencing invariant, one case per operation.
LEMMA FenceInvStep == FenceInv /\ [Next]_vars => FenceInv'
  <1> SUFFICES ASSUME FenceInv, [Next]_vars PROVE FenceInv'
    OBVIOUS
  <1>0. TypeInv /\ TypeInv'
    BY TypeInvStep DEF FenceInv
  <1> USE DEF Active
  <1>1. ASSUME NEW t \in Tasks, NEW d \in {0} \cup HandlerBackoffs, Enqueue(t, d)
        PROVE  FenceInv'
    <2>1. row[t].fence = 0 /\ row[t].attempt = 0 /\ row[t].status = "absent"
      BY <1>1 DEF Enqueue, FenceInv, FencesBounded
    <2>2. row'[t].fence = 0 /\ row'[t].attempt = 0 /\ row'[t].status = "queued"
      BY <1>0, <1>1 DEF Enqueue, NoRow, TypeInv, TypeOK
    <2>3. \A u \in Tasks \ {t} : row'[u] = row[u]
      BY <1>0, <1>1 DEF Enqueue, TypeInv, TypeOK
    <2> QED
      BY <1>0, <1>1, <2>1, <2>2, <2>3, TableStep DEF Enqueue
  <1>2. ASSUME NEW t \in Tasks, RequestCancel(t) PROVE FenceInv'
    <2>1. /\ row'[t].fence = row[t].fence
          /\ row'[t].attempt = row[t].attempt
          /\ row'[t].status = CancelledStatus(row[t].status)
          /\ \A u \in Tasks \ {t} : row'[u] = row[u]
      BY <1>0, <1>2 DEF RequestCancel, TypeInv, TypeOK, TaskRow
    <2>2. row'[t].status # "absent"
      BY <1>2, <2>1 DEF RequestCancel, CancelledStatus, Live
    <2>3. row'[t].status \notin Active => row[t].status \notin Active
      BY <2>1 DEF CancelledStatus, Waiting
    <2> QED
      BY <1>0, <1>2, <2>1, <2>2, <2>3, TableStep DEF RequestCancel
  <1>3. ASSUME NEW t \in Tasks, Requeue(t) PROVE FenceInv'
    <2>1. /\ row'[t].fence = row[t].fence
          /\ row'[t].attempt = row[t].attempt
          /\ row'[t].status = "queued"
          /\ row[t].status = "failed"
          /\ \A u \in Tasks \ {t} : row'[u] = row[u]
      BY <1>0, <1>3 DEF Requeue, Requeued, TypeInv, TypeOK, TaskRow
    <2> QED
      BY <1>0, <1>3, <2>1, TableStep DEF Requeue
  <1>4. ASSUME NEW w \in Workers, NEW t \in Tasks, Claim(w, t) PROVE FenceInv'
    BY <1>0, <1>4, ClaimStep
  <1>5. ASSUME NEW w \in Workers, DomainCommit(w) PROVE FenceInv'
    BY <1>0, <1>5, CommitStep
  <1>6. ASSUME NEW w \in Workers, NEW o \in Outcomes, HandlerReturns(w, o)
        PROVE  FenceInv'
    <2> DEFINE a == [worker[w] EXCEPT !.pc = "write", !.outcome = o]
    <2>1. a.task = worker[w].task /\ a.fence = worker[w].fence /\ a.attempt = worker[w].attempt
      BY <1>0 DEF TypeInv, TypeOK, Attempt
    <2>2. worker' = [worker EXCEPT ![w] = a] /\ worker[w].pc # "idle"
      BY <1>6 DEF HandlerReturns
    <2> HIDE DEF a
    <2> QED
      BY <1>0, <1>6, <2>1, <2>2, LocalStep DEF HandlerReturns
  <1>7. ASSUME NEW w \in Workers, Heartbeat(w) PROVE FenceInv'
    <2>1. worker[w].task \in Tasks
      BY <1>0, <1>7, AttemptFields DEF Heartbeat
    <2>2. /\ row'[worker[w].task].fence = row[worker[w].task].fence
          /\ row'[worker[w].task].attempt = row[worker[w].task].attempt
          /\ row'[worker[w].task].status = row[worker[w].task].status
          /\ \A u \in Tasks \ {worker[w].task} : row'[u] = row[u]
      BY <1>0, <1>7, <2>1 DEF Heartbeat, Held, TypeInv, TypeOK, TaskRow
    <2> QED
      BY <1>0, <1>7, <2>2, TableStep DEF Heartbeat
  <1>8. ASSUME NEW w \in Workers, HeartbeatLost(w) PROVE FenceInv'
    BY <1>0, <1>8, LocalStep DEF HeartbeatLost
  <1>9. ASSUME NEW w \in Workers, Abandon(w) PROVE FenceInv'
    BY <1>0, <1>9, LocalStep DEF Abandon
  <1>10. ASSUME NEW w \in Workers, Write(w) PROVE FenceInv'
    <2>2. CASE Succeed(w)
      BY <1>0, <2>2, StatusWriteStep DEF Succeed
    <2>3. CASE Fail(w)
      BY <1>0, <2>3, StatusWriteStep DEF Fail
    <2>4. CASE MarkCancelled(w)
      BY <1>0, <2>4, StatusWriteStep DEF MarkCancelled
    <2>5. CASE Retry(w)
      <3> DEFINE r(b) == [Held(w) EXCEPT !.status = "retry_wait", !.owner = NoOwner,
                                         !.lease = NullLease, !.delay = b]
      <3>1. PICK b : WriteResult(w, "retry", r(b))
        BY <2>5 DEF Retry
      <3>2. Held(w) \in TaskRow
        BY <1>0, <2>5, AttemptFields DEF Held, Retry, TypeInv, TypeOK
      <3>3. r(b).fence = Held(w).fence /\ r(b).attempt = Held(w).attempt
            /\ r(b).status # "absent"
        BY <3>2 DEF TaskRow
      <3> HIDE DEF r
      <3> QED
        BY <1>0, <3>1, <3>3, WriteStep
    <2>6. CASE RetriesExhausted(w)
      BY <1>0, <2>6, StatusWriteStep DEF RetriesExhausted
    <2>7. CASE WaitExternal(w)
      BY <1>0, <2>7, StatusWriteStep DEF WaitExternal, Parked
    <2>8. CASE Reconcile(w)
      BY <1>0, <2>8, StatusWriteStep DEF Reconcile, Parked
    <2>9. CASE RejectedWrite(w)
      BY <1>0, <2>9, LocalStep DEF RejectedWrite
    <2> QED
      BY <1>10, <2>2, <2>3, <2>4, <2>5, <2>6, <2>7, <2>8, <2>9 DEF Write
  <1>11. CASE Tick
    <2>1. \A t \in Tasks : /\ row'[t].fence = row[t].fence
                           /\ row'[t].attempt = row[t].attempt
                           /\ row'[t].status = row[t].status
      BY <1>0, <1>11 DEF Tick, TypeInv, TypeOK, TaskRow
    <2> QED
      BY <1>0, <1>11, <2>1, TableStep DEF Tick
  <1>12. CASE UNCHANGED vars
    BY <1>0, <1>12, TableStep DEF vars
  <1> QED
    BY <1>1, <1>2, <1>3, <1>4, <1>5, <1>6, <1>7, <1>8, <1>9, <1>10, <1>11, <1>12
    DEF Next

\* An empty table with idle workers satisfies the fencing invariant.
LEMMA FenceInvInit == Init => FenceInv
  <1> SUFFICES ASSUME Init PROVE FenceInv
    OBVIOUS
  <1>1. TypeInv
    BY IdleType DEF Init, TypeInv, TypeOK, AttemptPositive, NoRow, TaskRow, Status,
                    NullLease, Idle
  <1> QED
    BY <1>1 DEF Init, FenceInv, FencesBounded, OneHolderPerFence, ResultAcceptedOnce,
                RestingRowsSettled, Idle, NoRow

\* The fencing invariant holds in every reachable state.
LEMMA FenceInvAlways == Spec => []FenceInv
  BY FenceInvInit, FenceInvStep, PTL DEF Spec

\* No two worker processes are ever inside the same attempt of a task, even if
\* they run under the same owner_id.
THEOREM FencesExclusive == Spec => []OneHolderPerFence
  <1>1. FenceInv => OneHolderPerFence
    BY DEF FenceInv
  <1> QED
    BY <1>1, FenceInvAlways, PTL

\* Of each attempt at most one result is accepted.
THEOREM ResultsOnce == Spec => []ResultAcceptedOnce
  <1>1. FenceInv => ResultAcceptedOnce
    BY DEF FenceInv
  <1> QED
    BY <1>1, FenceInvAlways, PTL

\* A row that waits or is terminal was put there by its latest attempt.
THEOREM RestingRowsAreSettled == Spec => []RestingRowsSettled
  <1>1. FenceInv => RestingRowsSettled
    BY DEF FenceInv
  <1> QED
    BY <1>1, FenceInvAlways, PTL

\* Domain commits never go back to an older attempt.
THEOREM CommitOrder == Spec => CommitsFollowFences
  <1>1. FenceInv /\ [Next]_vars => [\A t \in Tasks : commit[t] <= commit'[t]]_vars
    <2> SUFFICES ASSUME FenceInv, Next PROVE \A t \in Tasks : commit[t] <= commit'[t]
      BY DEF vars
    <2>1. \A t \in Tasks : commit[t] \in Nat
      BY DEF FenceInv, TypeInv, TypeOK
    <2>2. CASE UNCHANGED commit
      BY <2>1, <2>2
    <2>3. ASSUME NEW w \in Workers, DomainCommit(w)
          PROVE  \A t \in Tasks : commit[t] <= commit'[t]
      BY <2>1, <2>3, AttemptFields
      DEF DomainCommit, RequireCurrent, Fenced, FenceInv, FencesBounded, TypeInv, TypeOK
    <2> QED
      BY <2>2, <2>3 DEF Next, Enqueue, RequestCancel, Requeue, Claim, HandlerReturns,
         Heartbeat, HeartbeatLost, Abandon, Write, Succeed, Fail, MarkCancelled, Retry,
         RetriesExhausted, WaitExternal, Reconcile, RejectedWrite, WriteResult, Tick
  <1> QED
    BY <1>1, FenceInvAlways, PTL DEF Spec, CommitsFollowFences

-----------------------------------------------------------------------------
(* The life of a row *)

\* Row t keeps its status, its owner and whether it has a lease.
RowRests(t) ==
    /\ row'[t].status = row[t].status /\ row'[t].owner = row[t].owner
    /\ row'[t].attempt = row[t].attempt
    /\ row'[t].lease = NullLease <=> row[t].lease = NullLease

\* It is claimed ...
RowTaken(t) ==
    /\ row[t].status \in Waiting \cup Active /\ row'[t].status = "running"
    /\ row'[t].owner # NoOwner /\ row'[t].lease # NullLease

\* ... ended or parked by a result ...
RowEnds(t) ==
    /\ row[t].status \in Active /\ row'[t].status \in Active \cup Terminal
    /\ row'[t].owner = row[t].owner /\ row'[t].lease = row[t].lease

\* ... put back by one ...
RowRetried(t) ==
    /\ row[t].status \in Active /\ row'[t].status = "retry_wait"
    /\ row'[t].owner = NoOwner /\ row'[t].lease = NullLease
    /\ row'[t].attempt < MaxAttempts

\* ... or cancelled while it waits.
RowWithdrawn(t) == row[t].status \in Waiting /\ row'[t].status = "cancelled"

\* A caller inserts it or puts it back, when no other live row has its key.
RowOpens(t) ==
    /\ row[t].status \in {"absent", "failed"} /\ row'[t].status = "queued"
    /\ row[t].status = "failed" => row'[t].fence = row[t].fence
    /\ row'[t].owner = NoOwner /\ row'[t].lease = NullLease
    /\ KeyFree(t)

\* What becomes of the table in a step: one row at most does not rest.
TableChange ==
    \/ \A t \in Tasks : RowRests(t)
    \/ \E t \in Tasks :
          /\ \/ RowTaken(t) \/ RowEnds(t) \/ RowRetried(t) \/ RowWithdrawn(t) \/ RowOpens(t)
          /\ \A u \in Tasks \ {t} : row'[u] = row[u]

\* An accepted result ends or parks the row.
LEMMA EndingWrite ==
    ASSUME FenceInv, NEW w \in Workers, NEW o \in Outcomes, NEW s \in Active \cup Terminal,
           WriteResult(w, o, [Held(w) EXCEPT !.status = s])
    PROVE  TableChange
  <1> DEFINE t == worker[w].task
             r == [Held(w) EXCEPT !.status = s]
  <1>1. t \in Tasks /\ row[t] \in TaskRow /\ row \in [Tasks -> TaskRow]
    BY AttemptFields DEF WriteResult, FenceInv, TypeInv, TypeOK
  <1>2. row[t].status \in Active
    BY DEF WriteResult, Fenced, FromStates, Active, Outcomes
  <1>3. r.status = s /\ r.owner = row[t].owner /\ r.lease = row[t].lease
    BY <1>1 DEF Held, TaskRow
  <1>4. row' = [row EXCEPT ![t] = r]
    BY DEF WriteResult
  <1> HIDE DEF r, t
  <1>5. row'[t] = r /\ \A u \in Tasks \ {t} : row'[u] = row[u]
    BY <1>1, <1>4
  <1> QED
    BY <1>1, <1>2, <1>3, <1>5 DEF TableChange, RowEnds

\* A retry is written only below the cap: the attempt that asks is the row's own.
LEMMA RetryWrite ==
    ASSUME FenceInv, NEW w \in Workers, Retry(w)
    PROVE  TableChange
  <1> DEFINE t    == worker[w].task
             r(b) == [Held(w) EXCEPT !.status = "retry_wait", !.owner = NoOwner,
                                     !.lease = NullLease, !.delay = b]
  <1>1. PICK b : WriteResult(w, "retry", r(b))
    BY DEF Retry
  <1>2. t \in Tasks /\ row[t] \in TaskRow /\ row \in [Tasks -> TaskRow] /\ worker[w].pc # "idle"
    BY AttemptFields DEF Retry, FenceInv, TypeInv, TypeOK
  <1>3. row[t].status \in Active /\ row[t].fence = worker[w].fence
    BY <1>1 DEF WriteResult, Fenced, FromStates, Active
  <1>4. r(b).status = "retry_wait" /\ r(b).owner = NoOwner /\ r(b).lease = NullLease
    BY <1>2 DEF Held, TaskRow
  <1>5. r(b).attempt = row[t].attempt
    BY <1>2 DEF Held, TaskRow
  <1>6. row[t].attempt = worker[w].attempt
    BY <1>2, <1>3 DEF FenceInv, FencesBounded
  <1>7. worker[w].attempt < MaxAttempts
    BY DEF Retry, MayRetry
  <1>8. row' = [row EXCEPT ![t] = r(b)]
    BY <1>1 DEF WriteResult
  <1> HIDE DEF r, t
  <1>9. row'[t] = r(b) /\ \A u \in Tasks \ {t} : row'[u] = row[u]
    BY <1>2, <1>8
  <1>10. row'[t].attempt < MaxAttempts
    BY <1>5, <1>6, <1>7, <1>9
  <1> QED
    BY <1>2, <1>3, <1>4, <1>9, <1>10 DEF TableChange, RowRetried

\* Every step changes the table in one of these ways.
LEMMA TableChanges ==
    ASSUME FenceInv, [Next]_vars
    PROVE  TableChange
  <1>0. row \in [Tasks -> TaskRow] /\ \A t \in Tasks : row[t] \in TaskRow
    BY DEF FenceInv, TypeInv, TypeOK
  <1>1. CASE UNCHANGED row
    BY <1>1 DEF TableChange, RowRests
  <1>2. ASSUME NEW t \in Tasks, NEW d \in {0} \cup HandlerBackoffs, Enqueue(t, d)
        PROVE  TableChange
    <2>1. /\ row[t].status = "absent" /\ KeyFree(t)
          /\ row'[t] = [NoRow EXCEPT !.status = "queued", !.delay = d]
          /\ \A u \in Tasks \ {t} : row'[u] = row[u]
      BY <1>0, <1>2 DEF Enqueue
    <2>2. row'[t].status = "queued" /\ row'[t].owner = NoOwner /\ row'[t].lease = NullLease
      BY <2>1 DEF NoRow
    <2> QED
      BY <2>1, <2>2 DEF TableChange, RowOpens
  <1>3. ASSUME NEW t \in Tasks, RequestCancel(t) PROVE TableChange
    <2> DEFINE r == [row[t] EXCEPT !.cancel = TRUE, !.status = CancelledStatus(row[t].status)]
    <2>1. /\ r.status = CancelledStatus(row[t].status) /\ r.owner = row[t].owner
          /\ r.lease = row[t].lease /\ r.attempt = row[t].attempt
      BY <1>0 DEF TaskRow
    <2>2. row'[t] = r /\ \A u \in Tasks \ {t} : row'[u] = row[u]
      BY <1>0, <1>3 DEF RequestCancel
    <2> HIDE DEF r
    <2>3. CASE row[t].status \in Waiting
      BY <2>1, <2>2, <2>3 DEF TableChange, RowWithdrawn, CancelledStatus
    <2>4. CASE row[t].status \notin Waiting
      BY <2>1, <2>2, <2>4 DEF TableChange, RowRests, CancelledStatus
    <2> QED
      BY <2>3, <2>4
  <1>4. ASSUME NEW t \in Tasks, Requeue(t) PROVE TableChange
    <2>1. /\ row[t].status = "failed" /\ KeyFree(t) /\ row'[t] = Requeued(row[t])
          /\ \A u \in Tasks \ {t} : row'[u] = row[u]
      BY <1>0, <1>4 DEF Requeue
    <2>2. /\ Requeued(row[t]).status = "queued" /\ Requeued(row[t]).owner = NoOwner
          /\ Requeued(row[t]).lease = NullLease /\ Requeued(row[t]).fence = row[t].fence
      BY <1>0 DEF Requeued, TaskRow
    <2> QED
      BY <2>1, <2>2 DEF TableChange, RowOpens
  <1>5. ASSUME NEW w \in Workers, NEW t \in Tasks, Claim(w, t) PROVE TableChange
    <2> DEFINE n == row[t].attempt + 1
               f == NextFence(row[t])
               r == [row[t] EXCEPT !.status = "running", !.owner = OwnerId[w], !.attempt = n,
                                   !.fence = f, !.lease = LeaseTicks]
    <2>1. row'[t] = r /\ \A u \in Tasks \ {t} : row'[u] = row[u]
      BY <1>0, <1>5 DEF Claim
    <2> HIDE DEF n, f
    <2>2. r.status = "running" /\ r.owner = OwnerId[w] /\ r.lease = LeaseTicks
      BY <1>0 DEF TaskRow
    <2> HIDE DEF r
    <2>3. row[t].status \in Waiting \cup Active
      BY <1>5 DEF Claim, Claimable
    <2>4. LeaseTicks # NullLease
      BY DEF NullLease
    <2> QED
      BY <2>1, <2>2, <2>3, <2>4 DEF TableChange, RowTaken
  <1>6. ASSUME NEW w \in Workers, Heartbeat(w) PROVE TableChange
    <2> DEFINE t == worker[w].task
               r == [row[t] EXCEPT !.lease = LeaseTicks]
    <2>1. t \in Tasks
      BY <1>6, AttemptFields DEF Heartbeat, FenceInv
    <2>2. row'[t] = r /\ \A u \in Tasks \ {t} : row'[u] = row[u]
      BY <1>0, <1>6, <2>1 DEF Heartbeat, Held
    <2>3. /\ r.status = row[t].status /\ r.owner = row[t].owner /\ r.attempt = row[t].attempt
          /\ r.lease = LeaseTicks
      BY <1>0, <2>1 DEF TaskRow
    <2> HIDE DEF r
    <2>4. LeaseTicks # NullLease /\ row[t].lease # NullLease
      BY <1>6 DEF Heartbeat, NullLease
    <2> QED
      BY <2>1, <2>2, <2>3, <2>4 DEF TableChange, RowRests
  <1>7. ASSUME NEW w \in Workers, Write(w) PROVE TableChange
    <2> USE DEF Active, Terminal, Outcomes
    <2>1. CASE Succeed(w)
      BY <2>1, EndingWrite DEF Succeed
    <2>2. CASE Fail(w)
      BY <2>2, EndingWrite DEF Fail
    <2>3. CASE MarkCancelled(w)
      BY <2>3, EndingWrite DEF MarkCancelled
    <2>4. CASE Retry(w)
      BY <2>4, RetryWrite
    <2>5. CASE RetriesExhausted(w)
      BY <2>5, EndingWrite DEF RetriesExhausted
    <2>6. CASE WaitExternal(w)
      BY <2>6, EndingWrite DEF WaitExternal, Parked
    <2>7. CASE Reconcile(w)
      BY <2>7, EndingWrite DEF Reconcile, Parked
    <2>8. CASE RejectedWrite(w)
      BY <1>1, <2>8 DEF RejectedWrite
    <2> QED
      BY <1>7, <2>1, <2>2, <2>3, <2>4, <2>5, <2>6, <2>7, <2>8 DEF Write
  <1>8. CASE Tick
    <2>1. ASSUME NEW t \in Tasks PROVE RowRests(t)
      <3> DEFINE l == Dec(row[t].lease)
                 d == Dec(row[t].delay)
                 r == [row[t] EXCEPT !.lease = l, !.delay = d]
      <3>1. row'[t] = r
        BY <1>8 DEF Tick
      <3>2. l = NullLease <=> row[t].lease = NullLease
        <4>1. row[t].lease \in Nat \cup {NullLease}
          BY <1>0 DEF TaskRow
        <4> QED
          BY <4>1 DEF Dec, NullLease
      <3> HIDE DEF l, d
      <3>3. /\ r.status = row[t].status /\ r.owner = row[t].owner /\ r.attempt = row[t].attempt
            /\ r.lease = l
        BY <1>0 DEF TaskRow
      <3> HIDE DEF r
      <3> QED
        BY <3>1, <3>2, <3>3 DEF RowRests
    <2> QED
      BY <2>1 DEF TableChange
  <1> QED
    BY <1>1, <1>2, <1>3, <1>4, <1>5, <1>6, <1>7, <1>8
    DEF Next, vars, DomainCommit, HandlerReturns, HeartbeatLost, Abandon

\* Rows are reclaimable, retried below the cap, and alone with their key.
RowInv == FenceInv /\ EveryLiveRowReclaimable /\ RetryUnderCap /\ OneLiveRowPerKey

\* Every step keeps the three, row by row.
LEMMA RowInvStep == RowInv /\ [Next]_vars => RowInv'
  <1> SUFFICES ASSUME RowInv, [Next]_vars PROVE RowInv'
    OBVIOUS
  <1>1. FenceInv' /\ TableChange
    BY FenceInvStep, TableChanges DEF RowInv
  <1>2. /\ Waiting \cap Active = {} /\ Waiting \cap Terminal = {} /\ Active \cap Terminal = {}
        /\ "retry_wait" \notin Active \cup Terminal /\ "running" \in Active
        /\ "queued" \in Waiting /\ "retry_wait" \in Waiting /\ "cancelled" \in Terminal
        /\ "failed" \in Terminal /\ "absent" \notin Waiting \cup Active \cup Terminal
    BY DEF Waiting, Active, Terminal
  <1>3. EveryLiveRowReclaimable'
    <2>1. ASSUME NEW t \in Tasks
          PROVE  /\ row'[t].status \in Active => row'[t].owner # NoOwner /\ row'[t].lease # NullLease
                 /\ row'[t].status \in Waiting => row'[t].owner = NoOwner /\ row'[t].lease = NullLease
      <3>1. /\ row[t].status \in Active => row[t].owner # NoOwner /\ row[t].lease # NullLease
            /\ row[t].status \in Waiting => row[t].owner = NoOwner /\ row[t].lease = NullLease
        BY DEF RowInv, EveryLiveRowReclaimable
      <3>2. CASE RowRests(t) \/ row'[t] = row[t]
        BY <3>1, <3>2 DEF RowRests
      <3>3. CASE RowTaken(t) \/ RowEnds(t) \/ RowRetried(t) \/ RowWithdrawn(t) \/ RowOpens(t)
        BY <1>2, <3>1, <3>3 DEF RowTaken, RowEnds, RowRetried, RowWithdrawn, RowOpens
      <3> QED
        BY <1>1, <3>2, <3>3 DEF TableChange
    <2> QED
      BY <2>1 DEF EveryLiveRowReclaimable
  <1>4. RetryUnderCap'
    <2>1. ASSUME NEW t \in Tasks, row'[t].status = "retry_wait"
          PROVE  row'[t].attempt < MaxAttempts
      <3>1. CASE RowRests(t) \/ row'[t] = row[t]
        BY <2>1, <3>1 DEF RowRests, RowInv, RetryUnderCap
      <3>2. CASE RowTaken(t) \/ RowEnds(t) \/ RowWithdrawn(t) \/ RowOpens(t)
        BY <1>2, <2>1, <3>2 DEF RowTaken, RowEnds, RowWithdrawn, RowOpens
      <3>3. CASE RowRetried(t)
        BY <3>3 DEF RowRetried
      <3> QED
        BY <1>1, <3>1, <3>2, <3>3 DEF TableChange
    <2> QED
      BY <2>1 DEF RetryUnderCap
  <1>5. OneLiveRowPerKey'
    <2> DEFINE LiveNext(t) == row'[t].status \notin Terminal \cup {"absent"}
    <2>1. ASSUME NEW t \in Tasks, LiveNext(t), ~Live(t)
          PROVE  KeyFree(t) /\ \A u \in Tasks \ {t} : row'[u] = row[u]
      <3>1. ~RowRests(t) /\ row'[t] # row[t]
        BY <2>1 DEF RowRests, Live
      <3>2. ~RowTaken(t) /\ ~RowEnds(t) /\ ~RowRetried(t) /\ ~RowWithdrawn(t)
        BY <1>2, <2>1 DEF RowTaken, RowEnds, RowRetried, RowWithdrawn, Live
      <3> QED
        BY <1>1, <3>1, <3>2 DEF TableChange, RowOpens
    <2>2. ASSUME NEW t \in Tasks, NEW u \in Tasks, t # u, DedupeKey[t] # NoKey,
                 LiveNext(t), LiveNext(u)
          PROVE  DedupeKey[t] # DedupeKey[u]
      <3>1. CASE Live(t) /\ Live(u)
        BY <2>2, <3>1 DEF RowInv, OneLiveRowPerKey
      <3>2. CASE ~Live(t)
        <4>1. KeyFree(t) /\ row'[u] = row[u]
          BY <2>1, <2>2, <3>2
        <4>2. Live(u)
          BY <2>2, <4>1 DEF Live
        <4> QED
          BY <2>2, <4>1, <4>2 DEF KeyFree
      <3>3. CASE ~Live(u)
        <4>1. KeyFree(u) /\ row'[t] = row[t]
          BY <2>1, <2>2, <3>3
        <4>2. Live(t)
          BY <2>2, <4>1 DEF Live
        <4> QED
          BY <2>2, <4>1, <4>2 DEF KeyFree
      <3> QED
        BY <3>1, <3>2, <3>3
    <2> QED
      BY <2>2 DEF OneLiveRowPerKey, Live
  <1> QED
    BY <1>1, <1>3, <1>4, <1>5 DEF RowInv

\* The three hold in every reachable state.
LEMMA RowInvAlways == Spec => []RowInv
  <1>1. Init => RowInv
    <2> SUFFICES ASSUME Init PROVE RowInv
      OBVIOUS
    <2>1. \A t \in Tasks : row[t].status = "absent"
      BY DEF Init, NoRow
    <2> QED
      BY <2>1, FenceInvInit DEF RowInv, EveryLiveRowReclaimable, RetryUnderCap, OneLiveRowPerKey,
         Live, Active, Waiting
  <1> QED
    BY <1>1, RowInvStep, PTL DEF Spec

\* At most one live row has a (kind, dedupe_key), whatever is re-queued.
THEOREM KeysExclusive == Spec => []OneLiveRowPerKey
  <1>1. RowInv => OneLiveRowPerKey
    BY DEF RowInv
  <1> QED
    BY <1>1, RowInvAlways, PTL

\* No live row is out of claim's reach for ever: parked attempts keep a lease that
\* runs out.
THEOREM AlwaysReclaimable == Spec => []EveryLiveRowReclaimable
  <1>1. RowInv => EveryLiveRowReclaimable
    BY DEF RowInv
  <1> QED
    BY <1>1, RowInvAlways, PTL

\* No row waits for a retry beyond the cap, although _write compares the number its
\* worker remembers and not the row's.
THEOREM RetriesCapped == Spec => []RetryUnderCap
  <1>1. RowInv => RetryUnderCap
    BY DEF RowInv
  <1> QED
    BY <1>1, RowInvAlways, PTL

\* A terminal row changes only when a failed one is re-queued, under its old fence:
\* no late result gets through the fence and status guard of _write.
THEOREM TerminalStays == Spec => TerminalIsFinal
  <1> DEFINE Final == \A t \in Tasks :
                          row[t].status \in Terminal /\ row'[t].status # row[t].status
                          => /\ row[t].status = "failed"
                             /\ row'[t].status = "queued"
                             /\ row'[t].fence = row[t].fence
  <1>1. FenceInv /\ [Next]_vars => [Final]_vars
    <2> SUFFICES ASSUME FenceInv, [Next]_vars PROVE Final
      OBVIOUS
    <2>1. TableChange
      BY TableChanges
    <2>2. Terminal \cap (Waiting \cup Active) = {} /\ "absent" \notin Terminal
      BY DEF Terminal, Waiting, Active
    <2> QED
      BY <2>1, <2>2 DEF TableChange, RowRests, RowTaken, RowEnds, RowRetried, RowWithdrawn, RowOpens
  <1> QED
    BY <1>1, FenceInvAlways, PTL DEF Spec, TerminalIsFinal

=============================================================================
