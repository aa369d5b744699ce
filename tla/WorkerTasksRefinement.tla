------------------------ MODULE WorkerTasksRefinement ------------------------
(***************************************************************************)
(* WorkerTasks implements FencedQueue, for every value of the constants.   *)
(***************************************************************************)
EXTENDS WorkerTasksProofs

\* The mapping of the promise's task state onto a row.
Phase(r) == IF r.status \notin Terminal \cup {"absent"} THEN "open" ELSE r.status

StBar == [t \in Tasks |-> Phase(row[t])]
EpochBar == [t \in Tasks |-> row[t].fence]

\* The named mapping is the one ImplementsFencedQueue instantiates.
LEMMA BarIsMapping ==
    /\ StBar = [t \in Tasks |-> IF Live(t) THEN "open" ELSE row[t].status]
    /\ EpochBar = [t \in Tasks |-> row[t].fence]
  BY DEF StBar, EpochBar, Phase, Live

\* A step that rewrites one row moves the mapped state at that task only.
LEMMA OneRowChanges ==
    ASSUME NEW t \in Tasks,
           row \in [Tasks -> TaskRow], row' \in [Tasks -> TaskRow],
           \A u \in Tasks \ {t} : row'[u] = row[u]
    PROVE  /\ StBar' = [StBar EXCEPT ![t] = Phase(row'[t])]
           /\ EpochBar' = [EpochBar EXCEPT ![t] = row'[t].fence]
           /\ StBar[t] = Phase(row[t])
           /\ EpochBar[t] = row[t].fence
  BY DEF StBar, EpochBar, Phase

\* A step that leaves every row's phase and fence alone leaves the mapped state
\* alone.
LEMMA NoRowChanges ==
    ASSUME \A u \in Tasks : /\ Phase(row'[u]) = Phase(row[u])
                            /\ row'[u].fence = row[u].fence
    PROVE  StBar' = StBar /\ EpochBar' = EpochBar
  BY DEF StBar, EpochBar, Phase

\* The empty table maps to the initial state of the promise.
LEMMA InitRefines == Init => Queue!Init
  BY DEF Init, NoRow, Queue!Init, Live

\* An accepted result write of any outcome is an Accept of the promise.
LEMMA WriteRefines ==
    ASSUME FenceInv, row' \in [Tasks -> TaskRow], NEW w \in Workers,
           NEW o, NEW r, WriteResult(w, o, r), r \in TaskRow,
           r.fence = Held(w).fence, r.status # "absent",
           FromStates(o) \subseteq Active
    PROVE  Queue!Next
  <1>0. TypeInv /\ ResultAcceptedOnce /\ row \in [Tasks -> TaskRow]
    BY DEF FenceInv, TypeInv, TypeOK
  <1>1. PICK t \in Tasks : t = worker[w].task /\ worker[w].pc # "idle"
    BY <1>0, AttemptFields DEF WriteResult
  <1>2. row'[t] = r /\ \A u \in Tasks \ {t} : row'[u] = row[u]
    BY <1>0, <1>1 DEF WriteResult
  <1>3. row[t].fence = worker[w].fence /\ row[t].status \in Active /\ r.fence = row[t].fence
    BY <1>1 DEF WriteResult, Fenced, Held
  <1>4. settled[t] < row[t].fence
    BY <1>0, <1>1, <1>3 DEF ResultAcceptedOnce
  <1>5. settled' = [settled EXCEPT ![t] = row[t].fence] /\ UNCHANGED commit
    BY <1>1, <1>3 DEF WriteResult
  <1>6. Phase(row[t]) = "open"
    BY <1>3 DEF Phase, Active, Terminal
  <1>7. Phase(r) \in {"open"} \cup {"succeeded", "failed", "cancelled"}
    BY DEF Phase, Terminal, TaskRow, Status
  <1>8. /\ StBar' = [StBar EXCEPT ![t] = Phase(r)]
        /\ EpochBar' = [EpochBar EXCEPT ![t] = row[t].fence]
        /\ StBar[t] = "open"
        /\ EpochBar[t] = row[t].fence
    BY <1>0, <1>1, <1>2, <1>3, <1>6, OneRowChanges
  <1>9. EpochBar' = EpochBar
    BY <1>1, <1>8 DEF EpochBar
  <1>10. Queue!Accept(t)
    BY <1>4, <1>5, <1>7, <1>8, <1>9, BarIsMapping
    DEF Queue!Accept, Queue!Settlements, StBar, EpochBar, Phase, Live
  <1> QED
    BY <1>10 DEF Queue!Next

\* The result writes that change the status alone are Accept steps too.
LEMMA StatusWriteRefines ==
    ASSUME FenceInv, row' \in [Tasks -> TaskRow], NEW w \in Workers,
           NEW o, NEW s \in Status \ {"absent"},
           WriteResult(w, o, [Held(w) EXCEPT !.status = s]),
           FromStates(o) \subseteq Active
    PROVE  Queue!Next
  <1>1. Held(w) \in TaskRow
    BY AttemptFields DEF Held, WriteResult, FenceInv, TypeInv, TypeOK
  <1> DEFINE r == [Held(w) EXCEPT !.status = s]
  <1>2. r \in TaskRow /\ r.fence = Held(w).fence /\ r.status # "absent"
    BY <1>1 DEF TaskRow
  <1>3. WriteResult(w, o, r)
    OBVIOUS
  <1> HIDE DEF r
  <1> QED
    BY <1>2, <1>3, WriteRefines

\* Every step of the table and the workers is a step of the promise or leaves
\* everything it speaks of unchanged.
LEMMA StepRefines ==
    ASSUME FenceInv, TypeInv', [Next]_vars
    PROVE  [Queue!Next]_(Queue!vars)
  <1>0. /\ TypeInv /\ RestingRowsSettled /\ ResultAcceptedOnce
        /\ row \in [Tasks -> TaskRow]
        /\ row' \in [Tasks -> TaskRow]
    BY DEF FenceInv, TypeInv, TypeOK
  <1>a. ASSUME UNCHANGED <<commit, settled>>,
               \A u \in Tasks : Phase(row'[u]) = Phase(row[u]) /\ row'[u].fence = row[u].fence
        PROVE  UNCHANGED Queue!vars
    BY <1>a, NoRowChanges DEF Queue!vars, StBar, EpochBar, Phase, Live
  <1>1. ASSUME NEW t \in Tasks, NEW d \in {0} \cup HandlerBackoffs, Enqueue(t, d)
        PROVE  Queue!Next
    <2>1. /\ row[t].status = "absent" /\ row[t].fence = 0
          /\ row'[t].status = "queued" /\ row'[t].fence = 0
          /\ \A u \in Tasks \ {t} : row'[u] = row[u]
          /\ UNCHANGED <<commit, settled>>
      BY <1>0, <1>1 DEF Enqueue, NoRow, FenceInv, FencesBounded
    <2>2. Phase(row[t]) = "absent" /\ Phase(row'[t]) = "open"
      BY <2>1 DEF Phase, Terminal
    <2>3. /\ StBar' = [StBar EXCEPT ![t] = "open"] /\ StBar[t] = "absent"
          /\ EpochBar' = [EpochBar EXCEPT ![t] = 0] /\ EpochBar[t] = 0
      BY <1>0, <2>1, <2>2, OneRowChanges
    <2>4. EpochBar' = EpochBar
      BY <2>3 DEF EpochBar
    <2>5. Queue!Submit(t)
      BY <2>1, <2>3, <2>4 DEF Queue!Submit, StBar, EpochBar, Phase, Live
    <2> QED
      BY <2>5 DEF Queue!Next
  <1>2. ASSUME NEW t \in Tasks, RequestCancel(t)
        PROVE  Queue!Next \/ UNCHANGED Queue!vars
    <2>1. /\ row'[t].fence = row[t].fence
          /\ row'[t].status = CancelledStatus(row[t].status)
          /\ \A u \in Tasks \ {t} : row'[u] = row[u]
          /\ UNCHANGED <<commit, settled>>
          /\ Phase(row[t]) = "open"
      BY <1>0, <1>2 DEF RequestCancel, TaskRow, Live, Phase
    <2>2. CASE row[t].status \in Waiting
      <3>1. Phase(row'[t]) = "cancelled" /\ settled[t] = row[t].fence
        BY <1>0, <2>1, <2>2 DEF CancelledStatus, Phase, Terminal, RestingRowsSettled,
                               Waiting, Active
      <3>2. /\ StBar' = [StBar EXCEPT ![t] = "cancelled"] /\ StBar[t] = "open"
            /\ EpochBar' = [EpochBar EXCEPT ![t] = row[t].fence]
            /\ EpochBar[t] = row[t].fence
        BY <1>0, <2>1, <3>1, OneRowChanges
      <3>3. EpochBar' = EpochBar
        BY <3>2 DEF EpochBar
      <3>4. Queue!Withdraw(t)
        BY <2>1, <3>1, <3>2, <3>3 DEF Queue!Withdraw, StBar, EpochBar, Phase, Live
      <3> QED
        BY <3>4 DEF Queue!Next
    <2>3. CASE row[t].status \notin Waiting
      <3>1. Phase(row'[t]) = Phase(row[t])
        BY <2>1, <2>3 DEF CancelledStatus, Phase
      <3> QED
        BY <2>1, <3>1, <1>a
    <2> QED
      BY <2>2, <2>3
  <1>3. ASSUME NEW t \in Tasks, Requeue(t) PROVE Queue!Next
    <2>1. /\ row[t].status = "failed" /\ row'[t].status = "queued"
          /\ row'[t].fence = row[t].fence
          /\ \A u \in Tasks \ {t} : row'[u] = row[u]
          /\ UNCHANGED <<commit, settled>>
      BY <1>0, <1>3 DEF Requeue, Requeued, TaskRow
    <2>2. Phase(row[t]) = "failed" /\ Phase(row'[t]) = "open"
      BY <2>1 DEF Phase, Terminal
    <2>3. /\ StBar' = [StBar EXCEPT ![t] = "open"] /\ StBar[t] = "failed"
          /\ EpochBar' = [EpochBar EXCEPT ![t] = row[t].fence]
          /\ EpochBar[t] = row[t].fence
      BY <1>0, <2>1, <2>2, OneRowChanges
    <2>4. EpochBar' = EpochBar
      BY <2>3 DEF EpochBar
    <2>5. Queue!Reopen(t)
      BY <2>1, <2>3, <2>4 DEF Queue!Reopen, StBar, EpochBar, Phase, Live
    <2> QED
      BY <2>5 DEF Queue!Next
  <1>4. ASSUME NEW w \in Workers, NEW t \in Tasks, Claim(w, t) PROVE Queue!Next
    <2>1. /\ row'[t].fence = row[t].fence + 1 /\ row'[t].status = "running"
          /\ \A u \in Tasks \ {t} : row'[u] = row[u]
          /\ UNCHANGED <<commit, settled>>
      BY <1>0, <1>4 DEF Claim, NextFence, TaskRow
    <2>2. Phase(row[t]) = "open" /\ Phase(row'[t]) = "open"
      BY <1>4, <2>1 DEF Claim, Claimable, Phase, Terminal, Waiting, Active
    <2>3. /\ StBar' = [StBar EXCEPT ![t] = "open"] /\ StBar[t] = "open"
          /\ EpochBar' = [EpochBar EXCEPT ![t] = row[t].fence + 1]
          /\ EpochBar[t] = row[t].fence
      BY <1>0, <2>1, <2>2, OneRowChanges
    <2>4. StBar' = StBar
      BY <2>3 DEF StBar
    <2>5. Queue!Grant(t)
      BY <2>1, <2>3, <2>4 DEF Queue!Grant, StBar, EpochBar, Phase, Live
    <2> QED
      BY <2>5 DEF Queue!Next
  <1>5. ASSUME NEW w \in Workers, DomainCommit(w) PROVE Queue!Next
    <2>1. PICK t \in Tasks : t = worker[w].task /\ worker[w].pc # "idle"
      BY <1>0, <1>5, AttemptFields DEF DomainCommit
    <2>2. /\ row[t].fence = worker[w].fence
          /\ row[t].status \in {"running", "reconciling"}
          /\ commit' = [commit EXCEPT ![t] = row[t].fence]
          /\ UNCHANGED <<row, settled>>
      BY <1>5, <2>1 DEF DomainCommit, RequireCurrent, Fenced
    <2>3. settled[t] < row[t].fence
      BY <1>0, <2>1, <2>2 DEF ResultAcceptedOnce
    <2>4. Queue!Commit(t)
      BY <2>2, <2>3 DEF Queue!Commit, Live, Terminal
    <2> QED
      BY <2>4 DEF Queue!Next
  <1>6. ASSUME NEW w \in Workers, Heartbeat(w) PROVE UNCHANGED Queue!vars
    <2>1. worker[w].task \in Tasks
      BY <1>0, <1>6, AttemptFields DEF Heartbeat
    <2>2. /\ row'[worker[w].task].fence = row[worker[w].task].fence
          /\ row'[worker[w].task].status = row[worker[w].task].status
          /\ \A u \in Tasks \ {worker[w].task} : row'[u] = row[u]
          /\ UNCHANGED <<commit, settled>>
      BY <1>0, <1>6, <2>1 DEF Heartbeat, Held, TaskRow
    <2> QED
      BY <2>1, <2>2, <1>a DEF Phase
  <1>7. CASE Tick
    <2>1. /\ \A t \in Tasks : /\ row'[t].fence = row[t].fence
                              /\ row'[t].status = row[t].status
          /\ UNCHANGED <<commit, settled>>
      BY <1>0, <1>7 DEF Tick, TaskRow
    <2> QED
      BY <2>1, <1>a DEF Phase
  <1>8. ASSUME NEW w \in Workers, Write(w) PROVE Queue!Next \/ UNCHANGED Queue!vars
    <2> USE DEF FromStates, Active, Status, Waiting, Terminal
    <2>2. CASE Succeed(w)
      BY <1>0, <2>2, StatusWriteRefines DEF Succeed
    <2>3. CASE Fail(w)
      BY <1>0, <2>3, StatusWriteRefines DEF Fail
    <2>4. CASE MarkCancelled(w)
      BY <1>0, <2>4, StatusWriteRefines DEF MarkCancelled
    <2>5. CASE Retry(w)
      <3> DEFINE r(b) == [Held(w) EXCEPT !.status = "retry_wait", !.owner = NoOwner,
                                         !.lease = NullLease, !.delay = b]
      <3>1. PICK b \in HandlerBackoffs \cup {BackoffForAttempt(worker[w].attempt)} :
               WriteResult(w, "retry", r(b))
        BY <2>5 DEF Retry
      <3>2. b \in Nat
        <4>1. worker[w].attempt \in Nat \ {0}
          BY <1>0, <2>5, AttemptFields DEF Retry, TypeInv, AttemptPositive
        <4> QED
          BY <3>1, <4>1, BackoffType, LimitsAssumption
      <3>3. Held(w) \in TaskRow
        BY <1>0, <2>5, AttemptFields DEF Held, Retry
      <3>4. r(b) \in TaskRow /\ r(b).fence = Held(w).fence /\ r(b).status # "absent"
        BY <3>2, <3>3 DEF TaskRow
      <3>5. FromStates("retry") \subseteq Active
        OBVIOUS
      <3> HIDE DEF r
      <3> QED
        BY <1>0, <3>1, <3>4, <3>5, WriteRefines
    <2>6. CASE RetriesExhausted(w)
      BY <1>0, <2>6, StatusWriteRefines DEF RetriesExhausted
    <2>7. CASE WaitExternal(w)
      BY <1>0, <2>7, StatusWriteRefines DEF WaitExternal, Parked
    <2>8. CASE Reconcile(w)
      BY <1>0, <2>8, StatusWriteRefines DEF Reconcile, Parked
    <2>9. CASE RejectedWrite(w)
      BY <2>9, <1>a DEF RejectedWrite
    <2> QED
      BY <1>8, <2>2, <2>3, <2>4, <2>5, <2>6, <2>7, <2>8, <2>9 DEF Write
  <1>9. ASSUME NEW w \in Workers,
               HeartbeatLost(w) \/ Abandon(w) \/ \E o \in Outcomes : HandlerReturns(w, o)
        PROVE  UNCHANGED Queue!vars
    BY <1>9, <1>a DEF HeartbeatLost, Abandon, HandlerReturns
  <1>10. CASE UNCHANGED vars
    BY <1>10, <1>a DEF vars
  <1> QED
    BY <1>1, <1>2, <1>3, <1>4, <1>5, <1>6, <1>7, <1>8, <1>9, <1>10 DEF Next

\* The table and the workers implement the promise of FencedQueue to callers.
THEOREM Refinement == Spec => ImplementsFencedQueue
  <1>1. FenceInv /\ FenceInv' /\ [Next]_vars => [Queue!Next]_(Queue!vars)
    BY StepRefines DEF FenceInv
  <1> QED
    BY <1>1, InitRefines, FenceInvAlways, PTL DEF Spec, ImplementsFencedQueue, Queue!Spec

-----------------------------------------------------------------------------
(* The rows as the handlers' modules see them *)

\* The view of a row is a row of TaskAttempts.
LEMMA SeenType ==
    ASSUME NEW r \in TaskRow
    PROVE  /\ Seen(r) \in Rows!TaskRow
           /\ Seen(r).n = r.fence /\ Seen(r).cancel = r.cancel
           /\ Seen(r).leased = (r.status \in Active /\ r.lease > 0)
           /\ Seen(r).status = IF r.status = "waiting_external" THEN "reconciling" ELSE r.status
  <1>1. r.status \in Status /\ r.fence \in Nat /\ r.cancel \in BOOLEAN
    BY DEF TaskRow
  <1>2. (r.status \in Active /\ r.lease > 0) \in BOOLEAN
    OBVIOUS
  <1>3. (IF r.status = "waiting_external" THEN "reconciling" ELSE r.status)
            \in {"absent"} \cup Rows!Waiting \cup Rows!Active \cup Rows!Terminal
    BY <1>1 DEF Status, Waiting, Active, Terminal, Rows!Waiting, Rows!Active, Rows!Terminal
  <1> QED
    BY <1>1, <1>2, <1>3 DEF Seen, Rows!TaskRow

\* What the view says of a row's status: it tells apart what the table's guards do.
LEMMA SeenStatus ==
    ASSUME NEW r \in TaskRow
    PROVE  /\ r.status \in Waiting <=> Seen(r).status \in Rows!Waiting
           /\ r.status \in Active <=> Seen(r).status \in Rows!Active
           /\ r.status \in Terminal <=> Seen(r).status \in Rows!Terminal
           /\ r.status \notin Active => ~Seen(r).leased /\ Seen(r).status = r.status
  BY SeenType DEF Waiting, Active, Terminal, Rows!Waiting, Rows!Active, Rows!Terminal

\* Two rows that differ in clock, owner and attempt counter only look the same.
LEMMA SeenSame ==
    ASSUME NEW r, NEW s, s.status = r.status, s.fence = r.fence, s.cancel = r.cancel,
           s.lease > 0 <=> r.lease > 0
    PROVE  Seen(s) = Seen(r)
  BY DEF Seen

\* A claim looks like a claim.
LEMMA SeenClaim ==
    ASSUME NEW r \in TaskRow, NEW s \in TaskRow,
           r.status \in Waiting \/ (r.status \in Active /\ r.lease = 0),
           s.status = "running", s.fence = r.fence + 1, s.lease = LeaseTicks,
           s.cancel = r.cancel
    PROVE  Rows!Claimable(Seen(r)) /\ Seen(s) = Rows!Claimed(Seen(r))
  <1>1. Rows!Claimable(Seen(r))
    <2>1. CASE r.status \in Waiting
      BY <2>1, SeenStatus DEF Rows!Claimable
    <2>2. CASE r.status \in Active /\ r.lease = 0
      <3>1. ~(r.lease > 0)
        BY <2>2
      <3>2. Seen(r).leased = (r.status \in Active /\ r.lease > 0)
        BY SeenType
      <3>3. ~Seen(r).leased
        BY <3>1, <3>2, Zenon
      <3> QED
        BY <2>2, <3>3, SeenStatus DEF Rows!Claimable
    <2> QED
      BY <2>1, <2>2
  <1>2. Seen(s).status = "running" /\ Seen(s).n = Seen(r).n + 1 /\ Seen(s).cancel = Seen(r).cancel
    BY SeenType
  <1>3. Seen(s).leased = TRUE
    <2>1. s.lease > 0 /\ s.status \in Active
      BY LimitsAssumption DEF Active
    <2>2. Seen(s).leased = (s.status \in Active /\ s.lease > 0)
      BY SeenType
    <2> QED
      BY <2>1, <2>2, Zenon
  <1> DEFINE a == Seen(r)
             b == Seen(s)
             n == a.n + 1
  <1>4. a \in Rows!TaskRow /\ b \in Rows!TaskRow
    BY SeenType
  <1>5. b.status = "running" /\ b.n = n /\ b.leased = TRUE /\ b.cancel = a.cancel
    BY <1>2, <1>3
  <1> HIDE DEF n, a, b
  <1>6. b = [a EXCEPT !.status = "running", !.n = n, !.leased = TRUE]
    BY <1>4, <1>5 DEF Rows!TaskRow
  <1> QED
    BY <1>1, <1>6 DEF n, a, b, Rows!Claimed

\* A cancel looks like a cancel.
LEMMA SeenCancel ==
    ASSUME NEW r \in TaskRow, NEW s \in TaskRow,
           r.status \notin Terminal \cup {"absent"}, ~r.cancel,
           s.status = CancelledStatus(r.status), s.fence = r.fence, s.lease = r.lease,
           s.cancel = TRUE
    PROVE  Rows!Cancellable(Seen(r)) /\ Seen(s) = Rows!CancelAsked(Seen(r))
  <1> DEFINE a == Seen(r)
             b == Seen(s)
  <1>1. a \in Rows!TaskRow /\ b \in Rows!TaskRow
    BY SeenType
  <1>2. r.status \in Waiting \cup Active
    BY DEF TaskRow, Status
  <1>3. a.status \in Rows!Waiting \cup Rows!Active /\ ~a.cancel
    BY <1>2, SeenStatus, SeenType
  <1>4. b.n = a.n /\ b.cancel = TRUE
    BY SeenType
  <1>5. b.status = IF a.status \in Rows!Waiting THEN "cancelled" ELSE a.status
    BY <1>2, SeenType, SeenStatus DEF CancelledStatus, Waiting, Active
  <1>6. b.leased = a.leased
    <2>1. r.status \in Waiting => s.status \notin Active /\ r.status \notin Active
      BY DEF CancelledStatus, Waiting, Active
    <2>2. r.status \notin Waiting => s.status = r.status
      BY DEF CancelledStatus
    <2> QED
      BY <2>1, <2>2, SeenType
  <1> HIDE DEF a, b
  <1>7. b = [a EXCEPT !.cancel = TRUE,
                      !.status = IF a.status \in Rows!Waiting THEN "cancelled" ELSE a.status]
    BY <1>1, <1>4, <1>5, <1>6 DEF Rows!TaskRow
  <1> QED
    BY <1>3, <1>7 DEF a, b, Rows!Cancellable, Rows!CancelAsked

\* A re-queue looks like a re-queue.
LEMMA SeenRequeue ==
    ASSUME NEW r \in TaskRow, NEW s \in TaskRow, r.status = "failed",
           s.status = "queued", s.fence = r.fence, s.cancel = FALSE
    PROVE  Rows!Requeuable(Seen(r)) /\ Seen(s) = Rows!Requeued(Seen(r))
  <1> DEFINE a == Seen(r)
             b == Seen(s)
  <1>1. a \in Rows!TaskRow /\ b \in Rows!TaskRow
    BY SeenType
  <1>2. a.status = "failed" /\ b.status = "queued" /\ b.n = a.n /\ b.cancel = FALSE
    BY SeenType
  <1>3. b.leased = FALSE
    BY SeenType DEF Active
  <1> HIDE DEF a, b
  <1>4. b = [a EXCEPT !.status = "queued", !.leased = FALSE, !.cancel = FALSE]
    BY <1>1, <1>2, <1>3 DEF Rows!TaskRow
  <1> QED
    BY <1>2, <1>4 DEF a, b, Rows!Requeuable, Rows!Requeued

\* A tick expires the lease of an active row, or shows nothing.
LEMMA SeenTick ==
    ASSUME NEW r \in TaskRow, NEW s \in TaskRow, s.status = r.status, s.fence = r.fence,
           s.cancel = r.cancel, s.lease = Dec(r.lease)
    PROVE  \/ Seen(s) = Seen(r)
           \/ Seen(r).leased /\ Seen(s) = [Seen(r) EXCEPT !.leased = FALSE]
  <1> DEFINE a == Seen(r)
             b == Seen(s)
  <1>1. a \in Rows!TaskRow /\ b \in Rows!TaskRow
    BY SeenType
  <1>2. b.status = a.status /\ b.n = a.n /\ b.cancel = a.cancel
    BY SeenType
  <1>3. b.leased => a.leased
    <2>1. r.lease \in Nat \cup {NullLease}
      BY DEF TaskRow
    <2>2. s.lease > 0 => r.lease > 0
      BY <2>1 DEF Dec, NullLease
    <2> QED
      BY <2>2, SeenType
  <1>4. a.leased \in BOOLEAN /\ b.leased \in BOOLEAN
    BY <1>1 DEF Rows!TaskRow
  <1> HIDE DEF a, b
  <1>5. CASE a.leased = b.leased
    <2>1. b = a
      BY <1>1, <1>2, <1>5 DEF Rows!TaskRow
    <2> QED
      BY <2>1 DEF a, b
  <1>6. CASE a.leased = TRUE /\ b.leased = FALSE
    <2>1. b = [a EXCEPT !.leased = FALSE]
      BY <1>1, <1>2, <1>6 DEF Rows!TaskRow
    <2> QED
      BY <1>6, <2>1 DEF a, b
  <1> QED
    BY <1>3, <1>4, <1>5, <1>6

\* The write of a result looks like the write of that result.
LEMMA SeenWritten ==
    ASSUME NEW r \in TaskRow, NEW s \in TaskRow, NEW o \in Outcomes,
           r.status \in Active, s.fence = r.fence, s.cancel = r.cancel,
           \/ o = "succeed" /\ s.status = "succeeded"
           \/ o = "fail" /\ s.status = "failed"
           \/ o = "cancelled" /\ s.status = "cancelled"
           \/ o = "retry" /\ r.fence < MaxAttempts /\ s.status = "retry_wait"
           \/ o = "retry" /\ ~(r.fence < MaxAttempts) /\ s.status = "failed"
           \/ /\ o \in {"wait_external", "reconcile"} /\ s.lease = r.lease
              /\ s.status \in {"waiting_external", "reconciling"}
    PROVE  Seen(s) = Rows!Written(Seen(r), SeenOutcome(o))
  <1> DEFINE a == Seen(r)
             b == Seen(s)
  <1>1. a \in Rows!TaskRow /\ b \in Rows!TaskRow
    BY SeenType
  <1>2. b.n = a.n /\ b.cancel = a.cancel /\ a.n = r.fence
    BY SeenType
  <1>3. s.status \in Terminal \cup Waiting =>
            b.leased = FALSE /\ b.status = s.status
    <2>1. s.status \in Terminal \cup Waiting => s.status \notin Active
      BY DEF Terminal, Waiting, Active
    <2> QED
      BY <1>1, <2>1, SeenStatus DEF Rows!TaskRow
  <1>4. ASSUME NEW x, b.status = x, b.leased = FALSE
        PROVE  b = [a EXCEPT !.status = x, !.leased = FALSE]
    <2> HIDE DEF a, b
    <2> QED
      BY <1>1, <1>2, <1>4 DEF Rows!TaskRow
  <1>5. CASE o = "succeed" /\ s.status = "succeeded"
    BY <1>3, <1>4, <1>5 DEF Terminal, Rows!Written, SeenOutcome
  <1>6. CASE o = "fail" /\ s.status = "failed"
    BY <1>3, <1>4, <1>6 DEF Terminal, Rows!Written, SeenOutcome
  <1>7. CASE o = "cancelled" /\ s.status = "cancelled"
    BY <1>3, <1>4, <1>7 DEF Terminal, Rows!Written, SeenOutcome
  <1>8. CASE o = "retry" /\ r.fence < MaxAttempts /\ s.status = "retry_wait"
    <2>1. b = [a EXCEPT !.status = "retry_wait", !.leased = FALSE]
      BY <1>3, <1>4, <1>8 DEF Waiting
    <2>2. a.n < MaxAttempts
      BY <1>2, <1>8
    <2> HIDE DEF a, b
    <2>3. b = Rows!Written(a, "retry")
      BY <2>1, <2>2 DEF Rows!Written
    <2> QED
      BY <1>8, <2>3 DEF a, b, SeenOutcome
  <1>9. CASE o = "retry" /\ ~(r.fence < MaxAttempts) /\ s.status = "failed"
    <2>1. b = [a EXCEPT !.status = "failed", !.leased = FALSE]
      BY <1>3, <1>4, <1>9 DEF Terminal
    <2>2. ~(a.n < MaxAttempts)
      BY <1>2, <1>9
    <2> HIDE DEF a, b
    <2>3. b = Rows!Written(a, "retry")
      BY <2>1, <2>2 DEF Rows!Written
    <2> QED
      BY <1>9, <2>3 DEF a, b, SeenOutcome
  <1>10. CASE /\ o \in {"wait_external", "reconcile"} /\ s.lease = r.lease
              /\ s.status \in {"waiting_external", "reconciling"}
    <2>1. b.status = "reconciling"
      BY <1>10, SeenType
    <2>2. b.leased = a.leased
      <3>1. s.status \in Active
        BY <1>10 DEF Active
      <3> QED
        BY <1>10, <3>1, SeenType
    <2> HIDE DEF a, b
    <2>3. b = [a EXCEPT !.status = "reconciling"]
      BY <1>1, <1>2, <2>1, <2>2 DEF Rows!TaskRow
    <2>4. b = Rows!Written(a, "reconcile")
      BY <2>3 DEF Rows!Written
    <2> QED
      BY <1>10, <2>4 DEF a, b, SeenOutcome
  <1> QED
    BY <1>5, <1>6, <1>7, <1>8, <1>9, <1>10

\* A row that a step leaves alone shows no step.
LEMMA SeenRest ==
    ASSUME NEW t, row'[t] = row[t]
    PROVE  SeenStep(t)
  BY DEF SeenStep

\* An accepted write of any outcome shows the fenced result of the attempt that
\* wrote it, and nothing at the other rows.
LEMMA WriteSeen ==
    ASSUME FenceInv, row' \in [Tasks -> TaskRow], NEW w \in Workers, NEW o \in Outcomes,
           NEW s \in TaskRow, WriteResult(w, o, s),
           s.fence = Held(w).fence, s.cancel = Held(w).cancel,
           \/ o = "succeed" /\ s.status = "succeeded"
           \/ o = "fail" /\ s.status = "failed"
           \/ o = "cancelled" /\ s.status = "cancelled"
           \/ o = "retry" /\ worker[w].attempt < MaxAttempts /\ s.status = "retry_wait"
           \/ o = "retry" /\ ~(worker[w].attempt < MaxAttempts) /\ s.status = "failed"
           \/ /\ o \in {"wait_external", "reconcile"} /\ s.lease = Held(w).lease
              /\ s.status \in {"waiting_external", "reconciling"},
           NEW u \in Tasks
    PROVE  SeenStep(u)
  <1> DEFINE t == worker[w].task
  <1>1. t \in Tasks /\ row[t] \in TaskRow /\ row \in [Tasks -> TaskRow] /\ worker[w].pc = "write"
    BY AttemptFields DEF WriteResult, FenceInv, TypeInv, TypeOK
  <1>2. /\ row'[t] = s /\ \A v \in Tasks \ {t} : row'[v] = row[v]
        /\ worker[w].outcome = o /\ row[t].fence = worker[w].fence
    BY <1>1 DEF WriteResult, Fenced
  <1>3. row[t].status \in Active
    BY DEF WriteResult, Fenced, FromStates, Active, Outcomes
  <1>4. worker[w].attempt = row[t].fence
    BY <1>1, <1>2 DEF FenceInv, FencesBounded
  <1>5. Seen(s) = Rows!Written(Seen(row[t]), SeenOutcome(o))
    <2> DEFINE r == row[t]
    <2>1. r \in TaskRow /\ r.status \in Active /\ s.fence = r.fence /\ s.cancel = r.cancel
      BY <1>1, <1>3 DEF Held
    <2>2. \/ o = "succeed" /\ s.status = "succeeded"
          \/ o = "fail" /\ s.status = "failed"
          \/ o = "cancelled" /\ s.status = "cancelled"
          \/ o = "retry" /\ r.fence < MaxAttempts /\ s.status = "retry_wait"
          \/ o = "retry" /\ ~(r.fence < MaxAttempts) /\ s.status = "failed"
          \/ /\ o \in {"wait_external", "reconcile"} /\ s.lease = r.lease
             /\ s.status \in {"waiting_external", "reconciling"}
      BY <1>4, Zenon DEF Held
    <2> HIDE DEF r
    <2>3. Seen(s) = Rows!Written(Seen(r), SeenOutcome(o))
      BY <2>1, <2>2, SeenWritten
    <2> QED
      BY <2>3 DEF r
  <1>6. Rows!Fenced(Seen(row[t]), worker[w].fence)
    BY <1>1, <1>2, <1>3, SeenType, SeenStatus DEF Rows!Fenced
  <1>7. SeenWrite(w, t)
    BY <1>1, <1>2, <1>5, <1>6 DEF SeenWrite
  <1>8. CASE u = t
    BY <1>7, <1>8 DEF SeenStep
  <1>9. CASE u # t
    BY <1>2, <1>9, SeenRest
  <1> QED
    BY <1>8, <1>9

\* A task id that has no row yet shows the empty row.
AbsentIsEmpty == \A t \in Tasks : row[t].status = "absent" => row[t].cancel = FALSE

SeenInv == FenceInv /\ AbsentIsEmpty

\* Every step of the table shows a step of TaskAttempts at every row.
LEMMA StepSeen ==
    ASSUME SeenInv, TypeInv', [Next]_vars, NEW u \in Tasks
    PROVE  SeenStep(u)
  <1>0. /\ FenceInv /\ TypeInv
        /\ row \in [Tasks -> TaskRow] /\ row' \in [Tasks -> TaskRow]
        /\ row[u] \in TaskRow /\ row'[u] \in TaskRow
    BY DEF SeenInv, FenceInv, TypeInv, TypeOK
  <1>1. CASE UNCHANGED row
    BY <1>1, SeenRest
  <1>2. ASSUME NEW t \in Tasks, NEW d \in {0} \cup HandlerBackoffs, Enqueue(t, d)
        PROVE  SeenStep(u)
    <2>1. CASE u # t
      BY <1>0, <1>2, <2>1, SeenRest DEF Enqueue
    <2>2. CASE u = t
      <3>1. row[u].status = "absent" /\ row[u].fence = 0 /\ row[u].cancel = FALSE
        BY <1>0, <1>2, <2>2 DEF Enqueue, FenceInv, FencesBounded, SeenInv, AbsentIsEmpty
      <3>2. row'[u] = [NoRow EXCEPT !.status = "queued", !.delay = d]
        BY <1>0, <1>2, <2>2 DEF Enqueue
      <3>3. row'[u].status = "queued" /\ row'[u].fence = 0 /\ row'[u].cancel = FALSE
        BY <3>2 DEF NoRow
      <3>4. Seen(row[u]) = Rows!Absent
        BY <3>1 DEF Seen, Rows!Absent, Active
      <3>5. Seen(row'[u]) = Rows!Enqueued
        <4> DEFINE a == Rows!Absent
                   b == Seen(row'[u])
        <4>1. a \in Rows!TaskRow /\ a.n = 0 /\ a.leased = FALSE /\ a.cancel = FALSE
          BY DEF Rows!Absent, Rows!TaskRow
        <4>2. row'[u].status \notin Active
          BY <3>3 DEF Active
        <4>3. b \in Rows!TaskRow /\ b.n = 0 /\ b.cancel = FALSE /\ b.status = "queued"
          BY <1>0, <3>3, SeenType
        <4>4. b.leased = FALSE
          BY <1>0, <4>2, <4>3, SeenStatus DEF Rows!TaskRow
        <4> HIDE DEF a, b
        <4>5. b = [a EXCEPT !.status = "queued"]
          BY <4>1, <4>3, <4>4 DEF Rows!TaskRow
        <4> QED
          BY <4>5 DEF a, b, Rows!Enqueued
      <3> QED
        BY <3>4, <3>5 DEF SeenStep
    <2> QED
      BY <2>1, <2>2
  <1>3. ASSUME NEW t \in Tasks, RequestCancel(t) PROVE SeenStep(u)
    <2>1. CASE u # t
      BY <1>0, <1>3, <2>1, SeenRest DEF RequestCancel
    <2>2. CASE u = t
      <3>1. /\ row'[u].status = CancelledStatus(row[u].status) /\ row'[u].cancel = TRUE
            /\ row'[u].fence = row[u].fence /\ row'[u].lease = row[u].lease
        BY <1>0, <1>3, <2>2 DEF RequestCancel, TaskRow
      <3>2. row[u].status \notin Terminal \cup {"absent"} /\ ~row[u].cancel
        BY <1>3, <2>2 DEF RequestCancel, Live
      <3> QED
        BY <1>0, <3>1, <3>2, SeenCancel DEF SeenStep
    <2> QED
      BY <2>1, <2>2
  <1>4. ASSUME NEW t \in Tasks, Requeue(t) PROVE SeenStep(u)
    <2>1. CASE u # t
      BY <1>0, <1>4, <2>1, SeenRest DEF Requeue
    <2>2. CASE u = t
      <3>1. /\ row[u].status = "failed" /\ row'[u].status = "queued"
            /\ row'[u].fence = row[u].fence /\ row'[u].cancel = FALSE
        BY <1>0, <1>4, <2>2 DEF Requeue, Requeued, TaskRow
      <3> QED
        BY <1>0, <3>1, SeenRequeue DEF SeenStep
    <2> QED
      BY <2>1, <2>2
  <1>5. ASSUME NEW w \in Workers, NEW t \in Tasks, Claim(w, t) PROVE SeenStep(u)
    <2>1. CASE u # t
      BY <1>0, <1>5, <2>1, SeenRest DEF Claim
    <2>2. CASE u = t
      <3> DEFINE n == row[u].attempt + 1
                 f == NextFence(row[u])
                 r == [row[u] EXCEPT !.status = "running", !.owner = OwnerId[w], !.attempt = n,
                                     !.fence = f, !.lease = LeaseTicks]
      <3>1. row'[u] = r
        BY <1>0, <1>5, <2>2 DEF Claim
      <3> HIDE DEF n, f
      <3>2. r.status = "running" /\ r.fence = f /\ r.lease = LeaseTicks /\ r.cancel = row[u].cancel
        BY <1>0 DEF TaskRow
      <3> HIDE DEF r
      <3>3. f = row[u].fence + 1
        BY DEF f, NextFence
      <3>4. row[u].status \in Waiting \/ (row[u].status \in Active /\ row[u].lease = 0)
        BY <1>5, <2>2 DEF Claim, Claimable
      <3> QED
        BY <1>0, <3>1, <3>2, <3>3, <3>4, SeenClaim DEF SeenStep
    <2> QED
      BY <2>1, <2>2
  <1>6. ASSUME NEW w \in Workers, Heartbeat(w) PROVE SeenStep(u)
    <2>1. worker[w].task \in Tasks
      BY <1>0, <1>6, AttemptFields DEF Heartbeat
    <2>2. CASE u # worker[w].task
      BY <1>0, <1>6, <2>1, <2>2, SeenRest DEF Heartbeat
    <2>3. CASE u = worker[w].task
      <3>1. /\ row'[u].status = row[u].status /\ row'[u].cancel = row[u].cancel
            /\ row'[u].fence = row[u].fence /\ row'[u].lease = LeaseTicks
        BY <1>0, <1>6, <2>3 DEF Heartbeat, Held, TaskRow
      <3>2. row[u].lease > 0 /\ LeaseTicks > 0
        BY <1>6, <2>3, LimitsAssumption DEF Heartbeat
      <3>3. Seen(row'[u]) = Seen(row[u])
        BY <3>1, <3>2, SeenSame
      <3> QED
        BY <3>3 DEF SeenStep
    <2> QED
      BY <2>2, <2>3
  <1>7. ASSUME NEW w \in Workers, Write(w) PROVE SeenStep(u)
    <2>1. CASE RejectedWrite(w)
      BY <1>1, <2>1 DEF RejectedWrite
    <2>2. CASE ~RejectedWrite(w)
      <3>1. Held(w) \in TaskRow /\ worker[w].pc = "write"
        BY <1>0, <1>7, <2>2, AttemptFields DEF Held, Write, Succeed, Fail, MarkCancelled, Retry,
           RetriesExhausted, WaitExternal, Reconcile, WriteResult
      <3>2. ASSUME NEW s \in Status
            PROVE  LET r == [Held(w) EXCEPT !.status = s]
                   IN  /\ r \in TaskRow /\ r.status = s
                       /\ r.fence = Held(w).fence /\ r.cancel = Held(w).cancel
                       /\ r.lease = Held(w).lease
        BY <3>1 DEF TaskRow
      <3>3. {"succeeded", "failed", "cancelled", "waiting_external", "reconciling"} \subseteq Status
        BY DEF Status, Terminal, Active
      <3> USE DEF Outcomes
      <3>4. CASE Succeed(w)
        BY <1>0, <3>2, <3>3, <3>4, WriteSeen DEF Succeed
      <3>5. CASE Fail(w)
        BY <1>0, <3>2, <3>3, <3>5, WriteSeen DEF Fail
      <3>6. CASE MarkCancelled(w)
        BY <1>0, <3>2, <3>3, <3>6, WriteSeen DEF MarkCancelled
      <3>7. CASE RetriesExhausted(w)
        BY <1>0, <3>2, <3>3, <3>7, WriteSeen DEF RetriesExhausted, MayRetry
      <3>8. CASE WaitExternal(w)
        BY <1>0, <3>2, <3>3, <3>8, WriteSeen DEF WaitExternal, Parked
      <3>9. CASE Reconcile(w)
        BY <1>0, <3>2, <3>3, <3>9, WriteSeen DEF Reconcile, Parked
      <3>10. CASE Retry(w)
        <4> DEFINE r(b) == [Held(w) EXCEPT !.status = "retry_wait", !.owner = NoOwner,
                                           !.lease = NullLease, !.delay = b]
        <4>1. PICK b \in HandlerBackoffs \cup {BackoffForAttempt(worker[w].attempt)} :
                 WriteResult(w, "retry", r(b))
          BY <3>10 DEF Retry
        <4>2. b \in Nat
          <5>1. worker[w].attempt \in Nat \ {0}
            BY <1>0, <3>1, AttemptFields DEF TypeInv, AttemptPositive
          <5> QED
            BY <4>1, <5>1, BackoffType, LimitsAssumption
        <4>3. /\ r(b) \in TaskRow /\ r(b).status = "retry_wait"
              /\ r(b).fence = Held(w).fence /\ r(b).cancel = Held(w).cancel
          BY <3>1, <4>2 DEF TaskRow, Status, Waiting
        <4>4. worker[w].attempt < MaxAttempts
          BY <3>10 DEF Retry, MayRetry
        <4> HIDE DEF r
        <4> QED
          BY <1>0, <4>1, <4>3, <4>4, WriteSeen
      <3> QED
        BY <1>7, <2>2, <3>4, <3>5, <3>6, <3>7, <3>8, <3>9, <3>10 DEF Write
    <2> QED
      BY <2>1, <2>2
  <1>8. CASE Tick
    <2>1. /\ row'[u].status = row[u].status /\ row'[u].fence = row[u].fence
          /\ row'[u].cancel = row[u].cancel
      BY <1>0, <1>8 DEF Tick, TaskRow
    <2>2. row'[u].lease = Dec(row[u].lease)
      <3> DEFINE l == Dec(row[u].lease)
                 d == Dec(row[u].delay)
      <3>1. row'[u] = [row[u] EXCEPT !.lease = l, !.delay = d]
        BY <1>8 DEF Tick
      <3> HIDE DEF l, d
      <3>2. row'[u].lease = l
        BY <1>0, <3>1 DEF TaskRow
      <3> QED
        BY <3>2 DEF l
    <2> QED
      BY <1>0, <2>1, <2>2, SeenTick DEF SeenStep
  <1> QED
    BY <1>1, <1>2, <1>3, <1>4, <1>5, <1>6, <1>7, <1>8
    DEF Next, vars, DomainCommit, HandlerReturns, HeartbeatLost, Abandon

\* A step seen at a row never makes it absent again.
LEMMA SeenInvStep == SeenInv /\ [Next]_vars => SeenInv'
  <1> SUFFICES ASSUME SeenInv, [Next]_vars PROVE SeenInv'
    OBVIOUS
  <1>1. FenceInv' /\ TypeInv'
    BY FenceInvStep DEF SeenInv, FenceInv
  <1>2. ASSUME NEW u \in Tasks, row'[u].status = "absent" PROVE row'[u].cancel = FALSE
    <2> DEFINE a == Seen(row[u])
               b == Seen(row'[u])
    <2>1. row[u] \in TaskRow /\ row'[u] \in TaskRow
      BY <1>1 DEF SeenInv, FenceInv, TypeInv, TypeOK
    <2>2. a \in Rows!TaskRow /\ b \in Rows!TaskRow /\ b.status = "absent"
      BY <1>2, <2>1, SeenType
    <2>3. SeenStep(u)
      BY <1>1, StepSeen
    <2>4. b = a
      <3> USE DEF Rows!Waiting, Rows!Active, Rows!Terminal
      <3>1. b # Rows!Enqueued /\ b # Rows!Requeued(a)
        BY <2>2 DEF Rows!Enqueued, Rows!Absent, Rows!Requeued, Rows!TaskRow
      <3>2. b # Rows!Claimed(a)
        <4> DEFINE n == a.n + 1
        <4> HIDE DEF n, a, b
        <4>1. [a EXCEPT !.status = "running", !.n = n, !.leased = TRUE].status = "running"
          BY <2>2 DEF Rows!TaskRow
        <4> QED
          BY <2>2, <4>1 DEF n, Rows!Claimed
      <3>3. ASSUME Rows!Cancellable(a), b = Rows!CancelAsked(a) PROVE FALSE
        BY <2>2, <3>3 DEF Rows!Cancellable, Rows!CancelAsked, Rows!TaskRow
      <3>4. ASSUME NEW w \in Workers, SeenWrite(w, u) PROVE FALSE
        <4> DEFINE o == SeenOutcome(worker[w].outcome)
        <4>1. o \in Rows!Outcomes
          BY <3>4 DEF SeenWrite, SeenOutcome, Outcomes, Rows!Outcomes
        <4>2. b = Rows!Written(a, o)
          BY <3>4 DEF SeenWrite
        <4>3. a.status \in Rows!Active
          BY <3>4 DEF SeenWrite, Rows!Fenced
        <4> HIDE DEF a, b, o
        <4>4. Rows!Written(a, o).status # "absent"
          BY <2>2, <4>1 DEF Rows!Written, Rows!Outcomes, Rows!TaskRow
        <4> QED
          BY <2>2, <4>2, <4>4
      <3>5. ASSUME a.leased, b = [a EXCEPT !.leased = FALSE] PROVE b = a
        <4>1. row[u].status \in Active
          BY <2>1, <3>5, SeenStatus
        <4>2. a.status \in Rows!Active /\ b.status = a.status
          BY <2>1, <2>2, <3>5, <4>1, SeenStatus DEF Rows!TaskRow
        <4> QED
          BY <2>2, <4>2
      <3> QED
        BY <2>3, <3>1, <3>2, <3>3, <3>4, <3>5 DEF SeenStep
    <2>5. row[u].status = "absent" /\ row'[u].cancel = row[u].cancel
      BY <1>2, <2>1, <2>2, <2>4, SeenType
    <2> QED
      BY <2>5 DEF SeenInv, AbsentIsEmpty
  <1> QED
    BY <1>1, <1>2 DEF SeenInv, AbsentIsEmpty

\* Seen from a handler, the durable queue is TaskAttempts: whatever clock, workers
\* with shared owner ids, heartbeats and late writes do, a row makes only the steps
\* the domain modules allow, and every commit is the current attempt's.
THEOREM HandlersSeeAttempts == Spec => RowsAreAttempts
  <1> DEFINE Step == \A t \in Tasks : SeenStep(t) /\ (commit'[t] # commit[t] => SeenCommit(t))
  <1>1. Init => SeenInv
    <2> SUFFICES ASSUME Init PROVE SeenInv
      OBVIOUS
    <2>1. AbsentIsEmpty
      BY DEF Init, NoRow, AbsentIsEmpty
    <2> QED
      BY <2>1, FenceInvInit DEF SeenInv
  <1>2. SeenInv /\ [Next]_vars => [Step]_vars
    <2> SUFFICES ASSUME SeenInv, [Next]_vars PROVE Step
      OBVIOUS
    <2>0. TypeInv /\ TypeInv'
      BY SeenInvStep DEF SeenInv, FenceInv
    <2>1. \A t \in Tasks : SeenStep(t)
      BY <2>0, StepSeen
    <2>2. ASSUME NEW t \in Tasks, commit'[t] # commit[t] PROVE SeenCommit(t)
      <3>1. PICK w \in Workers : DomainCommit(w)
        BY <2>2 DEF Next, vars, Enqueue, RequestCancel, Requeue, Claim, HandlerReturns,
           Heartbeat, HeartbeatLost, Abandon, Write, Succeed, Fail, MarkCancelled, Retry,
           RetriesExhausted, WaitExternal, Reconcile, RejectedWrite, WriteResult, Tick
      <3>2. /\ worker[w].pc = "handler" /\ worker[w].task = t /\ commit'[t] = worker[w].fence
        BY <2>0, <2>2, <3>1 DEF DomainCommit, TypeInv, TypeOK
      <3>3. /\ row[t].fence = worker[w].fence /\ row[t].status \in {"running", "reconciling"}
            /\ row[t].lease > 0
        BY <3>1, <3>2 DEF DomainCommit, RequireCurrent, Fenced
      <3>4. row[t] \in TaskRow /\ row[t].status \in Active
        BY <2>0, <3>3 DEF TypeInv, TypeOK, Active
      <3>5. Seen(row[t]).leased = (row[t].status \in Active /\ row[t].lease > 0)
        BY <3>4, SeenType
      <3>6. Seen(row[t]).leased
        BY <3>3, <3>4, <3>5, Zenon
      <3>7. Rows!Current(Seen(row[t]), worker[w].fence)
        BY <3>3, <3>4, <3>6, SeenType, SeenStatus DEF Rows!Current
      <3> QED
        BY <3>2, <3>7 DEF SeenCommit
    <2> QED
      BY <2>1, <2>2
  <1> QED
    BY <1>1, <1>2, SeenInvStep, PTL DEF Spec, RowsAreAttempts

=============================================================================
