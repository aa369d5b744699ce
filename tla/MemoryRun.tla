----------------------------- MODULE MemoryRun -----------------------------
(***************************************************************************)
(* Team Memory runs of one account: the memory.aggregate handler           *)
(* (team_memory/handlers.py), its checkpointed Compile stages              *)
(* (team_memory/merge.py, pipeline.py) and the account's resource lease    *)
(* (teamEvolver/runtime/repository.py).  OpenViking, which runs the        *)
(* Compile tasks, is external: one task per idempotency key, that is per   *)
(* run and stage.                                                          *)
(*                                                                         *)
(* Each action is one transaction, one call to OpenViking, or a fault.     *)
(* Two workers may be in the handler for the same run at once: one whose   *)
(* task lease ran out and who has not noticed, and the one that took over. *)
(***************************************************************************)
EXTENDS TaskAttempts

CONSTANTS
    Runs,        \* Memory runs of one account
    NoRun,       \* no run: what an idle worker works on, an unowned lease
    Workers,     \* worker processes
    NumStages,   \* [Runs -> Nat]: Compile stages of the run's pipeline
    MaxStalls    \* bound: crashes, errors, lost leases, cancels and re-queues

ASSUME NoRunAssumption == NoRun \notin Runs
ASSUME StagesAssumption == NumStages \in [Runs -> Nat] /\ MaxStalls \in Nat

VARIABLES
    task,      \* worker_tasks, by run
    result,    \* runs whose memory_runs.result is set
    stage,     \* memory_stages, by run and place in the pipeline
    lease,     \* the resource_leases row memory:account:<account>
    compile,   \* OpenViking's Compile tasks, by idempotency key
    wire,      \* submissions sent by an attempt that is gone, not yet served
    worker,    \* what each worker process is doing
    ended,     \* runs that their handler ended, and did not give up on
    stalls     \* how much of MaxStalls is used up

vars == <<task, result, stage, lease, compile, wire, worker, ended, stalls>>

-----------------------------------------------------------------------------
(* Types *)

Keys == UNION {{r} \X (1..NumStages[r]) : r \in Runs}

CompileEnd == {"succeeded", "failed", "cancelled"}

StageRow == [status : {"none", "running"} \cup CompileEnd, upstream : BOOLEAN]

NoStage == [status |-> "none", upstream |-> FALSE]

\* The resource_leases row; an unowned one has lease_until NULL.  Its owner_id
\* is the run, and its fence is new with every grant: since an attempt takes
\* the lease once at most, the attempt it was granted to stands for the fence.
LeaseRow == [owner : Runs \cup {NoRun}, n : Nat, live : BOOLEAN]

NoLease == [owner |-> NoRun, n |-> 0, live |-> FALSE]

Location == {"idle", "enter", "acquire", "recover", "durable", "read", "query",
             "save", "submit", "record", "poll", "status", "settle",
             "except", "release", "write"}

\* Where a worker is in aggregate, with the locals it still needs.
Attempt == [pc        : Location,
            run       : Runs \cup {NoRun},
            n         : Nat,            \* ClaimedTask.attempt
            cancelled : BOOLEAN,        \* aggregate's cancelled
            recover   : BOOLEAN,        \* in recover_and_run's first part
            k         : Nat,            \* the stage at hand
            seen      : StageRow,       \* as compile_stage read it
            asked     : BOOLEAN,        \* compile_stage's cancelled
            state     : {"none"} \cup CompileEnd,  \* as status answered
            pulse     : {"none", "retry", "reconcile"},  \* see PulseFails
            outcome   : Outcomes \cup {"none"}]

Idle == [pc |-> "idle", run |-> NoRun, n |-> 0, cancelled |-> FALSE,
         recover |-> FALSE, k |-> 0, seen |-> NoStage, asked |-> FALSE,
         state |-> "none", pulse |-> "none", outcome |-> "none"]

TypeOK ==
    /\ task \in [Runs -> TaskRow]
    /\ result \subseteq Runs
    /\ stage \in [Keys -> StageRow]
    /\ lease \in LeaseRow
    /\ compile \in [Keys -> {"none", "running"} \cup CompileEnd]
    /\ wire \subseteq Keys
    /\ worker \in [Workers -> Attempt]
    /\ \A w \in Workers : worker[w].pc # "idle" => worker[w].run \in Runs
    /\ ended \subseteq Runs
    /\ stalls \in 0..MaxStalls

Init ==
    /\ task = [r \in Runs |-> Absent]
    /\ result = {}
    /\ stage = [key \in Keys |-> NoStage]
    /\ lease = NoLease
    /\ compile = [key \in Keys |-> "none"]
    /\ wire = {}
    /\ worker = [w \in Workers |-> Idle]
    /\ ended = {}
    /\ stalls = 0

-----------------------------------------------------------------------------
(* The attempt of worker w.  A definition marked "Mistake" is not part of the *)
(* model: it is a plausible error in the definition below it, which one of    *)
(* the properties has to rule out.                                            *)

At(w, pc) == worker[w].pc = pc

Run(w) == worker[w].run

Key(w) == <<worker[w].run, worker[w].k>>

\* Mistake: the row is taken to be as this attempt has claimed it.
GuardByLease(w) == LeaseHeld(task[Run(w)], worker[w].n)

\* guard(allow_cancel=True) of runs.py: it raises, or reads cancel_requested.
Guard(w) == Current(task[Run(w)], worker[w].n)

Asked(w) == task[Run(w)].cancel

RunningStages(r) == {key \in Keys : key[1] = r /\ stage[key].status = "running"}

\* Worker w goes on at pc with its other locals as in new.
Goto(w, pc, new) == worker' = [worker EXCEPT ![w] = [new EXCEPT !.pc = pc]]

\* The locals that survive compile_stage, and those that survive the try.
Fresh(w) == [worker[w] EXCEPT !.seen = NoStage, !.asked = FALSE, !.state = "none"]

Left(w) == [Idle EXCEPT !.run = Run(w), !.n = worker[w].n]

\* How the try ends when work does with outcome: a pulse that failed has already
\* decided it.
Decided(w, outcome) == IF worker[w].pulse = "none" THEN outcome ELSE worker[w].pulse

\* Leaving the try: with a result, with an exception that is neither an
\* InterruptedError nor a ValueError, or because the handler is cancelled.
Return(w, outcome) == Goto(w, "release", [Left(w) EXCEPT !.outcome = Decided(w, outcome)])

Raise(w) ==
    IF worker[w].pulse = "none"
    THEN Goto(w, "except", Left(w))
    ELSE Return(w, worker[w].pulse)

Quit(w) == Goto(w, "release", Left(w))

\* A result from before the try; an exception there is a retry.
Answer(w, outcome) == Goto(w, "write", [Left(w) EXCEPT !.outcome = outcome])

\* compile_stage has returned: recover_and_run goes on to the pipeline, or
\* the pipeline to what follows stage k.
StageDone(w) ==
    IF worker[w].recover
    THEN IF worker[w].cancelled
         THEN Return(w, "cancelled")
         ELSE Goto(w, "durable", [Fresh(w) EXCEPT !.recover = FALSE, !.k = 1])
    ELSE Goto(w, "durable", [Fresh(w) EXCEPT !.k = worker[w].k + 1])

\* Spend one unit of the bound on disturbances.
Stall ==
    /\ stalls < MaxStalls
    /\ stalls' = stalls + 1

-----------------------------------------------------------------------------
(* Callers and the queue *)

\* accept: a repeated Idempotency-Key finds the run and enqueues nothing.
Accept(r) ==
    /\ task[r].status = "absent"
    /\ task' = [task EXCEPT ![r] = Enqueued]
    /\ UNCHANGED <<result, stage, lease, compile, wire, worker, ended, stalls>>

RequestCancel(r) ==
    /\ Cancellable(task[r])
    /\ Stall
    /\ task' = [task EXCEPT ![r] = CancelAsked(task[r])]
    /\ UNCHANGED <<result, stage, lease, compile, wire, worker, ended>>

Requeue(r) ==
    /\ Requeuable(task[r])
    /\ Stall
    /\ task' = [task EXCEPT ![r] = Requeued(task[r])]
    /\ ended' = ended \ {r}
    /\ UNCHANGED <<result, stage, lease, compile, wire, worker>>

\* claim; aggregate.reconcile_cancellation sends a cancelled task to the
\* handler as well.
Claim(w, r) ==
    /\ At(w, "idle")
    /\ Claimable(task[r])
    /\ task' = [task EXCEPT ![r] = Claimed(task[r])]
    /\ Goto(w, "enter", [Idle EXCEPT !.run = r, !.n = task[r].n + 1])
    /\ UNCHANGED <<result, stage, lease, compile, wire, ended, stalls>>

\* The task lease runs out: the attempt is gone, or it does not get to renew.
TaskLeaseExpires(r) ==
    /\ task[r].leased
    /\ task[r].status \in Active
    /\ IF \E w \in Workers : Run(w) = r /\ worker[w].n = task[r].n
       THEN Stall
       ELSE UNCHANGED stalls
    /\ task' = [task EXCEPT ![r].leased = FALSE]
    /\ UNCHANGED <<result, stage, lease, compile, wire, worker, ended>>

-----------------------------------------------------------------------------
(* aggregate, up to the try *)

\* The first transaction: record, result and cancel_requested.
Enter(w) ==
    /\ At(w, "enter")
    /\ IF ~Guard(w)             THEN Answer(w, "retry")
       ELSE IF Run(w) \in result THEN Answer(w, "succeed")
       ELSE Goto(w, "acquire", [worker[w] EXCEPT !.cancelled = Asked(w)])
    /\ UNCHANGED <<task, result, stage, lease, compile, wire, ended, stalls>>

\* Mistake: only the lease's owner is looked at.
BlockedByOwner(r) ==
    /\ lease.owner \in Runs \ {r}
    /\ task[lease.owner].status \in {"running", "reconciling", "retry_wait"}

\* Another run owns the lease, expired or not, and is not over; or it has left
\* a Compile running.
Blocked(r) ==
    \/ /\ lease.owner \in Runs \ {r}
       /\ task[lease.owner].status \in {"running", "reconciling", "retry_wait"}
    \/ \E other \in Runs \ {r} : RunningStages(other) # {}

\* ResourceLeaseRepository.acquire: free, expired, or already this owner's.
Grantable(r) == lease.owner = r \/ ~lease.live

\* The second transaction, under the account's advisory lock.
Acquire(w) ==
    /\ At(w, "acquire")
    /\ IF Guard(w) /\ ~Blocked(Run(w)) /\ Grantable(Run(w))
       THEN /\ lease' = [owner |-> Run(w), n |-> worker[w].n, live |-> TRUE]
            /\ Goto(w, "recover", worker[w])
       ELSE /\ Answer(w, "retry")
            /\ UNCHANGED lease
    /\ UNCHANGED <<task, result, stage, compile, wire, ended, stalls>>

LeaseIsMine(w) == lease.owner = Run(w) /\ lease.n = worker[w].n

\* renew, which also runs as the pulse every 15 seconds.
Renewed(w) == Guard(w) /\ LeaseIsMine(w) /\ lease.live

\* A call that is cut off may still be served.
Sent(w) == {wire} \cup (IF At(w, "submit") THEN {wire \cup {Key(w)}} ELSE {})

InTry == {"recover", "durable", "read", "query", "save", "submit", "record",
          "poll", "status", "settle"}

\* except Exception: a Compile that may be running is reconciled, not retried.
OnException(w) == IF RunningStages(Run(w)) # {} THEN "reconcile" ELSE "retry"

\* The pulse finds the task lease or the resource lease lost, or its transaction or
\* that of the except clause fails.  The outcome is then decided, while work goes
\* on: nothing that it still does changes it.
PulseFails(w) ==
    /\ worker[w].pc \in InTry
    /\ worker[w].pulse = "none"
    /\ \E outcome \in {OnException(w), "retry"} :
          /\ \/ ~Renewed(w) /\ outcome = OnException(w) /\ UNCHANGED stalls
             \/ Stall
          /\ Goto(w, worker[w].pc, [worker[w] EXCEPT !.pulse = outcome])
    /\ UNCHANGED <<task, result, stage, lease, compile, wire, ended>>

\* finally: work is cancelled, wherever it is by now.
WorkCancelled(w) ==
    /\ worker[w].pc \in InTry
    /\ worker[w].pulse # "none"
    /\ Return(w, worker[w].pulse)
    /\ wire' \in Sent(w)
    /\ UNCHANGED <<task, result, stage, lease, compile, ended, stalls>>

-----------------------------------------------------------------------------
(* recover_and_run and pipeline *)

\* Stages left running by an earlier attempt come first; the pipeline runs one
\* Compile at a time, so there is at most one.
Recover(w) ==
    /\ At(w, "recover")
    /\ \/ \E key \in RunningStages(Run(w)) :
             Goto(w, "read", [worker[w] EXCEPT !.recover = TRUE, !.k = key[2]])
       \/ /\ RunningStages(Run(w)) = {}
          /\ IF worker[w].cancelled
             THEN Return(w, "cancelled")
             ELSE Goto(w, "durable", [worker[w] EXCEPT !.k = 1])
    /\ UNCHANGED <<task, result, stage, lease, compile, wire, ended, stalls>>

\* What the pipeline does before stage k (snapshots, pinned Skills, staged
\* users, checkpoints): every transaction of it starts with guard, which here
\* does not allow a cancel.
Durable(w) ==
    /\ At(w, "durable")
    /\ worker[w].k <= NumStages[Run(w)]
    /\ IF ~Guard(w)       THEN Raise(w)
       ELSE IF Asked(w)   THEN Return(w, "cancelled")
       ELSE Goto(w, "read", worker[w])
    /\ UNCHANGED <<task, result, stage, lease, compile, wire, ended, stalls>>

\* A snapshot, a user's memories or the account inventory are not usable.
PipelineInvalid(w) ==
    /\ At(w, "durable")
    /\ Return(w, "fail")
    /\ UNCHANGED <<task, result, stage, lease, compile, wire, ended, stalls>>

\* After the last stage: change:after and finish.
Finish(w) ==
    /\ At(w, "durable")
    /\ worker[w].k > NumStages[Run(w)]
    /\ IF Guard(w) /\ ~Asked(w)
       THEN /\ result' = result \cup {Run(w)}
            /\ Return(w, "succeed")
       ELSE /\ IF Guard(w) THEN Return(w, "cancelled") ELSE Raise(w)
            /\ UNCHANGED result
    /\ UNCHANGED <<task, stage, lease, compile, wire, ended, stalls>>

-----------------------------------------------------------------------------
(* compile_stage *)

\* The stage as it is now, and the first renew.
ReadStage(w) ==
    /\ At(w, "read")
    /\ LET s == stage[Key(w)]
           seen == [worker[w] EXCEPT !.seen = s]
       IN  IF ~Guard(w)                 THEN Raise(w)
           ELSE IF s.status = "succeeded" THEN StageDone(w)
           ELSE IF ~Renewed(w)          THEN Raise(w)
           ELSE IF s.upstream           THEN Goto(w, "poll", worker[w])
           ELSE IF s.status = "running" THEN Goto(w, "query", seen)
           ELSE Goto(w, "save", seen)
    /\ UNCHANGED <<task, result, stage, lease, compile, wire, ended, stalls>>

\* compiler.submission: whether the key is known upstream; 404 is an answer.
Query(w) ==
    /\ At(w, "query")
    /\ Goto(w, "save", [worker[w] EXCEPT !.seen.upstream = compile[Key(w)] # "none"])
    /\ UNCHANGED <<task, result, stage, lease, compile, wire, ended, stalls>>

\* Mistake: a stage that an earlier attempt left running is given up as well.
CancelEndsStage(w) == Asked(w)

\* guard(allow_cancel=...): a cancel stops only a stage that was never begun.
CancelStopsStage(w) == Asked(w) /\ worker[w].seen.status # "running"

\* The stage is recorded as running before anything is submitted.
SaveRunning(w) ==
    /\ At(w, "save")
    /\ IF Guard(w) /\ ~CancelStopsStage(w)
       THEN /\ stage' = [stage EXCEPT ![Key(w)] = [status |-> "running", upstream |-> FALSE]]
            /\ Goto(w, IF worker[w].seen.upstream THEN "record" ELSE "submit", Fresh(w))
       ELSE /\ IF Guard(w) THEN Return(w, "cancelled") ELSE Raise(w)
            /\ UNCHANGED stage
    /\ UNCHANGED <<task, result, lease, compile, wire, ended, stalls>>

\* OpenViking serves a submission: the idempotency key makes it one task.
Served(key) ==
    [compile EXCEPT ![key] = IF compile[key] = "none" THEN "running" ELSE compile[key]]

Submit(w) ==
    /\ At(w, "submit")
    /\ compile' = Served(Key(w))
    /\ Goto(w, "record", worker[w])
    /\ UNCHANGED <<task, result, stage, lease, wire, ended, stalls>>

RecordUpstream(w) ==
    /\ At(w, "record")
    /\ IF Guard(w)
       THEN /\ stage' = [stage EXCEPT ![Key(w)] = [status |-> "running", upstream |-> TRUE]]
            /\ Goto(w, "poll", worker[w])
       ELSE /\ Raise(w)
            /\ UNCHANGED stage
    /\ UNCHANGED <<task, result, lease, compile, wire, ended, stalls>>

\* compiler.cancel only asks: the task may be over, or go on for a while.
CancelUpstream(key) ==
    {compile} \cup
    (IF compile[key] = "running" THEN {[compile EXCEPT ![key] = "cancelled"]} ELSE {})

\* Top of the polling loop: renew, then cancel_requested is read and passed on.
Poll(w) ==
    /\ At(w, "poll")
    /\ IF Renewed(w)
       THEN /\ compile' \in (IF Asked(w) THEN CancelUpstream(Key(w)) ELSE {compile})
            /\ Goto(w, "status", [worker[w] EXCEPT !.asked = Asked(w)])
       ELSE /\ Raise(w)
            /\ UNCHANGED compile
    /\ UNCHANGED <<task, result, stage, lease, wire, ended, stalls>>

\* compiler.status: the loop ends with a terminal state only.
PollStatus(w) ==
    /\ At(w, "status")
    /\ IF compile[Key(w)] \in CompileEnd
       THEN Goto(w, "settle", [worker[w] EXCEPT !.state = compile[Key(w)]])
       ELSE Goto(w, "poll", Fresh(w))
    /\ UNCHANGED <<task, result, stage, lease, compile, wire, ended, stalls>>

\* The stage's end is saved; a cancel seen in the loop or only now wins.
Settle(w) ==
    /\ At(w, "settle")
    /\ LET state == worker[w].state
           good  == state = "succeeded" /\ ~worker[w].asked
           saved == IF good /\ Asked(w) THEN "cancelled" ELSE state
       IN  IF ~Guard(w)
           THEN Raise(w) /\ UNCHANGED stage
           ELSE /\ stage' = [stage EXCEPT ![Key(w)] = [status |-> saved, upstream |-> TRUE]]
                /\ IF good /\ ~Asked(w) THEN StageDone(w)
                   ELSE IF worker[w].asked \/ good \/ state = "cancelled"
                        THEN Return(w, "cancelled")
                        ELSE Return(w, "fail")
    /\ UNCHANGED <<task, result, lease, compile, wire, ended, stalls>>

-----------------------------------------------------------------------------
(* The end of the handler, and _write *)

\* The except clause, after work itself has raised.
Except(w) ==
    /\ At(w, "except")
    /\ Return(w, OnException(w))
    /\ UNCHANGED <<task, result, stage, lease, compile, wire, ended, stalls>>

\* ResourceLeaseRepository.release, by owner and fence.
Released(w) == IF LeaseIsMine(w) THEN NoLease ELSE lease

\* finally: the lease is kept while a Compile of the run may be running.
\* Without an outcome the handler was cancelled, and process_once is done.
Release(w) ==
    /\ At(w, "release")
    /\ lease' = IF RunningStages(Run(w)) = {} THEN Released(w) ELSE lease
    /\ IF worker[w].outcome = "none"
       THEN Goto(w, "idle", Idle)
       ELSE Answer(w, worker[w].outcome)
    /\ UNCHANGED <<task, result, stage, compile, wire, ended, stalls>>

Write(w) ==
    /\ At(w, "write")
    /\ IF Fenced(task[Run(w)], worker[w].n)
       THEN /\ task' = [task EXCEPT ![Run(w)] = Written(task[Run(w)], worker[w].outcome)]
            /\ ended' = IF worker[w].outcome \in {"succeed", "fail", "cancelled"}
                        THEN ended \cup {Run(w)}
                        ELSE ended
       ELSE UNCHANGED <<task, ended>>
    /\ Goto(w, "idle", Idle)
    /\ UNCHANGED <<result, stage, lease, compile, wire, stalls>>

-----------------------------------------------------------------------------
(* Faults *)

\* _run_renewing cannot renew the task lease and cancels the handler: in the
\* try its finally clause still runs, elsewhere nothing does.
HeartbeatLost(w) ==
    /\ worker[w].pc \notin {"idle", "write"}
    /\ ~Guard(w)
    /\ wire' \in Sent(w)
    /\ IF worker[w].pc \in InTry \cup {"except"}
       THEN Quit(w)
       ELSE Goto(w, "idle", Idle)
    /\ UNCHANGED <<task, result, stage, lease, compile, ended, stalls>>

\* A transaction fails, or OpenViking answers with an error.
Error(w) ==
    /\ worker[w].pc # "idle"
    /\ Stall
    /\ wire' \in Sent(w)
    /\ CASE worker[w].pc \in InTry                           -> Raise(w)
         [] worker[w].pc = "except"                          -> Return(w, "retry")
         [] worker[w].pc \in {"enter", "acquire", "release"} -> Answer(w, "retry")
         [] worker[w].pc = "write"                           -> Goto(w, "idle", Idle)
    /\ UNCHANGED <<task, result, stage, lease, compile, ended>>

\* The worker process dies.
Crash(w) ==
    /\ worker[w].pc # "idle"
    /\ Stall
    /\ wire' \in Sent(w)
    /\ Goto(w, "idle", Idle)
    /\ UNCHANGED <<task, result, stage, lease, compile, ended>>

\* The resource lease runs out: its holder is gone, or does not get to renew.
ResourceLeaseExpires ==
    /\ lease.live
    /\ IF \E w \in Workers : worker[w].pc \in InTry \cup {"except", "release"} /\ LeaseIsMine(w)
       THEN Stall
       ELSE UNCHANGED stalls
    /\ lease' = [lease EXCEPT !.live = FALSE]
    /\ UNCHANGED <<task, result, stage, compile, wire, worker, ended>>

-----------------------------------------------------------------------------
(* OpenViking *)

CompileEnds(key) ==
    /\ compile[key] = "running"
    /\ \E end \in CompileEnd : compile' = [compile EXCEPT ![key] = end]
    /\ UNCHANGED <<task, result, stage, lease, wire, worker, ended, stalls>>

\* A submission arrives whose sender no longer waits for the answer.
LateSubmission(key) ==
    /\ key \in wire
    /\ wire' = wire \ {key}
    /\ compile' = Served(key)
    /\ UNCHANGED <<task, result, stage, lease, worker, ended, stalls>>

-----------------------------------------------------------------------------

Step(w) ==
    \/ Enter(w) \/ Acquire(w) \/ Recover(w) \/ Durable(w) \/ Finish(w)
    \/ ReadStage(w) \/ Query(w) \/ SaveRunning(w) \/ Submit(w) \/ RecordUpstream(w)
    \/ Poll(w) \/ PollStatus(w) \/ Settle(w)
    \/ Except(w) \/ Release(w) \/ Write(w)

Next ==
    \/ \E r \in Runs : Accept(r) \/ RequestCancel(r) \/ Requeue(r) \/ TaskLeaseExpires(r)
    \/ \E w \in Workers :
          \/ \E r \in Runs : Claim(w, r)
          \/ Step(w) \/ PipelineInvalid(w)
          \/ PulseFails(w) \/ WorkCancelled(w) \/ HeartbeatLost(w) \/ Error(w) \/ Crash(w)
    \/ ResourceLeaseExpires
    \/ \E key \in Keys : CompileEnds(key) \/ LateSubmission(key)

Spec == Init /\ [][Next]_vars

-----------------------------------------------------------------------------
(* Properties *)

\* The account's runs have at most one Compile running upstream between them,
\* whatever crashed, expired or was cancelled: the check of other runs' tasks
\* and stages in aggregate is as good as the lease.
OneCompileAtATime ==
    \A key1, key2 \in Keys :
        compile[key1] = "running" /\ compile[key2] = "running" => key1 = key2

\* A run that its handler ended (result, fail or the answer to a cancel) has no
\* Compile running upstream, and none can start later from a lost submission.
EndedRunIsQuiet ==
    \A key \in Keys :
        key[1] \in ended =>
           /\ compile[key] # "running"
           /\ key \in wire => compile[key] # "none"

\* The upstream id of a stage, once recorded, is never lost, and a stage that
\* succeeded is never begun again: an attempt that read the stage before
\* another one recorded it cannot write over it.
CheckpointsKept ==
    [][\A key \in Keys :
          /\ stage[key].upstream => stage'[key].upstream
          /\ stage[key].status = "succeeded" => stage'[key].status = "succeeded"]_vars
=============================================================================
