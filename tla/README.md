# Verification of teamEvolver's task runtime and its workflows

teamEvolver turns the work Sessions of agents into team Skills and team Memory.
It is one program in two roles. The **API** replicas authenticate a request,
write a domain record together with a row of `worker_tasks` in one PostgreSQL
transaction, and answer 202. The **worker** replicas claim those rows, run the
handler registered for the row's kind, and write a fenced result back. Nothing
else connects the two roles: PostgreSQL is the only shared state, and every
long-running part of the product (Session analysis, Skill evolution, replay,
Memory aggregation, mining) is a handler of that queue. This project therefore
starts from the queue, then the process that drives it, then the workflows that
run on it: the Session pipeline, Memory runs, Skill candidates with their
validations and evolution cycles, and the experience outbox.

## Inventory

| Component | State | Operations | Hard behaviour | What makes it correct |
| --- | --- | --- | --- | --- |
| Durable task queue (`teamEvolver/runtime/repository.py`, `operations/api`) | `worker_tasks`: status, attempt, owner, fence, lease, availability, cancel flag, dedupe key | enqueue, claim, heartbeat, require_current, succeed / fail / retry / wait_external / reconcile / mark_cancelled, request_cancel, requeue | leases expiring under a live worker, late results, cancel and re-queue at any time, shared owner ids | one holder per attempt, one result per attempt, no commit of a superseded attempt, no task lost |
| Worker loop and lifecycle (`worker.py`, `lifecycle.py`, `entrypoint.py`) | tenant list, failure count, health flag, readiness, stop event, pool | refresh tenants, dispatch passes, scan and claim, run, back off, startup, shutdown | outages of any length, a signal in mid-iteration, handlers that hang | honest readiness, bounded shutdown, pool outlives loop, every tenant served |
| Session ingestion (`session_ingestion/`) | `ingestions`, `session_stage_results`, `sessions`, write-once payloads, split plan | push, pull, normalize, split (and fan-out), analyze, archive | the handlers' writes are not fenced; one crash between two transactions; a model that answers differently the second time | nothing dropped, nothing counted twice, a fan-out is complete |
| Resource leases (`runtime/repository.py`, `leases.py`) | `resource_leases`: owner, fence, expiry | acquire, heartbeat, release | takeover after expiry, re-acquisition by the same owner | one effective holder per resource |
| Memory runs (`team_memory/`) | `memory_runs`, `memory_stages`, upstream Compile Task | aggregate, compile_stage, reconcile, cancel | submit before record, polling against cancel, account-wide exclusion | no two runs on one tree, no compile submitted twice |
| Replay (`team_replay/`) | replay runs, cases, slots | run, save_case, finish | threads that outlive the attempt, slots as leases | each case stored once, slots given back |
| Skill candidates and library (`team_skills/candidates`, `library`) | candidate revision, verdict, status; Skill head and versions | create, edit, validate, publish, reject; publish, restore, delete | late verdicts, concurrent publications | a verdict applies to the revision it was computed for; versions are dense |
| Skill evolution (`team_skills/evolution`) | commands, branches, consumed Sessions | tick, cycle, finish | every replica ticks, a cycle is taken over between two groups | a group of a cycle proposes once, a Session feeds one cycle |
| Experience outbox (`team_skills/experiences`) | outbox events, receipts | append, next, dispatched, receipt | delivery repeated or dead | per-subject order of revisions |
| Configuration (`config_runtime.py`) | revisioned documents | read, compare-and-set | concurrent edits | no lost update |
| Tenants, identity, console, storage, OpenViking client, LLM client, adapters, miners, context gateway, CLI, web console | rows and caches of their own | CRUD, HTTP, formatting, prompts | caches that lag | not modelled; see the end |

Interactions: handlers call `require_current` in the transaction that commits
their domain state; `session_ingestion` and the Skill and Memory modules enqueue
follow-up tasks; Memory and replay take resource leases inside a task attempt, and
so do Skill evolution and the experience outbox; the worker loop runs the dispatch passes (`app.py`, `_scheduled_tasks`) of all
modules when it refreshes its tenant list. `PROJECT.json` lists, line by line,
where these can go wrong (`hazards`) and which property answers.

## Modules

| Module | Content |
| --- | --- |
| `WorkerTasks` | the table, the workers' claim / run / write protocol, the job endpoints |
| `FencedQueue` | the abstract specification: what the queue promises its callers |
| `WorkerTasksProofs` | inductive invariant and safety theorems of `WorkerTasks` |
| `WorkerTasksRefinement` | `WorkerTasks` implements `FencedQueue`, and shows handlers the rows of `TaskAttempts` |
| `WorkerLoop` | one worker process: `run_worker`, `RuntimeLifecycle` |
| `WorkerLoopProofs` | inductive invariant and safety theorems of `WorkerLoop` |
| `SessionIngestion` | one ingestion through normalize, split, analyze, archive |
| `SessionIngestionProofs` | inductive invariants and safety theorems of `SessionIngestion` |
| `TaskAttempts` | a task row as a handler sees it: the operators the next modules share |
| `TaskAttemptsProofs` | lemmas about these rows, for the proofs below |
| `MemoryRun` | Memory runs of one account: lease, Compile stages, OpenViking |
| `MemoryRunProofs` | inductive invariant and safety theorems of `MemoryRun` |
| `SkillLibrary` | one Skill's versions and the API's writes to it |
| `SkillCandidates` | its candidates, `skill.validate` and `skill.evolve`, over `SkillLibrary` |
| `SkillCandidatesProofs` | inductive invariant and safety theorems of both |
| `ExperienceOutbox` | outbox, dispatch pass, delivery job and its lease, OpenViking |
| `ExperienceOutboxProofs` | inductive invariant and safety theorems of `ExperienceOutbox` |
| `MC*` | values of the constants for TLC |

Composition: `MemoryRun`, `SkillCandidates` and `ExperienceOutbox` extend
`TaskAttempts` with one row per task (that this stands for the queue is
`RowsAreAttempts`, below), and `SkillCandidates` extends `SkillLibrary`, so that people's writes, validations and cycles meet in one
next-state relation.

### WorkerTasks

`row` is `worker_tasks` by task id. `lease_until` and `available_at` are kept as
time left on the database clock, so `Tick` advances every row at once; `-1` is
NULL and `0` an expired lease. `worker[w]` is the `ClaimedTask` a process works
from and its place in `process_once`. `commit` and `settled` are history: the
fence of the last domain commit and of the last accepted result.

| Action | Code |
| --- | --- |
| `Enqueue`, `RequestCancel`, `Requeue` | `enqueue` (dedupe lookup and unique index), `request_cancel`, `retry_job` with `requeue` |
| `Claim` | `claim`'s UPDATE and the branch of `process_once` that answers a cancel before the handler starts |
| `DomainCommit` | any handler's transaction that begins with `require_current` |
| `HandlerReturns` | a `HandlerResult`, or an exception turned into a retry |
| `Heartbeat`, `HeartbeatLost` | `_run_renewing` |
| `Succeed`, `Fail`, `MarkCancelled`, `Retry`, `RetriesExhausted`, `WaitExternal`, `Reconcile`, `RejectedWrite` | `_write` and `_transition` |
| `Abandon` | the process dies, is drained, or cannot reach PostgreSQL |
| `Tick` | the PostgreSQL clock; a tick that lets a lease lapse under a live worker spends the stall bound |

Abstracted: payload, trace, revision and error columns, jitter, statistics.
`SKIP LOCKED` and row locks make each statement atomic, which is why each is one
action. Handlers that write without `require_current` (Session ingestion does)
are not `DomainCommit`s; `SessionIngestion` covers them.

### WorkerLoop

`pc` is where `run_worker` is between two awaits. `active` is its copy of the
tenant list, `registry` the table it was read from. A claimed task is only
`running`; when it is given up it is in `leased` until its lease runs out. Every
call that needs PostgreSQL has a success action (guarded by `db`) and
`Failed` or `RunLost`; `RunLost` is also a heartbeat that finds the task with
another process while PostgreSQL is up, which then leaves it behind in its turn
or settles it. `life` follows `RuntimeLifecycle`: `Startup`, `Shutdown`
(readiness, then the stop event), `Drained` within the drain timeout, or
`DrainTimeout` (`cancel()`), after which `shutdown` awaits the loop without a
bound of its own until the CancelledError has gone through it (`LoopCancelled`),
and `Close`. In between the loop still runs, as a handler's `finally` may.
`late` counts claims after the stop event.

### SessionIngestion

`stage`, `plan` and `report` are `session_stage_results` (status, and the
`result_ref` of split and trace_analyze); `row` is the ingestion's four tasks
with the queue reduced to what a handler can notice (attempt number, expired
lease, fenced result); `child` and `blob` are the split's child ingestions and
their write-once payloads. One action per transaction or model call:
`Normalize`, `LoadPlan`, `AskModel`, `Checkpoint`, `Single`, `PutChild`,
`AcceptChild`, `FannedOut`, `Analyze`, `TraceAnalyze`, `Gate`, `Compose`,
`File`, `Advance` (`_enqueue_next`), and the failure paths `NormalizeFails`,
`SplitFails`, `FanOutRaises`, `FanOutFails`, `AnalyzeFails`,
`TraceAnalyzeFails`, `Incomplete`, `ArchiveFails`, `Raises`. The faults are
`Crash`, `Stall` (a suspended process whose lease runs out and which goes on
later), storage and model failures, and an operator's `Requeue`. What fails while
the split is decided may be the model or the store (`SplitFails`); both lead to
the same record, and `CountedOnceWhenPlanReadable` excludes only the store's.

### TaskAttempts

The queue reduced to what a handler can tell apart, so that three workflow
modules can afford it: status, attempt number, whether the lease is unexpired,
the cancel flag. `attempt` and `fence` are both incremented by every claim and
reset by nothing (`WorkerTasks` has them separately), so `n` stands for both.
`Claimable`, `Claimed`, `Current`, `Fenced`, `Written`, `CancelAsked`,
`Requeued` are the SQL of `WorkerTaskRepository` and `_write`. Time is gone: a lease
may run out at any moment, and when that happens under a live attempt it is
counted against `MaxStalls`.

That nothing is lost is a property of `WorkerTasks`. `Seen` maps a full row to
such a row (`n` is the fence, `leased` an active row with time left, and
`waiting_external`, which no modelled handler asks for, looks like
`reconciling`). `RowsAreAttempts` says that every step of the queue, seen this
way, is an enqueue, a claim, a fenced result with its outcome, a cancel, a
re-queue, an expiry or nothing, and that every domain commit comes from the
attempt for which `Current` holds.

### MemoryRun

`worker[w].pc` follows `aggregate` (`enter`, `acquire`, `recover`), the
`pipeline` between two Compile stages (`durable`), `compile_stage` (`read`,
`query`, `save`, `submit`, `record`, `poll`, `status`, `settle`) and the way out
(`except`, `release`, `write`). Every transaction and every call to OpenViking
is an action; `stage` is `memory_stages`, `lease` the account's resource lease,
`compile` what OpenViking holds under the idempotency key of a run and stage.
`wire` is the submissions whose sender is gone and which may still be served.

| Action | Code |
| --- | --- |
| `Accept`, `RequestCancel`, `Requeue`, `Claim` | `runs.accept`, the job endpoints, `process_once` (a cancelled run still reaches its handler) |
| `Enter`, `Acquire` | the two transactions before the `try`; `Blocked` is the check of other runs' tasks and stages |
| `PulseFails`, `WorkCancelled` | the 15 second pulse that renews both leases has failed: the except clause decides the outcome (`pulse`) while `work` goes on, and only `finally` cancels it |
| `Recover`, `Durable`, `PipelineInvalid`, `Finish` | `recover_and_run`, `pipeline` |
| `ReadStage`, `Query`, `SaveRunning`, `Submit`, `RecordUpstream`, `Poll`, `PollStatus`, `Settle` | `compile_stage` |
| `Except`, `Release`, `Write` | the `except` clause when `work` itself raised, the `finally` clause, `_write` |
| `HeartbeatLost`, `Error`, `Crash`, `TaskLeaseExpires`, `ResourceLeaseExpires` | faults |
| `CompileEnds`, `LateSubmission` | OpenViking |

### SkillLibrary and SkillCandidates

`versions` is the history of one Skill (the head row is its last element),
`mutations` the ids in `skill_mutations`. `candidate` is `skill_candidates`,
`command` the payload a validation froze at submission, `task` the tasks of
validations and cycles, `lease` the resource lease `skill.evolve`. A cycle has two
groups that may propose for the Skill: the Skill's own, and that of sessions
without a Skill (`NO_SKILL_KEY`), whose planner picks the name; `branch` is the
groups of a cycle that are saved. `judged`, `proposed`, `origin` and `lineage` are
history: the content a verdict was computed on, how often a group proposed, the
version that a candidate's content was derived from, and whether a cycle gave it
another base than that one.

| Action | Code |
| --- | --- |
| `LibraryWrite` | save, add or delete files, workbench saves, transfer import, rollback, delete |
| `MinerSubmits`, `EditContent`, `RejectCandidate`, `SubmitValidation` | `candidate_bridge.submit`, the candidate endpoints, `submit_validation` |
| `TriggerCycle`, `EvolutionTick` | the trigger endpoint, at any time; `evolution_tick`, which under its advisory lock finds no cycle waiting or active |
| `LoadValidation`, `FinishStale`, `CommitValidation` | `run_validation`: before and after the replay |
| `StartCycle`, `ReadGroup`, `SkipGroup`, `Propose`, `PlanRefused`, `FinishCycle`, `ReleaseCycle` | `run_cycle` and `_cycle`: before and after the planner |
| `Claim`, `Write`, `Crash`, `HandlerError`, `HeartbeatLost`, expiries | the queue and faults |

The replay, the static checks and the planner are nondeterministic answers: any
verdict, any gates (an accept implies them), any tree or none.

### ExperienceOutbox

`event` is the outbox row by subject and revision, `job` the delivery task of
each event, `remote` the revision of the file in OpenViking. `tick` holds what a
dispatch pass has read and not yet acted on: the pass is one transaction, but
reads a job's status without locking it. A request is `guard` (`before_send`),
then `out`; a write in `out` may be served before it is answered, and one whose
sender has stopped waiting goes to `lost` and may be served at any time after
(`ServeLate`): that is how HTTP behaves, since nothing takes a request back.
`strays` is the writes that were served in this way over a newer document. `late`
records that the resource lease ran out under a request in flight; httpx's 30
seconds are for each phase of a request, so that the lease's 180 seconds make this
unlikely and do not exclude it. Two properties are conditional on it.

The write of `project` is a ladder: the parent directories, `replace`, `create`
when there is no file, `replace` again when somebody else created it. One request
stands for it. Each rung has a `before_send` of its own, the directories do not
touch the document, and of the others at most one writes it, the last; a rung that
fails in any other way ends the delivery, as `RequestFails` does.

| Action | Code |
| --- | --- |
| `Append` | `ExperienceOutbox.append` under the subject's head |
| `TickFinds`, `TickBuries`, `TickDispatches`, `TickFails` | `experience_tick` |
| `Open`, `ReadEvent`, `SecretMissing`, `BeforeSend` | `sync`, `_deliver` up to the request |
| `CheckAnswered`, `WriteAnswered`, `ConfirmAnswered`, `RequestFails` | `project` |
| `Receipt`, `Release`, `WriteResult` | the rest of `_deliver` and `sync`, `_write` |
| `Serve`, `ServeLate` | OpenViking |

Definitions marked "Mistake" in the modules are not used by the specifications.
Each is a plausible error in the definition below it; replacing that definition
by it violates the property `PROJECT.json` pairs it with.

## Runs

| Run | Question | Result |
| --- | --- | --- |
| `workertasks` | Do fencing, dedupe and terminality hold in every interleaving of two workers with one owner id, two tasks with one key, two disturbances? | holds, 2.1 million states |
| `workertasks_live` | Does every task settle? Does the queue implement `FencedQueue`? Do its rows look to a handler as `TaskAttempts` says? | holds under fairness |
| `workerloop` | Readiness, shutdown order, shutdown that completes, recovery after outages, tenants created later | holds, 0.6 million states |
| `workerloop_outage` | "A database outage must not end the loop" | violated: the back-off overflows a float after 1025 failures |
| `workerloop_tenants` | "Claiming round-robins across tenants" | violated: the scan always starts at the first tenant |
| `session_ingestion` | Is a finished split complete, is nothing dropped, is a conversation counted once when the plan stays readable? | holds, 1.4 million states |
| `session_fanout` | Can a retry finish an interrupted fan-out? | violated: a finished child's task id blocks the retry |
| `session_plan` | Is a conversation counted once in all cases? | violated: a failed read of the plan discards it |
| `memory_run` | Does the account have one Compile at a time, does an ended run leave none behind, do checkpoints survive late attempts? | holds, 1.6 million states |
| `skill_candidates` | Do verdicts fit what they are shown for, does a publication follow the version its content came from (or, where a cycle gave it a later base, that one), is nothing applied or proposed twice? | holds, 2.7 million states |
| `skill_stranded` | "`validating` (evaluation or validation running)" | violated: a version conflict leaves the candidate validating with its task failed |
| `experience_outbox` | Are revisions delivered in order, one request at a time, settled for good, and does the outbox drain? Is what is synced in place, unless a write was served too late? | holds, 0.8 million states |

The five violations are described, with the lines they contradict, under
`findings`.

### Bounds

* `workertasks`: two workers are enough for a stale holder and its successor,
  two tasks with one key for a dedupe conflict and a re-queue into it, a cap of
  two attempts for retry and exhaustion. `LeaseTicks = 2` lets a heartbeat fall
  inside a lease. `MaxStalls = 2` bounds stalls, crashes, parked attempts and
  re-queues together; it also bounds fences, since attempts only multiply
  through these and through the capped retries. The safety theorems remove
  these bounds.
* `workertasks_live`: one task, three disturbances. The refinement is task by
  task, so one task and a deeper mix of disturbances is the better instance; the
  theorem covers the rest. `RowsAreAttempts` is row by row for the same reason.
* `workerloop`: two tenants (one first, one last in the order), two faults out of
  outages and tasks lost to another process (a second outage may begin while the
  loop still recovers from the first), one counted
  consecutive failure more than `MaxFailures = 1`, one change of the tenant
  table. `workerloop_outage` raises `MaxFailures` past the exponent limit 1024.
* `session_ingestion`: plans of one and of two segments, two of the latter with
  different texts, so that two attempts can disagree on whether and where to
  split; at most one fault of each kind and three together, two attempts per
  task. The violation runs use three attempts, the code's default, and only the
  faults their story needs.

* `memory_run`: two runs that compete for the account, with one Compile stage
  each (the pipeline runs its stages one after the other, and what a later stage
  adds is another key), two workers (an attempt that was taken over and its
  successor), two attempts, two disturbances
  (crashes, errors, leases lost, cancels and re-queues together).
* `skill_candidates`: one candidate, two contents, two revisions made by people
  beside the cycle's, one validation, one cycle with its two groups, one write by people (a save with
  or without base, a restore or a delete), two workers, one disturbance. One
  write is enough to invalidate a base; two attempts are enough for a retry after
  the conflict. `skill_stranded` needs no disturbance at all.
* `experience_outbox`: one subject with two revisions (subjects do not interact
  except through the one lease and the one job at a time), two workers, two
  attempts, one disturbance and one cancel at a time. Order, exclusion,
  settledness and what is in place are proved without these bounds.

Deadlock checking is off everywhere: the queue is quiet once every task is
terminal, the process stops, and an ingestion, a run or a candidate ends.

### Fairness

`WorkerTasks` assumes weak fairness of claiming each task (the claim query is
ordered by `available_at`, and workers poll), of a worker's own steps (handlers
return or are given up, heartbeats fire, results are written) and of the clock.
It assumes nothing of callers. Stalls and crashes are not excluded by fairness
but bounded by `MaxStalls`. `WorkerLoop` assumes that the event loop runs what
is ready, timers fire, outages end and leases run out. It does **not** assume
that handlers return: `ShutdownCompletes` holds without it, and the two
properties that need it carry it as the hypothesis `HandlersReturn`. It does
assume that a cancelled handler ends (`LoopCancelled`), as the handlers here do,
whose `finally` clauses make a transaction; `shutdown` sets no bound on that
second await (lifecycle.py:78), and a handler that swallowed the CancelledError
would keep it waiting.
`EveryTaskSettles` is about an attempt that may be abandoned at any point but,
if not, returns.

`ExperienceOutbox` assumes weak fairness of the dispatch pass (the worker loop
runs it on every refresh), of claiming, of each worker's own next step (a request
is answered or times out after 30 seconds, so `Step` includes `RequestFails`) and
of the expiry of a lease whose holder is gone. It does not assume that OpenViking
ever succeeds, that an index ever completes, or that operators do anything:
`OutboxDrains` then says that every event ends as `synced` or `dead_letter`.
`MemoryRun` and `SkillCandidates` state no liveness: a run may poll a Compile
that never ends, and a candidate may wait for its reviewer for ever.

## Proofs

`WorkerTasksProofs` proves for every `Tasks`, `Workers`, `OwnerId`, every lease
length, back-off and bound, from the named assumptions of `WorkerTasks`
(`NoTaskAssumption`, `OwnerAssumption`, `LimitsAssumption`):

* `TypeCorrect`: `Spec => []TypeOK`;
* `FencesExclusive`, `ResultsOnce`, `RestingRowsAreSettled`: the invariants
  `OneHolderPerFence`, `ResultAcceptedOnce`, `RestingRowsSettled`;
* `CommitOrder`: the action property `CommitsFollowFences`;
* `KeysExclusive`, `AlwaysReclaimable`, `RetriesCapped`: the invariants
  `OneLiveRowPerKey`, `EveryLiveRowReclaimable`, `RetryUnderCap`;
* `TerminalStays`: the action property `TerminalIsFinal`.

None of the invariants is inductive alone. That a claim takes a fence nobody
holds needs every worker's fence to be at most the row's; that a result is
accepted once needs it to be impossible for a second worker to hold the same
fence; and that a resting row is settled by its latest attempt needs both. The
inductive invariant is

    FenceInv == TypeInv /\ FencesBounded /\ OneHolderPerFence
                /\ ResultAcceptedOnce /\ RestingRowsSettled

where `FencesBounded` says that commits, settlements and attempts never run
ahead of the row's fence. There is one lemma per action, and the theorem
combines them. The theorems about single rows rest on `TableChanges`: under
`FenceInv` a step leaves every row at rest or takes one row through one of five
changes (taken, ended or parked, retried, withdrawn, opened). `RetriesCapped`
needs `FenceInv` there, since the cap is compared with the attempt number that
the worker remembers and the invariant is about the row's.

`WorkerTasksRefinement` proves `Spec => Queue!Spec` (`Refinement`): under
`FenceInv` every step is a step of `FencedQueue` or leaves its variables alone.
A claim is a `Grant`, a domain commit a `Commit` (the guard
`settled < epoch` is `ResultAcceptedOnce`), each accepted result an `Accept`, a
cancel of a waiting row a `Withdraw` (`RestingRowsSettled` gives
`settled = epoch`), a re-queue a `Reopen`.

It also proves `HandlersSeeAttempts`, the action property `RowsAreAttempts`, which
justifies building the domain modules on `TaskAttempts`. One lemma per kind of
step (`SeenClaim`, `SeenCancel`, `SeenRequeue`, `SeenTick`, `SeenWritten`) says
what it looks like; `FenceInv` enters at a retry, whose cap the code compares
with the worker's attempt number and `TaskAttempts` with the row's `n`, and
`AbsentIsEmpty` at an enqueue. The theorem is a step simulation: it does not say
that the queue makes every step `TaskAttempts` allows, which safety does not need.

`ExperienceOutboxProofs` proves, for all subjects, workers and bounds, from
`OutboxAssumption` and `MaxAttemptsAssumption`:

* `TypeCorrect`: `Spec => []TypeOK`;
* `InOrder` and `MutualExclusion`: the invariants `DeliveredInOrder` and
  `OneRequestAtATime`;
* `SettledForGood`: the action property `SettledStaysSettled`;
* `SyncedInPlace`: the invariant `SyncedIsInPlace`.

The hard case is a receipt. It writes the event's row with no condition on the
row's status, so it could take a dead or synced event back to `queued`, and a
later revision may already be on its way by then. It cannot, because an attempt
that would retry is not the last one (`MaxDeliveries <= MaxAttempts`), and the
dispatch pass gives an event up only when its job is over: the job then has used
all its attempts, or was cancelled, or its failure is already on the row. Making
that inductive takes, besides types: `AttemptsDiffer` (no two workers hold one
attempt, none is ahead of its row), `JobsFollowEvents` and `NoGaps` (jobs exist
for dispatched events only, revisions are appended densely), `FoundJobIsSpent`
(what the dispatch pass has in hand), `FailedJobIsSpent`, `FailureIsRecorded`,
`ResultIsKnown` and `LatestAttemptDelivers` (what a job's status says about its
event), and `SenderHoldsLease` (a request in flight is under the lease unless it
ran out meanwhile). `IInv` is their conjunction with `DeliveredInOrder`; there is a
lemma for each group of actions that change the same variables.

`SyncedInPlace` adds `PlaceInv`. An attempt acquires the lease once, before it
reads its event, so one that has it now has had it ever since: its event has no
result (`HolderIsUndone`), no later revision of the subject is synced
(`HolderIsNewest`), and, unless a lease ran out during a request, what it is about
to report as delivered is in place (`DeliveredIsInPlace`). A write that is served
to a sender that waits for it therefore never replaces a synced revision by an
older one; one that is served too late does, and is then among the `strays` that
`InPlace` names (`StrayKeepsPlace`).

`SkillCandidatesProofs` proves, for all candidates, contents, commands, workers
and bounds, from `JobsAssumption`, `ModesAssumption`, `BoundAssumption`,
`NoBaseAssumption`, `MutationsAssumption` (an `Idempotency-Key` is not the
mutation id of a candidate's revision) and `MaxAttemptsAssumption`:

* `TypeCorrect`: `Spec => []TypeOK`;
* `VerdictsFit`, `PublishedAsReviewed`, `NothingOverwritten`, `MutationsOnce` and
  `ProposalsOnce`: the invariants `VerdictFitsContent`,
  `PublishedIsWhatWasReviewed`, `NoLostUpdate`, `MutationAppliedOnce` and
  `ProposedOnce`.

The last transaction of a validation looks at the candidate's revision, status
and task, not at its content. That this is enough is `CommandsFit`: a command
froze a revision the candidate had, and while it still has that revision its
content and base are the frozen ones (content and base change only with the
revision). A revision's mutation id is unused when it is published because the
ids on record belong to candidates that are published (`MutationsRecorded`). A
cycle that commits a proposal has none yet, because the branch is read in the
same attempt and nobody else is at that attempt (`PlanIsFresh` with
`AttemptsDiffer`). What a publication follows is `BasesKnown` (a candidate whose
lineage is direct has the version its content came from as its base) with
`PublishedOnBase` (a published version is the base or its successor). With `AttemptsKnown`, `ContentKnown` and `ProposalsSaved`
these make `IInv`. A step is shown to keep it through what it does to the queue
(`TasksKeep`, `Moves`), the candidates (`CandidateStep`), the library
(`LibraryKeeps`) and the branches (`BranchesKeep`): `StepKeeps` combines the four.

`MemoryRunProofs` proves, for all runs, pipelines, workers and bounds, from
`NoRunAssumption`, `StagesAssumption` and `MaxAttemptsAssumption`:

* `TypeCorrect`: `Spec => []TypeOK`;
* `OneCompile` and `EndedQuiet`: the invariants `OneCompileAtATime` and
  `EndedRunIsQuiet`;
* `Checkpoints`: the action property `CheckpointsKept`.

The exclusion of runs does not rest on the resource lease, which may expire
under its holder, but on the rows the second transaction of `aggregate` reads. A
Compile that runs, or that a lost submission can still start, has its stage
recorded as running (`CompileIsRecorded`), and one stage at most is so recorded
(`OneStageRuns`). Both hold because a stage is written only by the attempt whose
number the task row has (`Latest`), and such an attempt is `Entitled`: in the try
it is the one the lease was last granted to, no other run has a stage running,
and it knows the only stage of its own run that may be. An attempt that was
overtaken keeps only what `Known` says: its submissions are for stages recorded
as running, and a final state it read from OpenViking is still the Compile's
state. No two latest attempts are in the try at once (lemma `Alone`), since the
lease names one and `Blocked` refuses another run while the owner's task is not
over. `OverIsQuiet` carries the result to ended runs. A step is shown to keep
`IInv` through `StepKeeps`: the worker that moves stays known and entitled, and
every other latest one is `Spared`.

`SessionIngestionProofs` proves, for all workers, plans and bounds on faults, from
`PlansAssumption` (plans are not empty, and no segment stands for "no payload")
and `NoSessionAssumption`:

* `TypeCorrect`: `Spec => []TypeOK`;
* `FanOut`, `NothingDropped` and `CountsOnce`: the invariants `FanOutComplete`,
  `NeverDropped` and `CountedOnceWhenPlanReadable`.

The handlers' writes are not fenced, so the first argument cannot rest on who is
current. `Progress` says of every attempt in the fan-out, current or not, that the
children before the one at hand exist and hold the segments of the plan it has in
hand; two attempts with different plans cannot both say so of the same child, as
the payload is written once (`FamilyKeeps`: children are not taken back, payloads
do not change). The record of success then carries the plan of an attempt that
reached the end. `Placed` ties a place in a handler to the task's kind and to a
plan in hand; with the types they make `IInv`, and `OneWorkerSteps` reduces a step
to what it does to the family, the split row and the worker that moves.
`NothingDropped` rests on `Handed`: a task that succeeded, and a worker about to
report so, current or not, has left its successor's row, a complete fan-out or the
Session behind (`Done`), and none of these goes away. `CountsOnce` is the one
theorem that needs exclusion: while no store fails and no lease runs out under a
handler (`Calm`), a worker at work holds its row's attempt alone (`Sole`), so the
plan is recorded once, every later attempt acts on that plan (`Guided`), and
children, analysis and Session follow it (`Followed`).

`WorkerLoopProofs` proves, for all tenants, tasks and bounds, from
`TenantOrderAssumption` and `BoundsAssumption`:

* `TypeCorrect`: `Spec => []TypeOK`;
* `PoolLast`, `LateClaimOnce` and `HonestReadiness`: the invariants
  `PoolOutlivesLoop`, `OneLateClaimAtMost` and `ReadinessIsHonest`.

The invariant `LoopInv` says how far the lifecycle's shutdown can be given where
the loop is (`ShutdownOrder`), that an iteration which claimed after the stop is
the last one (`LateClaims`), and that the loop's health flag is down whenever an
iteration failed since the last good one (`ProbeKnows`).

That a refresh reads a list of tenants (`ActiveTenantsType`, for `TypeCorrect`) is
an induction over the recursive function `ActiveAmong`. The library's induction
rule takes a predicate as parameter, which the installed provers cannot
instantiate; lemma `Induction` states it for a set of naturals instead and is
proved from the well-foundedness of `<` (`LeastNatural`).

Only model-checked: the liveness properties `EveryTaskSettles`,
`ShutdownCompletes`, `ReadyAgain`, `EveryTenantServed` and `OutboxDrains`, which
are out of the prover's reach (fairness and ENABLED). Every other property of a
passing run is stated by a theorem.

## Observations

What modelling brought up that no run states, because no document says precisely
enough what should happen:

* *Memory runs: waiting costs attempts.* `memory_target_busy` is a retry, and
  retries are capped at three, so a run that only waits for another fails after
  a few short back-offs. docs/en/api/11-team-memory-aggregation.md:28 says later
  tasks wait for the lease. The same budget is spent by lease expiries and by
  reconciling.
* *Memory runs: an abandoned stage blocks the account.* A run that is cancelled
  while it waits for a retry, or whose retries are exhausted, may leave a stage
  row in `running`. `Blocked` (handlers.py:39) then refuses every other run of
  the account until the first one is re-queued.
* *Candidates: a cycle may overwrite what was saved before it ran.* `_cycle` plans
  from the live candidate's bundle (cycle.py:203), which came from an older version,
  and stamps the head as `base_version` (cycle.py:254). A candidate is mined from
  version 0, somebody saves version 1, a cycle reads both and revises the candidate:
  the new content was never merged with version 1, its base is 1, and its
  publication passes the base check and replaces the save. `commit_bundle` calls
  that check optimistic concurrency for read-modify-write callers
  (library/repository.py:488), which the cycle is not. `NoLostUpdate` follows the
  version the content came from and names this case, `lineage = "rebased"`, as its
  only exception; without the exception TLC refutes it in ten states.
* *Candidates: the cycle compares revision numbers only* (cycle.py:249), not the
  candidate they belong to, and does not read the head again. The base check at
  publication refuses what was saved after the head was read; the proposal may
  still revise a candidate the planner has not seen, when the one it read was
  rejected and another created at the same revision.
* *Candidates of a deleted Skill* get base 0 (`HeadVersion`), which no tombstoned
  head matches, so their publication always conflicts.
* *Outbox: the dispatch pass decides on a job's status it read without a lock*
  (supervisor.py:63). A job re-queued in between may deliver an event that is
  declared dead at the same time: the row stays settled (`SettledStaysSettled`)
  but as either of the two.
* *Outbox: a write served after its sender timed out* can put an older revision
  over a newer one: revision 1 times out on its last attempt and becomes a dead
  letter, revision 2 is delivered, confirmed and reported as synced, and then the
  first write is served. `SyncedIsInPlace` names this as its only exception;
  nothing in the code can exclude it, since the write carries no condition.
* *Outbox: dead letters stay dead.* docs/en/guides/16 advises to import again;
  an import appends an event only when the content changed.

## Limits of the properties

* `OneLiveRowPerKey`: `KeyFree` is the partial unique index. That `enqueue`'s lookup
  and insert are two statements is PostgreSQL's to settle, by that index.
* `RetryUnderCap` is about a retry past the cap. That an attempt below it is not
  failed early is in the steps of `TaskAttempts`, which `RowsAreAttempts` compares
  the queue with.
* `CountedOnceWhenPlanReadable` holds through model failures at any stage, the split
  included, and says nothing once a store failed or a lease ran out under a handler.
* `NeverDropped` is satisfied by a task that has failed. That a retry can get
  through at all is `FanOutResumes`, which the code violates.
* `ProposedOnce` is about the groups of one cycle. A second cycle beside it, which
  a person may trigger at any time, waits for the lease `skill.evolve` and plans
  afresh; `evolution_tick` starts none, its lock and check being one transaction.

## Plan

Left, in order: a module for replay slots and cases, and pulls in
`SessionIngestion`.

## Not modelled

* Model calls, prompts, judging, metrics, bundles, front matter, trace mapping:
  data transformations whose results are arbitrary for the protocols; a model's
  answer is a nondeterministic choice where it matters (`AskModel`).
* The miners' compilation pipelines: tens of thousands of lines of prompt-driven
  transformation over stored documents, and with the adapters and the console
  the bulk of the repository's lines. Their state is documents, their steps are
  model calls; what reaches the protocols is `MinerSubmits`.
* Authentication, RBAC, tenant and user administration, configuration forms, the
  context gateway, the console: requests on single rows.
* The connection pool, row-level security, advisory locks and `SKIP LOCKED`:
  PostgreSQL's behaviour is taken as given, one `tenant_tx` per action.
* True Replay: which cases are left is a matter of its plan and of threads that
  outlive the attempt that started them; its slots are resource leases like the
  ones in `MemoryRun`.
* In `MemoryRun`, the texts of snapshots, staging and promotion, and the schedule
  (it accepts runs as a caller does). In `ExperienceOutbox`, the scan and the
  compilation of patterns that lead to `Append`, parent directories, the switch
  that turns delivery off, and revisions with equal content. In
  `SkillCandidates`, labels, the event log, the choice of Sessions and their
  consumption, and the caches and file projection of the library.
* In `SessionIngestion`, a child's own split and analysis (it repeats the same
  pipeline), pull ingestions, and cancelled tasks.
