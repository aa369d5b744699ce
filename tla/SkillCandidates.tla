-------------------------- MODULE SkillCandidates --------------------------
(***************************************************************************)
(* The candidates of one Skill (team_skills/candidates/repository.py), the *)
(* reviewer's and the miner's requests (team_skills/api/candidates.py,     *)
(* team_miner/skill_miner/candidate_bridge.py), the skill.validate task    *)
(* (team_skills/evolution/candidate_pipeline.py) and the skill.evolve      *)
(* cycle (team_skills/evolution/cycle.py), over SkillLibrary.              *)
(*                                                                         *)
(* A validation freezes the candidate at submission, replays it for        *)
(* minutes outside any transaction and commits verdict, publication and    *)
(* candidate together at the end; a cycle reads the candidate, plans for   *)
(* up to half an hour and commits its proposal.  Meanwhile people edit,    *)
(* reject, publish and delete.  Each action is one transaction.            *)
(***************************************************************************)
EXTENDS TaskAttempts, SkillLibrary

CONSTANTS
    Candidates,    \* candidate ids
    NoCandidate,   \* no candidate
    Validations,   \* ids of skill.validate commands
    Cycles,        \* ids of skill.evolve commands
    NoJob,         \* no command: an idle worker, a candidate not in validation
    Modes,         \* the modes in which people ask for a validation
    AutoModes,     \* what a cycle does with a proposal: "off" or a mode
    Workers,       \* worker processes
    MaxRevision,   \* bound: revisions that a person may make of a candidate
    MaxStalls      \* bound: crashes, errors, lost leases and re-queues

Jobs == Validations \cup Cycles

ASSUME JobsAssumption ==
    /\ Validations \cap Cycles = {}
    /\ NoJob \notin Jobs
    /\ NoCandidate \notin Candidates
ASSUME ModesAssumption ==
    /\ Modes \subseteq {"evaluate", "auto", "force"}
    /\ AutoModes \subseteq {"off", "evaluate", "auto"}
ASSUME BoundAssumption == {MaxRevision, MaxStalls} \subseteq Nat
ASSUME MutationsAssumption == \A m \in ApiMutations : m \notin Candidates \X Nat

VARIABLES
    candidate,  \* skill_candidates, by id
    command,    \* payload of the skill.validate commands
    done,       \* commands whose result is set
    branch,     \* saved branches: a cycle and one of its groups
    task,       \* worker_tasks, by command id
    lease,      \* the resource lease skill.evolve: owner and whether unexpired
    worker,     \* what each worker process is doing
    proposed,   \* how many proposals each group of a cycle has committed
    stalls      \* how much of MaxStalls is used up

candidateVars == <<candidate, command>>
cycleVars == <<lease, branch, proposed>>
vars == <<libraryVars, candidateVars, cycleVars, done, task, worker, stalls>>

-----------------------------------------------------------------------------
(* Types *)

Open == {"open", "validating"}          \* live: not processed

Verdicts == {"accept", "reject", "inconclusive"}

\* The groups of a cycle that may propose for this Skill: the Skill's own, and
\* the one of sessions without a Skill (NO_SKILL_KEY), whose planner picks a name.
Groups == {"skill", "none"}

Candidate == [status   : {"absent", "published", "rejected"} \cup Open,
              revision : Nat,
              tree     : Trees \cup {NoTree},
              base     : Nat,            \* base_version
              origin   : Nat,            \* the version its content was derived from
              lineage  : {"direct", "rebased"},  \* did a cycle give it another base?
              verdict  : Verdicts \cup {""},
              judged   : Trees \cup {NoTree},  \* what the verdict was computed on
              job      : Jobs \cup {NoJob},    \* validate_task_id
              version  : Nat]            \* published_version

NewCandidate == [status |-> "absent", revision |-> 0, tree |-> NoTree, base |-> 0,
                 origin |-> 0, lineage |-> "direct",
                 verdict |-> "", judged |-> NoTree, job |-> NoJob, version |-> 0]

Payload == [candidate : Candidates \cup {NoCandidate}, revision : Nat,
            tree : Trees \cup {NoTree}, base : Nat,
            mode : {"evaluate", "auto", "force"}]

NoPayload == [candidate |-> NoCandidate, revision |-> 0, tree |-> NoTree,
              base |-> 0, mode |-> "evaluate"]

\* A worker in run_validation or run_cycle; the groups a cycle is through with,
\* the one it plans for and what it read before: the head version, the revision
\* of the live candidate and the version that the bundle it works on comes from.
Attempt == [pc       : {"idle", "load", "stale", "judge", "start", "group",
                        "plan", "finish", "release", "write"},
            job      : Jobs \cup {NoJob},
            n        : Nat,
            seen     : SUBSET Groups,
            group    : Groups,
            revision : Nat,
            head     : Nat,
            origin   : Nat,
            outcome  : Outcomes \cup {"none"}]

Idle == [pc |-> "idle", job |-> NoJob, n |-> 0, seen |-> {}, group |-> "skill",
         revision |-> 0, head |-> 0, origin |-> 0, outcome |-> "none"]

NoLease == [owner |-> <<NoJob, 0>>, live |-> FALSE]

TypeOK ==
    /\ versions \in Seq([tree : Trees, deleted : BOOLEAN,
                         mutation : ApiMutations \cup (Candidates \X Nat)])
    /\ mutations \subseteq ApiMutations \cup (Candidates \X Nat)
    /\ candidate \in [Candidates -> Candidate]
    /\ command \in [Validations -> Payload]
    /\ done \subseteq Jobs
    /\ branch \subseteq Cycles \X Groups
    /\ task \in [Jobs -> TaskRow]
    /\ lease \in [owner : (Jobs \cup {NoJob}) \X Nat, live : BOOLEAN]
    /\ worker \in [Workers -> Attempt]
    /\ \A w \in Workers : worker[w].pc # "idle" => worker[w].job \in Jobs
    /\ proposed \in [Cycles \X Groups -> Nat]
    /\ stalls \in 0..MaxStalls

Init ==
    /\ LibraryInit
    /\ candidate = [c \in Candidates |-> NewCandidate]
    /\ command = [k \in Validations |-> NoPayload]
    /\ done = {}
    /\ branch = {}
    /\ task = [j \in Jobs |-> Absent]
    /\ lease = NoLease
    /\ worker = [w \in Workers |-> Idle]
    /\ proposed = [b \in Cycles \X Groups |-> 0]
    /\ stalls = 0

-----------------------------------------------------------------------------
(* The candidate table.  A definition marked "Mistake" is not part of the     *)
(* model: it is a plausible error in the definition below it, which one of    *)
(* the properties has to rule out.                                            *)

LiveCandidates == {c \in Candidates : candidate[c].status \in Open}

\* create, when the Skill has no live candidate.
Created(tree, base) ==
    [NewCandidate EXCEPT !.status = "open", !.revision = 1, !.tree = tree,
                         !.base = base, !.origin = base]

\* Mistake: a small edit is not a new revision.
RevisedInPlace(r, tree, base) ==
    [r EXCEPT !.tree = tree, !.base = base, !.verdict = "", !.judged = NoTree]

\* _revise: a new revision is open, without verdict or validation task.
Revised(r, tree, base) ==
    [r EXCEPT !.status = "open", !.revision = r.revision + 1, !.tree = tree,
              !.base = base, !.verdict = "", !.judged = NoTree, !.job = NoJob]

\* submit_validation: the payload is frozen, the task enqueued and the
\* candidate moved to validating together.
Frozen(c, r, mode) ==
    [candidate |-> c, revision |-> r.revision, tree |-> r.tree, base |-> r.base, mode |-> mode]

\* The content of a cycle's proposal comes from the bundle it read, its base is
\* the head it read: the two differ when the bundle was that of a live candidate.
Derived(r, origin) ==
    [r EXCEPT !.origin = origin,
              !.lineage = IF origin = r.base THEN "direct" ELSE "rebased"]

Validating(r, k) == [r EXCEPT !.status = "validating", !.job = k]

\* Mistake: any live candidate takes the verdict.
TakesAnyVerdict(k) == candidate[command[k].candidate].status \in Open

\* record_verdict applies to the revision and the task that were submitted.
TakesVerdict(k) ==
    LET r == candidate[command[k].candidate]
    IN  /\ r.revision = command[k].revision
        /\ r.status \in Open
        /\ r.job = k

-----------------------------------------------------------------------------
(* Requests of people *)

\* candidate_bridge: a mined Skill becomes a candidate if there is no live one.
MinerSubmits(c, tree) ==
    /\ candidate[c].status = "absent"
    /\ LiveCandidates = {}
    /\ candidate' = [candidate EXCEPT ![c] = Created(tree, HeadVersion)]
    /\ UNCHANGED <<libraryVars, command, cycleVars, done, task, worker, stalls>>

\* PUT .../content; a stale candidate_revision is refused.
EditContent(c, tree) ==
    /\ c \in LiveCandidates
    /\ candidate[c].revision < MaxRevision
    /\ candidate' = [candidate EXCEPT ![c] = Revised(candidate[c], tree, candidate[c].base)]
    /\ UNCHANGED <<libraryVars, command, cycleVars, done, task, worker, stalls>>

\* POST .../evaluate and .../validate.  A used Idempotency-Key is answered
\* with the command it belongs to, or refused.
SubmitValidation(c, k, mode) ==
    /\ candidate[c].status = "open"
    /\ task[k].status = "absent"
    /\ command' = [command EXCEPT ![k] = Frozen(c, candidate[c], mode)]
    /\ task' = [task EXCEPT ![k] = Enqueued]
    /\ candidate' = [candidate EXCEPT ![c] = Validating(candidate[c], k)]
    /\ UNCHANGED <<libraryVars, cycleVars, done, worker, stalls>>

\* POST .../reject, from open or validating.
RejectCandidate(c) ==
    /\ c \in LiveCandidates
    /\ candidate' = [candidate EXCEPT ![c].status = "rejected"]
    /\ UNCHANGED <<libraryVars, command, cycleVars, done, task, worker, stalls>>

\* POST /api/skill-evolution/trigger, at any time.
TriggerCycle(j) ==
    /\ task[j].status = "absent"
    /\ task' = [task EXCEPT ![j] = Enqueued]
    /\ UNCHANGED <<libraryVars, candidateVars, cycleVars, done, worker, stalls>>

\* evolution_tick: under the advisory lock no cycle is found waiting or active.
\* Whether the interval is over and there are sessions enough is left open.
EvolutionTick(j) ==
    /\ \A i \in Cycles : task[i].status \notin Waiting \cup Active
    /\ TriggerCycle(j)

LibraryWrite(m) ==
    /\ LibraryRequest(m)
    /\ UNCHANGED <<candidateVars, cycleVars, done, task, worker, stalls>>

-----------------------------------------------------------------------------
(* Tasks and workers *)

Stall ==
    /\ stalls < MaxStalls
    /\ stalls' = stalls + 1

RequestCancel(j) ==
    /\ Cancellable(task[j])
    /\ Stall
    /\ task' = [task EXCEPT ![j] = CancelAsked(task[j])]
    /\ UNCHANGED <<libraryVars, candidateVars, cycleVars, done, worker>>

Requeue(j) ==
    /\ Requeuable(task[j])
    /\ Stall
    /\ task' = [task EXCEPT ![j] = Requeued(task[j])]
    /\ UNCHANGED <<libraryVars, candidateVars, cycleVars, done, worker>>

At(w, pc) == worker[w].pc = pc

Job(w) == worker[w].job

Goto(w, pc, new) == worker' = [worker EXCEPT ![w] = [new EXCEPT !.pc = pc]]

\* The handler returns or raises; a cycle gives its lease back first.
Return(w, outcome) ==
    Goto(w, IF worker[w].pc \in {"group", "plan", "finish"} THEN "release" ELSE "write",
         [Idle EXCEPT !.job = Job(w), !.n = worker[w].n, !.outcome = outcome])

\* claim; a cancel that is known by then ends the task before the handler runs.
Claim(w, j) ==
    /\ At(w, "idle")
    /\ Claimable(task[j])
    /\ task' = [task EXCEPT ![j] = Claimed(task[j])]
    /\ LET attempt == [Idle EXCEPT !.job = j, !.n = task[j].n + 1]
       IN  IF task[j].cancel
           THEN Goto(w, "write", [attempt EXCEPT !.outcome = "cancelled"])
           ELSE Goto(w, IF j \in Cycles THEN "start" ELSE "load", attempt)
    /\ UNCHANGED <<libraryVars, candidateVars, cycleVars, done, stalls>>

\* require_current of a handler that does not allow a cancel.
MayCommit(w) == Current(task[Job(w)], worker[w].n) /\ ~task[Job(w)].cancel

TaskLeaseExpires(j) ==
    /\ task[j].leased
    /\ task[j].status \in Active
    /\ IF \E w \in Workers : Job(w) = j /\ worker[w].n = task[j].n
       THEN Stall
       ELSE UNCHANGED stalls
    /\ task' = [task EXCEPT ![j].leased = FALSE]
    /\ UNCHANGED <<libraryVars, candidateVars, cycleVars, done, worker>>

Write(w) ==
    /\ At(w, "write")
    /\ IF Fenced(task[Job(w)], worker[w].n)
       THEN task' = [task EXCEPT ![Job(w)] = Written(task[Job(w)], worker[w].outcome)]
       ELSE UNCHANGED task
    /\ Goto(w, "idle", Idle)
    /\ UNCHANGED <<libraryVars, candidateVars, cycleVars, done, stalls>>

\* The process dies, or cannot write its result.
Crash(w) ==
    /\ worker[w].pc # "idle"
    /\ Stall
    /\ Goto(w, "idle", Idle)
    /\ UNCHANGED <<libraryVars, candidateVars, cycleVars, done, task>>

\* _run_renewing finds the task lease lost and cancels the handler: a cycle
\* still gives its lease back, and nothing is written.
HeartbeatLost(w) ==
    /\ worker[w].pc \notin {"idle", "release", "write"}
    /\ ~Current(task[Job(w)], worker[w].n)
    /\ IF worker[w].pc \in {"group", "plan", "finish"}
       THEN Return(w, "none")
       ELSE Goto(w, "idle", Idle)
    /\ UNCHANGED <<libraryVars, candidateVars, cycleVars, done, task, stalls>>

\* A model, a replay or a transaction fails: the handler raises.
HandlerError(w) ==
    /\ worker[w].pc \notin {"idle", "release", "write"}
    /\ Stall
    /\ Return(w, "retry")
    /\ UNCHANGED <<libraryVars, candidateVars, cycleVars, done, task>>

-----------------------------------------------------------------------------
(* run_validation *)

\* load_command and the first look at the candidate; a validation that is
\* still wanted opens its replay record under require_current.
LoadValidation(w) ==
    /\ At(w, "load")
    /\ LET k == Job(w)
           r == candidate[command[k].candidate]
       IN  IF k \in done THEN Return(w, "succeed")
           ELSE IF r.revision # command[k].revision \/ r.job # k \/ r.status # "validating"
                THEN Goto(w, "stale", worker[w])
           ELSE IF MayCommit(w) THEN Goto(w, "judge", worker[w])
           ELSE Return(w, "retry")
    /\ UNCHANGED <<libraryVars, candidateVars, cycleVars, done, task, stalls>>

FinishStale(w) ==
    /\ At(w, "stale")
    /\ IF MayCommit(w)
       THEN done' = done \cup {Job(w)} /\ Return(w, "succeed")
       ELSE UNCHANGED done /\ Return(w, "retry")
    /\ UNCHANGED <<libraryVars, candidateVars, cycleVars, task, stalls>>

\* What the last transaction makes of the verdict: publish needs both gates
\* (static checks and runtime) and an accept, unless a reviewer forces it.
Publishes(mode, verdict, gates) ==
    mode # "evaluate" /\ gates /\ (verdict = "accept" \/ mode = "force")

Rejects(mode, verdict, gates) ==
    mode # "evaluate" /\ ~Publishes(mode, verdict, gates) /\ verdict = "reject"

Judged(r, k, verdict) ==
    [r EXCEPT !.status = "open", !.verdict = verdict, !.judged = command[k].tree]

\* The last transaction, after the replay came to verdict: verdict,
\* publication, candidate and command result stand or fall together.  A
\* SkillVersionConflict undoes all of it and raises.
CommitValidation(w, verdict, gates) ==
    /\ At(w, "judge")
    /\ LET k == Job(w)
           p == command[k]
           c == p.candidate
           judged == Judged(candidate[c], k, verdict)
           publishes == TakesVerdict(k) /\ Publishes(p.mode, verdict, gates)
       IN  IF ~MayCommit(w) \/ (publishes /\ ~BaseMatches(p.base))
           THEN /\ Return(w, "retry")
                /\ UNCHANGED <<libraryVars, candidate, done>>
           ELSE /\ done' = done \cup {k}
                /\ Return(w, "succeed")
                /\ IF publishes
                   THEN /\ CommitBundle(<<c, p.revision>>, p.tree)
                        /\ candidate' = [candidate EXCEPT ![c] =
                             [judged EXCEPT !.status = "published",
                                            !.version = CommittedVersion(p.tree)]]
                   ELSE /\ UNCHANGED libraryVars
                        /\ candidate' =
                             IF ~TakesVerdict(k) THEN candidate
                             ELSE [candidate EXCEPT ![c] =
                                     [judged EXCEPT !.status =
                                        IF Rejects(p.mode, verdict, gates)
                                        THEN "rejected" ELSE "open"]]
    /\ UNCHANGED <<command, cycleVars, task, stalls>>

-----------------------------------------------------------------------------
(* run_cycle, for the group of this Skill *)

LeaseOwner(w) == <<Job(w), worker[w].n>>

LeaseHeldBy(w) == lease.live /\ lease.owner = LeaseOwner(w)

\* The lease's owner is the attempt, so an attempt that takes over waits for
\* the lease of the one before it.
StartCycle(w) ==
    /\ At(w, "start")
    /\ IF Job(w) \in done THEN Return(w, "succeed") /\ UNCHANGED lease
       ELSE IF lease.live THEN Return(w, "retry") /\ UNCHANGED lease
       ELSE /\ lease' = [owner |-> LeaseOwner(w), live |-> TRUE]
            /\ Goto(w, "group", worker[w])
    /\ UNCHANGED <<libraryVars, candidateVars, branch, proposed, done, task, stalls>>

\* The cycle is through with a group: the next one, or the end.
NextGroup(w, g) ==
    LET seen == worker[w].seen \cup {g}
    IN  Goto(w, IF seen = Groups THEN "finish" ELSE "group",
             [Idle EXCEPT !.job = Job(w), !.n = worker[w].n, !.seen = seen])

\* The Skill's group starts from the live candidate's bundle, if there is one,
\* otherwise from the head's; the group without a Skill starts from nothing.
PlanFrom(w, g, head, revision, origin) ==
    Goto(w, "plan", [worker[w] EXCEPT !.group = g, !.head = head,
                                      !.revision = revision, !.origin = origin])

\* A saved branch is not planned again; otherwise head and live candidate are
\* read, and used after the planner ran.
ReadGroup(w, g) ==
    /\ At(w, "group")
    /\ g \notin worker[w].seen
    /\ IF ~LeaseHeldBy(w) THEN Return(w, "retry")
       ELSE IF <<Job(w), g>> \in branch THEN NextGroup(w, g)
       ELSE IF g = "none" THEN PlanFrom(w, g, 0, 0, 0)
       ELSE IF LiveCandidates = {} THEN PlanFrom(w, g, HeadVersion, 0, HeadVersion)
       ELSE \E c \in LiveCandidates :
               PlanFrom(w, g, HeadVersion, candidate[c].revision, candidate[c].origin)
    /\ UNCHANGED <<libraryVars, candidateVars, cycleVars, done, task, stalls>>

\* Revision of the live candidate, 0 without one.
LiveRevision ==
    IF LiveCandidates = {} THEN 0
    ELSE candidate[CHOOSE c \in LiveCandidates : TRUE].revision

\* Mistake: the branch is saved with the result of the whole cycle.
ForgetBranch(w) ==
    /\ UNCHANGED branch
    /\ NextGroup(w, worker[w].group)

\* The branch and what came of it commit together.
SaveBranch(w) ==
    /\ branch' = branch \cup {<<Job(w), worker[w].group>>}
    /\ NextGroup(w, worker[w].group)

\* Nothing to propose for this Skill: no session in the group, too little
\* evidence, the planner's choice, or a proposal for a Skill of another name.
SkipGroup(w) ==
    /\ At(w, "plan")
    /\ MayCommit(w) /\ LeaseHeldBy(w)
    /\ SaveBranch(w)
    /\ UNCHANGED <<libraryVars, candidateVars, lease, proposed, done, task, stalls>>

\* create, which revises the live candidate, and the automatic evaluation.
Propose(w, c, tree) ==
    /\ At(w, "plan")
    /\ MayCommit(w) /\ LeaseHeldBy(w)
    /\ LiveRevision = worker[w].revision
    /\ IF LiveCandidates = {} THEN candidate[c].status = "absent" ELSE c \in LiveCandidates
    /\ LET made == IF LiveCandidates = {}
                   THEN Created(tree, worker[w].head)
                   ELSE Revised(candidate[c], tree, worker[w].head)
           new == Derived(made, worker[w].origin)
       IN  \/ /\ "off" \in AutoModes
              /\ candidate' = [candidate EXCEPT ![c] = new]
              /\ UNCHANGED <<command, task>>
           \/ \E mode \in AutoModes \ {"off"}, k \in Validations :
              /\ task[k].status = "absent"
              /\ candidate' = [candidate EXCEPT ![c] = Validating(new, k)]
              /\ command' = [command EXCEPT ![k] = Frozen(c, new, mode)]
              /\ task' = [task EXCEPT ![k] = Enqueued]
    /\ SaveBranch(w)
    /\ proposed' = [proposed EXCEPT ![<<Job(w), worker[w].group>>] = @ + 1]
    /\ UNCHANGED <<libraryVars, lease, done, stalls>>

\* The attempt, its lease or the candidate changed while the planner ran.
PlanRefused(w) ==
    /\ At(w, "plan")
    /\ ~MayCommit(w) \/ ~LeaseHeldBy(w) \/ LiveRevision # worker[w].revision
    /\ Return(w, "retry")
    /\ UNCHANGED <<libraryVars, candidateVars, cycleVars, done, task, stalls>>

\* consume and finish.
FinishCycle(w) ==
    /\ At(w, "finish")
    /\ IF MayCommit(w)
       THEN done' = done \cup {Job(w)} /\ Return(w, "succeed")
       ELSE UNCHANGED done /\ Return(w, "retry")
    /\ UNCHANGED <<libraryVars, candidateVars, cycleVars, task, stalls>>

\* finally: the lease is released if it is still this attempt's.
ReleaseCycle(w) ==
    /\ At(w, "release")
    /\ lease' = IF lease.owner = LeaseOwner(w) THEN NoLease ELSE lease
    /\ IF worker[w].outcome = "none"
       THEN Goto(w, "idle", Idle)
       ELSE Goto(w, "write", worker[w])
    /\ UNCHANGED <<libraryVars, candidateVars, branch, proposed, done, task, stalls>>

\* The resource lease runs out: its holder is gone, or does not get to renew.
CycleLeaseExpires ==
    /\ lease.live
    /\ IF \E w \in Workers : LeaseOwner(w) = lease.owner THEN Stall ELSE UNCHANGED stalls
    /\ lease' = [lease EXCEPT !.live = FALSE]
    /\ UNCHANGED <<libraryVars, candidateVars, branch, proposed, done, task, worker>>

-----------------------------------------------------------------------------

Next ==
    \/ \E c \in Candidates, tree \in Trees : MinerSubmits(c, tree) \/ EditContent(c, tree)
    \/ \E c \in Candidates, k \in Validations, mode \in Modes : SubmitValidation(c, k, mode)
    \/ \E c \in Candidates : RejectCandidate(c)
    \/ \E j \in Cycles : TriggerCycle(j) \/ EvolutionTick(j)
    \/ \E m \in ApiMutations : LibraryWrite(m)
    \/ \E j \in Jobs : RequestCancel(j) \/ Requeue(j) \/ TaskLeaseExpires(j)
    \/ CycleLeaseExpires
    \/ \E w \in Workers :
          \/ \E j \in Jobs : Claim(w, j)
          \/ LoadValidation(w) \/ FinishStale(w)
          \/ \E verdict \in Verdicts, gates \in BOOLEAN :
                (verdict = "accept" => gates) /\ CommitValidation(w, verdict, gates)
          \/ \E g \in Groups : ReadGroup(w, g)
          \/ StartCycle(w) \/ SkipGroup(w) \/ PlanRefused(w)
          \/ \E c \in Candidates, tree \in Trees : Propose(w, c, tree)
          \/ FinishCycle(w) \/ ReleaseCycle(w)
          \/ Write(w) \/ Crash(w) \/ HandlerError(w) \/ HeartbeatLost(w)

Spec == Init /\ [][Next]_vars

-----------------------------------------------------------------------------
(* Properties *)

\* The verdict shown for a candidate was computed on the content it has now,
\* however long the replay took and whoever edited meanwhile.
VerdictFitsContent ==
    \A c \in Candidates :
        candidate[c].verdict # "" => candidate[c].judged = candidate[c].tree

\* A published candidate is in the library under its published_version with
\* the content the candidate has.
PublishedIsWhatWasReviewed ==
    \A c \in Candidates : candidate[c].status = "published" =>
        LET v == candidate[c].version
        IN  /\ v \in 1..CurrentVersion
            /\ ~versions[v].deleted
            /\ versions[v].tree = candidate[c].tree

\* A publication follows the version that the candidate's content was derived
\* from: nothing that people saved, restored or deleted since is replaced.  The
\* exception is a candidate that a cycle revised when the head was no longer the
\* version its content came from: run_cycle plans from the live candidate's
\* bundle and stamps the head as base_version.  Its publication replaces the
\* versions in between, but still none that came after the head it was stamped
\* with.
NoLostUpdate ==
    \A c \in Candidates : candidate[c].status = "published" =>
        LET from == IF candidate[c].lineage = "rebased"
                    THEN candidate[c].base
                    ELSE candidate[c].origin
        IN  candidate[c].version \in {from, from + 1}

\* A candidate that is validating has a validation that is not over.
ValidatingIsRunning ==
    \A c \in Candidates : candidate[c].status = "validating" =>
        task[candidate[c].job].status \notin Terminal

\* Each group of a cycle proposes at most once, over all the cycle's attempts.
ProposedOnce == \A b \in Cycles \X Groups : proposed[b] <= 1
=============================================================================
