------------------------ MODULE SkillCandidatesProofs ------------------------
(***************************************************************************)
(* Proofs about SkillCandidates and SkillLibrary for every set of          *)
(* candidates, contents, commands and workers and every bound.             *)
(***************************************************************************)
EXTENDS SkillCandidates, TaskAttemptsProofs

USE MaxAttemptsAssumption, JobsAssumption, BoundAssumption

-----------------------------------------------------------------------------
(* The inductive invariant *)

\* A worker works on a command that was enqueued, of the kind its place in the
\* code is about, and for an attempt that was claimed; a worker about to write
\* a result has one.
AttemptsKnown ==
    \A w \in Workers : worker[w].pc # "idle" =>
        /\ task[worker[w].job].status # "absent"
        /\ worker[w].n <= task[worker[w].job].n
        /\ worker[w].pc \in {"load", "stale", "judge"} => worker[w].job \in Validations
        /\ worker[w].pc \in {"start", "group", "plan", "finish", "release"} =>
              worker[w].job \in Cycles
        /\ worker[w].pc = "write" => worker[w].outcome # "none"

\* No two workers are at the same attempt.
AttemptsDiffer ==
    \A w, v \in Workers :
        /\ worker[w].pc # "idle" /\ worker[v].pc # "idle"
        /\ worker[w].job = worker[v].job /\ worker[w].n = worker[v].n
        => w = v

\* A validation froze a revision that the candidate had, and while it still has
\* it, content and base are the frozen ones.
CommandsFit ==
    \A k \in Validations : task[k].status # "absent" =>
        /\ command[k].candidate \in Candidates
        /\ candidate[command[k].candidate].status # "absent"
        /\ command[k].revision <= candidate[command[k].candidate].revision
        /\ command[k].revision = candidate[command[k].candidate].revision =>
              /\ command[k].tree = candidate[command[k].candidate].tree
              /\ command[k].base = candidate[command[k].candidate].base

\* A candidate that exists has content.
ContentKnown ==
    \A c \in Candidates : candidate[c].status # "absent" => candidate[c].tree \in Trees

\* A version's mutation is on record, and a candidate's mutations are those of
\* a candidate that is published.
MutationsRecorded ==
    /\ \A i \in 1..Len(versions) : versions[i].mutation \in mutations
    /\ \A m \in mutations :
          m \in Candidates \X Nat => candidate[m[1]].status = "published"

\* Only a cycle makes the base of a candidate differ from the version its content
\* was derived from.
OwnBase(r) == r.lineage = "direct" => r.base = r.origin

BasesKnown == \A c \in Candidates : OwnBase(candidate[c])

\* A publication follows the base of its candidate.
PublishedOnBase ==
    \A c \in Candidates : candidate[c].status = "published" =>
        candidate[c].version \in {candidate[c].base, candidate[c].base + 1}

\* A group without a saved branch has proposed nothing.
ProposalsSaved ==
    \A b \in Cycles \X Groups : proposed[b] <= 1 /\ (b \notin branch => proposed[b] = 0)

\* The latest attempt of a cycle plans only for a group whose branch is not saved.
PlanIsFresh ==
    \A w \in Workers :
        worker[w].pc = "plan" /\ worker[w].n = task[worker[w].job].n =>
            <<worker[w].job, worker[w].group>> \notin branch

QueueInv == AttemptsKnown /\ AttemptsDiffer

LibraryInv ==
    MutationsRecorded /\ MutationAppliedOnce /\ PublishedIsWhatWasReviewed /\ PublishedOnBase

IInv ==
    /\ TypeOK
    /\ QueueInv
    /\ CommandsFit
    /\ ContentKnown
    /\ BasesKnown
    /\ VerdictFitsContent
    /\ LibraryInv
    /\ ProposalsSaved
    /\ PlanIsFresh

-----------------------------------------------------------------------------
(* Records *)

\* The candidate rows that requests and cycles write.
LEMMA CreatedRow ==
    ASSUME NEW tree \in Trees, NEW base \in Nat
    PROVE  /\ Created(tree, base) \in Candidate
           /\ Created(tree, base).status = "open" /\ Created(tree, base).verdict = ""
           /\ Created(tree, base).tree = tree /\ OwnBase(Created(tree, base))
  BY DEF Created, OwnBase, NewCandidate, Candidate, Open

\* A new revision is open and has no verdict.
LEMMA RevisedRow ==
    ASSUME NEW r \in Candidate, NEW tree \in Trees, NEW base \in Nat
    PROVE  /\ Revised(r, tree, base) \in Candidate
           /\ Revised(r, tree, base).status = "open" /\ Revised(r, tree, base).verdict = ""
  <1>1. r.revision \in Nat
    BY DEF Candidate
  <1>2. r.revision + 1 \in Nat
    BY <1>1
  <1> QED
    BY <1>1, <1>2 DEF Revised, Candidate, Open

\* It has the content it was made with.
LEMMA RevisedTree ==
    ASSUME NEW r \in Candidate, NEW tree, NEW base
    PROVE  Revised(r, tree, base).tree = tree
  BY DEF Revised, Candidate

\* With the base it had it keeps its lineage.
LEMMA RevisedOwnBase ==
    ASSUME NEW r \in Candidate, NEW tree, OwnBase(r)
    PROVE  OwnBase(Revised(r, tree, r.base))
  BY DEF Revised, Candidate, OwnBase

\* A cycle's proposal is what it was made as, with a lineage.
LEMMA DerivedRow ==
    ASSUME NEW r \in Candidate, NEW origin \in Nat
    PROVE  /\ Derived(r, origin) \in Candidate
           /\ Derived(r, origin).status = r.status /\ Derived(r, origin).verdict = r.verdict
           /\ Derived(r, origin).tree = r.tree /\ Derived(r, origin).revision = r.revision
           /\ OwnBase(Derived(r, origin))
  BY DEF Derived, Candidate, OwnBase

\* Its number is the next one.
LEMMA RevisedNumber ==
    ASSUME NEW r \in Candidate, NEW tree, NEW base
    PROVE  r.revision \in Nat /\ Revised(r, tree, base).revision = r.revision + 1
  BY DEF Revised, Candidate

\* A candidate that is submitted, and what is frozen of it.
LEMMA SubmittedRows ==
    ASSUME NEW r \in Candidate, NEW c \in Candidates, NEW k \in Validations,
           NEW mode \in {"evaluate", "auto", "force"}
    PROVE  /\ Validating(r, k) \in Candidate
           /\ Validating(r, k).status = "validating"
           /\ Validating(r, k).revision = r.revision
           /\ Validating(r, k).tree = r.tree /\ Validating(r, k).base = r.base
           /\ OwnBase(r) => OwnBase(Validating(r, k))
           /\ Validating(r, k).verdict = r.verdict /\ Validating(r, k).judged = r.judged
           /\ Frozen(c, r, mode) \in Payload
           /\ Frozen(c, r, mode).candidate = c
           /\ Frozen(c, r, mode).revision = r.revision
           /\ Frozen(c, r, mode).tree = r.tree /\ Frozen(c, r, mode).base = r.base
  BY DEF Validating, Frozen, Candidate, Payload, Open, Jobs, OwnBase

\* A candidate that has a verdict.
LEMMA JudgedRow ==
    ASSUME NEW r \in Candidate, NEW k \in Validations, command[k] \in Payload,
           NEW verdict \in Verdicts
    PROVE  /\ Judged(r, k, verdict) \in Candidate
           /\ Judged(r, k, verdict).revision = r.revision /\ Judged(r, k, verdict).tree = r.tree
           /\ Judged(r, k, verdict).base = r.base /\ Judged(r, k, verdict).judged = command[k].tree
           /\ OwnBase(r) => OwnBase(Judged(r, k, verdict))
  BY DEF Judged, OwnBase, Candidate, Payload, Open

\* The record of an idle worker is an attempt's.
LEMMA IdleType == Idle \in Attempt
  <1>1. "skill" \in Groups /\ {} \in SUBSET Groups
    BY DEF Groups
  <1> QED
    BY <1>1 DEF Idle, Attempt

\* Goto changes the record of one worker.
LEMMA GotoType ==
    ASSUME worker \in [Workers -> Attempt], NEW w \in Workers,
           NEW pc \in {"idle", "load", "stale", "judge", "start", "group",
                       "plan", "finish", "release", "write"},
           NEW new \in Attempt, Goto(w, pc, new)
    PROVE  /\ worker' \in [Workers -> Attempt]
           /\ worker'[w].pc = pc /\ worker'[w].job = new.job
           /\ worker'[w].n = new.n /\ worker'[w].outcome = new.outcome
           /\ worker'[w].group = new.group
           /\ \A v \in Workers \ {w} : worker'[v] = worker[v]
  BY DEF Goto, Attempt

-----------------------------------------------------------------------------
(* Steps of the queue and of a worker *)

InValidation == {"load", "stale", "judge"}

InCycle == {"start", "group", "plan", "finish", "release"}

\* The task rows keep their attempts, and none goes away.
TasksKeep ==
    /\ task' \in [Jobs -> TaskRow]
    /\ \A j \in Jobs : task[j].status # "absent" =>
          task'[j].n = task[j].n /\ task'[j].status # "absent"

\* Worker w goes on with its attempt or drops it; it plans only without a branch.
Moves(w) ==
    /\ worker' \in [Workers -> Attempt]
    /\ \A v \in Workers \ {w} : worker'[v] = worker[v]
    /\ \/ worker'[w].pc = "idle"
       \/ /\ worker[w].pc # "idle"
          /\ worker'[w].job = worker[w].job /\ worker'[w].n = worker[w].n
          /\ worker'[w].pc \in InValidation => worker[w].pc \in InValidation
          /\ worker'[w].pc \in InCycle => worker[w].pc \in InCycle
          /\ worker'[w].pc = "write" => worker'[w].outcome # "none"
          /\ worker'[w].pc = "plan" => <<worker'[w].job, worker'[w].group>> \notin branch

\* Such steps keep what the invariant says of workers and tasks.
LEMMA QueueKeeps ==
    ASSUME TypeOK, QueueInv, TasksKeep,
           UNCHANGED worker \/ \E w \in Workers : Moves(w)
    PROVE  /\ QueueInv'
           /\ worker' \in [Workers -> Attempt]
           /\ \A v \in Workers : worker'[v].pc # "idle" =>
                 /\ worker[v].pc # "idle" /\ worker'[v].job \in Jobs
                 /\ worker'[v].job = worker[v].job /\ worker'[v].n = worker[v].n
           /\ PlanIsFresh /\ branch' = branch => PlanIsFresh'
  <1>1. /\ worker' \in [Workers -> Attempt]
        /\ \A v \in Workers : worker'[v].pc # "idle" =>
              /\ worker[v].pc # "idle" /\ worker'[v].job \in Jobs
              /\ worker'[v].job = worker[v].job /\ worker'[v].n = worker[v].n
              /\ worker'[v].pc \in InValidation => worker[v].pc \in InValidation
              /\ worker'[v].pc \in InCycle => worker[v].pc \in InCycle
              /\ worker'[v].pc = "write" => worker'[v].outcome # "none"
              /\ worker'[v].pc = "plan" =>
                    \/ worker'[v] = worker[v]
                    \/ <<worker'[v].job, worker'[v].group>> \notin branch
    BY DEF TypeOK, Moves, QueueInv, AttemptsKnown
  <1>2. AttemptsKnown'
    <2> SUFFICES ASSUME NEW v \in Workers, worker'[v].pc # "idle"
                 PROVE  /\ task'[worker'[v].job].status # "absent"
                        /\ worker'[v].n <= task'[worker'[v].job].n
                        /\ worker'[v].pc \in InValidation => worker'[v].job \in Validations
                        /\ worker'[v].pc \in InCycle => worker'[v].job \in Cycles
                        /\ worker'[v].pc = "write" => worker'[v].outcome # "none"
      BY DEF AttemptsKnown, InValidation, InCycle
    <2>1. /\ worker[v].pc # "idle" /\ worker'[v].job \in Jobs
          /\ worker'[v].job = worker[v].job /\ worker'[v].n = worker[v].n
          /\ worker'[v].pc \in InValidation => worker[v].pc \in InValidation
          /\ worker'[v].pc \in InCycle => worker[v].pc \in InCycle
          /\ worker'[v].pc = "write" => worker'[v].outcome # "none"
      BY <1>1
    <2>2. /\ task[worker[v].job].status # "absent"
          /\ worker[v].n <= task[worker[v].job].n
          /\ worker[v].pc \in InValidation => worker[v].job \in Validations
          /\ worker[v].pc \in InCycle => worker[v].job \in Cycles
      BY <2>1 DEF QueueInv, AttemptsKnown, InValidation, InCycle
    <2>3. /\ task'[worker[v].job].n = task[worker[v].job].n
          /\ task'[worker[v].job].status # "absent"
      BY <2>1, <2>2 DEF TasksKeep
    <2> QED
      BY <2>1, <2>2, <2>3
  <1>3. AttemptsDiffer'
    BY <1>1 DEF QueueInv, AttemptsDiffer
  <1>4. ASSUME PlanIsFresh, branch' = branch PROVE PlanIsFresh'
    <2>1. \A v \in Workers : worker[v].pc # "idle" => task[worker[v].job].status # "absent"
      BY DEF QueueInv, AttemptsKnown
    <2> SUFFICES ASSUME NEW v \in Workers, worker'[v].pc = "plan",
                        worker'[v].n = task'[worker'[v].job].n
                 PROVE  <<worker'[v].job, worker'[v].group>> \notin branch
      BY <1>4 DEF PlanIsFresh
    <2>2. CASE worker'[v] = worker[v]
      <3>1. worker[v].job \in Jobs /\ task'[worker[v].job].n = task[worker[v].job].n
        BY <1>1, <2>1, <2>2 DEF TasksKeep
      <3> QED
        BY <1>4, <2>2, <3>1 DEF PlanIsFresh
    <2> QED
      BY <1>1, <2>2
  <1> QED
    BY <1>1, <1>2, <1>3, <1>4 DEF QueueInv

\* Leaving the handler is a move.
LEMMA ReturnMoves ==
    ASSUME TypeOK, NEW w \in Workers, worker[w].pc # "idle",
           NEW o \in Outcomes \cup {"none"},
           o = "none" => worker[w].pc \in {"group", "plan", "finish"}, Return(w, o)
    PROVE  Moves(w) /\ worker'[w].pc \in {"release", "write"}
  <1> DEFINE pc  == IF worker[w].pc \in {"group", "plan", "finish"} THEN "release" ELSE "write"
             new == [Idle EXCEPT !.job = worker[w].job, !.n = worker[w].n, !.outcome = o]
  <1>0. worker[w] \in Attempt /\ worker[w].job \in Jobs
    BY DEF TypeOK
  <1>1. worker[w].job \in Jobs /\ worker[w].n \in Nat
    BY <1>0 DEF Attempt
  <1>2. /\ new \in Attempt /\ new.job = worker[w].job /\ new.n = worker[w].n
        /\ new.outcome = o
    BY <1>1, IdleType DEF Attempt
  <1>3. Goto(w, pc, new)
    BY DEF Return, Job
  <1> HIDE DEF new
  <1>4. /\ worker' \in [Workers -> Attempt]
        /\ worker'[w].pc = pc /\ worker'[w].job = worker[w].job
        /\ worker'[w].n = worker[w].n /\ worker'[w].outcome = o
        /\ \A v \in Workers \ {w} : worker'[v] = worker[v]
    BY <1>2, <1>3, GotoType DEF TypeOK
  <1> QED
    BY <1>4 DEF Moves, InValidation, InCycle

\* So is dropping the attempt.
LEMMA DropMoves ==
    ASSUME TypeOK, NEW w \in Workers, Goto(w, "idle", Idle)
    PROVE  Moves(w)
  BY IdleType, GotoType DEF Moves, TypeOK

\* So is going on at another place of the same handler, with a result if it is
\* to be written.
LEMMA GoOnMoves ==
    ASSUME TypeOK, NEW w \in Workers, worker[w].pc # "idle",
           NEW new \in Attempt, new.job = worker[w].job, new.n = worker[w].n,
           NEW pc \in InValidation \cup InCycle \cup {"write"}, Goto(w, pc, new),
           pc \in InValidation => worker[w].pc \in InValidation,
           pc \in InCycle => worker[w].pc \in InCycle,
           pc = "write" => new.outcome # "none",
           pc = "plan" => <<new.job, new.group>> \notin branch
    PROVE  Moves(w)
  <1>1. /\ worker' \in [Workers -> Attempt]
        /\ worker'[w].pc = pc /\ worker'[w].job = new.job /\ worker'[w].group = new.group
        /\ worker'[w].n = new.n /\ worker'[w].outcome = new.outcome
        /\ \A v \in Workers \ {w} : worker'[v] = worker[v]
    BY GotoType DEF TypeOK, InValidation, InCycle
  <1> QED
    BY <1>1 DEF Moves

\* So is going on with the next group, and it plans for none yet.
LEMMA NextGroupMoves ==
    ASSUME TypeOK, NEW w \in Workers, worker[w].pc \in {"group", "plan"},
           NEW g \in Groups, NextGroup(w, g)
    PROVE  Moves(w) /\ worker'[w].pc \in {"group", "finish"}
  <1> DEFINE seen == worker[w].seen \cup {g}
             new == [Idle EXCEPT !.job = worker[w].job, !.n = worker[w].n, !.seen = seen]
             pc == IF seen = Groups THEN "finish" ELSE "group"
  <1>0. worker[w] \in Attempt /\ worker[w].job \in Jobs
    BY DEF TypeOK
  <1>1. worker[w].job \in Jobs /\ worker[w].n \in Nat /\ seen \in SUBSET Groups
    BY <1>0 DEF Attempt
  <1> HIDE DEF seen
  <1>2. new \in Attempt /\ new.job = worker[w].job /\ new.n = worker[w].n
    BY <1>1, IdleType DEF Attempt
  <1>3. Goto(w, pc, new)
    BY DEF NextGroup, Job, seen
  <1> HIDE DEF new
  <1>4. pc \in {"group", "finish"}
    OBVIOUS
  <1> HIDE DEF pc
  <1>5. Moves(w)
    BY <1>2, <1>3, <1>4, GoOnMoves DEF InValidation, InCycle
  <1>6. worker'[w].pc = pc
    BY <1>2, <1>3, <1>4, GotoType DEF TypeOK
  <1> QED
    BY <1>4, <1>5, <1>6

\* So is planning for a group without a branch.
LEMMA PlanFromMoves ==
    ASSUME TypeOK, NEW w \in Workers, worker[w].pc = "group",
           NEW g \in Groups, <<worker[w].job, g>> \notin branch,
           NEW head \in Nat, NEW revision \in Nat, NEW origin \in Nat,
           PlanFrom(w, g, head, revision, origin)
    PROVE  Moves(w)
  <1> DEFINE new == [worker[w] EXCEPT !.group = g, !.head = head,
                                      !.revision = revision, !.origin = origin]
  <1>0. worker[w] \in Attempt
    BY DEF TypeOK
  <1>1. new \in Attempt /\ new.job = worker[w].job /\ new.n = worker[w].n /\ new.group = g
    BY <1>0 DEF Attempt
  <1>2. Goto(w, "plan", new)
    BY DEF PlanFrom
  <1> HIDE DEF new
  <1> QED
    BY <1>1, <1>2, GoOnMoves DEF InValidation, InCycle

\* The versions of a Skill are counted from 1.
LEMMA VersionNumbers ==
    ASSUME TypeOK
    PROVE  CurrentVersion \in Nat /\ HeadVersion \in Nat
  <1>1. Len(versions) \in Nat
    BY DEF TypeOK
  <1> QED
    BY <1>1 DEF CurrentVersion, HeadVersion

\* The steps of a handler that change no candidate, version, branch or task.
Handles(w) ==
    \/ LoadValidation(w) \/ FinishStale(w) \/ StartCycle(w)
    \/ (\E g \in Groups : ReadGroup(w, g)) \/ PlanRefused(w) \/ FinishCycle(w) \/ ReleaseCycle(w)
    \/ HeartbeatLost(w) \/ HandlerError(w) \/ Crash(w)

\* They are moves.
LEMMA HandlerMoves ==
    ASSUME TypeOK, NEW w \in Workers, Handles(w)
    PROVE  /\ Moves(w)
           /\ UNCHANGED <<libraryVars, candidateVars, branch, proposed, task>>
  <1> USE DEF At, Job, candidateVars, cycleVars
  <1>0. worker[w] \in Attempt /\ {"succeed", "retry"} \subseteq Outcomes
    BY DEF TypeOK, Outcomes
  <1>1. CASE LoadValidation(w)
    <2>1. worker[w].pc = "load" /\ UNCHANGED <<libraryVars, candidateVars, branch, proposed, task>>
      BY <1>1 DEF LoadValidation
    <2>2. \/ Return(w, "succeed") \/ Return(w, "retry")
          \/ Goto(w, "stale", worker[w]) \/ Goto(w, "judge", worker[w])
      BY <1>1 DEF LoadValidation
    <2> QED
      BY <1>0, <2>1, <2>2, ReturnMoves, GoOnMoves DEF InValidation, InCycle
  <1>2. CASE FinishStale(w)
    <2>1. worker[w].pc = "stale" /\ UNCHANGED <<libraryVars, candidateVars, branch, proposed, task>>
      BY <1>2 DEF FinishStale
    <2>2. Return(w, "succeed") \/ Return(w, "retry")
      BY <1>2 DEF FinishStale
    <2> QED
      BY <1>0, <2>1, <2>2, ReturnMoves
  <1>3. CASE StartCycle(w)
    <2>1. worker[w].pc = "start" /\ UNCHANGED <<libraryVars, candidateVars, branch, proposed, task>>
      BY <1>3 DEF StartCycle
    <2>2. Return(w, "succeed") \/ Return(w, "retry") \/ Goto(w, "group", worker[w])
      BY <1>3 DEF StartCycle
    <2> QED
      BY <1>0, <2>1, <2>2, ReturnMoves, GoOnMoves DEF InValidation, InCycle
  <1>4. ASSUME NEW g \in Groups, ReadGroup(w, g)
        PROVE  Moves(w) /\ UNCHANGED <<libraryVars, candidateVars, branch, proposed, task>>
    <2>1. worker[w].pc = "group" /\ UNCHANGED <<libraryVars, candidateVars, branch, proposed, task>>
      BY <1>4 DEF ReadGroup
    <2>2. CASE Return(w, "retry")
      BY <1>0, <2>1, <2>2, ReturnMoves
    <2>3. CASE NextGroup(w, g)
      BY <2>1, <2>3, NextGroupMoves
    <2>4. ASSUME NEW head \in Nat, NEW revision \in Nat, NEW origin \in Nat,
                 <<worker[w].job, g>> \notin branch, PlanFrom(w, g, head, revision, origin)
          PROVE  Moves(w)
      BY <2>1, <2>4, PlanFromMoves
    <2>5. 0 \in Nat /\ HeadVersion \in Nat
      BY VersionNumbers
    <2>6. ASSUME NEW c \in Candidates, <<worker[w].job, g>> \notin branch,
                 PlanFrom(w, g, HeadVersion, candidate[c].revision, candidate[c].origin)
          PROVE  Moves(w)
      <3>1. candidate[c].revision \in Nat /\ candidate[c].origin \in Nat
        BY DEF TypeOK, Candidate
      <3> QED
        BY <2>4, <2>5, <2>6, <3>1
    <2>7. CASE /\ <<worker[w].job, g>> \notin branch
               /\ \/ PlanFrom(w, g, 0, 0, 0) \/ PlanFrom(w, g, HeadVersion, 0, HeadVersion)
      BY <2>1, <2>4, <2>5, <2>7
    <2>8. \/ Return(w, "retry") \/ NextGroup(w, g)
          \/ /\ <<worker[w].job, g>> \notin branch
             /\ \/ PlanFrom(w, g, 0, 0, 0) \/ PlanFrom(w, g, HeadVersion, 0, HeadVersion)
                \/ \E c \in Candidates :
                      PlanFrom(w, g, HeadVersion, candidate[c].revision, candidate[c].origin)
      BY <1>4 DEF ReadGroup, LiveCandidates
    <2> QED
      BY <2>1, <2>2, <2>3, <2>6, <2>7, <2>8
  <1>5. CASE PlanRefused(w)
    <2>1. /\ worker[w].pc = "plan" /\ Return(w, "retry")
          /\ UNCHANGED <<libraryVars, candidateVars, branch, proposed, task>>
      BY <1>5 DEF PlanRefused
    <2> QED
      BY <1>0, <2>1, ReturnMoves
  <1>6. CASE FinishCycle(w)
    <2>1. worker[w].pc = "finish" /\ UNCHANGED <<libraryVars, candidateVars, branch, proposed, task>>
      BY <1>6 DEF FinishCycle
    <2>2. Return(w, "succeed") \/ Return(w, "retry")
      BY <1>6 DEF FinishCycle
    <2> QED
      BY <1>0, <2>1, <2>2, ReturnMoves
  <1>7. CASE ReleaseCycle(w)
    <2>1. worker[w].pc = "release" /\ UNCHANGED <<libraryVars, candidateVars, branch, proposed, task>>
      BY <1>7 DEF ReleaseCycle
    <2>2. CASE Goto(w, "idle", Idle)
      BY <2>1, <2>2, DropMoves
    <2>3. CASE worker[w].outcome # "none" /\ Goto(w, "write", worker[w])
      BY <1>0, <2>1, <2>3, GoOnMoves DEF InValidation, InCycle
    <2> QED
      BY <1>7, <2>2, <2>3, <2>1 DEF ReleaseCycle
  <1>8. CASE HeartbeatLost(w)
    <2>1. worker[w].pc # "idle" /\ UNCHANGED <<libraryVars, candidateVars, branch, proposed, task>>
      BY <1>8 DEF HeartbeatLost
    <2>2. CASE worker[w].pc \in {"group", "plan", "finish"} /\ Return(w, "none")
      BY <2>1, <2>2, ReturnMoves
    <2>3. CASE Goto(w, "idle", Idle)
      BY <2>1, <2>3, DropMoves
    <2> QED
      BY <1>8, <2>1, <2>2, <2>3 DEF HeartbeatLost
  <1>9. CASE HandlerError(w)
    <2>1. /\ worker[w].pc # "idle" /\ Return(w, "retry")
          /\ UNCHANGED <<libraryVars, candidateVars, branch, proposed, task>>
      BY <1>9 DEF HandlerError
    <2> QED
      BY <1>0, <2>1, ReturnMoves
  <1>10. CASE Crash(w)
    BY <1>10, DropMoves DEF Crash
  <1> QED
    BY <1>1, <1>2, <1>3, <1>4, <1>5, <1>6, <1>7, <1>8, <1>9, <1>10 DEF Handles

-----------------------------------------------------------------------------
(* Steps of the candidates *)

\* A candidate that is not published is created, revised, submitted or judged:
\* content and base change with the revision only, and a verdict is about the
\* content.
Keeps(r, new) ==
    /\ r.status # "published" /\ new.status # "absent" /\ new.tree \in Trees
    /\ r.status # "absent" =>
          /\ r.revision <= new.revision
          /\ r.revision = new.revision => new.tree = r.tree /\ new.base = r.base
    /\ new.verdict # "" => new.judged = new.tree
    /\ OwnBase(r) => OwnBase(new)

\* Candidates are kept in this sense, and so are the commands that were enqueued;
\* a new command freezes a candidate as it is now.
CandidateStep ==
    /\ candidate' \in [Candidates -> Candidate]
    /\ command' \in [Validations -> Payload]
    /\ \A c \in Candidates : candidate'[c] = candidate[c] \/ Keeps(candidate[c], candidate'[c])
    /\ \A k \in Validations : task'[k].status # "absent" =>
          \/ task[k].status # "absent" /\ command'[k] = command[k]
          \/ /\ command'[k].candidate \in Candidates
             /\ candidate'[command'[k].candidate].status # "absent"
             /\ command'[k].revision = candidate'[command'[k].candidate].revision
             /\ command'[k].tree = candidate'[command'[k].candidate].tree
             /\ command'[k].base = candidate'[command'[k].candidate].base

\* Such a step keeps what the invariant says of candidates and commands.
LEMMA CandidateKeeps ==
    ASSUME TypeOK, CommandsFit, ContentKnown, BasesKnown, VerdictFitsContent, CandidateStep
    PROVE  CommandsFit' /\ ContentKnown' /\ BasesKnown' /\ VerdictFitsContent'
  <1>1. VerdictFitsContent'
    BY DEF VerdictFitsContent, CandidateStep, Keeps
  <1>2. ContentKnown' /\ BasesKnown'
    <2>1. ContentKnown'
      BY DEF ContentKnown, CandidateStep, Keeps
    <2>2. \A c \in Candidates : OwnBase(candidate'[c])
      BY DEF BasesKnown, CandidateStep, Keeps
    <2> QED
      BY <2>1, <2>2 DEF BasesKnown, OwnBase
  <1>3. CommandsFit'
    <2> SUFFICES ASSUME NEW k \in Validations, task'[k].status # "absent",
                        task[k].status # "absent", command'[k] = command[k]
                 PROVE  /\ command'[k].candidate \in Candidates
                        /\ candidate'[command'[k].candidate].status # "absent"
                        /\ command'[k].revision <= candidate'[command'[k].candidate].revision
                        /\ command'[k].revision = candidate'[command'[k].candidate].revision =>
                              /\ command'[k].tree = candidate'[command'[k].candidate].tree
                              /\ command'[k].base = candidate'[command'[k].candidate].base
      <3>1. \A k \in Validations : command'[k].revision \in Nat
        BY DEF CandidateStep, Payload
      <3> QED
        BY <3>1 DEF CommandsFit, CandidateStep
    <2>1. PICK c \in Candidates : c = command[k].candidate
      BY DEF CommandsFit
    <2>2. /\ candidate[c].status # "absent" /\ command[k].revision <= candidate[c].revision
          /\ command[k].revision = candidate[c].revision =>
                command[k].tree = candidate[c].tree /\ command[k].base = candidate[c].base
      BY <2>1 DEF CommandsFit
    <2>3. /\ command[k].revision \in Nat /\ candidate[c].revision \in Nat
          /\ candidate'[c].revision \in Nat
      BY DEF TypeOK, CandidateStep, Candidate, Payload
    <2>4. CASE candidate'[c] = candidate[c]
      BY <2>1, <2>2, <2>4
    <2>5. CASE Keeps(candidate[c], candidate'[c])
      <3>1. /\ candidate[c].revision <= candidate'[c].revision
            /\ candidate[c].revision = candidate'[c].revision =>
                  candidate'[c].tree = candidate[c].tree /\ candidate'[c].base = candidate[c].base
            /\ candidate'[c].status # "absent"
        BY <2>2, <2>5 DEF Keeps
      <3>2. /\ command[k].revision <= candidate'[c].revision
            /\ command[k].revision = candidate'[c].revision =>
                  candidate[c].revision = candidate'[c].revision
        BY <2>2, <2>3, <3>1
      <3> QED
        BY <2>1, <2>2, <3>1, <3>2
    <2> QED
      BY <2>4, <2>5 DEF CandidateStep
  <1> QED
    BY <1>1, <1>2, <1>3

\* Nothing of the candidates changes, and no validation is enqueued.
LEMMA CandidatesRest ==
    ASSUME TypeOK, UNCHANGED candidateVars,
           \A k \in Validations : task[k].status = "absent" => task'[k].status = "absent"
    PROVE  CandidateStep
  BY DEF TypeOK, CandidateStep, candidateVars

-----------------------------------------------------------------------------
(* Steps of the library *)

\* Candidates change, the library does not, and none is published.
LEMMA LibraryRests ==
    ASSUME LibraryInv, UNCHANGED libraryVars,
           \A c \in Candidates :
              \/ candidate'[c] = candidate[c]
              \/ candidate[c].status # "published" /\ candidate'[c].status # "published"
    PROVE  LibraryInv'
  <1>1. \A c \in Candidates :
           /\ candidate[c].status = "published" => candidate'[c] = candidate[c]
           /\ candidate'[c].status = "published" => candidate'[c] = candidate[c]
    OBVIOUS
  <1>2. versions' = versions /\ mutations' = mutations
    BY DEF libraryVars
  <1>3. MutationsRecorded'
    BY <1>1, <1>2 DEF LibraryInv, MutationsRecorded
  <1>4. MutationAppliedOnce'
    BY <1>2 DEF LibraryInv, MutationAppliedOnce
  <1>5. PublishedIsWhatWasReviewed' /\ PublishedOnBase'
    BY <1>1, <1>2 DEF LibraryInv, PublishedIsWhatWasReviewed, PublishedOnBase, CurrentVersion
  <1> QED
    BY <1>3, <1>4, <1>5 DEF LibraryInv

Version == [tree : Trees, deleted : BOOLEAN, mutation : ApiMutations \cup (Candidates \X Nat)]

\* A version with a mutation that is not on record is appended and recorded.
Appends(m, tree, deleted) ==
    /\ m \notin mutations
    /\ AppendVersion(m, tree, deleted)
    /\ mutations' = mutations \cup {m}

\* The history grows at its end.
LEMMA AppendedVersion ==
    ASSUME TypeOK, NEW m \in ApiMutations \cup (Candidates \X Nat), NEW tree \in Trees,
           NEW deleted \in BOOLEAN, Appends(m, tree, deleted)
    PROVE  /\ versions' \in Seq(Version) /\ Len(versions) \in Nat
           /\ Len(versions') = Len(versions) + 1
           /\ \A i \in 1..Len(versions) : versions'[i] = versions[i]
           /\ versions'[Len(versions) + 1].tree = tree
           /\ versions'[Len(versions) + 1].deleted = deleted
           /\ versions'[Len(versions) + 1].mutation = m
           /\ mutations' \subseteq ApiMutations \cup (Candidates \X Nat)
  <1> DEFINE new == [tree |-> tree, deleted |-> deleted, mutation |-> m]
  <1>1. new \in Version /\ new.tree = tree /\ new.deleted = deleted /\ new.mutation = m
    BY DEF Version
  <1>2. versions \in Seq(Version) /\ versions' = Append(versions, new)
    BY DEF TypeOK, Version, Appends, AppendVersion
  <1> HIDE DEF new
  <1>3. mutations' \subseteq ApiMutations \cup (Candidates \X Nat)
    BY DEF TypeOK, Appends
  <1> QED
    BY <1>1, <1>2, <1>3

\* No mutation id comes twice, and what was published stays where it is.
LEMMA AppendKeeps ==
    ASSUME TypeOK, LibraryInv, NEW m \in ApiMutations \cup (Candidates \X Nat),
           NEW tree \in Trees, NEW deleted \in BOOLEAN, Appends(m, tree, deleted)
    PROVE  /\ \A i \in 1..Len(versions') : versions'[i].mutation \in mutations'
           /\ MutationAppliedOnce'
           /\ \A c \in Candidates : candidate[c].status = "published" =>
                 /\ candidate[c].version \in 1..Len(versions')
                 /\ ~versions'[candidate[c].version].deleted
                 /\ versions'[candidate[c].version].tree = candidate[c].tree
  <1>1. /\ Len(versions) \in Nat /\ Len(versions') = Len(versions) + 1
        /\ \A i \in 1..Len(versions) : versions'[i] = versions[i]
        /\ versions'[Len(versions) + 1].mutation = m
    BY AppendedVersion
  <1>2. \A i \in 1..Len(versions') : i \in 1..Len(versions) \/ i = Len(versions) + 1
    BY <1>1
  <1>3. \A i \in 1..Len(versions) : versions'[i].mutation \in mutations
    BY <1>1 DEF LibraryInv, MutationsRecorded
  <1>4. m \notin mutations /\ mutations' = mutations \cup {m}
    BY DEF Appends
  <1>5. \A i \in 1..Len(versions') : versions'[i].mutation \in mutations'
    BY <1>1, <1>2, <1>3, <1>4
  <1>6. MutationAppliedOnce'
    <2> SUFFICES ASSUME NEW i \in 1..Len(versions'), NEW j \in 1..Len(versions'),
                        versions'[i].mutation = versions'[j].mutation
                 PROVE  i = j
      BY DEF MutationAppliedOnce
    <2>1. CASE i \in 1..Len(versions) /\ j \in 1..Len(versions)
      BY <1>1, <2>1 DEF LibraryInv, MutationAppliedOnce
    <2>2. CASE i = Len(versions) + 1 /\ j \in 1..Len(versions)
      BY <1>1, <1>3, <1>4, <2>2
    <2>3. CASE i \in 1..Len(versions) /\ j = Len(versions) + 1
      BY <1>1, <1>3, <1>4, <2>3
    <2> QED
      BY <1>2, <2>1, <2>2, <2>3
  <1>7. ASSUME NEW c \in Candidates, candidate[c].status = "published"
        PROVE  /\ candidate[c].version \in 1..Len(versions')
               /\ ~versions'[candidate[c].version].deleted
               /\ versions'[candidate[c].version].tree = candidate[c].tree
    <2>1. /\ candidate[c].version \in 1..Len(versions)
          /\ ~versions[candidate[c].version].deleted
          /\ versions[candidate[c].version].tree = candidate[c].tree
      BY <1>7 DEF LibraryInv, PublishedIsWhatWasReviewed, CurrentVersion
    <2> QED
      BY <1>1, <2>1
  <1> QED
    BY <1>5, <1>6, <1>7

-----------------------------------------------------------------------------
(* Steps *)

LeaseType == [owner : (Jobs \cup {NoJob}) \X Nat, live : BOOLEAN]

\* The rest of the state keeps its type.
RestTyped == done' \subseteq Jobs /\ lease' \in LeaseType /\ stalls' \in 0..MaxStalls

\* A stall stays under its bound.
LEMMA StallType ==
    ASSUME TypeOK, Stall
    PROVE  stalls' \in 0..MaxStalls
  BY DEF TypeOK, Stall

\* What the steps of a handler that change no candidate do to the rest.
LEMMA HandlerTypes ==
    ASSUME TypeOK, NEW w \in Workers, Handles(w)
    PROVE  RestTyped
  <1> USE DEF At, Job, cycleVars
  <1>1. /\ worker[w] \in Attempt /\ (worker[w].pc # "idle" => worker[w].job \in Jobs)
        /\ done \subseteq Jobs /\ lease \in LeaseType /\ stalls \in 0..MaxStalls
    BY DEF TypeOK, LeaseType
  <1>2. NoLease \in LeaseType
    BY DEF NoLease, LeaseType
  <1>3. CASE \/ LoadValidation(w) \/ PlanRefused(w) \/ HeartbeatLost(w)
             \/ \E g \in Groups : ReadGroup(w, g)
    BY <1>1, <1>3 DEF RestTyped, LoadValidation, ReadGroup, PlanRefused, HeartbeatLost
  <1>4. CASE FinishStale(w) \/ FinishCycle(w)
    BY <1>1, <1>4 DEF RestTyped, FinishStale, FinishCycle
  <1>5. CASE StartCycle(w)
    <2>1. worker[w].n \in Nat
      BY <1>1 DEF Attempt
    <2>2. [owner |-> LeaseOwner(w), live |-> TRUE] \in LeaseType
      BY <1>1, <1>5, <2>1 DEF LeaseOwner, LeaseType, StartCycle
    <2> QED
      BY <1>1, <1>5, <2>2 DEF RestTyped, StartCycle
  <1>6. CASE ReleaseCycle(w)
    BY <1>1, <1>2, <1>6 DEF RestTyped, ReleaseCycle
  <1>7. CASE HandlerError(w) \/ Crash(w)
    BY <1>1, <1>7, StallType DEF RestTyped, HandlerError, Crash
  <1> QED
    BY <1>3, <1>4, <1>5, <1>6, <1>7 DEF Handles

\* Branches and proposals stay, or a cycle saved its branch.
BranchesKeep ==
    \/ UNCHANGED <<branch, proposed>>
    \/ /\ branch' \subseteq Cycles \X Groups /\ proposed' \in [Cycles \X Groups -> Nat]
       /\ ProposalsSaved' /\ PlanIsFresh'

LibraryKeeps ==
    /\ versions' \in Seq(Version)
    /\ mutations' \subseteq ApiMutations \cup (Candidates \X Nat)
    /\ LibraryInv'

\* A step that keeps queue, candidates, library and branches in the senses above
\* keeps the invariant.
LEMMA StepKeeps ==
    ASSUME IInv, TasksKeep, UNCHANGED worker \/ \E w \in Workers : Moves(w),
           CandidateStep, LibraryKeeps, BranchesKeep, RestTyped
    PROVE  IInv'
  <1>1. /\ TypeOK /\ QueueInv /\ CommandsFit /\ ContentKnown /\ BasesKnown /\ VerdictFitsContent
        /\ ProposalsSaved /\ PlanIsFresh
    BY DEF IInv
  <1>2. /\ QueueInv'
        /\ worker' \in [Workers -> Attempt]
        /\ \A v \in Workers : worker'[v].pc # "idle" => worker'[v].job \in Jobs
        /\ PlanIsFresh /\ branch' = branch => PlanIsFresh'
    BY <1>1, QueueKeeps
  <1>3. CommandsFit' /\ ContentKnown' /\ BasesKnown' /\ VerdictFitsContent'
    BY <1>1, CandidateKeeps
  <1>4. /\ branch' \subseteq Cycles \X Groups /\ proposed' \in [Cycles \X Groups -> Nat]
        /\ ProposalsSaved' /\ PlanIsFresh'
    BY <1>1, <1>2 DEF BranchesKeep, ProposalsSaved, TypeOK
  <1>5. TypeOK'
    BY <1>2, <1>4 DEF TypeOK, TasksKeep, CandidateStep, LibraryKeeps, RestTyped, LeaseType, Version
  <1> QED
    BY <1>2, <1>3, <1>4, <1>5 DEF IInv, LibraryKeeps

\* The library is left alone and no candidate is published.
LEMMA LibraryAlone ==
    ASSUME IInv, UNCHANGED libraryVars,
           \A c \in Candidates :
              \/ candidate'[c] = candidate[c]
              \/ candidate[c].status # "published" /\ candidate'[c].status # "published"
    PROVE  LibraryKeeps
  BY LibraryRests DEF IInv, TypeOK, LibraryKeeps, Version, libraryVars

\* A handler's step that changes no candidate.
LEMMA HandlesKeeps ==
    ASSUME IInv, NEW w \in Workers, Handles(w)
    PROVE  IInv'
  <1>1. TypeOK
    BY DEF IInv
  <1>2. Moves(w) /\ UNCHANGED <<libraryVars, candidateVars, branch, proposed, task>>
    BY <1>1, HandlerMoves
  <1>3. TasksKeep
    BY <1>1, <1>2 DEF TasksKeep, TypeOK
  <1>4. CandidateStep
    BY <1>1, <1>2, CandidatesRest
  <1>5. LibraryKeeps
    BY <1>2, LibraryAlone DEF candidateVars
  <1>6. RestTyped
    BY <1>1, HandlerTypes
  <1> QED
    BY <1>2, <1>3, <1>4, <1>5, <1>6, StepKeeps DEF BranchesKeep

\* A step of the queue alone: one row is rewritten and keeps its attempts, and a
\* row that appears is a cycle's.
LEMMA QueueStepKeeps ==
    ASSUME IInv, NEW j \in Jobs, NEW row \in TaskRow,
           task[j].status # "absent" => row.n = task[j].n /\ row.status # "absent",
           task[j].status = "absent" => j \in Cycles \/ row.status = "absent",
           task' = [task EXCEPT ![j] = row],
           UNCHANGED worker \/ \E w \in Workers : Moves(w),
           UNCHANGED <<libraryVars, candidateVars, branch, proposed>>, RestTyped
    PROVE  IInv'
  <1>1. TypeOK /\ task \in [Jobs -> TaskRow]
    BY DEF IInv, TypeOK
  <1>2. TasksKeep
    BY <1>1 DEF TasksKeep
  <1>3. \A k \in Validations : task[k].status = "absent" => task'[k].status = "absent"
    BY <1>1 DEF Jobs
  <1>4. CandidateStep
    BY <1>1, <1>3, CandidatesRest
  <1>5. LibraryKeeps
    BY LibraryAlone DEF candidateVars
  <1> QED
    BY <1>2, <1>4, <1>5, StepKeeps DEF BranchesKeep

\* Requests about tasks, and the expiry of a task lease.
LEMMA TaskRequestKeeps ==
    ASSUME IInv, NEW j \in Jobs,
           \/ j \in Cycles /\ (TriggerCycle(j) \/ EvolutionTick(j))
           \/ RequestCancel(j) \/ Requeue(j) \/ TaskLeaseExpires(j)
    PROVE  IInv'
  <1> USE DEF cycleVars
  <1>1. /\ TypeOK /\ task \in [Jobs -> TaskRow] /\ task[j] \in TaskRow
        /\ done \subseteq Jobs /\ lease \in LeaseType /\ stalls \in 0..MaxStalls
    BY DEF IInv, TypeOK, LeaseType
  <1>2. CASE j \in Cycles /\ (TriggerCycle(j) \/ EvolutionTick(j))
    <2>1. /\ task[j].status = "absent" /\ task' = [task EXCEPT ![j] = Enqueued]
          /\ UNCHANGED <<libraryVars, candidateVars, branch, proposed, worker>> /\ RestTyped
      BY <1>1, <1>2 DEF TriggerCycle, EvolutionTick, RestTyped
    <2> QED
      BY <1>1, <1>2, <2>1, RowTypes, QueueStepKeeps
  <1>3. CASE RequestCancel(j)
    <2> DEFINE row == CancelAsked(task[j])
    <2>1. /\ task' = [task EXCEPT ![j] = row]
          /\ UNCHANGED <<libraryVars, candidateVars, branch, proposed, worker>> /\ RestTyped
      BY <1>1, <1>3, StallType DEF RequestCancel, RestTyped
    <2>2. task[j].status # "absent"
      BY <1>3 DEF RequestCancel, Cancellable, Waiting, Active
    <2>3. row \in TaskRow /\ row.n = task[j].n /\ row.status # "absent"
      BY <1>1, <2>2, RowTypes, RowUpdates
    <2> HIDE DEF row
    <2> QED
      BY <2>1, <2>2, <2>3, QueueStepKeeps
  <1>4. CASE Requeue(j)
    <2> DEFINE row == Requeued(task[j])
    <2>1. /\ task' = [task EXCEPT ![j] = row]
          /\ UNCHANGED <<libraryVars, candidateVars, branch, proposed, worker>> /\ RestTyped
      BY <1>1, <1>4, StallType DEF Requeue, RestTyped
    <2>2. task[j].status # "absent"
      BY <1>4 DEF Requeue, Requeuable
    <2>3. row \in TaskRow /\ row.n = task[j].n /\ row.status # "absent"
      BY <1>1, <2>2, RowTypes, RowUpdates
    <2> HIDE DEF row
    <2> QED
      BY <2>1, <2>2, <2>3, QueueStepKeeps
  <1>5. CASE TaskLeaseExpires(j)
    <2> DEFINE row == [task[j] EXCEPT !.leased = FALSE]
    <2>1. /\ task' = [task EXCEPT ![j] = row]
          /\ UNCHANGED <<libraryVars, candidateVars, branch, proposed, worker>> /\ RestTyped
      BY <1>1, <1>5, StallType DEF TaskLeaseExpires, RestTyped
    <2>2. task[j].status # "absent"
      BY <1>5 DEF TaskLeaseExpires, Active
    <2>3. row \in TaskRow /\ row.n = task[j].n /\ row.status # "absent"
      BY <1>1, <2>2, RowTypes, RowUpdates
    <2> HIDE DEF row
    <2> QED
      BY <2>1, <2>2, <2>3, QueueStepKeeps
  <1> QED
    BY <1>2, <1>3, <1>4, <1>5

\* The cycle's resource lease runs out.
LEMMA CycleLeaseKeeps ==
    ASSUME IInv, CycleLeaseExpires
    PROVE  IInv'
  <1>1. /\ TypeOK /\ done \subseteq Jobs /\ lease \in LeaseType /\ stalls \in 0..MaxStalls
    BY DEF IInv, TypeOK, LeaseType
  <1>2. UNCHANGED <<libraryVars, candidateVars, branch, proposed, task, worker, done>>
    BY DEF CycleLeaseExpires
  <1>3. [lease EXCEPT !.live = FALSE] \in LeaseType
    BY <1>1 DEF LeaseType
  <1>4. RestTyped
    BY <1>1, <1>2, <1>3, StallType DEF CycleLeaseExpires, RestTyped
  <1>5. TasksKeep
    BY <1>1, <1>2 DEF TasksKeep, TypeOK
  <1>6. CandidateStep
    BY <1>1, <1>2, CandidatesRest
  <1>7. LibraryKeeps
    BY <1>2, LibraryAlone DEF candidateVars
  <1> QED
    BY <1>2, <1>4, <1>5, <1>6, <1>7, StepKeeps DEF BranchesKeep

\* A worker writes its result, or finds that it may not.
LEMMA WriteKeeps ==
    ASSUME IInv, NEW w \in Workers, Write(w)
    PROVE  IInv'
  <1> DEFINE j == worker[w].job
  <1>1. /\ TypeOK /\ task \in [Jobs -> TaskRow] /\ worker[w] \in Attempt
        /\ done \subseteq Jobs /\ lease \in LeaseType /\ stalls \in 0..MaxStalls
    BY DEF IInv, TypeOK, LeaseType
  <1>2. worker[w].pc = "write" /\ j \in Jobs /\ Goto(w, "idle", Idle)
    BY DEF IInv, TypeOK, Write, At
  <1>3. task[j].status # "absent" /\ worker[w].outcome \in Outcomes /\ task[j] \in TaskRow
    BY <1>1, <1>2 DEF IInv, QueueInv, AttemptsKnown, Attempt
  <1>4. Moves(w)
    BY <1>1, <1>2, DropMoves
  <1>5. UNCHANGED <<libraryVars, candidateVars, branch, proposed>> /\ RestTyped
    BY <1>1 DEF Write, RestTyped, cycleVars
  <1>6. CASE UNCHANGED task
    <2>1. task' = [task EXCEPT ![j] = task[j]]
      BY <1>1, <1>2, <1>6
    <2> QED
      BY <1>2, <1>3, <1>4, <1>5, <2>1, QueueStepKeeps
  <1>7. CASE task' = [task EXCEPT ![j] = Written(task[j], worker[w].outcome)]
    <2> DEFINE row == Written(task[j], worker[w].outcome)
    <2>1. row \in TaskRow /\ row.n = task[j].n /\ row.status # "absent"
      BY <1>3, RowTypes, WrittenRow
    <2>2. task' = [task EXCEPT ![j] = row]
      BY <1>7
    <2> HIDE DEF row
    <2> QED
      BY <1>2, <1>3, <1>4, <1>5, <2>1, <2>2, QueueStepKeeps
  <1> QED
    BY <1>6, <1>7 DEF Write, Job

\* One candidate that is not published is rewritten, not into a published one, and
\* the workers and tasks stay as they are.
LEMMA CandidateRequestKeeps ==
    ASSUME IInv, NEW c \in Candidates, NEW new \in Candidate,
           Keeps(candidate[c], new), new.status # "published",
           candidate' = [candidate EXCEPT ![c] = new],
           UNCHANGED <<libraryVars, command, cycleVars, done, task, worker, stalls>>
    PROVE  IInv'
  <1> USE DEF cycleVars
  <1>1. /\ TypeOK /\ task \in [Jobs -> TaskRow] /\ candidate \in [Candidates -> Candidate]
        /\ command \in [Validations -> Payload]
        /\ done \subseteq Jobs /\ lease \in LeaseType /\ stalls \in 0..MaxStalls
    BY DEF IInv, TypeOK, LeaseType
  <1>2. /\ candidate' \in [Candidates -> Candidate] /\ candidate'[c] = new
        /\ \A d \in Candidates \ {c} : candidate'[d] = candidate[d]
    BY <1>1
  <1>3. TasksKeep /\ RestTyped /\ BranchesKeep
    BY <1>1 DEF TasksKeep, RestTyped, BranchesKeep
  <1>4. CandidateStep
    BY <1>1, <1>2 DEF CandidateStep
  <1>5. LibraryKeeps
    BY <1>2, LibraryAlone DEF Keeps
  <1> QED
    BY <1>3, <1>4, <1>5, StepKeeps

\* The miner's candidate and the reviewer's edit.
LEMMA RequestKeeps ==
    ASSUME IInv, NEW c \in Candidates, NEW tree \in Trees,
           MinerSubmits(c, tree) \/ EditContent(c, tree)
    PROVE  IInv'
  <1>1. TypeOK /\ candidate[c] \in Candidate
    BY DEF IInv, TypeOK
  <1>2. candidate[c].base \in Nat /\ candidate[c].revision \in Nat
    BY <1>1 DEF Candidate
  <1>3. CASE MinerSubmits(c, tree)
    <2> DEFINE new == Created(tree, HeadVersion)
    <2>1. /\ new \in Candidate /\ new.status = "open" /\ new.verdict = "" /\ new.tree = tree
          /\ OwnBase(new)
      <3>1. HeadVersion \in Nat
        BY <1>1, VersionNumbers
      <3> QED
        BY <1>1, <3>1, CreatedRow
    <2>2. /\ candidate[c].status = "absent" /\ candidate' = [candidate EXCEPT ![c] = new]
          /\ UNCHANGED <<libraryVars, command, cycleVars, done, task, worker, stalls>>
      BY <1>3 DEF MinerSubmits
    <2> HIDE DEF new
    <2>3. Keeps(candidate[c], new)
      BY <2>1, <2>2 DEF Keeps
    <2> QED
      BY <2>1, <2>2, <2>3, CandidateRequestKeeps
  <1>4. CASE EditContent(c, tree)
    <2> DEFINE new == Revised(candidate[c], tree, candidate[c].base)
    <2>1. new \in Candidate /\ new.status = "open" /\ new.verdict = "" /\ new.tree = tree
      <3> DEFINE base == candidate[c].base
      <3>1. base \in Nat
        BY <1>2
      <3> HIDE DEF base
      <3>2. /\ Revised(candidate[c], tree, base) \in Candidate
            /\ Revised(candidate[c], tree, base).status = "open"
            /\ Revised(candidate[c], tree, base).verdict = ""
        BY <1>1, <3>1, RevisedRow
      <3>3. Revised(candidate[c], tree, base).tree = tree
        BY <1>1, RevisedTree
      <3> QED
        BY <3>2, <3>3 DEF base
    <2>2. candidate[c].revision <= new.revision /\ candidate[c].revision # new.revision
      <3>1. new.revision = candidate[c].revision + 1
        BY <1>1, RevisedNumber
      <3> HIDE DEF new
      <3> QED
        BY <1>2, <3>1
    <2>3. /\ candidate[c].status # "published" /\ candidate' = [candidate EXCEPT ![c] = new]
          /\ UNCHANGED <<libraryVars, command, cycleVars, done, task, worker, stalls>>
      BY <1>4 DEF EditContent, LiveCandidates, Open
    <2> HIDE DEF new
    <2>4. Keeps(candidate[c], new)
      <3>1. OwnBase(candidate[c]) => OwnBase(new)
        BY <1>1, RevisedOwnBase DEF new
      <3> QED
        BY <2>1, <2>2, <2>3, <3>1 DEF Keeps
    <2> QED
      BY <2>1, <2>3, <2>4, CandidateRequestKeeps
  <1> QED
    BY <1>3, <1>4

\* A reviewer rejects a candidate.
LEMMA RejectKeeps ==
    ASSUME IInv, NEW c \in Candidates, RejectCandidate(c)
    PROVE  IInv'
  <1>1. TypeOK /\ candidate[c] \in Candidate
    BY DEF IInv, TypeOK
  <1>2. candidate[c].revision \in Nat
    BY <1>1 DEF Candidate
  <1> DEFINE new == [candidate[c] EXCEPT !.status = "rejected"]
  <1>3. /\ new \in Candidate /\ new.status = "rejected" /\ new.verdict = candidate[c].verdict
        /\ new.judged = candidate[c].judged /\ new.revision = candidate[c].revision
        /\ new.tree = candidate[c].tree /\ new.base = candidate[c].base
        /\ OwnBase(candidate[c]) => OwnBase(new)
    BY <1>1 DEF Candidate, OwnBase
  <1>4. /\ candidate[c].status # "published" /\ candidate' = [candidate EXCEPT ![c] = new]
        /\ UNCHANGED <<libraryVars, command, cycleVars, done, task, worker, stalls>>
    BY DEF RejectCandidate, LiveCandidates, Open
  <1> HIDE DEF new
  <1>5. Keeps(candidate[c], new)
    <2>1. candidate[c].revision <= new.revision /\ new.status # "absent"
      BY <1>2, <1>3
    <2>2. /\ candidate[c].verdict # "" => candidate[c].judged = candidate[c].tree
          /\ candidate[c].tree \in Trees
      BY DEF IInv, VerdictFitsContent, ContentKnown, RejectCandidate, LiveCandidates, Open
    <2> QED
      BY <1>3, <1>4, <2>1, <2>2 DEF Keeps
  <1> QED
    BY <1>3, <1>4, <1>5, CandidateRequestKeeps

\* A candidate is submitted with a new command, which freezes it.
LEMMA SubmitStep ==
    ASSUME IInv, NEW c \in Candidates, NEW k \in Validations, NEW r \in Candidate,
           NEW mode \in {"evaluate", "auto", "force"},
           Keeps(candidate[c], r), task[k].status = "absent",
           candidate' = [candidate EXCEPT ![c] = Validating(r, k)],
           command' = [command EXCEPT ![k] = Frozen(c, r, mode)],
           task' = [task EXCEPT ![k] = Enqueued]
    PROVE  /\ TasksKeep /\ CandidateStep
           /\ \A d \in Candidates :
                 \/ candidate'[d] = candidate[d]
                 \/ candidate[d].status # "published" /\ candidate'[d].status # "published"
  <1> DEFINE new == Validating(r, k)
             payload == Frozen(c, r, mode)
             row == Enqueued
  <1>1. /\ new \in Candidate /\ new.status = "validating" /\ new.revision = r.revision
        /\ new.tree = r.tree /\ new.base = r.base /\ new.verdict = r.verdict
        /\ new.judged = r.judged /\ (OwnBase(r) => OwnBase(new))
    BY SubmittedRows
  <1>2. /\ payload \in Payload /\ payload.candidate = c /\ payload.revision = r.revision
        /\ payload.tree = r.tree /\ payload.base = r.base
    BY SubmittedRows
  <1>3. /\ task \in [Jobs -> TaskRow] /\ candidate \in [Candidates -> Candidate]
        /\ command \in [Validations -> Payload] /\ k \in Jobs
    BY DEF IInv, TypeOK, Jobs
  <1>4. row \in TaskRow
    BY <1>3, RowTypes
  <1>5. /\ candidate' = [candidate EXCEPT ![c] = new] /\ task' = [task EXCEPT ![k] = row]
        /\ command' = [command EXCEPT ![k] = payload]
    OBVIOUS
  <1> HIDE DEF new, payload, row
  <1>6. /\ candidate' \in [Candidates -> Candidate] /\ candidate'[c] = new
        /\ \A d \in Candidates \ {c} : candidate'[d] = candidate[d]
    BY <1>1, <1>3, <1>5
  <1>7. /\ command' \in [Validations -> Payload] /\ command'[k] = payload
        /\ \A l \in Validations \ {k} : command'[l] = command[l]
    BY <1>2, <1>3, <1>5
  <1>8. /\ task' \in [Jobs -> TaskRow]
        /\ \A j \in Jobs \ {k} : task'[j] = task[j]
    BY <1>3, <1>4, <1>5
  <1>9. TasksKeep
    BY <1>8 DEF TasksKeep
  <1>10. Keeps(candidate[c], new)
    BY <1>1 DEF Keeps
  <1>11. CandidateStep
    <2>1. \A l \in Validations \ {k} :
             task'[l].status # "absent" => task[l].status # "absent" /\ command'[l] = command[l]
      BY <1>7, <1>8 DEF Jobs
    <2>2. /\ command'[k].candidate = c /\ candidate'[c].status # "absent"
          /\ command'[k].revision = candidate'[c].revision
          /\ command'[k].tree = candidate'[c].tree /\ command'[k].base = candidate'[c].base
      BY <1>1, <1>2, <1>6, <1>7
    <2>3. \A d \in Candidates : candidate'[d] = candidate[d] \/ Keeps(candidate[d], candidate'[d])
      BY <1>6, <1>10
    <2> QED
      BY <1>6, <1>7, <2>1, <2>2, <2>3 DEF CandidateStep
  <1>12. \A d \in Candidates :
           \/ candidate'[d] = candidate[d]
           \/ candidate[d].status # "published" /\ candidate'[d].status # "published"
    BY <1>1, <1>6 DEF Keeps
  <1> QED
    BY <1>9, <1>11, <1>12

\* A reviewer asks for a validation.
LEMMA SubmitKeeps ==
    ASSUME IInv, NEW c \in Candidates, NEW k \in Validations, NEW mode \in Modes,
           SubmitValidation(c, k, mode)
    PROVE  IInv'
  <1> USE DEF cycleVars
  <1>1. /\ TypeOK /\ candidate[c] \in Candidate
        /\ done \subseteq Jobs /\ lease \in LeaseType /\ stalls \in 0..MaxStalls
    BY DEF IInv, TypeOK, LeaseType
  <1>2. candidate[c].revision \in Nat
    BY <1>1 DEF Candidate
  <1>3. mode \in {"evaluate", "auto", "force"}
    BY ModesAssumption
  <1>4. Keeps(candidate[c], candidate[c])
    <2>1. candidate[c].revision <= candidate[c].revision
      BY <1>2
    <2>2. candidate[c].status = "open"
      BY DEF SubmitValidation
    <2>3. /\ candidate[c].verdict # "" => candidate[c].judged = candidate[c].tree
          /\ candidate[c].tree \in Trees
      BY <2>2 DEF IInv, VerdictFitsContent, ContentKnown
    <2> QED
      BY <2>1, <2>2, <2>3 DEF Keeps
  <1>5. /\ TasksKeep /\ CandidateStep
        /\ \A d \in Candidates :
              \/ candidate'[d] = candidate[d]
              \/ candidate[d].status # "published" /\ candidate'[d].status # "published"
    BY <1>1, <1>3, <1>4, SubmitStep DEF SubmitValidation
  <1>6. UNCHANGED <<libraryVars, worker>> /\ RestTyped /\ BranchesKeep
    BY <1>1 DEF SubmitValidation, RestTyped, BranchesKeep
  <1>7. LibraryKeeps
    BY <1>5, <1>6, LibraryAlone
  <1> QED
    BY <1>5, <1>6, <1>7, StepKeeps

\* A request of the API adds a version.
LEMMA ApiAppendKeeps ==
    ASSUME IInv, NEW m \in ApiMutations, NEW tree \in Trees, NEW deleted \in BOOLEAN,
           Appends(m, tree, deleted), UNCHANGED candidate
    PROVE  LibraryKeeps
  <1>1. TypeOK /\ LibraryInv
    BY DEF IInv
  <1>2. /\ versions' \in Seq(Version) /\ mutations' \subseteq ApiMutations \cup (Candidates \X Nat)
    BY <1>1, AppendedVersion
  <1>3. /\ \A i \in 1..Len(versions') : versions'[i].mutation \in mutations'
        /\ MutationAppliedOnce'
        /\ \A c \in Candidates : candidate[c].status = "published" =>
              /\ candidate[c].version \in 1..Len(versions')
              /\ ~versions'[candidate[c].version].deleted
              /\ versions'[candidate[c].version].tree = candidate[c].tree
    BY <1>1, AppendKeeps
  <1>4. m \notin Candidates \X Nat /\ mutations' = mutations \cup {m}
    BY MutationsAssumption DEF Appends
  <1>5. MutationsRecorded'
    <2>1. \A x \in mutations' : x \in Candidates \X Nat => candidate'[x[1]].status = "published"
      BY <1>1, <1>4 DEF LibraryInv, MutationsRecorded
    <2> QED
      BY <1>3, <2>1 DEF MutationsRecorded
  <1>6. PublishedIsWhatWasReviewed'
    BY <1>3 DEF PublishedIsWhatWasReviewed, CurrentVersion
  <1>7. PublishedOnBase'
    BY <1>1 DEF LibraryInv, PublishedOnBase
  <1> QED
    BY <1>2, <1>3, <1>5, <1>6, <1>7 DEF LibraryKeeps, LibraryInv

\* A request of the API saves what is already there: only its id is recorded.
LEMMA ApiRecordKeeps ==
    ASSUME IInv, NEW m \in ApiMutations, UNCHANGED <<versions, candidate>>,
           mutations' = mutations \cup {m}
    PROVE  LibraryKeeps
  <1>1. /\ versions \in Seq(Version) /\ mutations \subseteq ApiMutations \cup (Candidates \X Nat)
        /\ LibraryInv /\ m \notin Candidates \X Nat
    BY MutationsAssumption DEF IInv, TypeOK, Version
  <1>2. MutationsRecorded'
    <2>1. \A x \in mutations' : x \in Candidates \X Nat => candidate'[x[1]].status = "published"
      BY <1>1 DEF LibraryInv, MutationsRecorded
    <2>2. \A i \in 1..Len(versions') : versions'[i].mutation \in mutations'
      BY <1>1 DEF LibraryInv, MutationsRecorded
    <2> QED
      BY <2>1, <2>2 DEF MutationsRecorded
  <1>3. MutationAppliedOnce' /\ PublishedIsWhatWasReviewed' /\ PublishedOnBase'
    BY <1>1 DEF LibraryInv, MutationAppliedOnce, PublishedIsWhatWasReviewed, PublishedOnBase,
                CurrentVersion
  <1> QED
    BY <1>1, <1>2, <1>3 DEF LibraryKeeps, LibraryInv

\* The console's, the workbench's and the import's writes.
LEMMA LibraryWriteKeeps ==
    ASSUME IInv, NEW m \in ApiMutations, LibraryWrite(m)
    PROVE  IInv'
  <1> USE DEF candidateVars, cycleVars
  <1>1. /\ TypeOK /\ task \in [Jobs -> TaskRow] /\ versions \in Seq(Version)
        /\ done \subseteq Jobs /\ lease \in LeaseType /\ stalls \in 0..MaxStalls
    BY DEF IInv, TypeOK, LeaseType, Version
  <1>2. UNCHANGED <<candidate, command, branch, proposed, task, worker, done, lease, stalls>>
    BY DEF LibraryWrite
  <1>3. TasksKeep /\ RestTyped /\ BranchesKeep
    BY <1>1, <1>2 DEF TasksKeep, RestTyped, BranchesKeep
  <1>4. CandidateStep
    BY <1>1, <1>2, CandidatesRest
  <1>5. ASSUME NEW i \in 1..Len(versions) PROVE versions[i].tree \in Trees
    <2>1. versions[i] \in Version
      BY <1>1
    <2> QED
      BY <2>1 DEF Version
  <1>6. ASSUME NEW tree \in Trees, NEW base, SaveSkill(m, tree, base)
        PROVE  LibraryKeeps
    <2>1. CASE UNCHANGED versions
      BY <1>2, <1>6, <2>1, ApiRecordKeeps DEF SaveSkill, CommitBundle
    <2>2. CASE AppendVersion(m, tree, FALSE)
      BY <1>2, <1>6, <2>2, ApiAppendKeeps DEF SaveSkill, CommitBundle, Unused, Appends
    <2> QED
      BY <1>6, <2>1, <2>2 DEF SaveSkill, CommitBundle
  <1>7. ASSUME NEW target \in 1..CurrentVersion, Rollback(m, target)
        PROVE  LibraryKeeps
    <2>1. versions[target].tree \in Trees
      BY <1>5 DEF CurrentVersion
    <2>2. Appends(m, versions[target].tree, FALSE)
      BY <1>7 DEF Rollback, Unused, Appends
    <2> QED
      BY <1>2, <2>1, <2>2, ApiAppendKeeps
  <1>8. ASSUME DeleteSkill(m) PROVE LibraryKeeps
    <2>1. CurrentVersion \in 1..Len(versions)
      BY <1>1, <1>8 DEF DeleteSkill, SkillLive, CurrentVersion
    <2>2. Appends(m, versions[CurrentVersion].tree, TRUE)
      BY <1>8 DEF DeleteSkill, Unused, Appends
    <2> QED
      BY <1>2, <1>5, <2>1, <2>2, ApiAppendKeeps
  <1>9. LibraryKeeps
    BY <1>6, <1>7, <1>8 DEF LibraryWrite, LibraryRequest
  <1> QED
    BY <1>2, <1>3, <1>4, <1>9, StepKeeps

\* A worker claims a task: its attempt is a new one.
LEMMA ClaimKeeps ==
    ASSUME IInv, NEW w \in Workers, NEW j \in Jobs, Claim(w, j)
    PROVE  IInv'
  <1> DEFINE n == task[j].n + 1
             row == Claimed(task[j])
  <1>1. /\ TypeOK /\ QueueInv /\ PlanIsFresh /\ task \in [Jobs -> TaskRow] /\ task[j] \in TaskRow
        /\ worker \in [Workers -> Attempt]
    BY DEF IInv, TypeOK
  <1>2. task[j].n \in Nat /\ n \in Nat /\ n > task[j].n
    BY <1>1 DEF TaskRow
  <1>3. row \in TaskRow /\ row.n = n /\ row.status # "absent"
    BY <1>1, RowTypes, RowUpdates
  <1>4. task' = [task EXCEPT ![j] = row] /\ task[j].status # "absent" /\ worker[w].pc = "idle"
    BY DEF Claim, At, Claimable, Waiting, Active
  <1>5. UNCHANGED <<libraryVars, candidateVars, branch, proposed, done, lease, stalls>>
    BY DEF Claim, cycleVars
  <1> HIDE DEF row
  <1>6. /\ task' \in [Jobs -> TaskRow] /\ task'[j].n = n /\ task'[j].status # "absent"
        /\ \A i \in Jobs \ {j} : task'[i] = task[i]
    BY <1>1, <1>3, <1>4
  <1>7. /\ worker' \in [Workers -> Attempt]
        /\ worker'[w].job = j /\ worker'[w].n = n
        /\ \A v \in Workers \ {w} : worker'[v] = worker[v]
        /\ \/ worker'[w].pc = "write" /\ worker'[w].outcome = "cancelled"
           \/ worker'[w].pc = "start" /\ j \in Cycles
           \/ worker'[w].pc = "load" /\ j \in Validations
    <2> HIDE DEF n
    <2> DEFINE attempt == [Idle EXCEPT !.job = j, !.n = n]
               cancelled == [attempt EXCEPT !.outcome = "cancelled"]
    <2>1. attempt \in Attempt /\ attempt.job = j /\ attempt.n = n
      BY <1>2, IdleType DEF Attempt
    <2>2. \/ Goto(w, "write", cancelled)
          \/ j \in Cycles /\ Goto(w, "start", attempt)
          \/ j \in Validations /\ Goto(w, "load", attempt)
      BY DEF Claim, Jobs, n
    <2> HIDE DEF attempt
    <2>3. /\ cancelled \in Attempt /\ cancelled.job = j /\ cancelled.n = n
          /\ cancelled.outcome = "cancelled"
      BY <2>1 DEF Attempt, Outcomes
    <2> HIDE DEF cancelled
    <2>4. CASE Goto(w, "write", cancelled)
      BY <1>1, <2>3, <2>4, GotoType
    <2>5. CASE j \in Cycles /\ Goto(w, "start", attempt)
      BY <1>1, <2>1, <2>5, GotoType
    <2>6. CASE j \in Validations /\ Goto(w, "load", attempt)
      BY <1>1, <2>1, <2>6, GotoType
    <2> QED
      BY <2>2, <2>4, <2>5, <2>6
  <1>8. \A v \in Workers \ {w} : worker[v].pc # "idle" =>
           /\ worker[v].job \in Jobs /\ worker[v].n \in Nat
           /\ task[worker[v].job].status # "absent" /\ worker[v].n <= task[worker[v].job].n
           /\ worker[v].job = j => worker[v].n < n
    <2>1. \A v \in Workers : worker[v].n \in Nat
      BY <1>1 DEF Attempt
    <2>2. \A v \in Workers : worker[v].pc # "idle" =>
             /\ worker[v].job \in Jobs /\ task[worker[v].job].status # "absent"
             /\ worker[v].n <= task[worker[v].job].n
      BY <1>1 DEF TypeOK, QueueInv, AttemptsKnown
    <2>3. \A v \in Workers : worker[v].pc # "idle" /\ worker[v].job = j => worker[v].n < n
      BY <1>2, <2>1, <2>2
    <2> QED
      BY <2>1, <2>2, <2>3
  <1> HIDE DEF n
  <1>9. AttemptsKnown'
    <2> SUFFICES ASSUME NEW v \in Workers, worker'[v].pc # "idle"
                 PROVE  /\ task'[worker'[v].job].status # "absent"
                        /\ worker'[v].n <= task'[worker'[v].job].n
                        /\ worker'[v].pc \in InValidation => worker'[v].job \in Validations
                        /\ worker'[v].pc \in InCycle => worker'[v].job \in Cycles
                        /\ worker'[v].pc = "write" => worker'[v].outcome # "none"
      BY DEF AttemptsKnown, InValidation, InCycle
    <2>1. CASE v = w
      BY <1>2, <1>6, <1>7, <2>1 DEF InValidation, InCycle
    <2>2. CASE v # w
      <3>1. worker'[v] = worker[v] /\ worker[v].pc # "idle"
        BY <1>7, <2>2
      <3>2. /\ worker[v].pc \in InValidation => worker[v].job \in Validations
            /\ worker[v].pc \in InCycle => worker[v].job \in Cycles
            /\ worker[v].pc = "write" => worker[v].outcome # "none"
        BY <1>1, <3>1 DEF QueueInv, AttemptsKnown, InValidation, InCycle
      <3>3. /\ task'[worker[v].job].status # "absent"
            /\ worker[v].n <= task'[worker[v].job].n
        BY <1>2, <1>6, <1>8, <2>2, <3>1
      <3> QED
        BY <3>1, <3>2, <3>3
    <2> QED
      BY <2>1, <2>2
  <1>10. AttemptsDiffer'
    <2> SUFFICES ASSUME NEW u \in Workers, NEW v \in Workers,
                        worker'[u].pc # "idle", worker'[v].pc # "idle",
                        worker'[u].job = worker'[v].job, worker'[u].n = worker'[v].n
                 PROVE  u = v
      BY DEF AttemptsDiffer
    <2>1. \A x \in Workers \ {w} : worker[x].pc # "idle" /\ worker[x].job = j => worker[x].n # n
      BY <1>2, <1>8
    <2>2. CASE u # w /\ v # w
      BY <1>1, <1>7, <2>2 DEF QueueInv, AttemptsDiffer
    <2>3. CASE u = w /\ v # w
      BY <1>7, <2>1, <2>3
    <2>4. CASE u # w /\ v = w
      BY <1>7, <2>1, <2>4
    <2> QED
      BY <2>2, <2>3, <2>4
  <1>11. PlanIsFresh'
    <2> SUFFICES ASSUME NEW v \in Workers, worker'[v].pc = "plan",
                        worker'[v].n = task'[worker'[v].job].n
                 PROVE  <<worker'[v].job, worker'[v].group>> \notin branch'
      BY DEF PlanIsFresh
    <2>1. v # w /\ worker'[v] = worker[v] /\ worker[v].pc = "plan"
      BY <1>7
    <2>2. worker[v].job \in Jobs /\ (worker[v].job = j => worker[v].n # n)
      BY <1>2, <1>8, <2>1
    <2>3. worker[v].job # j /\ task'[worker[v].job] = task[worker[v].job]
      BY <1>6, <2>1, <2>2
    <2> QED
      BY <1>1, <1>5, <2>1, <2>3 DEF PlanIsFresh
  <1>12. CandidateStep
    BY <1>1, <1>4, <1>5, <1>6, CandidatesRest DEF Jobs
  <1>13. CommandsFit' /\ ContentKnown' /\ BasesKnown' /\ VerdictFitsContent'
    BY <1>1, <1>12, CandidateKeeps DEF IInv
  <1>14. LibraryKeeps
    BY <1>5, LibraryAlone DEF candidateVars
  <1>15. ProposalsSaved'
    BY <1>5 DEF IInv, ProposalsSaved
  <1>16. TypeOK'
    <2>1. /\ done \subseteq Jobs /\ branch \subseteq Cycles \X Groups /\ proposed \in [Cycles \X Groups -> Nat]
          /\ lease \in LeaseType /\ stalls \in 0..MaxStalls
      BY <1>1 DEF TypeOK, LeaseType
    <2>2. \A v \in Workers : worker'[v].pc # "idle" => worker'[v].job \in Jobs
      BY <1>7, <1>8
    <2> QED
      BY <1>5, <1>6, <1>7, <1>12, <1>14, <2>1, <2>2
         DEF TypeOK, CandidateStep, LibraryKeeps, LeaseType, Version
  <1> QED
    BY <1>9, <1>10, <1>11, <1>13, <1>14, <1>15, <1>16 DEF IInv, QueueInv, LibraryKeeps

\* A validation publishes its candidate.
LEMMA PublishKeeps ==
    ASSUME IInv, NEW c \in Candidates, NEW new \in Candidate, NEW tree, NEW revision \in Nat,
           candidate[c].status \in Open, tree = candidate[c].tree,
           BaseMatches(candidate[c].base),
           CommitBundle(<<c, revision>>, tree),
           candidate' = [candidate EXCEPT ![c] = new],
           new.status = "published", new.tree = candidate[c].tree,
           new.base = candidate[c].base, new.version = CommittedVersion(tree)
    PROVE  LibraryKeeps
  <1> DEFINE m == <<c, revision>>
  <1>1. /\ TypeOK /\ LibraryInv /\ versions \in Seq(Version) /\ Len(versions) \in Nat
        /\ mutations \subseteq ApiMutations \cup (Candidates \X Nat)
        /\ candidate \in [Candidates -> Candidate]
    BY DEF IInv, TypeOK, Version
  <1>2. /\ candidate[c].status # "published" /\ tree \in Trees
        /\ m \in Candidates \X Nat /\ m[1] = c
    BY DEF IInv, ContentKnown, Open
  <1>3. m \notin mutations
    BY <1>1, <1>2 DEF LibraryInv, MutationsRecorded
  <1>4. /\ candidate'[c] = new
        /\ \A d \in Candidates \ {c} : candidate'[d] = candidate[d]
    BY <1>1
  <1>5. candidate[c].base = Len(versions)
    <2>1. candidate[c].base \in Nat
      BY <1>1 DEF Candidate
    <2> QED
      BY <2>1, NoBaseAssumption DEF BaseMatches, CurrentVersion
  <1>6. mutations' = mutations \cup {m}
    BY DEF CommitBundle
  <1>7. \A x \in mutations' : x \in Candidates \X Nat => candidate'[x[1]].status = "published"
    <2> SUFFICES ASSUME NEW x \in mutations', x \in Candidates \X Nat
                 PROVE  candidate'[x[1]].status = "published"
      OBVIOUS
    <2>1. CASE x = m
      BY <1>2, <1>4, <2>1
    <2>2. CASE x \in mutations
      <3>1. x[1] \in Candidates /\ candidate[x[1]].status = "published"
        BY <1>1, <2>2 DEF LibraryInv, MutationsRecorded
      <3>2. x[1] # c
        BY <1>2, <3>1
      <3> QED
        BY <1>4, <3>1, <3>2
    <2> QED
      BY <1>6, <2>1, <2>2
  <1>8. CASE SkillLive /\ versions[CurrentVersion].tree = tree
    <2>1. /\ versions' = versions /\ Len(versions) \in 1..Len(versions)
          /\ ~versions[Len(versions)].deleted /\ versions[Len(versions)].tree = tree
      BY <1>1, <1>8 DEF CommitBundle, SkillLive, CurrentVersion
    <2>2. new.version = Len(versions)
      BY <1>8 DEF CommittedVersion, CurrentVersion
    <2>3. MutationsRecorded'
      <3>1. \A i \in 1..Len(versions') : versions'[i].mutation \in mutations'
        BY <1>1, <1>6, <2>1 DEF LibraryInv, MutationsRecorded
      <3> QED
        BY <1>7, <3>1 DEF MutationsRecorded
    <2>4. MutationAppliedOnce'
      BY <1>1, <2>1 DEF LibraryInv, MutationAppliedOnce
    <2>5. PublishedIsWhatWasReviewed'
      BY <1>1, <1>4, <2>1, <2>2 DEF LibraryInv, PublishedIsWhatWasReviewed, CurrentVersion
    <2>6. PublishedOnBase'
      BY <1>1, <1>4, <1>5, <2>2 DEF LibraryInv, PublishedOnBase
    <2>7. mutations' \subseteq ApiMutations \cup (Candidates \X Nat)
      BY <1>1, <1>2, <1>6
    <2> QED
      BY <1>1, <2>1, <2>3, <2>4, <2>5, <2>6, <2>7 DEF LibraryKeeps, LibraryInv
  <1>9. CASE ~(SkillLive /\ versions[CurrentVersion].tree = tree)
    <2>1. Appends(m, tree, FALSE)
      BY <1>3, <1>6, <1>9 DEF CommitBundle, Appends
    <2>2. new.version = Len(versions) + 1
      BY <1>9 DEF CommittedVersion, CurrentVersion
    <2> HIDE DEF m
    <2>3. m \in ApiMutations \cup (Candidates \X Nat)
      BY <1>2
    <2>4. /\ versions' \in Seq(Version)
          /\ Len(versions') = Len(versions) + 1
          /\ versions'[Len(versions) + 1].tree = tree
          /\ versions'[Len(versions) + 1].deleted = FALSE
          /\ mutations' \subseteq ApiMutations \cup (Candidates \X Nat)
      BY <1>1, <1>2, <2>1, <2>3, AppendedVersion
    <2>5. /\ \A i \in 1..Len(versions') : versions'[i].mutation \in mutations'
          /\ MutationAppliedOnce'
          /\ \A d \in Candidates : candidate[d].status = "published" =>
                /\ candidate[d].version \in 1..Len(versions')
                /\ ~versions'[candidate[d].version].deleted
                /\ versions'[candidate[d].version].tree = candidate[d].tree
      BY <1>1, <1>2, <2>1, <2>3, AppendKeeps
    <2>6. MutationsRecorded'
      BY <1>7, <2>5 DEF MutationsRecorded
    <2>7. PublishedIsWhatWasReviewed'
      <3>1. new.version \in 1..Len(versions') /\ ~versions'[new.version].deleted
        BY <1>1, <2>2, <2>4
      <3>2. versions'[new.version].tree = new.tree
        BY <2>2, <2>4
      <3> QED
        BY <1>4, <2>5, <3>1, <3>2 DEF PublishedIsWhatWasReviewed, CurrentVersion
    <2>8. PublishedOnBase'
      BY <1>1, <1>4, <1>5, <2>2 DEF LibraryInv, PublishedOnBase
    <2> QED
      BY <2>4, <2>5, <2>6, <2>7, <2>8 DEF LibraryKeeps, LibraryInv
  <1> QED
    BY <1>8, <1>9

\* What a validation in its last transaction knows of its command and candidate.
LEMMA JudgeKnows ==
    ASSUME IInv, NEW w \in Workers, worker[w].pc = "judge"
    PROVE  /\ worker[w].job \in Validations
           /\ command[worker[w].job] \in Payload
           /\ command[worker[w].job].candidate \in Candidates
           /\ TakesVerdict(worker[w].job) =>
                 /\ candidate[command[worker[w].job].candidate].status \in Open
                 /\ candidate[command[worker[w].job].candidate].tree = command[worker[w].job].tree
                 /\ candidate[command[worker[w].job].candidate].base = command[worker[w].job].base
                 /\ candidate[command[worker[w].job].candidate].tree \in Trees
  <1> DEFINE k == worker[w].job
  <1>1. k \in Validations /\ task[k].status # "absent"
    BY DEF IInv, QueueInv, AttemptsKnown
  <1> HIDE DEF k
  <1>2. /\ command[k] \in Payload /\ command[k].candidate \in Candidates
    BY <1>1 DEF IInv, TypeOK, CommandsFit
  <1>3. ASSUME TakesVerdict(k)
        PROVE  /\ candidate[command[k].candidate].status \in Open
               /\ candidate[command[k].candidate].tree = command[k].tree
               /\ candidate[command[k].candidate].base = command[k].base
    BY <1>1, <1>3 DEF IInv, CommandsFit, TakesVerdict
  <1>4. ASSUME TakesVerdict(k) PROVE candidate[command[k].candidate].tree \in Trees
    BY <1>2, <1>3, <1>4 DEF IInv, ContentKnown, Open
  <1> QED
    BY <1>1, <1>2, <1>3, <1>4 DEF k

\* The last transaction of a validation.
LEMMA CommitKeeps ==
    ASSUME IInv, NEW w \in Workers, NEW verdict \in Verdicts, NEW gates \in BOOLEAN,
           CommitValidation(w, verdict, gates)
    PROVE  IInv'
  <1> USE DEF cycleVars, candidateVars
  <1> DEFINE k == worker[w].job
             p == command[k]
             c == command[k].candidate
             r == candidate[c]
  <1>1. /\ TypeOK /\ worker[w].pc = "judge" /\ task \in [Jobs -> TaskRow]
        /\ candidate \in [Candidates -> Candidate] /\ command \in [Validations -> Payload]
        /\ done \subseteq Jobs /\ lease \in LeaseType /\ stalls \in 0..MaxStalls
    BY DEF IInv, TypeOK, LeaseType, CommitValidation, At
  <1>2. /\ k \in Validations /\ k \in Jobs /\ p \in Payload /\ c \in Candidates
        /\ TakesVerdict(k) =>
              r.status \in Open /\ r.tree = p.tree /\ r.base = p.base /\ r.tree \in Trees
    BY <1>1, JudgeKnows DEF Jobs
  <1>3. UNCHANGED <<command, lease, branch, proposed, task, stalls>>
    BY DEF CommitValidation
  <1>4. Moves(w)
    <2>1. Return(w, "retry") \/ Return(w, "succeed")
      BY DEF CommitValidation
    <2> QED
      BY <1>1, <2>1, ReturnMoves DEF Outcomes
  <1>5. TasksKeep /\ BranchesKeep
    BY <1>1, <1>3 DEF TasksKeep, BranchesKeep
  <1>6. RestTyped
    BY <1>1, <1>2, <1>3 DEF CommitValidation, RestTyped, Job
  <1>7. ASSUME UNCHANGED <<libraryVars, candidate>>
        PROVE  IInv'
    <2>1. CandidateStep
      BY <1>1, <1>3, <1>7, CandidatesRest
    <2>2. LibraryKeeps
      BY <1>7, LibraryAlone
    <2> QED
      BY <1>4, <1>5, <1>6, <2>1, <2>2, StepKeeps
  <1>8. ASSUME NEW new \in Candidate, TakesVerdict(k), candidate' = [candidate EXCEPT ![c] = new],
               new.status # "absent", new.revision = r.revision, new.tree = r.tree,
               new.base = r.base, new.judged = p.tree, OwnBase(r) => OwnBase(new)
        PROVE  CandidateStep
    <2>1. r.revision \in Nat /\ r.revision <= new.revision
      <3>1. r \in Candidate
        BY <1>1, <1>2
      <3>2. r.revision \in Nat
        BY <3>1 DEF Candidate
      <3> HIDE DEF r
      <3> QED
        BY <1>8, <3>2
    <2>2. Keeps(r, new)
      BY <1>2, <1>8, <2>1 DEF Keeps, Open
    <2>3. /\ candidate' \in [Candidates -> Candidate]
          /\ \A d \in Candidates : candidate'[d] = candidate[d] \/ Keeps(candidate[d], candidate'[d])
      BY <1>1, <1>2, <1>8, <2>2
    <2> QED
      BY <1>1, <1>3, <2>3 DEF CandidateStep
  <1>9. ASSUME TakesVerdict(k), BaseMatches(p.base),
               CommitBundle(<<c, p.revision>>, p.tree),
               candidate' = [candidate EXCEPT ![c] =
                  [Judged(r, k, verdict) EXCEPT !.status = "published",
                                                !.version = CommittedVersion(p.tree)]]
        PROVE  IInv'
    <2> DEFINE version == CommittedVersion(p.tree)
               judged == Judged(r, k, verdict)
               new == [judged EXCEPT !.status = "published", !.version = version]
    <2>1. version \in Nat
      <3>1. CurrentVersion \in Nat /\ CurrentVersion + 1 \in Nat
        BY <1>1, VersionNumbers
      <3> QED
        BY <3>1 DEF CommittedVersion
    <2>2. candidate' = [candidate EXCEPT ![c] = new]
      BY <1>9
    <2>3. r \in Candidate
      BY <1>1, <1>2
    <2>4. /\ judged \in Candidate /\ judged.revision = r.revision /\ judged.tree = r.tree
          /\ judged.base = r.base /\ judged.judged = p.tree
          /\ OwnBase(r) => OwnBase(judged)
      BY <1>2, <2>3, JudgedRow
    <2> HIDE DEF version, judged
    <2>5. /\ new \in Candidate /\ new.status = "published" /\ new.revision = judged.revision
          /\ new.tree = judged.tree /\ new.base = judged.base /\ new.judged = judged.judged
          /\ new.version = version /\ (OwnBase(judged) => OwnBase(new))
      BY <2>1, <2>4 DEF Candidate, OwnBase
    <2> HIDE DEF new
    <2>6. CandidateStep
      BY <1>8, <1>9, <2>2, <2>4, <2>5
    <2>7. LibraryKeeps
      <3> DEFINE tree == p.tree
                 revision == p.revision
      <3>1. revision \in Nat
        BY <1>2 DEF Payload
      <3>2. /\ r.status \in Open /\ tree = r.tree /\ BaseMatches(r.base)
            /\ CommitBundle(<<c, revision>>, tree)
        BY <1>2, <1>9
      <3>3. new.version = CommittedVersion(tree) /\ new.tree = r.tree /\ new.base = r.base
        BY <2>4, <2>5 DEF version
      <3> HIDE DEF tree, revision, c
      <3> QED
        BY <1>2, <2>2, <2>5, <3>1, <3>2, <3>3, PublishKeeps
    <2> QED
      BY <1>4, <1>5, <1>6, <2>6, <2>7, StepKeeps
  <1>10. ASSUME NEW status \in {"open", "rejected"}, TakesVerdict(k), UNCHANGED libraryVars,
                candidate' = [candidate EXCEPT ![c] =
                                [Judged(r, k, verdict) EXCEPT !.status = status]]
         PROVE  IInv'
    <2> DEFINE judged == Judged(r, k, verdict)
               new == [judged EXCEPT !.status = status]
    <2>1. r \in Candidate
      BY <1>1, <1>2
    <2>2. /\ judged \in Candidate /\ judged.revision = r.revision /\ judged.tree = r.tree
          /\ judged.base = r.base /\ judged.judged = p.tree
          /\ OwnBase(r) => OwnBase(judged)
      BY <1>2, <2>1, JudgedRow
    <2>3. candidate' = [candidate EXCEPT ![c] = new]
      BY <1>10
    <2> HIDE DEF judged
    <2>4. /\ new \in Candidate /\ new.status = status /\ new.revision = judged.revision
          /\ new.tree = judged.tree /\ new.base = judged.base /\ new.judged = judged.judged
          /\ OwnBase(judged) => OwnBase(new)
      BY <2>2 DEF Candidate, Open, OwnBase
    <2> HIDE DEF new
    <2>5. CandidateStep
      BY <1>8, <1>10, <2>2, <2>3, <2>4
    <2>6. LibraryKeeps
      BY <1>1, <1>2, <1>10, <2>3, <2>4, LibraryAlone DEF Open
    <2> QED
      BY <1>4, <1>5, <1>6, <2>5, <2>6, StepKeeps
  <1>11. \/ UNCHANGED <<libraryVars, candidate>>
         \/ /\ TakesVerdict(k) /\ BaseMatches(p.base)
            /\ CommitBundle(<<c, p.revision>>, p.tree)
            /\ candidate' = [candidate EXCEPT ![c] =
                  [Judged(r, k, verdict) EXCEPT !.status = "published",
                                                !.version = CommittedVersion(p.tree)]]
         \/ /\ TakesVerdict(k) /\ UNCHANGED libraryVars
            /\ \E status \in {"open", "rejected"} :
                  candidate' = [candidate EXCEPT ![c] =
                                  [Judged(r, k, verdict) EXCEPT !.status = status]]
    BY DEF CommitValidation, Job
  <1> QED
    BY <1>7, <1>9, <1>10, <1>11

\* A cycle saves a branch: nobody else is at the latest attempt of this cycle.
LEMMA BranchSaved ==
    ASSUME IInv, NEW w \in Workers, worker[w].pc = "plan", MayCommit(w), SaveBranch(w), TasksKeep,
           proposed' \in [Cycles \X Groups -> Nat],
           proposed'[<<worker[w].job, worker[w].group>>] <=
              proposed[<<worker[w].job, worker[w].group>>] + 1,
           \A b \in (Cycles \X Groups) \ {<<worker[w].job, worker[w].group>>} :
              proposed'[b] = proposed[b]
    PROVE  BranchesKeep /\ Moves(w)
  <1> DEFINE j == worker[w].job
             g == worker[w].group
             own == <<j, g>>
  <1>1. /\ TypeOK /\ QueueInv /\ branch \subseteq Cycles \X Groups /\ j \in Cycles
        /\ worker[w] \in Attempt /\ proposed \in [Cycles \X Groups -> Nat]
    BY DEF IInv, TypeOK, QueueInv, AttemptsKnown
  <1>2. worker[w].n = task[j].n /\ branch' = branch \cup {own} /\ NextGroup(w, g)
    BY DEF MayCommit, Current, SaveBranch, Job
  <1>0. g \in Groups /\ own \in Cycles \X Groups
    BY <1>1 DEF Attempt
  <1>3. Moves(w) /\ worker'[w].pc # "plan"
    <2> HIDE DEF g
    <2> QED
      BY <1>0, <1>1, <1>2, NextGroupMoves
  <1>4. own \notin branch
    BY <1>2 DEF IInv, PlanIsFresh
  <1>5. proposed[own] = 0
    <2> HIDE DEF own
    <2> QED
      BY <1>0, <1>4 DEF IInv, ProposalsSaved
  <1>6. ProposalsSaved'
    <2> HIDE DEF own
    <2>0. proposed'[own] \in Nat /\ proposed'[own] <= proposed[own] + 1
      BY <1>0 DEF own
    <2>1. proposed'[own] <= 1
      BY <1>5, <2>0
    <2>2. \A b \in (Cycles \X Groups) \ {own} : proposed'[b] = proposed[b]
      BY DEF own
    <2> QED
      BY <1>1, <1>2, <2>1, <2>2 DEF IInv, ProposalsSaved
  <1>7. PlanIsFresh'
    <2> SUFFICES ASSUME NEW v \in Workers, worker'[v].pc = "plan",
                        worker'[v].n = task'[worker'[v].job].n
                 PROVE  <<worker'[v].job, worker'[v].group>> \notin branch'
      BY DEF PlanIsFresh
    <2>1. \A x \in Workers \ {w} : worker'[x] = worker[x]
      BY <1>3 DEF Moves
    <2>2. v # w /\ worker'[v] = worker[v] /\ worker[v].pc = "plan"
      BY <1>3, <2>1
    <2>3. worker[v].job \in Jobs /\ task[worker[v].job].status # "absent"
      BY <1>1, <2>2 DEF QueueInv, AttemptsKnown, TypeOK
    <2>4. worker[v].n = task[worker[v].job].n
      BY <2>2, <2>3 DEF TasksKeep
    <2>5. worker[v].job # j
      BY <1>1, <1>2, <2>2, <2>4 DEF QueueInv, AttemptsDiffer
    <2> QED
      BY <1>2, <2>2, <2>4, <2>5 DEF IInv, PlanIsFresh
  <1> QED
    BY <1>0, <1>1, <1>2, <1>3, <1>6, <1>7 DEF BranchesKeep

\* A cycle finds nothing to propose.
LEMMA SkipKeeps ==
    ASSUME IInv, NEW w \in Workers, SkipGroup(w)
    PROVE  IInv'
  <1>1. /\ TypeOK /\ task \in [Jobs -> TaskRow] /\ proposed \in [Cycles \X Groups -> Nat]
        /\ worker[w].pc = "plan" /\ worker[w].job \in Cycles
        /\ done \subseteq Jobs /\ lease \in LeaseType /\ stalls \in 0..MaxStalls
    BY DEF IInv, TypeOK, LeaseType, SkipGroup, At, QueueInv, AttemptsKnown
  <1>2. /\ UNCHANGED <<libraryVars, candidateVars, lease, proposed, done, task, stalls>>
        /\ MayCommit(w) /\ SaveBranch(w)
    BY DEF SkipGroup
  <1>3. TasksKeep /\ RestTyped
    BY <1>1, <1>2 DEF TasksKeep, RestTyped
  <1>4. CandidateStep
    BY <1>1, <1>2, CandidatesRest
  <1>5. LibraryKeeps
    BY <1>2, LibraryAlone DEF candidateVars
  <1>6. proposed[<<worker[w].job, worker[w].group>>] \in Nat
    <2>1. worker[w].group \in Groups
      BY <1>1 DEF TypeOK, Attempt
    <2> QED
      BY <1>1, <2>1
  <1>7. BranchesKeep /\ Moves(w)
    BY <1>1, <1>2, <1>3, <1>6, BranchSaved
  <1> QED
    BY <1>3, <1>4, <1>5, <1>7, StepKeeps

\* A cycle commits its proposal: a new candidate or a new revision of the live one,
\* with or without its evaluation.
LEMMA ProposeKeeps ==
    ASSUME IInv, NEW w \in Workers, NEW c \in Candidates, NEW tree \in Trees, Propose(w, c, tree)
    PROVE  IInv'
  <1> DEFINE r == candidate[c]
             head == worker[w].head
             made == IF LiveCandidates = {} THEN Created(tree, head) ELSE Revised(r, tree, head)
             new == Derived(made, worker[w].origin)
             j == worker[w].job
             g == worker[w].group
  <1>1. /\ TypeOK /\ task \in [Jobs -> TaskRow] /\ proposed \in [Cycles \X Groups -> Nat]
        /\ candidate \in [Candidates -> Candidate] /\ r \in Candidate
        /\ command \in [Validations -> Payload] /\ worker[w] \in Attempt
        /\ worker[w].pc = "plan" /\ j \in Cycles
        /\ done \subseteq Jobs /\ lease \in LeaseType /\ stalls \in 0..MaxStalls
    BY DEF IInv, TypeOK, LeaseType, Propose, At, QueueInv, AttemptsKnown
  <1>2. head \in Nat /\ worker[w].origin \in Nat /\ g \in Groups
    BY <1>1 DEF Attempt
  <1>3. /\ IF LiveCandidates = {} THEN r.status = "absent" ELSE c \in LiveCandidates
        /\ \/ candidate' = [candidate EXCEPT ![c] = new] /\ UNCHANGED <<command, task>>
           \/ \E mode \in AutoModes \ {"off"}, k \in Validations :
                /\ task[k].status = "absent"
                /\ candidate' = [candidate EXCEPT ![c] = Validating(new, k)]
                /\ command' = [command EXCEPT ![k] = Frozen(c, new, mode)]
                /\ task' = [task EXCEPT ![k] = Enqueued]
    BY DEF Propose
  <1>4. /\ MayCommit(w) /\ SaveBranch(w)
        /\ proposed' = [proposed EXCEPT ![<<j, g>>] = proposed[<<j, g>>] + 1]
        /\ UNCHANGED <<libraryVars, lease, done, stalls>>
    BY DEF Propose, Job
  <1>0. made \in Candidate /\ made.status = "open" /\ made.verdict = "" /\ made.tree = tree
    <2> HIDE DEF head, r
    <2>1. CASE LiveCandidates = {}
      BY <1>2, <2>1, CreatedRow
    <2>2. CASE LiveCandidates # {}
      <3>1. /\ Revised(r, tree, head) \in Candidate /\ Revised(r, tree, head).status = "open"
            /\ Revised(r, tree, head).verdict = ""
        BY <1>1, <1>2, RevisedRow
      <3>2. Revised(r, tree, head).tree = tree
        BY <1>1, RevisedTree
      <3> QED
        BY <2>2, <3>1, <3>2
    <2> QED
      BY <2>1, <2>2
  <1>5. /\ new \in Candidate /\ new.status = "open" /\ new.verdict = "" /\ new.tree = tree
        /\ new.revision = made.revision /\ OwnBase(new)
    <2> HIDE DEF made
    <2> QED
      BY <1>0, <1>2, DerivedRow
  <1>6. Keeps(r, new)
    <2>1. CASE LiveCandidates = {}
      <3> HIDE DEF new
      <3> QED
        BY <1>3, <1>5, <2>1 DEF Keeps
    <2>2. CASE LiveCandidates # {}
      <3>1. r.status # "published"
        BY <1>3, <2>2 DEF LiveCandidates, Open
      <3>2. r.revision <= new.revision /\ r.revision # new.revision
        <4> DEFINE next == Revised(r, tree, head)
        <4>1. r.revision \in Nat /\ next.revision = r.revision + 1
          BY <1>1, RevisedNumber
        <4>2. made = next
          BY <2>2
        <4> HIDE DEF next, made, new, r
        <4>3. r.revision <= next.revision /\ r.revision # next.revision
          BY <4>1
        <4> QED
          BY <1>5, <4>2, <4>3
      <3> HIDE DEF new, r
      <3> QED
        BY <1>5, <3>1, <3>2 DEF Keeps
    <2> QED
      BY <2>1, <2>2
  <1> HIDE DEF new
  <1>7. /\ TasksKeep /\ CandidateStep
        /\ \A d \in Candidates :
              \/ candidate'[d] = candidate[d]
              \/ candidate[d].status # "published" /\ candidate'[d].status # "published"
    <2>1. CASE candidate' = [candidate EXCEPT ![c] = new] /\ UNCHANGED <<command, task>>
      <3>1. /\ candidate' \in [Candidates -> Candidate] /\ candidate'[c] = new
            /\ \A d \in Candidates \ {c} : candidate'[d] = candidate[d]
        BY <1>1, <1>5, <2>1
      <3>2. TasksKeep
        BY <1>1, <2>1 DEF TasksKeep
      <3>3. CandidateStep
        BY <1>1, <1>6, <2>1, <3>1 DEF CandidateStep
      <3> QED
        BY <1>5, <1>6, <3>1, <3>2, <3>3 DEF Keeps
    <2>2. ASSUME NEW mode \in AutoModes \ {"off"}, NEW k \in Validations,
                 task[k].status = "absent",
                 candidate' = [candidate EXCEPT ![c] = Validating(new, k)],
                 command' = [command EXCEPT ![k] = Frozen(c, new, mode)],
                 task' = [task EXCEPT ![k] = Enqueued]
          PROVE  /\ TasksKeep /\ CandidateStep
                 /\ \A d \in Candidates :
                       \/ candidate'[d] = candidate[d]
                       \/ candidate[d].status # "published" /\ candidate'[d].status # "published"
      <3>1. mode \in {"evaluate", "auto", "force"}
        BY ModesAssumption
      <3> QED
        BY <1>5, <1>6, <2>2, <3>1, SubmitStep
    <2> QED
      BY <1>3, <2>1, <2>2
  <1>8. LibraryKeeps
    BY <1>4, <1>7, LibraryAlone
  <1>9. RestTyped
    BY <1>1, <1>4 DEF RestTyped
  <1>10. BranchesKeep /\ Moves(w)
    <2> DEFINE own == <<j, g>>
    <2>0. own \in Cycles \X Groups
      BY <1>1, <1>2
    <2>3. proposed' = [proposed EXCEPT ![own] = proposed[own] + 1]
      BY <1>4
    <2> HIDE DEF own
    <2>1. proposed[own] \in Nat /\ proposed[own] + 1 \in Nat
      BY <1>1, <2>0
    <2>2. /\ proposed' \in [Cycles \X Groups -> Nat] /\ proposed'[own] <= proposed[own] + 1
          /\ \A b \in (Cycles \X Groups) \ {own} : proposed'[b] = proposed[b]
      BY <1>1, <2>0, <2>1, <2>3
    <2> USE DEF own
    <2> QED
      BY <1>1, <1>4, <1>7, <2>2, BranchSaved
  <1> QED
    BY <1>7, <1>8, <1>9, <1>10, StepKeeps

-----------------------------------------------------------------------------
(* Theorems *)

\* The invariant holds before the first request.
LEMMA InitInv == Init => IInv
  <1> SUFFICES ASSUME Init PROVE IInv
    OBVIOUS
  <1> USE DEF Init, LibraryInit
  <1>1. versions = << >> /\ Len(versions) = 0 /\ mutations = {}
    OBVIOUS
  <1>2. /\ NewCandidate \in Candidate /\ NewCandidate.status = "absent"
        /\ NewCandidate.verdict = "" /\ OwnBase(NewCandidate)
    BY DEF NewCandidate, Candidate, OwnBase
  <1>3. NoPayload \in Payload
    BY DEF NoPayload, Payload
  <1>4. Absent \in TaskRow /\ Absent.status = "absent"
    BY DEF Absent, TaskRow
  <1>5. NoLease \in LeaseType
    BY DEF NoLease, LeaseType
  <1>6. Idle \in Attempt /\ Idle.pc = "idle"
    BY IdleType DEF Idle
  <1>7. /\ \A c \in Candidates : candidate[c].status = "absent" /\ candidate[c].verdict = ""
        /\ \A j \in Jobs : task[j].status = "absent"
        /\ \A w \in Workers : worker[w].pc = "idle"
    BY <1>2, <1>4, <1>6
  <1>8. TypeOK
    <2>1. /\ versions \in Seq(Version) /\ stalls \in 0..MaxStalls
          /\ mutations \subseteq ApiMutations \cup (Candidates \X Nat)
      BY <1>1
    <2>2. /\ candidate \in [Candidates -> Candidate] /\ command \in [Validations -> Payload]
          /\ task \in [Jobs -> TaskRow] /\ worker \in [Workers -> Attempt]
          /\ proposed \in [Cycles \X Groups -> Nat]
      BY <1>2, <1>3, <1>4, <1>6
    <2> QED
      BY <1>5, <1>7, <2>1, <2>2 DEF TypeOK, Version, LeaseType
  <1>9. QueueInv /\ PlanIsFresh
    BY <1>7 DEF QueueInv, AttemptsKnown, AttemptsDiffer, PlanIsFresh
  <1>10. CommandsFit /\ ContentKnown /\ BasesKnown /\ VerdictFitsContent
    <2>1. BasesKnown
      BY <1>2 DEF BasesKnown
    <2> QED
      BY <1>7, <2>1 DEF CommandsFit, ContentKnown, VerdictFitsContent, Jobs
  <1>11. LibraryInv
    <2>1. 1..Len(versions) = {}
      BY <1>1
    <2>2. MutationsRecorded /\ MutationAppliedOnce
      BY <1>1, <2>1 DEF MutationsRecorded, MutationAppliedOnce
    <2>3. PublishedIsWhatWasReviewed /\ PublishedOnBase
      BY <1>7 DEF PublishedIsWhatWasReviewed, PublishedOnBase
    <2> QED
      BY <2>2, <2>3 DEF LibraryInv
  <1>12. ProposalsSaved
    BY DEF ProposalsSaved
  <1> QED
    BY <1>8, <1>9, <1>10, <1>11, <1>12 DEF IInv

\* Every step keeps the invariant.
LEMMA NextInv == IInv /\ [Next]_vars => IInv'
  <1> SUFFICES ASSUME IInv, [Next]_vars PROVE IInv'
    OBVIOUS
  <1>1. ASSUME NEW c \in Candidates, NEW tree \in Trees, MinerSubmits(c, tree) \/ EditContent(c, tree)
        PROVE  IInv'
    BY <1>1, RequestKeeps
  <1>2. ASSUME NEW c \in Candidates, NEW k \in Validations, NEW mode \in Modes,
               SubmitValidation(c, k, mode)
        PROVE  IInv'
    BY <1>2, SubmitKeeps
  <1>3. ASSUME NEW c \in Candidates, RejectCandidate(c)
        PROVE  IInv'
    BY <1>3, RejectKeeps
  <1>4. ASSUME NEW j \in Cycles, TriggerCycle(j) \/ EvolutionTick(j)
        PROVE  IInv'
    BY <1>4, TaskRequestKeeps DEF Jobs
  <1>5. ASSUME NEW m \in ApiMutations, LibraryWrite(m)
        PROVE  IInv'
    BY <1>5, LibraryWriteKeeps
  <1>6. ASSUME NEW j \in Jobs, RequestCancel(j) \/ Requeue(j) \/ TaskLeaseExpires(j)
        PROVE  IInv'
    BY <1>6, TaskRequestKeeps
  <1>7. CASE CycleLeaseExpires
    BY <1>7, CycleLeaseKeeps
  <1>8. ASSUME NEW w \in Workers, NEW j \in Jobs, Claim(w, j)
        PROVE  IInv'
    BY <1>8, ClaimKeeps
  <1>9. ASSUME NEW w \in Workers, Handles(w)
        PROVE  IInv'
    BY <1>9, HandlesKeeps
  <1>10. ASSUME NEW w \in Workers, NEW verdict \in Verdicts, NEW gates \in BOOLEAN,
                CommitValidation(w, verdict, gates)
         PROVE  IInv'
    BY <1>10, CommitKeeps
  <1>11. ASSUME NEW w \in Workers, SkipGroup(w)
         PROVE  IInv'
    BY <1>11, SkipKeeps
  <1>12. ASSUME NEW w \in Workers, NEW c \in Candidates, NEW tree \in Trees, Propose(w, c, tree)
         PROVE  IInv'
    BY <1>12, ProposeKeeps
  <1>13. ASSUME NEW w \in Workers, Write(w)
         PROVE  IInv'
    BY <1>13, WriteKeeps
  <1>14. CASE UNCHANGED vars
    BY <1>14 DEF vars, libraryVars, candidateVars, cycleVars, IInv, TypeOK, QueueInv,
                 AttemptsKnown, AttemptsDiffer, CommandsFit, ContentKnown, BasesKnown,
                 OwnBase, VerdictFitsContent,
                 LibraryInv, MutationsRecorded, MutationAppliedOnce, PublishedIsWhatWasReviewed,
                 PublishedOnBase, CurrentVersion, ProposalsSaved, PlanIsFresh
  <1> QED
    BY <1>1, <1>2, <1>3, <1>4, <1>5, <1>6, <1>7, <1>8, <1>9, <1>10, <1>11, <1>12, <1>13, <1>14
       DEF Next, Handles

\* So it holds always.
LEMMA InvHolds == Spec => []IInv
  BY InitInv, NextInv, PTL DEF Spec

\* Every state is well typed: a version number is a number, and a worker that is
\* not idle has a command.
THEOREM TypeCorrect == Spec => []TypeOK
  <1>1. IInv => TypeOK
    BY DEF IInv
  <1> QED
    BY <1>1, InvHolds, PTL

\* The verdict shown for a candidate was computed on the content it has, whatever
\* people and cycles did while the replay ran.
THEOREM VerdictsFit == Spec => []VerdictFitsContent
  <1>1. IInv => VerdictFitsContent
    BY DEF IInv
  <1> QED
    BY <1>1, InvHolds, PTL

\* What a candidate published is in the library, under its published_version and
\* with its content, for ever.
THEOREM PublishedAsReviewed == Spec => []PublishedIsWhatWasReviewed
  <1>1. IInv => PublishedIsWhatWasReviewed
    BY DEF IInv, LibraryInv
  <1> QED
    BY <1>1, InvHolds, PTL

\* A publication follows the version that its content was derived from or, for a
\* candidate that a cycle moved to a newer base, the head that the cycle read.
THEOREM NothingOverwritten == Spec => []NoLostUpdate
  <1>1. IInv => NoLostUpdate
    <2> SUFFICES ASSUME IInv, NEW c \in Candidates, candidate[c].status = "published"
                 PROVE  LET from == IF candidate[c].lineage = "rebased"
                                    THEN candidate[c].base
                                    ELSE candidate[c].origin
                        IN  candidate[c].version \in {from, from + 1}
      BY DEF NoLostUpdate
    <2>1. candidate[c].version \in {candidate[c].base, candidate[c].base + 1}
      BY DEF IInv, LibraryInv, PublishedOnBase
    <2>2. candidate[c].lineage \in {"direct", "rebased"}
      BY DEF IInv, TypeOK, Candidate
    <2>3. candidate[c].lineage = "direct" => candidate[c].base = candidate[c].origin
      BY DEF IInv, BasesKnown, OwnBase
    <2> QED
      BY <2>1, <2>2, <2>3
  <1> QED
    BY <1>1, InvHolds, PTL

\* A mutation id stands for one version at most.
THEOREM MutationsOnce == Spec => []MutationAppliedOnce
  <1>1. IInv => MutationAppliedOnce
    BY DEF IInv, LibraryInv
  <1> QED
    BY <1>1, InvHolds, PTL

\* Each group of a cycle proposes once at most, over all attempts and workers.
THEOREM ProposalsOnce == Spec => []ProposedOnce
  <1>1. IInv => ProposedOnce
    BY DEF IInv, ProposalsSaved, ProposedOnce
  <1> QED
    BY <1>1, InvHolds, PTL

=============================================================================
