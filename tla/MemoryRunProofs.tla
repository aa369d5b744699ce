-------------------------- MODULE MemoryRunProofs --------------------------
(***************************************************************************)
(* Proofs about MemoryRun for every set of runs and workers, every number  *)
(* of stages and every bound.                                              *)
(***************************************************************************)
EXTENDS MemoryRun, TaskAttemptsProofs

USE MaxAttemptsAssumption, NoRunAssumption, StagesAssumption

-----------------------------------------------------------------------------
(* The inductive invariant *)

\* The places of compile_stage.
InStage == {"read", "query", "save", "submit", "record", "poll", "status", "settle"}

\* The outcomes with which a handler ends its run.
Final == {"succeed", "fail", "cancelled"}

\* Run r has no stage recorded as running.
Quiet(r) == \A key \in Keys : stage[key].status = "running" => key[1] # r

\* What holds of worker w's attempt even when another one has taken over: its run
\* and attempt exist, in compile_stage it is at a stage of the run, a submission
\* that starts a Compile is for a stage recorded as running, and a state that
\* status answered is the Compile's end.
Known(w) ==
    /\ task[worker[w].run].status # "absent"
    /\ worker[w].n <= task[worker[w].run].n
    /\ worker[w].pc \in InStage => Key(w) \in Keys
    /\ worker[w].pc = "durable" => worker[w].k >= 1
    /\ worker[w].pc = "write" => worker[w].outcome # "none"
    /\ worker[w].pc = "submit" /\ compile[Key(w)] = "none" => stage[Key(w)].status = "running"
    /\ worker[w].pc = "settle" => worker[w].state \in CompileEnd /\ compile[Key(w)] = worker[w].state

\* Worker w's attempt is the one that may write its run's task row.
Latest(w) == worker[w].pc # "idle" /\ Fenced(task[worker[w].run], worker[w].n)

\* What holds of such an attempt: in the try it owns the lease, no other run has a
\* stage running, and the run has no result; it knows which stage of its run may be
\* running, and does not end the run while one is.
Entitled(w) ==
    /\ worker[w].pc \in InTry \cup {"acquire"} => worker[w].run \notin result
    /\ worker[w].pc \in InTry =>
          /\ LeaseIsMine(w)
          /\ \A key \in Keys : stage[key].status = "running" => key[1] = worker[w].run
    /\ worker[w].pc = "durable" => Quiet(worker[w].run)
    /\ worker[w].pc \in InStage =>
          \A key \in Keys : stage[key].status = "running" => key = Key(w)
    /\ worker[w].pc \in {"query", "save"} =>
          /\ ~stage[Key(w)].upstream /\ stage[Key(w)].status # "succeeded"
          /\ worker[w].seen.status = stage[Key(w)].status
    /\ worker[w].pc \in {"submit", "record"} => stage[Key(w)].status = "running"
    /\ worker[w].pc \in {"poll", "status", "settle"} => stage[Key(w)].status # "succeeded"
    /\ worker[w].pc \in {"release", "write"} /\ worker[w].outcome \in Final =>
          Quiet(worker[w].run)

AllKnown == \A w \in Workers : worker[w].pc # "idle" => Known(w)

AllEntitled == \A w \in Workers : Latest(w) => Entitled(w)

\* No two workers are at the same attempt.
AttemptsDiffer ==
    \A w, v \in Workers :
        /\ worker[w].pc # "idle" /\ worker[v].pc # "idle"
        /\ worker[w].run = worker[v].run /\ worker[w].n = worker[v].n
        => w = v

\* A Compile that is running, or that a lost submission may start, belongs to a
\* stage that is recorded as running.
CompileIsRecorded ==
    \A key \in Keys :
        compile[key] = "running" \/ (compile[key] = "none" /\ key \in wire) =>
            stage[key].status = "running"

\* One stage at most is recorded as running, over all runs.
OneStageRuns ==
    \A key1, key2 \in Keys :
        stage[key1].status = "running" /\ stage[key2].status = "running" => key1 = key2

\* A run with a result, or that was ended, has no stage running, and one that was
\* ended is over.
OverIsQuiet ==
    /\ \A r \in result \cup ended : Quiet(r)
    /\ \A r \in ended : task[r].status \in Terminal

StagesInv == CompileIsRecorded /\ OneStageRuns /\ OverIsQuiet

IInv ==
    /\ TypeOK
    /\ AllKnown
    /\ AllEntitled
    /\ AttemptsDiffer
    /\ StagesInv

-----------------------------------------------------------------------------
(* Records *)

\* A key is a run with the number of one of its stages.
LEMMA KeyFacts ==
    /\ \A key \in Keys :
          key[1] \in Runs /\ key[2] \in 1..NumStages[key[1]] /\ key = <<key[1], key[2]>>
    /\ \A r \in Runs, k \in Nat : 1 <= k /\ k <= NumStages[r] => <<r, k>> \in Keys
  <1>1. \A r \in Runs : NumStages[r] \in Nat
    OBVIOUS
  <1>2. ASSUME NEW key \in Keys
        PROVE  key[1] \in Runs /\ key[2] \in 1..NumStages[key[1]] /\ key = <<key[1], key[2]>>
    BY DEF Keys
  <1>3. ASSUME NEW r \in Runs, NEW k \in Nat, 1 <= k, k <= NumStages[r]
        PROVE  <<r, k>> \in Keys
    <2>1. k \in 1..NumStages[r]
      BY <1>1, <1>3
    <2>2. <<r, k>> \in {r} \X (1..NumStages[r])
      BY <2>1
    <2> QED
      BY <2>2 DEF Keys
  <1> QED
    BY <1>2, <1>3

\* The record of an idle worker is an attempt's.
LEMMA IdleType == Idle \in Attempt /\ Idle.outcome = "none"
  BY DEF Idle, Attempt, NoStage, StageRow, Location

\* Goto changes the record of one worker.
LEMMA GotoFacts ==
    ASSUME worker \in [Workers -> Attempt], NEW w \in Workers, NEW pc \in Location,
           NEW new \in Attempt, Goto(w, pc, new)
    PROVE  /\ worker' \in [Workers -> Attempt]
           /\ worker'[w].pc = pc /\ worker'[w].run = new.run /\ worker'[w].n = new.n
           /\ worker'[w].k = new.k /\ worker'[w].seen = new.seen
           /\ worker'[w].state = new.state /\ worker'[w].outcome = new.outcome
           /\ \A v \in Workers \ {w} : worker'[v] = worker[v]
  BY DEF Goto, Attempt

\* The records with which a worker leaves compile_stage, and the try.
LEMMA FreshType ==
    ASSUME TypeOK, NEW w \in Workers
    PROVE  /\ Fresh(w) \in Attempt
           /\ Fresh(w).run = worker[w].run /\ Fresh(w).n = worker[w].n
           /\ Fresh(w).k = worker[w].k
  <1>1. worker[w] \in Attempt
    BY DEF TypeOK
  <1> QED
    BY <1>1 DEF Fresh, Attempt, NoStage, StageRow

\* The record of an attempt that has left the try, with or without an outcome.
LEMMA LeftType ==
    ASSUME TypeOK, NEW w \in Workers, NEW o \in Outcomes \cup {"none"}
    PROVE  /\ Left(w) \in Attempt
           /\ Left(w).run = worker[w].run /\ Left(w).n = worker[w].n
           /\ [Left(w) EXCEPT !.outcome = o] \in Attempt
           /\ [Left(w) EXCEPT !.outcome = o].run = worker[w].run
           /\ [Left(w) EXCEPT !.outcome = o].n = worker[w].n
           /\ [Left(w) EXCEPT !.outcome = o].outcome = o
  <1>1. worker[w] \in Attempt
    BY DEF TypeOK
  <1>2. worker[w].run \in Runs \cup {NoRun} /\ worker[w].n \in Nat
    BY <1>1 DEF Attempt
  <1>3. Left(w) \in Attempt /\ Left(w).run = worker[w].run /\ Left(w).n = worker[w].n
    BY <1>2, IdleType DEF Left, Run, Attempt
  <1> DEFINE left == Left(w)
  <1>4. left \in Attempt
    BY <1>3
  <1> HIDE DEF left
  <1>5. /\ [left EXCEPT !.outcome = o] \in Attempt
        /\ [left EXCEPT !.outcome = o].run = left.run
        /\ [left EXCEPT !.outcome = o].n = left.n
        /\ [left EXCEPT !.outcome = o].outcome = o
    BY <1>4 DEF Attempt
  <1> QED
    BY <1>3, <1>5 DEF left

-----------------------------------------------------------------------------
(* Moves of a worker *)

\* Worker w goes on with its attempt or drops it.
Moves(w) ==
    /\ worker' \in [Workers -> Attempt]
    /\ \A v \in Workers \ {w} : worker'[v] = worker[v]
    /\ worker'[w].pc # "idle" =>
          worker[w].pc # "idle" /\ worker'[w].run = worker[w].run /\ worker'[w].n = worker[w].n

\* Run r has no stage running after the step.
QuietNext(r) == \A key \in Keys : stage'[key].status = "running" => key[1] # r

\* It leaves the handler's work, and ends the run only when that is quiet.
Leaves(w) ==
    /\ Moves(w)
    /\ worker'[w].pc \in {"idle", "except", "release", "write"}
    /\ worker'[w].pc = "write" => worker'[w].outcome # "none"
    /\ worker'[w].pc \in {"release", "write"} /\ worker'[w].outcome \in Final /\ Latest(w) =>
          QuietNext(worker[w].run)

\* A result of the try leaves.
LEMMA ReturnLeaves ==
    ASSUME TypeOK, NEW w \in Workers, worker[w].pc # "idle", NEW o \in Outcomes \cup {"none"},
           o \in Final /\ Latest(w) => QuietNext(worker[w].run), Return(w, o)
    PROVE  Leaves(w)
  <1>0. worker[w].pulse \in {"none", "retry", "reconcile"}
    BY DEF TypeOK, Attempt
  <1> DEFINE d == Decided(w, o)
             new == [Left(w) EXCEPT !.outcome = d]
  <1>1. d \in Outcomes \cup {"none"} /\ (d \in Final => d = o)
    BY <1>0 DEF Decided, Outcomes, Final
  <1>2. Return(w, o) = Goto(w, "release", new)
    BY DEF Return
  <1> HIDE DEF d
  <1>3. /\ new \in Attempt /\ new.run = worker[w].run /\ new.n = worker[w].n
        /\ new.outcome = d
    BY <1>1, LeftType
  <1>4. Goto(w, "release", new) /\ worker \in [Workers -> Attempt] /\ "release" \in Location
    BY <1>2 DEF TypeOK, Location
  <1> HIDE DEF new
  <1> QED
    BY <1>1, <1>3, <1>4, GotoFacts DEF Leaves, Moves

\* A result from outside the try leaves.
LEMMA AnswerLeaves ==
    ASSUME TypeOK, NEW w \in Workers, worker[w].pc # "idle", NEW o \in Outcomes,
           o \in Final /\ Latest(w) => QuietNext(worker[w].run), Answer(w, o)
    PROVE  Leaves(w)
  <1> DEFINE new == [Left(w) EXCEPT !.outcome = o]
  <1>1. /\ new \in Attempt /\ new.run = worker[w].run /\ new.n = worker[w].n
        /\ new.outcome = o /\ o # "none"
    BY LeftType DEF Outcomes
  <1>2. Goto(w, "write", new) /\ worker \in [Workers -> Attempt] /\ "write" \in Location
    BY DEF Answer, TypeOK, Location
  <1> HIDE DEF new
  <1> QED
    BY <1>1, <1>2, GotoFacts DEF Leaves, Moves

\* An exception leaves.
LEMMA RaiseLeaves ==
    ASSUME TypeOK, NEW w \in Workers, worker[w].pc # "idle", Raise(w)
    PROVE  Leaves(w)
  <1>1. Left(w) \in Attempt /\ Left(w).run = worker[w].run /\ Left(w).n = worker[w].n
    BY LeftType DEF Outcomes
  <1>2. CASE worker[w].pulse = "none"
    <2>1. Goto(w, "except", Left(w)) /\ worker \in [Workers -> Attempt] /\ "except" \in Location
      BY <1>2 DEF Raise, TypeOK, Location
    <2> QED
      BY <1>1, <2>1, GotoFacts DEF Leaves, Moves
  <1>3. CASE worker[w].pulse # "none"
    <2>1. worker[w].pulse \in {"retry", "reconcile"} /\ Return(w, worker[w].pulse)
      BY <1>3 DEF Raise, TypeOK, Attempt
    <2> QED
      BY <2>1, ReturnLeaves DEF Outcomes, Final
  <1> QED
    BY <1>2, <1>3

\* So does the cancelled handler.
LEMMA QuitLeaves ==
    ASSUME TypeOK, NEW w \in Workers, worker[w].pc # "idle", Quit(w)
    PROVE  Leaves(w)
  <1>1. /\ Left(w) \in Attempt /\ Left(w).run = worker[w].run /\ Left(w).n = worker[w].n
        /\ Left(w).outcome = "none"
    BY LeftType, IdleType DEF Left, Attempt
  <1>2. Goto(w, "release", Left(w)) /\ worker \in [Workers -> Attempt] /\ "release" \in Location
    BY DEF Quit, TypeOK, Location
  <1> QED
    BY <1>1, <1>2, GotoFacts DEF Leaves, Moves, Final

\* So does whatever drops the attempt.
LEMMA DropLeaves ==
    ASSUME TypeOK, NEW w \in Workers, Goto(w, "idle", Idle)
    PROVE  Leaves(w)
  <1>1. worker \in [Workers -> Attempt] /\ "idle" \in Location
    BY DEF TypeOK, Location
  <1> QED
    BY <1>1, IdleType, GotoFacts DEF Leaves, Moves

\* The task rows keep their attempts, none goes away, and none becomes active.
TasksKeep ==
    /\ task' \in [Runs -> TaskRow]
    /\ \A r \in Runs :
          /\ task[r].status # "absent" => task'[r].n = task[r].n /\ task'[r].status # "absent"
          /\ task'[r].status \in Active => task[r].status \in Active

\* Compiles start, end, and stay as they ended; a stage stops running only when
\* its Compile has been submitted.
CompilesKeep ==
    \A key \in Keys :
        /\ compile[key] # "none" => compile'[key] # "none"
        /\ compile[key] \in CompileEnd => compile'[key] = compile[key]
        /\ stage[key].status = "running" /\ compile'[key] = "none" => stage'[key].status = "running"

\* What is known of a worker that does not move stays so.
LEMMA KnownRests ==
    ASSUME IInv, NEW v \in Workers, worker'[v] = worker[v], worker[v].pc # "idle",
           TasksKeep, CompilesKeep
    PROVE  Known(v)'
  <1>1. worker[v].run \in Runs /\ Known(v)
    BY DEF IInv, TypeOK, AllKnown
  <1>2. /\ task'[worker'[v].run].status # "absent"
        /\ worker'[v].n <= task'[worker'[v].run].n
    BY <1>1 DEF Known, TasksKeep
  <1>3. Key(v)' = Key(v)
    BY DEF Key
  <1>4. /\ worker'[v].pc \in InStage => Key(v)' \in Keys
        /\ worker'[v].pc = "durable" => worker'[v].k >= 1
        /\ worker'[v].pc = "write" => worker'[v].outcome # "none"
    BY <1>1, <1>3 DEF Known
  <1>5. worker'[v].pc = "submit" /\ compile'[Key(v)'] = "none" => stage'[Key(v)'].status = "running"
    BY <1>1, <1>3 DEF Known, InStage, CompilesKeep
  <1>6. worker'[v].pc = "settle" =>
           worker'[v].state \in CompileEnd /\ compile'[Key(v)'] = worker'[v].state
    BY <1>1, <1>3 DEF Known, InStage, CompilesKeep
  <1>7. Keys' = Keys
    BY DEF Keys
  <1> QED
    BY <1>2, <1>4, <1>5, <1>6, <1>7 DEF Known

\* So does what it is entitled to, as long as the lease is not taken from it, its
\* run gets no result, and only the stages of other runs change.
LEMMA EntitledRests ==
    ASSUME IInv, NEW v \in Workers, worker'[v] = worker[v], Latest(v)', TasksKeep,
           \/ UNCHANGED stage
           \/ /\ worker[v].pc \notin InTry
              /\ \A key \in Keys : key[1] = worker[v].run => stage'[key] = stage[key],
           (lease'.owner = lease.owner /\ lease'.n = lease.n) \/ worker[v].pc \notin InTry,
           worker[v].run \in result' => worker[v].run \in result
    PROVE  Latest(v) /\ Entitled(v)'
  <1>1. worker[v].pc # "idle" /\ worker[v].run \in Runs
    BY DEF Latest, IInv, TypeOK
  <1>2. Latest(v)
    BY <1>1 DEF Latest, Fenced, TasksKeep, Active, IInv, AllKnown, Known
  <1>3. Entitled(v) /\ Key(v)' = Key(v) /\ Keys' = Keys
    BY <1>2 DEF IInv, AllEntitled, Key, Keys
  <1>4. Quiet(worker[v].run) => Quiet(worker[v].run)'
    BY <1>3 DEF Quiet
  <1>5. worker[v].pc \in InTry => UNCHANGED stage /\ lease'.owner = lease.owner /\ lease'.n = lease.n
    OBVIOUS
  <1>6. worker'[v].pc \in InTry \cup {"acquire"} => worker'[v].run \notin result'
    BY <1>3 DEF Entitled
  <1>7. worker'[v].pc \in InTry =>
           /\ LeaseIsMine(v)'
           /\ \A key \in Keys' : stage'[key].status = "running" => key[1] = worker'[v].run
    BY <1>3, <1>5 DEF Entitled, LeaseIsMine, Run
  <1>8. worker'[v].pc = "durable" => Quiet(worker[v].run)'
    BY <1>3, <1>4 DEF Entitled
  <1>9. worker[v].pc \in InStage => worker[v].pc \in InTry
    BY DEF InStage, InTry
  <1>10. worker'[v].pc \in InStage =>
            \A key \in Keys' : stage'[key].status = "running" => key = Key(v)'
    BY <1>3, <1>5, <1>9 DEF Entitled
  <1>11. worker'[v].pc \in {"query", "save"} =>
            /\ ~stage'[Key(v)'].upstream /\ stage'[Key(v)'].status # "succeeded"
            /\ worker'[v].seen.status = stage'[Key(v)'].status
    BY <1>3, <1>5, <1>9 DEF Entitled, InStage
  <1>12. worker'[v].pc \in {"submit", "record"} => stage'[Key(v)'].status = "running"
    BY <1>3, <1>5, <1>9 DEF Entitled, InStage
  <1>13. worker'[v].pc \in {"poll", "status", "settle"} => stage'[Key(v)'].status # "succeeded"
    BY <1>3, <1>5, <1>9 DEF Entitled, InStage
  <1>14. worker'[v].pc \in {"release", "write"} /\ worker'[v].outcome \in Final =>
            Quiet(worker[v].run)'
    BY <1>3, <1>4 DEF Entitled
  <1> QED
    BY <1>2, <1>6, <1>7, <1>8, <1>10, <1>11, <1>12, <1>13, <1>14 DEF Entitled

\* Worker v is spared by the step of somebody else.
Spared(v) ==
    /\ \/ UNCHANGED stage
       \/ /\ worker[v].pc \notin InTry
          /\ \A key \in Keys : key[1] = worker[v].run => stage'[key] = stage[key]
    /\ (lease'.owner = lease.owner /\ lease'.n = lease.n) \/ worker[v].pc \notin InTry
    /\ worker[v].run \in result' => worker[v].run \in result

\* An attempt that may still write its task row could do so before.
LEMMA LatestBefore ==
    ASSUME IInv, NEW v \in Workers, worker'[v] = worker[v], Latest(v)', TasksKeep
    PROVE  Latest(v)
  <1>1. worker[v].pc # "idle" /\ worker[v].run \in Runs
    BY DEF Latest, IInv, TypeOK
  <1> QED
    BY <1>1 DEF Latest, Fenced, TasksKeep, Active, IInv, AllKnown, Known

\* A step keeps the invariant when it does so for the worker that takes it and
\* spares the others.
LEMMA StepKeeps ==
    ASSUME IInv, TypeOK', StagesInv', TasksKeep, CompilesKeep,
           \/ UNCHANGED worker /\ \A v \in Workers : Latest(v) => Spared(v)
           \/ \E w \in Workers :
                 /\ Moves(w)
                 /\ worker'[w].pc # "idle" => Known(w)'
                 /\ Latest(w)' => Entitled(w)'
                 /\ \A v \in Workers \ {w} : Latest(v) => Spared(v)
    PROVE  IInv'
  <1>1. ASSUME NEW v \in Workers, worker'[v] = worker[v], Latest(v) => Spared(v), Latest(v)'
        PROVE  Entitled(v)'
    <2>1. Latest(v)
      BY <1>1, LatestBefore
    <2> QED
      BY <1>1, <2>1, EntitledRests DEF Spared
  <1>2. ASSUME NEW v \in Workers, worker'[v] = worker[v], worker'[v].pc # "idle"
        PROVE  Known(v)'
    BY <1>2, KnownRests
  <1>3. CASE UNCHANGED worker /\ \A v \in Workers : Latest(v) => Spared(v)
    <2>1. AllKnown' /\ AllEntitled'
      BY <1>1, <1>2, <1>3 DEF AllKnown, AllEntitled
    <2>2. AttemptsDiffer'
      BY <1>3 DEF IInv, AttemptsDiffer
    <2> QED
      BY <2>1, <2>2 DEF IInv
  <1>4. ASSUME NEW w \in Workers, Moves(w), worker'[w].pc # "idle" => Known(w)',
               Latest(w)' => Entitled(w)',
               \A v \in Workers \ {w} : Latest(v) => Spared(v)
        PROVE  IInv'
    <2>1. \A v \in Workers \ {w} : worker'[v] = worker[v]
      BY <1>4 DEF Moves
    <2>2. AllKnown'
      BY <1>2, <1>4, <2>1 DEF AllKnown
    <2>3. AllEntitled'
      BY <1>1, <1>4, <2>1 DEF AllEntitled
    <2>4. AttemptsDiffer'
      BY <1>4 DEF IInv, AttemptsDiffer, Moves
    <2> QED
      BY <2>2, <2>3, <2>4 DEF IInv
  <1> QED
    BY <1>3, <1>4

\* A worker that leaves knows what it needs to.
LEMMA LeaverKeeps ==
    ASSUME IInv, NEW w \in Workers, Leaves(w), TasksKeep
    PROVE  /\ worker'[w].pc # "idle" => Known(w)'
           /\ Latest(w)' => Entitled(w)'
  <1>1. CASE worker'[w].pc = "idle"
    BY <1>1 DEF Latest
  <1>2. CASE worker'[w].pc # "idle"
    <2>1. /\ worker'[w].run = worker[w].run /\ worker'[w].n = worker[w].n
          /\ worker[w].pc # "idle" /\ worker[w].run \in Runs
          /\ worker'[w].pc \in {"except", "release", "write"}
          /\ worker'[w].pc = "write" => worker'[w].outcome # "none"
      BY <1>2 DEF Leaves, Moves, IInv, TypeOK
    <2>2. Known(w)
      BY <2>1 DEF IInv, AllKnown
    <2>3. /\ task'[worker'[w].run].status # "absent"
          /\ worker'[w].n <= task'[worker'[w].run].n
      BY <2>1, <2>2 DEF Known, TasksKeep
    <2>4. Known(w)'
      BY <2>1, <2>3 DEF Known, InStage
    <2>5. ASSUME Latest(w)' PROVE Latest(w)
      BY <2>1, <2>2, <2>5 DEF Latest, Fenced, TasksKeep, Active, Known
    <2>6. ASSUME Latest(w)' PROVE Entitled(w)'
      <3>1. /\ worker'[w].pc \notin InTry \cup {"acquire", "durable"} \cup InStage
            /\ worker'[w].pc \notin {"query", "save", "submit", "record", "poll", "status", "settle"}
        BY <2>1 DEF InTry, InStage
      <3>2. worker'[w].pc \in {"release", "write"} /\ worker'[w].outcome \in Final =>
               Quiet(worker[w].run)'
        <4>1. QuietNext(worker[w].run) => Quiet(worker[w].run)'
          BY <2>1 DEF QuietNext, Quiet, Keys
        <4> QED
          BY <2>5, <2>6, <4>1 DEF Leaves
      <3> QED
        BY <3>1, <3>2 DEF Entitled
    <2> QED
      BY <2>4, <2>6
  <1> QED
    BY <1>1, <1>2

\* A step of a worker that changes nothing but its own place and what is under way
\* to OpenViking.
LEMMA WorkerStepKeeps ==
    ASSUME IInv, NEW w \in Workers, Moves(w), wire' \in Sent(w), stalls' \in 0..MaxStalls,
           UNCHANGED <<task, result, stage, lease, compile, ended>>,
           worker'[w].pc # "idle" => Known(w)',
           Latest(w)' => Entitled(w)'
    PROVE  IInv'
  <1>1. TypeOK
    BY DEF IInv
  <1>2. /\ wire' \subseteq wire \cup {Key(w)}
        /\ Key(w) \in wire' \ wire =>
              Key(w) \in Keys /\ (compile[Key(w)] = "none" => stage[Key(w)].status = "running")
    BY DEF Sent, At, IInv, AllKnown, Known, InStage
  <1>3. wire' \subseteq Keys
    BY <1>1, <1>2 DEF TypeOK
  <1>4. Keys' = Keys
    BY DEF Keys
  <1>5. \A v \in Workers : worker'[v].pc # "idle" => worker'[v].run \in Runs
    BY <1>1 DEF TypeOK, Moves
  <1>6. TypeOK'
    BY <1>1, <1>3, <1>4, <1>5 DEF TypeOK, Moves
  <1>7. CompileIsRecorded'
    BY <1>2, <1>4 DEF IInv, StagesInv, CompileIsRecorded
  <1>8. OneStageRuns' /\ OverIsQuiet'
    BY <1>4 DEF IInv, StagesInv, OneStageRuns, OverIsQuiet, Quiet
  <1>9. TasksKeep /\ CompilesKeep
    BY <1>1 DEF TasksKeep, CompilesKeep, TypeOK
  <1>10. \A v \in Workers : Spared(v)
    BY DEF Spared
  <1> QED
    BY <1>6, <1>7, <1>8, <1>9, <1>10, StepKeeps DEF StagesInv

\* A worker leaves, and nothing else changes but what is under way.
LEMMA LeaveStepKeeps ==
    ASSUME IInv, NEW w \in Workers, Leaves(w), wire' \in Sent(w), stalls' \in 0..MaxStalls,
           UNCHANGED <<task, result, stage, lease, compile, ended>>
    PROVE  IInv'
  <1>1. TasksKeep
    BY DEF TasksKeep, IInv, TypeOK
  <1>2. Moves(w)
    BY DEF Leaves
  <1> QED
    BY <1>1, <1>2, LeaverKeeps, WorkerStepKeeps

-----------------------------------------------------------------------------
(* Going on in the handler *)

\* A worker that goes on with its attempt keeps its run and its number.
LEMMA GoesOn ==
    ASSUME TypeOK, NEW w \in Workers, worker[w].pc # "idle", NEW pc \in Location,
           NEW new \in Attempt, new.run = worker[w].run, new.n = worker[w].n, Goto(w, pc, new)
    PROVE  /\ Moves(w) /\ worker'[w].pc = pc
           /\ worker'[w].run = worker[w].run /\ worker'[w].n = worker[w].n
           /\ worker'[w].k = new.k /\ worker'[w].seen = new.seen
           /\ worker'[w].state = new.state
  <1>1. worker \in [Workers -> Attempt]
    BY DEF TypeOK
  <1> QED
    BY <1>1, GotoFacts DEF Moves

\* An attempt that goes on is still known, and the latest one was so before.
LEMMA StillKnown ==
    ASSUME IInv, NEW w \in Workers, Moves(w), worker'[w].pc # "idle", TasksKeep
    PROVE  /\ worker[w].pc # "idle" /\ worker[w].run \in Runs /\ Known(w)
           /\ worker'[w].run = worker[w].run /\ worker'[w].n = worker[w].n
           /\ task'[worker'[w].run].status # "absent"
           /\ worker'[w].n <= task'[worker'[w].run].n
           /\ Latest(w)' => Latest(w) /\ Entitled(w)
  <1>1. /\ worker'[w].run = worker[w].run /\ worker'[w].n = worker[w].n
        /\ worker[w].pc # "idle" /\ worker[w].run \in Runs
    BY DEF Moves, IInv, TypeOK
  <1>2. Known(w)
    BY <1>1 DEF IInv, AllKnown
  <1>3. /\ task'[worker'[w].run].status # "absent"
        /\ worker'[w].n <= task'[worker'[w].run].n
    BY <1>1, <1>2 DEF Known, TasksKeep
  <1>4. Latest(w)' => Latest(w)
    BY <1>1, <1>2 DEF Latest, Fenced, TasksKeep, Active, Known
  <1>5. Latest(w) => Entitled(w)
    BY DEF IInv, AllEntitled
  <1> QED
    BY <1>1, <1>2, <1>3, <1>4, <1>5

\* No stage is running after the step; only worker w's stage may be.
NoneRuns == \A key \in Keys : stage'[key].status # "running"

OnlyRuns(k) == \A key \in Keys : stage'[key].status = "running" => key = k

\* Worker w goes on in the try, with its lease and no result.
GoesOnInTry(w) ==
    /\ Moves(w) /\ worker[w].pc \in InTry /\ worker'[w].pc \in InTry
    /\ lease'.owner = lease.owner /\ lease'.n = lease.n /\ UNCHANGED result

\* It goes on to what precedes the next stage.
LEMMA ToDurable ==
    ASSUME IInv, NEW w \in Workers, GoesOnInTry(w), TasksKeep, worker'[w].pc = "durable",
           worker'[w].k >= 1, Latest(w) => NoneRuns
    PROVE  Known(w)' /\ (Latest(w)' => Entitled(w)')
  <1>1. Moves(w) /\ worker'[w].pc # "idle" /\ Keys' = Keys
    BY DEF GoesOnInTry, Keys
  <1>2. Known(w)'
    BY <1>1, StillKnown DEF Known, InStage
  <1>3. ASSUME Latest(w)' PROVE Entitled(w)'
    <2>1. Latest(w) /\ Entitled(w) /\ worker'[w].run = worker[w].run /\ worker'[w].n = worker[w].n
      BY <1>1, <1>3, StillKnown
    <2>2. worker[w].run \notin result' /\ LeaseIsMine(w)'
      BY <2>1 DEF Entitled, LeaseIsMine, Run, GoesOnInTry
    <2>3. \A key \in Keys' : stage'[key].status # "running"
      BY <1>1, <2>1 DEF NoneRuns
    <2> QED
      BY <2>1, <2>2, <2>3 DEF Entitled, Quiet, InStage
  <1> QED
    BY <1>2, <1>3

\* It goes on to a place of compile_stage.
LEMMA ToStage ==
    ASSUME IInv, NEW w \in Workers, GoesOnInTry(w), TasksKeep, worker'[w].pc \in InStage,
           NEW key \in Keys, key = <<worker'[w].run, worker'[w].k>>, key[1] = worker'[w].run,
           worker'[w].pc = "submit" /\ compile'[key] = "none" => stage'[key].status = "running",
           worker'[w].pc = "settle" =>
              worker'[w].state \in CompileEnd /\ compile'[key] = worker'[w].state,
           Latest(w) =>
              /\ OnlyRuns(key)
              /\ worker'[w].pc \in {"query", "save"} =>
                    /\ ~stage'[key].upstream /\ stage'[key].status # "succeeded"
                    /\ worker'[w].seen.status = stage'[key].status
              /\ worker'[w].pc \in {"submit", "record"} => stage'[key].status = "running"
              /\ worker'[w].pc \in {"poll", "status", "settle"} => stage'[key].status # "succeeded"
    PROVE  Known(w)' /\ (Latest(w)' => Entitled(w)')
  <1>1. Moves(w) /\ worker'[w].pc # "idle" /\ Keys' = Keys /\ Key(w)' = key
    BY DEF GoesOnInTry, Keys, Key, InStage
  <1>2. Known(w)'
    BY <1>1, StillKnown DEF Known, InStage
  <1>3. ASSUME Latest(w)' PROVE Entitled(w)'
    <2>1. Latest(w) /\ Entitled(w) /\ worker'[w].run = worker[w].run /\ worker'[w].n = worker[w].n
      BY <1>1, <1>3, StillKnown
    <2>2. worker'[w].run \notin result' /\ LeaseIsMine(w)'
      BY <2>1 DEF Entitled, LeaseIsMine, Run, GoesOnInTry
    <2>3. \A l \in Keys' : stage'[l].status = "running" => l = key
      BY <1>1, <2>1 DEF OnlyRuns
    <2>4. worker'[w].pc \notin {"durable", "release", "write"}
      BY DEF InStage
    <2>5. /\ worker'[w].pc \in {"query", "save"} =>
                /\ ~stage'[key].upstream /\ stage'[key].status # "succeeded"
                /\ worker'[w].seen.status = stage'[key].status
          /\ worker'[w].pc \in {"submit", "record"} => stage'[key].status = "running"
          /\ worker'[w].pc \in {"poll", "status", "settle"} => stage'[key].status # "succeeded"
      BY <2>1
    <2> QED
      BY <1>1, <2>2, <2>3, <2>4, <2>5 DEF Entitled
  <1> QED
    BY <1>2, <1>3

-----------------------------------------------------------------------------
(* One lemma per action, or per group of actions that change the same state *)

\* A quiet run stays so while no stage changes.
LEMMA QuietStays ==
    ASSUME UNCHANGED stage, NEW r, Quiet(r)
    PROVE  QuietNext(r)
  BY DEF Quiet, QuietNext

\* A disturbance stays within the bound.
LEMMA StallType ==
    ASSUME stalls \in 0..MaxStalls, Stall
    PROVE  stalls' \in 0..MaxStalls
  BY DEF Stall

\* The steps after which a worker is on its way out, whatever it was doing.
LEMMA LeavingKeeps ==
    ASSUME IInv, NEW w \in Workers,
           WorkCancelled(w) \/ HeartbeatLost(w) \/ Error(w) \/ Crash(w) \/ Except(w)
    PROVE  IInv'
  <1>1. TypeOK /\ stalls \in 0..MaxStalls /\ {"retry", "reconcile"} \subseteq Outcomes
    BY DEF IInv, TypeOK, Outcomes
  <1>2. {"retry", "reconcile", "none"} \cap Final = {}
    BY DEF Final
  <1>3. stalls' \in 0..MaxStalls /\ wire' \in Sent(w)
    <2>1. CASE WorkCancelled(w) \/ HeartbeatLost(w)
      BY <1>1, <2>1 DEF WorkCancelled, HeartbeatLost
    <2>2. CASE Except(w)
      BY <1>1, <2>2 DEF Except, Sent
    <2>3. CASE Error(w) \/ Crash(w)
      <3>1. Stall /\ wire' \in Sent(w)
        BY <2>3 DEF Error, Crash
      <3> QED
        BY <1>1, <3>1, StallType
    <2> QED
      BY <2>1, <2>2, <2>3
  <1>4. UNCHANGED <<task, result, stage, lease, compile, ended>>
    BY DEF WorkCancelled, HeartbeatLost, Error, Crash, Except
  <1>5. worker[w].pc # "idle"
    BY DEF WorkCancelled, HeartbeatLost, Error, Crash, Except, InTry, At
  <1>6. \/ Raise(w) \/ Quit(w) \/ Return(w, "retry") \/ Return(w, "reconcile")
        \/ Answer(w, "retry") \/ Goto(w, "idle", Idle)
    <2>1. CASE Error(w)
      <3>1. worker[w].pc \in InTry \cup {"except", "enter", "acquire", "release", "write"}
        <4>1. worker[w] \in Attempt
          BY DEF IInv, TypeOK
        <4>2. worker[w].pc \in Location
          BY <4>1 DEF Attempt
        <4> QED
          BY <1>5, <4>2 DEF Location, InTry
      <3> QED
        BY <2>1, <3>1 DEF Error
    <2>2. CASE WorkCancelled(w)
      BY <2>2 DEF WorkCancelled, IInv, TypeOK, Attempt
    <2> QED
      BY <2>1, <2>2 DEF HeartbeatLost, Crash, Except, OnException
  <1>7. Leaves(w)
    BY <1>1, <1>2, <1>5, <1>6, RaiseLeaves, ReturnLeaves, AnswerLeaves, DropLeaves, QuitLeaves
  <1> QED
    BY <1>3, <1>4, <1>7, LeaveStepKeeps

\* The pulse fails: work stays where it is.
LEMMA PulseFailsKeeps ==
    ASSUME IInv, NEW w \in Workers, PulseFails(w)
    PROVE  IInv'
  <1>1. /\ TypeOK /\ worker[w] \in Attempt /\ worker[w].pc \in InTry /\ worker[w].pc # "idle"
        /\ UNCHANGED <<task, result, stage, lease, compile, wire, ended>>
        /\ worker[w].pc \in Location
    BY DEF IInv, TypeOK, PulseFails, InTry, Location
  <1>2. stalls' \in 0..MaxStalls /\ wire' \in Sent(w)
    <2>1. stalls' = stalls \/ Stall
      BY DEF PulseFails
    <2>2. stalls \in 0..MaxStalls
      BY <1>1 DEF TypeOK
    <2> QED
      BY <1>1, <2>1, <2>2, StallType DEF Sent
  <1>3. PICK o \in {"retry", "reconcile"} :
           Goto(w, worker[w].pc, [worker[w] EXCEPT !.pulse = o])
    BY DEF PulseFails, OnException
  <1> DEFINE new == [worker[w] EXCEPT !.pulse = o]
  <1>4. /\ new \in Attempt /\ new.run = worker[w].run /\ new.n = worker[w].n
        /\ new.k = worker[w].k /\ new.seen = worker[w].seen /\ new.state = worker[w].state
        /\ new.outcome = worker[w].outcome
    BY <1>1 DEF Attempt
  <1> HIDE DEF new
  <1>5. Goto(w, worker[w].pc, new)
    BY <1>3 DEF new
  <1>6. /\ Moves(w) /\ worker'[w].pc = worker[w].pc
        /\ worker'[w].run = worker[w].run /\ worker'[w].n = worker[w].n
        /\ worker'[w].k = worker[w].k /\ worker'[w].seen = worker[w].seen
        /\ worker'[w].state = worker[w].state
    BY <1>1, <1>4, <1>5, GoesOn
  <1>7. Known(w) /\ (Latest(w) => Entitled(w)) /\ Key(w)' = Key(w) /\ Keys' = Keys
    BY <1>1, <1>6 DEF IInv, AllKnown, AllEntitled, Key, Keys
  <1>8. worker[w].pc \notin {"release", "write"}
    BY <1>1 DEF InTry
  <1>9. Known(w)'
    BY <1>1, <1>6, <1>7, <1>8 DEF Known
  <1>10. ASSUME Latest(w)' PROVE Entitled(w)'
    <2>1. Entitled(w)
      BY <1>1, <1>6, <1>7, <1>10 DEF Latest
    <2>2. LeaseIsMine(w) => LeaseIsMine(w)'
      BY <1>1, <1>6 DEF LeaseIsMine, Run
    <2>3. Quiet(worker[w].run) => Quiet(worker[w].run)'
      BY <1>1, <1>6, <1>7 DEF Quiet
    <2>4. UNCHANGED <<result, stage>>
      BY <1>1
    <2> QED
      BY <1>6, <1>7, <1>8, <2>1, <2>2, <2>3, <2>4 DEF Entitled
  <1> QED
    BY <1>1, <1>2, <1>6, <1>9, <1>10, WorkerStepKeeps

\* The first transaction of aggregate.
LEMMA EnterKeeps ==
    ASSUME IInv, NEW w \in Workers, Enter(w)
    PROVE  IInv'
  <1>1. /\ TypeOK /\ worker[w] \in Attempt /\ stalls' \in 0..MaxStalls /\ wire' \in Sent(w)
        /\ worker[w].pc = "enter" /\ UNCHANGED <<task, result, stage, lease, compile, ended>>
    BY DEF IInv, TypeOK, Enter, Sent, At
  <1>2. CASE Answer(w, "retry")
    BY <1>1, <1>2, AnswerLeaves, LeaveStepKeeps DEF Outcomes, Final
  <1>3. CASE worker[w].run \in result /\ Answer(w, "succeed")
    <2>1. QuietNext(worker[w].run)
      BY <1>1, <1>3, QuietStays DEF IInv, StagesInv, OverIsQuiet
    <2> QED
      BY <1>1, <1>3, <2>1, AnswerLeaves, LeaveStepKeeps DEF Outcomes
  <1>4. CASE /\ worker[w].run \notin result
             /\ Goto(w, "acquire", [worker[w] EXCEPT !.cancelled = Asked(w)])
    <2> DEFINE new == [worker[w] EXCEPT !.cancelled = Asked(w)]
    <2>1. Asked(w) \in BOOLEAN
      <3>1. task[worker[w].run] \in TaskRow
        BY <1>1 DEF TypeOK
      <3> QED
        BY <3>1 DEF Asked, Run, TaskRow
    <2>2. new \in Attempt /\ new.run = worker[w].run /\ new.n = worker[w].n
      BY <1>1, <2>1 DEF Attempt
    <2> HIDE DEF new
    <2>3. Goto(w, "acquire", new) /\ "acquire" \in Location
      BY <1>4 DEF new, Location
    <2>4. Moves(w) /\ worker'[w].pc = "acquire" /\ worker'[w].run = worker[w].run
      BY <1>1, <2>2, <2>3, GoesOn
    <2>5. TasksKeep
      BY <1>1 DEF TasksKeep, TypeOK
    <2>6. Known(w)'
      BY <2>4, <2>5, StillKnown DEF Known, InStage
    <2>7. Entitled(w)'
      BY <1>1, <1>4, <2>4 DEF Entitled, InStage, InTry
    <2> QED
      BY <1>1, <2>4, <2>6, <2>7, WorkerStepKeeps
  <1> QED
    BY <1>1, <1>2, <1>3, <1>4 DEF Enter, Run

\* Stages left running by an earlier attempt are looked for.
LEMMA RecoverKeeps ==
    ASSUME IInv, NEW w \in Workers, Recover(w)
    PROVE  IInv'
  <1>1. /\ TypeOK /\ worker[w] \in Attempt /\ stalls' \in 0..MaxStalls /\ wire' \in Sent(w)
        /\ worker[w].pc = "recover" /\ UNCHANGED <<task, result, stage, lease, compile, ended>>
    BY DEF IInv, TypeOK, Recover, Sent, At
  <1>2. TasksKeep
    BY <1>1 DEF TasksKeep, TypeOK
  <1>3. Latest(w) => \A key \in Keys : stage[key].status = "running" => key[1] = worker[w].run
    BY <1>1 DEF IInv, AllEntitled, Entitled, InTry
  <1>4. ASSUME NEW key \in RunningStages(worker[w].run),
               Goto(w, "read", [worker[w] EXCEPT !.recover = TRUE, !.k = key[2]])
        PROVE  IInv'
    <2> DEFINE new == [worker[w] EXCEPT !.recover = TRUE, !.k = key[2]]
    <2>1. /\ key \in Keys /\ key[1] = worker[w].run /\ stage[key].status = "running"
          /\ key = <<key[1], key[2]>>
      BY KeyFacts DEF RunningStages
    <2>2. key[2] \in Nat
      <3>1. key[1] \in Runs /\ key[2] \in 1..NumStages[key[1]]
        BY <2>1, KeyFacts
      <3> QED
        BY <3>1
    <2>3. new \in Attempt /\ new.run = worker[w].run /\ new.n = worker[w].n /\ new.k = key[2]
      BY <1>1, <2>2 DEF Attempt
    <2> HIDE DEF new
    <2>4. Goto(w, "read", new) /\ "read" \in Location
      BY <1>4 DEF new, Location
    <2>5. /\ Moves(w) /\ worker'[w].pc = "read" /\ worker'[w].run = worker[w].run
          /\ worker'[w].k = key[2]
      BY <1>1, <2>3, <2>4, GoesOn
    <2>6. GoesOnInTry(w)
      BY <1>1, <2>5 DEF GoesOnInTry, InTry
    <2>7. OnlyRuns(key)
      BY <1>1, <2>1 DEF OnlyRuns, IInv, StagesInv, OneStageRuns
    <2>8. Known(w)' /\ (Latest(w)' => Entitled(w)')
      BY <1>2, <2>1, <2>5, <2>6, <2>7, ToStage DEF InStage
    <2> QED
      BY <1>1, <2>5, <2>8, WorkerStepKeeps
  <1>5. ASSUME RunningStages(worker[w].run) = {}
        PROVE  Quiet(worker[w].run) /\ (Latest(w) => NoneRuns)
    <2>1. Quiet(worker[w].run)
      BY <1>5 DEF RunningStages, Quiet
    <2> QED
      BY <1>1, <1>3, <2>1 DEF Quiet, NoneRuns
  <1>6. CASE RunningStages(worker[w].run) = {} /\ Return(w, "cancelled")
    <2>1. QuietNext(worker[w].run)
      BY <1>1, <1>5, <1>6, QuietStays
    <2> QED
      BY <1>1, <1>6, <2>1, ReturnLeaves, LeaveStepKeeps DEF Outcomes
  <1>7. CASE /\ RunningStages(worker[w].run) = {}
             /\ Goto(w, "durable", [worker[w] EXCEPT !.k = 1])
    <2> DEFINE new == [worker[w] EXCEPT !.k = 1]
    <2>1. new \in Attempt /\ new.run = worker[w].run /\ new.n = worker[w].n /\ new.k = 1
      BY <1>1 DEF Attempt
    <2> HIDE DEF new
    <2>2. Goto(w, "durable", new) /\ "durable" \in Location
      BY <1>7 DEF new, Location
    <2>3. Moves(w) /\ worker'[w].pc = "durable" /\ worker'[w].k = 1
      BY <1>1, <2>1, <2>2, GoesOn
    <2>4. GoesOnInTry(w)
      BY <1>1, <2>3 DEF GoesOnInTry, InTry
    <2>5. Known(w)' /\ (Latest(w)' => Entitled(w)')
      BY <1>2, <1>5, <1>7, <2>3, <2>4, ToDurable
    <2> QED
      BY <1>1, <2>3, <2>5, WorkerStepKeeps
  <1> QED
    BY <1>4, <1>6, <1>7 DEF Recover, Run

\* What precedes stage k.
LEMMA DurableKeeps ==
    ASSUME IInv, NEW w \in Workers, Durable(w) \/ PipelineInvalid(w)
    PROVE  IInv'
  <1>1. /\ TypeOK /\ worker[w] \in Attempt /\ stalls' \in 0..MaxStalls /\ wire' \in Sent(w)
        /\ worker[w].pc = "durable" /\ UNCHANGED <<task, result, stage, lease, compile, ended>>
    BY DEF IInv, TypeOK, Durable, PipelineInvalid, Sent, At
  <1>2. TasksKeep /\ worker[w].run \in Runs
    BY <1>1 DEF TasksKeep, TypeOK
  <1>3. Latest(w) => Quiet(worker[w].run) /\ NoneRuns
    <2>1. Latest(w) =>
             /\ Quiet(worker[w].run)
             /\ \A key \in Keys : stage[key].status = "running" => key[1] = worker[w].run
      BY <1>1 DEF IInv, AllEntitled, Entitled, InTry
    <2> QED
      BY <1>1, <2>1 DEF Quiet, NoneRuns
  <1>4. Latest(w) => QuietNext(worker[w].run)
    BY <1>1, <1>3, QuietStays
  <1>5. CASE Raise(w)
    BY <1>1, <1>5, RaiseLeaves, LeaveStepKeeps
  <1>6. ASSUME NEW o \in Outcomes, Return(w, o) PROVE IInv'
    BY <1>1, <1>4, <1>6, ReturnLeaves, LeaveStepKeeps
  <1>7. CASE worker[w].k <= NumStages[worker[w].run] /\ Goto(w, "read", worker[w])
    <2> DEFINE key == <<worker[w].run, worker[w].k>>
    <2>1. worker[w].k \in Nat /\ worker[w].k >= 1
      BY <1>1 DEF Attempt, IInv, AllKnown, Known
    <2>2. key \in Keys /\ key[1] = worker[w].run
      BY <1>2, <1>7, <2>1, KeyFacts
    <2>3. /\ Moves(w) /\ worker'[w].pc = "read" /\ worker'[w].run = worker[w].run
          /\ worker'[w].k = worker[w].k
      BY <1>1, <1>7, GoesOn DEF Location
    <2>4. key = <<worker'[w].run, worker'[w].k>> /\ key[1] = worker'[w].run
      BY <2>2, <2>3
    <2> HIDE DEF key
    <2>5. GoesOnInTry(w)
      BY <1>1, <2>3 DEF GoesOnInTry, InTry
    <2>6. Latest(w) => OnlyRuns(key)
      BY <1>3 DEF NoneRuns, OnlyRuns
    <2>7. Known(w)' /\ (Latest(w)' => Entitled(w)')
      BY <1>2, <2>2, <2>3, <2>4, <2>5, <2>6, ToStage DEF InStage
    <2> QED
      BY <1>1, <2>3, <2>7, WorkerStepKeeps
  <1>8. {"cancelled", "fail"} \subseteq Outcomes
    BY DEF Outcomes
  <1> QED
    BY <1>5, <1>6, <1>7, <1>8 DEF Durable, PipelineInvalid, Run

\* compile_stage returns: there is no stage running.
LEMMA StageDoneMoves ==
    ASSUME IInv, NEW w \in Workers, worker[w].pc \in InStage, StageDone(w), TasksKeep,
           lease' = lease, UNCHANGED result, Latest(w) => NoneRuns
    PROVE  Moves(w) /\ (worker'[w].pc # "idle" => Known(w)') /\ (Latest(w)' => Entitled(w)')
  <1>1. /\ TypeOK /\ worker[w] \in Attempt /\ worker[w].pc # "idle" /\ worker[w].run \in Runs
        /\ worker[w].pc \in InTry
    BY DEF IInv, TypeOK, InStage, InTry
  <1>2. ASSUME Return(w, "cancelled")
        PROVE  Moves(w) /\ (worker'[w].pc # "idle" => Known(w)') /\ (Latest(w)' => Entitled(w)')
    <2>1. Latest(w) => QuietNext(worker[w].run)
      BY DEF NoneRuns, QuietNext
    <2>2. Leaves(w)
      BY <1>1, <1>2, <2>1, ReturnLeaves DEF Outcomes
    <2> QED
      BY <2>2, LeaverKeeps DEF Leaves
  <1>3. ASSUME NEW new \in Attempt, new.run = worker[w].run, new.n = worker[w].n, new.k >= 1,
               Goto(w, "durable", new)
        PROVE  Moves(w) /\ (worker'[w].pc # "idle" => Known(w)') /\ (Latest(w)' => Entitled(w)')
    <2>1. Moves(w) /\ worker'[w].pc = "durable" /\ worker'[w].k >= 1
      BY <1>1, <1>3, GoesOn DEF Location
    <2>2. GoesOnInTry(w)
      BY <1>1, <2>1 DEF GoesOnInTry, InTry
    <2> QED
      BY <2>1, <2>2, ToDurable
  <1>4. Fresh(w) \in Attempt /\ Fresh(w).run = worker[w].run /\ Fresh(w).n = worker[w].n
    BY <1>1, FreshType
  <1> DEFINE fresh == Fresh(w)
             again == [fresh EXCEPT !.recover = FALSE, !.k = 1]
             next  == [fresh EXCEPT !.k = worker[w].k + 1]
  <1>5. fresh \in Attempt /\ fresh.run = worker[w].run /\ fresh.n = worker[w].n
    BY <1>4
  <1> HIDE DEF fresh
  <1>6. /\ again \in Attempt /\ again.k = 1
        /\ again.run = worker[w].run /\ again.n = worker[w].n
    BY <1>5 DEF Attempt
  <1>7. worker[w].k \in Nat /\ worker[w].k + 1 \in Nat /\ worker[w].k + 1 >= 1
    <2>1. worker[w].k \in Nat
      BY <1>1 DEF Attempt
    <2> QED
      BY <2>1
  <1>8. /\ next \in Attempt /\ next.k = worker[w].k + 1
        /\ next.run = worker[w].run /\ next.n = worker[w].n
    BY <1>5, <1>7 DEF Attempt
  <1>9. \/ Return(w, "cancelled")
        \/ Goto(w, "durable", again)
        \/ Goto(w, "durable", next)
    BY DEF StageDone, again, next, fresh
  <1> HIDE DEF again, next
  <1>10. again.k >= 1 /\ next.k >= 1
    BY <1>6, <1>7, <1>8
  <1> QED
    BY <1>2, <1>3, <1>6, <1>8, <1>9, <1>10

\* Where a worker is in compile_stage, which stage that is, and what may run.
LEMMA AtStage ==
    ASSUME IInv, NEW w \in Workers, worker[w].pc \in InStage
    PROVE  /\ TypeOK /\ worker[w] \in Attempt /\ worker[w].pc # "idle" /\ worker[w].pc \in InTry
           /\ worker[w].run \in Runs
           /\ Key(w) \in Keys /\ Key(w)[1] = worker[w].run /\ Key(w) = <<worker[w].run, worker[w].k>>
           /\ stage[Key(w)] \in StageRow
           /\ Latest(w) => \A key \in Keys : stage[key].status = "running" => key = Key(w)
  <1>1. /\ TypeOK /\ worker[w] \in Attempt /\ worker[w].pc # "idle" /\ worker[w].pc \in InTry
        /\ worker[w].run \in Runs
    BY DEF IInv, TypeOK, InStage, InTry
  <1>2. Key(w) \in Keys /\ Key(w)[1] = worker[w].run /\ Key(w) = <<worker[w].run, worker[w].k>>
    BY <1>1 DEF IInv, AllKnown, Known, Key
  <1>3. stage[Key(w)] \in StageRow
    BY <1>1, <1>2 DEF TypeOK
  <1>4. Latest(w) => \A key \in Keys : stage[key].status = "running" => key = Key(w)
    BY DEF IInv, AllEntitled, Entitled
  <1> QED
    BY <1>1, <1>2, <1>3, <1>4

\* compile_stage reads its stage.
LEMMA ReadStageKeeps ==
    ASSUME IInv, NEW w \in Workers, ReadStage(w)
    PROVE  IInv'
  <1>1. /\ stalls' \in 0..MaxStalls /\ wire' \in Sent(w)
        /\ worker[w].pc = "read" /\ UNCHANGED <<task, result, stage, lease, compile, ended>>
    BY DEF IInv, TypeOK, ReadStage, Sent, At
  <1>2. worker[w].pc \in InStage
    BY <1>1 DEF InStage
  <1> DEFINE key == Key(w)
             s   == stage[key]
  <1>3. /\ TypeOK /\ worker[w] \in Attempt /\ worker[w].pc # "idle" /\ worker[w].pc \in InTry
        /\ key \in Keys /\ key[1] = worker[w].run /\ key = <<worker[w].run, worker[w].k>>
        /\ s \in StageRow
        /\ Latest(w) => \A l \in Keys : stage[l].status = "running" => l = key
    BY <1>2, AtStage
  <1>4. TasksKeep
    BY <1>1, <1>3 DEF TasksKeep, TypeOK
  <1>5. CASE Raise(w)
    BY <1>1, <1>3, <1>5, RaiseLeaves, LeaveStepKeeps
  <1>6. CASE s.status = "succeeded" /\ StageDone(w)
    <2>1. Latest(w) => NoneRuns
      BY <1>1, <1>3, <1>6 DEF NoneRuns
    <2> QED
      BY <1>1, <1>2, <1>4, <1>6, <2>1, StageDoneMoves, WorkerStepKeeps
  <1> DEFINE seen == [worker[w] EXCEPT !.seen = s]
  <1>7. /\ seen \in Attempt /\ seen.run = worker[w].run /\ seen.n = worker[w].n
        /\ seen.k = worker[w].k /\ seen.seen = s
    BY <1>3 DEF Attempt
  <1>8. \/ Raise(w)
        \/ s.status = "succeeded" /\ StageDone(w)
        \/ s.status # "succeeded" /\ Goto(w, "poll", worker[w])
        \/ s.status # "succeeded" /\ ~s.upstream /\ Goto(w, "query", seen)
        \/ s.status # "succeeded" /\ ~s.upstream /\ Goto(w, "save", seen)
    BY DEF ReadStage
  <1> HIDE DEF key, seen
  <1>9. ASSUME s.status # "succeeded", NEW pc \in {"poll", "query", "save"}, NEW new \in Attempt,
               new.run = worker[w].run, new.n = worker[w].n, new.k = worker[w].k,
               pc # "poll" => ~s.upstream /\ new.seen = s, Goto(w, pc, new)
        PROVE  IInv'
    <2>1. /\ Moves(w) /\ worker'[w].pc = pc /\ worker'[w].run = worker[w].run
          /\ worker'[w].k = worker[w].k /\ worker'[w].seen = new.seen
      BY <1>3, <1>9, GoesOn DEF Location
    <2>2. key = <<worker'[w].run, worker'[w].k>> /\ key[1] = worker'[w].run
      BY <1>3, <2>1
    <2>3. GoesOnInTry(w)
      BY <1>1, <1>3, <2>1 DEF GoesOnInTry, InTry
    <2>4. Latest(w) => OnlyRuns(key)
      BY <1>1, <1>3 DEF OnlyRuns
    <2>5. worker'[w].pc \in InStage \ {"submit", "record", "status", "settle"}
      BY <2>1 DEF InStage
    <2>6. worker'[w].pc \in {"query", "save"} =>
             /\ ~stage'[key].upstream /\ stage'[key].status # "succeeded"
             /\ worker'[w].seen.status = stage'[key].status
      BY <1>1, <1>9, <2>1
    <2>7. stage'[key].status # "succeeded"
      BY <1>1, <1>9
    <2>8. Known(w)' /\ (Latest(w)' => Entitled(w)')
      BY <1>3, <1>4, <2>2, <2>3, <2>4, <2>5, <2>6, <2>7, ToStage
    <2> QED
      BY <1>1, <2>1, <2>8, WorkerStepKeeps
  <1> QED
    BY <1>3, <1>5, <1>6, <1>7, <1>8, <1>9

\* The places after which nothing but the worker's own has changed: whether the
\* key is known upstream, and what status answers.
LEMMA AskedUpstreamKeeps ==
    ASSUME IInv, NEW w \in Workers, Query(w) \/ PollStatus(w)
    PROVE  IInv'
  <1>1. /\ stalls' \in 0..MaxStalls /\ wire' \in Sent(w)
        /\ worker[w].pc \in {"query", "status"}
        /\ UNCHANGED <<task, result, stage, lease, compile, ended>>
    BY DEF IInv, TypeOK, Query, PollStatus, Sent, At
  <1>2. worker[w].pc \in InStage
    BY <1>1 DEF InStage
  <1> DEFINE key == Key(w)
  <1>3. /\ TypeOK /\ worker[w] \in Attempt /\ worker[w].pc # "idle" /\ worker[w].pc \in InTry
        /\ key \in Keys /\ key[1] = worker[w].run /\ key = <<worker[w].run, worker[w].k>>
        /\ stage[key] \in StageRow
        /\ Latest(w) => \A l \in Keys : stage[l].status = "running" => l = key
    BY <1>2, AtStage
  <1>4. TasksKeep
    BY <1>1, <1>3 DEF TasksKeep, TypeOK
  <1>5. ASSUME NEW pc \in {"save", "poll", "settle"}, NEW new \in Attempt,
               new.run = worker[w].run, new.n = worker[w].n, new.k = worker[w].k,
               pc = "save" => worker[w].pc = "query" /\ new.seen.status = worker[w].seen.status,
               pc = "settle" => new.state \in CompileEnd /\ compile[key] = new.state,
               pc # "save" => worker[w].pc = "status",
               Goto(w, pc, new)
        PROVE  IInv'
    <2>1. /\ Moves(w) /\ worker'[w].pc = pc /\ worker'[w].run = worker[w].run
          /\ worker'[w].k = worker[w].k /\ worker'[w].seen = new.seen
          /\ worker'[w].state = new.state
      BY <1>3, <1>5, GoesOn DEF Location
    <2>2. key = <<worker'[w].run, worker'[w].k>> /\ key[1] = worker'[w].run
      BY <1>3, <2>1
    <2> HIDE DEF key
    <2>3. GoesOnInTry(w)
      BY <1>1, <1>3, <2>1 DEF GoesOnInTry, InTry
    <2>4. Latest(w) => OnlyRuns(key)
      BY <1>1, <1>3 DEF OnlyRuns
    <2>5. worker'[w].pc \in InStage \ {"submit", "record", "query"}
      BY <2>1 DEF InStage
    <2>6. Latest(w) => Entitled(w)
      BY DEF IInv, AllEntitled
    <2>7. Latest(w) /\ pc = "save" =>
             /\ ~stage'[key].upstream /\ stage'[key].status # "succeeded"
             /\ worker'[w].seen.status = stage'[key].status
      BY <1>1, <1>5, <2>1, <2>6 DEF Entitled, key
    <2>8. Latest(w) /\ pc # "save" => stage'[key].status # "succeeded"
      BY <1>1, <1>5, <2>1, <2>6 DEF Entitled, key
    <2>9. worker'[w].pc = "settle" =>
             worker'[w].state \in CompileEnd /\ compile'[key] = worker'[w].state
      BY <1>1, <1>5, <2>1
    <2>10. Known(w)' /\ (Latest(w)' => Entitled(w)')
      BY <1>3, <1>4, <2>1, <2>2, <2>3, <2>4, <2>5, <2>7, <2>8, <2>9, ToStage
    <2> QED
      BY <1>1, <2>1, <2>10, WorkerStepKeeps
  <1>6. CASE Query(w)
    <2> DEFINE new == [worker[w] EXCEPT !.seen.upstream = compile[Key(w)] # "none"]
    <2>1. worker[w].seen \in StageRow
      BY <1>3 DEF Attempt
    <2>2. [worker[w].seen EXCEPT !.upstream = compile[Key(w)] # "none"] \in StageRow
      BY <2>1 DEF StageRow
    <2>3. [worker[w].seen EXCEPT !.upstream = compile[Key(w)] # "none"].status = worker[w].seen.status
      BY <2>1 DEF StageRow
    <2>4. /\ new \in Attempt /\ new.run = worker[w].run /\ new.n = worker[w].n
          /\ new.k = worker[w].k
          /\ new.seen = [worker[w].seen EXCEPT !.upstream = compile[Key(w)] # "none"]
      BY <1>3, <2>2 DEF Attempt
    <2>5. Goto(w, "save", new) /\ worker[w].pc = "query"
      BY <1>6 DEF Query, At
    <2> HIDE DEF new
    <2> QED
      BY <1>5, <2>3, <2>4, <2>5
  <1>7. CASE PollStatus(w)
    <2>1. worker[w].pc = "status"
      BY <1>7 DEF PollStatus, At
    <2>2. CASE /\ compile[key] \in CompileEnd
               /\ Goto(w, "settle", [worker[w] EXCEPT !.state = compile[key]])
      <3> DEFINE new == [worker[w] EXCEPT !.state = compile[key]]
      <3>1. /\ new \in Attempt /\ new.run = worker[w].run /\ new.n = worker[w].n
            /\ new.k = worker[w].k /\ new.state = compile[key]
        BY <1>3, <2>2 DEF Attempt
      <3>2. Goto(w, "settle", new)
        BY <2>2
      <3> HIDE DEF new
      <3> QED
        BY <1>5, <2>1, <2>2, <3>1, <3>2
    <2>3. CASE Goto(w, "poll", Fresh(w))
      <3>1. /\ Fresh(w) \in Attempt /\ Fresh(w).run = worker[w].run /\ Fresh(w).n = worker[w].n
            /\ Fresh(w).k = worker[w].k
        BY <1>3, FreshType
      <3> QED
        BY <1>5, <2>1, <2>3, <3>1
    <2> QED
      BY <1>7, <2>2, <2>3 DEF PollStatus
  <1> QED
    BY <1>6, <1>7

-----------------------------------------------------------------------------
(* OpenViking's Compiles *)

\* A step that changes Compiles and submissions under way, and the place of one
\* worker at most.
LEMMA CompileStepKeeps ==
    ASSUME IInv, compile' \in [Keys -> {"none", "running"} \cup CompileEnd], wire' \subseteq Keys,
           CompilesKeep, CompileIsRecorded', UNCHANGED <<task, result, stage, lease, ended, stalls>>,
           \/ UNCHANGED worker
           \/ \E w \in Workers :
                 /\ Moves(w)
                 /\ worker'[w].pc # "idle" => Known(w)'
                 /\ Latest(w)' => Entitled(w)'
    PROVE  IInv'
  <1>1. TypeOK /\ Keys' = Keys
    BY DEF IInv, Keys
  <1>2. /\ worker' \in [Workers -> Attempt]
        /\ \A v \in Workers : worker'[v].pc # "idle" => worker'[v].run \in Runs
    BY <1>1 DEF TypeOK, Moves
  <1>3. TypeOK'
    BY <1>1, <1>2 DEF TypeOK
  <1>4. OneStageRuns' /\ OverIsQuiet'
    BY <1>1 DEF IInv, StagesInv, OneStageRuns, OverIsQuiet, Quiet
  <1>5. TasksKeep
    BY <1>1 DEF TasksKeep, TypeOK
  <1>6. \A v \in Workers : Spared(v)
    BY DEF Spared
  <1> QED
    BY <1>3, <1>4, <1>5, <1>6, StepKeeps DEF StagesInv

\* A submission starts a Compile at most, and only its own.
LEMMA ServedFacts ==
    ASSUME TypeOK, NEW key \in Keys, compile' = Served(key)
    PROVE  /\ compile' \in [Keys -> {"none", "running"} \cup CompileEnd]
           /\ \A l \in Keys : compile'[l] # compile[l] =>
                 l = key /\ compile[l] = "none" /\ compile'[l] = "running"
           /\ compile'[key] # "none"
  BY DEF TypeOK, Served

\* It keeps the Compiles there are, and is recorded when its stage is.
LEMMA ServedKeeps ==
    ASSUME IInv, NEW key \in Keys, compile' = Served(key), wire' \subseteq wire, UNCHANGED stage,
           compile[key] = "none" => stage[key].status = "running"
    PROVE  /\ compile' \in [Keys -> {"none", "running"} \cup CompileEnd] /\ wire' \subseteq Keys
           /\ CompilesKeep /\ CompileIsRecorded'
  <1>1. TypeOK /\ Keys' = Keys
    BY DEF IInv, Keys
  <1>2. /\ compile' \in [Keys -> {"none", "running"} \cup CompileEnd]
        /\ \A l \in Keys : compile'[l] # compile[l] =>
              l = key /\ compile[l] = "none" /\ compile'[l] = "running"
    BY <1>1, ServedFacts
  <1>3. CompilesKeep
    BY <1>2 DEF CompilesKeep, CompileEnd
  <1>4. CompileIsRecorded'
    BY <1>1, <1>2 DEF CompileIsRecorded, IInv, StagesInv
  <1>5. wire' \subseteq Keys
    BY <1>1 DEF TypeOK
  <1> QED
    BY <1>2, <1>3, <1>4, <1>5

\* A Compile ends, by itself or because it was asked to.
LEMMA EndKeeps ==
    ASSUME IInv, NEW key \in Keys, compile[key] = "running", NEW end \in CompileEnd,
           compile' = [compile EXCEPT ![key] = end], UNCHANGED <<stage, wire>>
    PROVE  /\ compile' \in [Keys -> {"none", "running"} \cup CompileEnd] /\ wire' \subseteq Keys
           /\ CompilesKeep /\ CompileIsRecorded'
  <1>1. TypeOK /\ Keys' = Keys
    BY DEF IInv, Keys
  <1>2. /\ compile' \in [Keys -> {"none", "running"} \cup CompileEnd] /\ wire' \subseteq Keys
        /\ \A l \in Keys : IF l = key THEN compile'[l] = end ELSE compile'[l] = compile[l]
    BY <1>1 DEF TypeOK
  <1>3. CompilesKeep
    BY <1>2 DEF CompilesKeep, CompileEnd
  <1>4. CompileIsRecorded'
    BY <1>1, <1>2 DEF CompileIsRecorded, IInv, StagesInv, CompileEnd
  <1> QED
    BY <1>2, <1>3, <1>4

\* The two actions of OpenViking alone.
LEMMA UpstreamKeeps ==
    ASSUME IInv, NEW key \in Keys, CompileEnds(key) \/ LateSubmission(key)
    PROVE  IInv'
  <1>1. CASE CompileEnds(key)
    BY <1>1, EndKeeps, CompileStepKeeps DEF CompileEnds
  <1>2. CASE LateSubmission(key)
    <2>1. compile[key] = "none" => stage[key].status = "running"
      BY <1>2 DEF LateSubmission, IInv, StagesInv, CompileIsRecorded
    <2>2. wire' \subseteq wire
      BY <1>2 DEF LateSubmission
    <2> QED
      BY <1>2, <2>1, <2>2, ServedKeeps, CompileStepKeeps DEF LateSubmission
  <1> QED
    BY <1>1, <1>2

\* A request to cancel ends the Compile or leaves it.
LEMMA PollEnds ==
    ASSUME IInv, NEW key \in Keys, UNCHANGED compile \/ compile' \in CancelUpstream(key),
           UNCHANGED <<stage, wire>>
    PROVE  /\ compile' \in [Keys -> {"none", "running"} \cup CompileEnd] /\ wire' \subseteq Keys
           /\ CompilesKeep /\ CompileIsRecorded'
  <1>1. CASE UNCHANGED compile
    <2>1. Keys' = Keys
      BY DEF Keys
    <2> QED
      BY <1>1, <2>1 DEF IInv, TypeOK, CompilesKeep, StagesInv, CompileIsRecorded
  <1>2. CASE compile[key] = "running" /\ compile' = [compile EXCEPT ![key] = "cancelled"]
    <2>1. "cancelled" \in CompileEnd
      BY DEF CompileEnd
    <2> QED
      BY <1>2, <2>1, EndKeeps
  <1> QED
    BY <1>1, <1>2 DEF CancelUpstream

\* The submission of a stage, and a turn of the polling loop.
LEMMA SubmitPollKeeps ==
    ASSUME IInv, NEW w \in Workers, Submit(w) \/ Poll(w)
    PROVE  IInv'
  <1>1. /\ worker[w].pc \in {"submit", "poll"}
        /\ UNCHANGED <<task, result, stage, lease, wire, ended, stalls>>
    BY DEF Submit, Poll, At
  <1>2. worker[w].pc \in InStage
    BY <1>1 DEF InStage
  <1> DEFINE key == Key(w)
  <1>3. /\ TypeOK /\ worker[w] \in Attempt /\ worker[w].pc # "idle" /\ worker[w].pc \in InTry
        /\ key \in Keys /\ key[1] = worker[w].run /\ key = <<worker[w].run, worker[w].k>>
        /\ worker[w].run \in Runs
        /\ Latest(w) => \A l \in Keys : stage[l].status = "running" => l = key
    BY <1>2, AtStage
  <1>4. TasksKeep
    BY <1>1, <1>3 DEF TasksKeep, TypeOK
  <1>5. Latest(w) => Entitled(w)
    BY DEF IInv, AllEntitled
  <1>6. ASSUME NEW pc \in {"record", "status"}, NEW new \in Attempt,
               new.run = worker[w].run, new.n = worker[w].n, new.k = worker[w].k,
               pc = "record" => worker[w].pc = "submit",
               pc = "status" => worker[w].pc = "poll",
               Goto(w, pc, new)
        PROVE  Moves(w) /\ Known(w)' /\ (Latest(w)' => Entitled(w)')
    <2>1. /\ Moves(w) /\ worker'[w].pc = pc /\ worker'[w].run = worker[w].run
          /\ worker'[w].k = worker[w].k
      BY <1>3, <1>6, GoesOn DEF Location
    <2>2. key = <<worker'[w].run, worker'[w].k>> /\ key[1] = worker'[w].run
      BY <1>3, <2>1
    <2> HIDE DEF key
    <2>3. GoesOnInTry(w)
      BY <1>1, <1>3, <2>1 DEF GoesOnInTry, InTry
    <2>4. Latest(w) => OnlyRuns(key)
      BY <1>1, <1>3 DEF OnlyRuns
    <2>5. worker'[w].pc \in InStage \ {"submit", "settle", "query", "save", "poll"}
      BY <2>1 DEF InStage
    <2>6. Latest(w) /\ pc = "record" => stage'[key].status = "running"
      BY <1>1, <1>5, <1>6 DEF Entitled, key
    <2>7. Latest(w) /\ pc = "status" => stage'[key].status # "succeeded"
      BY <1>1, <1>5, <1>6 DEF Entitled, key
    <2> QED
      BY <1>3, <1>4, <2>1, <2>2, <2>3, <2>4, <2>5, <2>6, <2>7, ToStage
  <1>7. CASE Submit(w)
    <2>1. worker[w].pc = "submit" /\ Goto(w, "record", worker[w]) /\ compile' = Served(key)
      BY <1>7 DEF Submit, At
    <2>2. Moves(w) /\ Known(w)' /\ (Latest(w)' => Entitled(w)')
      BY <1>3, <1>6, <2>1
    <2>3. compile[key] = "none" => stage[key].status = "running"
      BY <1>3, <2>1 DEF IInv, AllKnown, Known
    <2>4. /\ compile' \in [Keys -> {"none", "running"} \cup CompileEnd] /\ wire' \subseteq Keys
          /\ CompilesKeep /\ CompileIsRecorded'
      BY <1>1, <1>3, <2>1, <2>3, ServedKeeps
    <2> QED
      BY <1>1, <2>2, <2>4, CompileStepKeeps
  <1>8. CASE Poll(w) /\ Raise(w)
    <2>1. UNCHANGED compile \/ compile' \in CancelUpstream(key)
      BY <1>8 DEF Poll
    <2>2. Leaves(w)
      BY <1>3, <1>8, RaiseLeaves
    <2>3. Moves(w) /\ (worker'[w].pc # "idle" => Known(w)') /\ (Latest(w)' => Entitled(w)')
      BY <1>4, <2>2, LeaverKeeps DEF Leaves
    <2>4. /\ compile' \in [Keys -> {"none", "running"} \cup CompileEnd] /\ wire' \subseteq Keys
          /\ CompilesKeep /\ CompileIsRecorded'
      BY <1>1, <1>3, <2>1, PollEnds
    <2> QED
      BY <1>1, <2>3, <2>4, CompileStepKeeps
  <1>9. CASE Poll(w) /\ Goto(w, "status", [worker[w] EXCEPT !.asked = Asked(w)])
    <2> DEFINE new == [worker[w] EXCEPT !.asked = Asked(w)]
    <2>1. UNCHANGED compile \/ compile' \in CancelUpstream(key)
      BY <1>9 DEF Poll
    <2>2. Asked(w) \in BOOLEAN /\ worker[w].pc = "poll"
      <3>1. task[worker[w].run] \in TaskRow
        BY <1>3 DEF TypeOK
      <3> QED
        BY <1>9, <3>1 DEF Asked, Run, TaskRow, Poll, At
    <2>3. /\ new \in Attempt /\ new.run = worker[w].run /\ new.n = worker[w].n
          /\ new.k = worker[w].k
      BY <1>3, <2>2 DEF Attempt
    <2>4. Goto(w, "status", new)
      BY <1>9
    <2> HIDE DEF new
    <2>5. Moves(w) /\ Known(w)' /\ (Latest(w)' => Entitled(w)')
      BY <1>6, <2>2, <2>3, <2>4
    <2>6. /\ compile' \in [Keys -> {"none", "running"} \cup CompileEnd] /\ wire' \subseteq Keys
          /\ CompilesKeep /\ CompileIsRecorded'
      BY <1>1, <1>3, <2>1, PollEnds
    <2> QED
      BY <1>1, <2>5, <2>6, CompileStepKeeps
  <1> QED
    BY <1>7, <1>8, <1>9 DEF Poll

-----------------------------------------------------------------------------
(* The stages *)

\* An attempt that guard lets through is the latest one.
LEMMA GuardIsLatest ==
    ASSUME NEW w \in Workers, worker[w].pc # "idle", Guard(w)
    PROVE  Latest(w)
  BY DEF Guard, Current, Latest, Fenced, Run

\* The latest attempt in the try is alone there: every other latest one is of
\* another run, and outside.
LEMMA Alone ==
    ASSUME IInv, NEW w \in Workers, Latest(w), worker[w].pc \in InTry,
           NEW v \in Workers \ {w}, Latest(v)
    PROVE  worker[v].run # worker[w].run /\ worker[v].pc \notin InTry
  <1>1. worker[v].run # worker[w].run
    BY DEF IInv, AttemptsDiffer, Latest, Fenced
  <1>2. Entitled(w) /\ Entitled(v)
    BY DEF IInv, AllEntitled
  <1>3. lease.owner = worker[w].run
    BY <1>2 DEF Entitled, LeaseIsMine, Run
  <1>4. worker[v].pc \in InTry => lease.owner = worker[v].run
    BY <1>2 DEF Entitled, LeaseIsMine, Run
  <1> QED
    BY <1>1, <1>3, <1>4

\* The latest attempt writes its stage: as running, or as its Compile has ended.
LEMMA StageStepKeeps ==
    ASSUME IInv, NEW w \in Workers, Latest(w), worker[w].pc \in InStage, Moves(w),
           NEW row \in StageRow, stage' = [stage EXCEPT ![Key(w)] = row],
           row.status = "running" \/ compile[Key(w)] \in CompileEnd,
           UNCHANGED <<task, result, lease, compile, wire, ended, stalls>>,
           worker'[w].pc # "idle" => Known(w)', Latest(w)' => Entitled(w)'
    PROVE  IInv'
  <1> DEFINE key == Key(w)
  <1>1. /\ TypeOK /\ worker[w].pc # "idle" /\ worker[w].pc \in InTry /\ worker[w].run \in Runs
        /\ key \in Keys /\ key[1] = worker[w].run
        /\ \A l \in Keys : stage[l].status = "running" => l = key
    BY AtStage
  <1>2. Keys' = Keys /\ TasksKeep
    BY <1>1 DEF Keys, TasksKeep, TypeOK
  <1> HIDE DEF key
  <1>3. /\ stage' \in [Keys -> StageRow] /\ stage'[key] = row
        /\ \A l \in Keys \ {key} : stage'[l] = stage[l]
    BY <1>1 DEF TypeOK, key
  <1>4. row.status = "running" \/ compile[key] \in CompileEnd
    BY DEF key
  <1>5. \A v \in Workers : worker'[v].pc # "idle" => worker'[v].run \in Runs
    BY <1>1 DEF TypeOK, Moves
  <1>6. TypeOK'
    BY <1>1, <1>2, <1>3, <1>5 DEF TypeOK, Moves
  <1>7. CompilesKeep
    BY <1>3, <1>4 DEF CompilesKeep, CompileEnd
  <1>8. CompileIsRecorded'
    BY <1>2, <1>3, <1>4 DEF CompileIsRecorded, IInv, StagesInv, CompileEnd
  <1>9. OneStageRuns'
    BY <1>1, <1>2, <1>3 DEF OneStageRuns
  <1>10. worker[w].run \notin result /\ worker[w].run \notin ended
    <2>1. worker[w].run \notin result
      BY <1>1 DEF IInv, AllEntitled, Entitled
    <2>2. task[worker[w].run].status \notin Terminal
      BY DEF Latest, Fenced, Active, Terminal
    <2> QED
      BY <2>1, <2>2 DEF IInv, StagesInv, OverIsQuiet
  <1>11. OverIsQuiet'
    <2>1. ASSUME NEW r \in result \cup ended PROVE Quiet(r)'
      <3>1. Quiet(r) /\ r # key[1]
        BY <1>1, <1>10 DEF IInv, StagesInv, OverIsQuiet
      <3> QED
        BY <1>2, <1>3, <3>1 DEF Quiet
    <2>2. \A r \in ended : task[r].status \in Terminal
      BY DEF IInv, StagesInv, OverIsQuiet
    <2> QED
      BY <2>1, <2>2 DEF OverIsQuiet
  <1>12. ASSUME NEW v \in Workers \ {w}, Latest(v) PROVE Spared(v)
    <2>1. worker[v].run # worker[w].run /\ worker[v].pc \notin InTry
      BY <1>1, <1>12, Alone
    <2> QED
      BY <1>1, <1>3, <2>1 DEF Spared
  <1> QED
    BY <1>2, <1>6, <1>7, <1>8, <1>9, <1>11, <1>12, StepKeeps DEF StagesInv

\* A stage is recorded as running, without or with its upstream id.
LEMMA RecordKeeps ==
    ASSUME IInv, NEW w \in Workers, Guard(w), worker[w].pc \in {"save", "record"},
           NEW row \in StageRow, row.status = "running", stage' = [stage EXCEPT ![Key(w)] = row],
           NEW pc \in {"submit", "record", "poll"}, NEW new \in Attempt,
           new.run = worker[w].run, new.n = worker[w].n, new.k = worker[w].k, Goto(w, pc, new),
           UNCHANGED <<task, result, lease, compile, wire, ended, stalls>>
    PROVE  IInv'
  <1>1. worker[w].pc \in InStage
    BY DEF InStage
  <1> DEFINE key == Key(w)
  <1>2. /\ TypeOK /\ worker[w].pc # "idle" /\ worker[w].pc \in InTry
        /\ key \in Keys /\ key[1] = worker[w].run /\ key = <<worker[w].run, worker[w].k>>
        /\ Latest(w) => \A l \in Keys : stage[l].status = "running" => l = key
    BY <1>1, AtStage
  <1>3. Latest(w) /\ TasksKeep
    BY <1>2, GuardIsLatest DEF TasksKeep, TypeOK
  <1>4. /\ Moves(w) /\ worker'[w].pc = pc /\ worker'[w].run = worker[w].run
        /\ worker'[w].k = worker[w].k
    BY <1>2, GoesOn DEF Location
  <1>5. key = <<worker'[w].run, worker'[w].k>> /\ key[1] = worker'[w].run
    BY <1>2, <1>4
  <1> HIDE DEF key
  <1>6. stage'[key] = row /\ \A l \in Keys \ {key} : stage'[l] = stage[l]
    BY <1>2 DEF TypeOK, key
  <1>7. GoesOnInTry(w)
    BY <1>2, <1>4 DEF GoesOnInTry, InTry
  <1>8. OnlyRuns(key)
    BY <1>2, <1>3, <1>6 DEF OnlyRuns
  <1>9. worker'[w].pc \in InStage \ {"settle", "query", "save", "status"}
    BY <1>4 DEF InStage
  <1>10. Known(w)' /\ (Latest(w)' => Entitled(w)')
    BY <1>2, <1>3, <1>5, <1>6, <1>7, <1>8, <1>9, ToStage
  <1> QED
    BY <1>1, <1>3, <1>4, <1>10, StageStepKeeps

\* The two writes of a running stage.
LEMMA SaveRecordKeeps ==
    ASSUME IInv, NEW w \in Workers, SaveRunning(w) \/ RecordUpstream(w)
    PROVE  IInv'
  <1>1. /\ worker[w].pc \in {"save", "record"} /\ worker[w].pc \in InStage
        /\ UNCHANGED <<task, result, lease, compile, wire, ended, stalls>>
    BY DEF SaveRunning, RecordUpstream, At, InStage
  <1>2. /\ TypeOK /\ worker[w] \in Attempt /\ worker[w].pc # "idle"
        /\ stalls' \in 0..MaxStalls /\ wire' \in Sent(w)
    BY <1>1, AtStage DEF TypeOK, Sent
  <1>3. CASE UNCHANGED stage /\ Raise(w)
    BY <1>1, <1>2, <1>3, RaiseLeaves, LeaveStepKeeps
  <1>4. CASE SaveRunning(w) /\ Guard(w) /\ CancelStopsStage(w)
    <2>1. UNCHANGED stage /\ Return(w, "cancelled") /\ worker[w].pc = "save"
      BY <1>4 DEF SaveRunning, At
    <2>2. Latest(w)
      BY <1>2, <1>4, GuardIsLatest
    <2>3. stage[Key(w)].status # "running"
      BY <1>4, <2>1, <2>2 DEF CancelStopsStage, IInv, AllEntitled, Entitled
    <2>4. QuietNext(worker[w].run)
      BY <1>1, <2>1, <2>2, <2>3, AtStage DEF QuietNext
    <2> QED
      BY <1>1, <1>2, <2>1, <2>4, ReturnLeaves, LeaveStepKeeps DEF Outcomes
  <1>5. CASE SaveRunning(w) /\ Guard(w) /\ ~CancelStopsStage(w)
    <2> DEFINE row == [status |-> "running", upstream |-> FALSE]
    <2>1. row \in StageRow /\ row.status = "running"
      BY DEF StageRow
    <2>2. /\ Fresh(w) \in Attempt /\ Fresh(w).run = worker[w].run /\ Fresh(w).n = worker[w].n
          /\ Fresh(w).k = worker[w].k
      BY <1>2, FreshType
    <2>3. stage' = [stage EXCEPT ![Key(w)] = row]
      BY <1>5 DEF SaveRunning
    <2>4. Goto(w, "record", Fresh(w)) \/ Goto(w, "submit", Fresh(w))
      BY <1>5 DEF SaveRunning
    <2> HIDE DEF row
    <2> QED
      BY <1>1, <1>5, <2>1, <2>2, <2>3, <2>4, RecordKeeps
  <1>6. CASE RecordUpstream(w) /\ Guard(w)
    <2> DEFINE row == [status |-> "running", upstream |-> TRUE]
    <2>1. row \in StageRow /\ row.status = "running"
      BY DEF StageRow
    <2>2. stage' = [stage EXCEPT ![Key(w)] = row] /\ Goto(w, "poll", worker[w])
      BY <1>6 DEF RecordUpstream
    <2> HIDE DEF row
    <2> QED
      BY <1>1, <1>2, <1>6, <2>1, <2>2, RecordKeeps
  <1> QED
    BY <1>3, <1>4, <1>5, <1>6 DEF SaveRunning, RecordUpstream

\* The end of a stage is saved.
LEMMA SettleKeeps ==
    ASSUME IInv, NEW w \in Workers, Settle(w)
    PROVE  IInv'
  <1>1. /\ worker[w].pc = "settle" /\ worker[w].pc \in InStage
        /\ UNCHANGED <<task, result, lease, compile, wire, ended, stalls>>
    BY DEF Settle, At, InStage
  <1>2. /\ TypeOK /\ worker[w] \in Attempt /\ worker[w].pc # "idle" /\ worker[w].run \in Runs
        /\ stalls' \in 0..MaxStalls /\ wire' \in Sent(w)
    BY <1>1, AtStage DEF TypeOK, Sent
  <1>3. CASE UNCHANGED stage /\ Raise(w)
    BY <1>1, <1>2, <1>3, RaiseLeaves, LeaveStepKeeps
  <1>4. CASE Guard(w)
    <2> DEFINE state == worker[w].state
               good  == state = "succeeded" /\ ~worker[w].asked
               saved == IF good /\ Asked(w) THEN "cancelled" ELSE state
               row   == [status |-> saved, upstream |-> TRUE]
    <2>1. state \in CompileEnd /\ compile[Key(w)] = state
      BY <1>1, <1>2 DEF IInv, AllKnown, Known
    <2>2. saved \in CompileEnd
      BY <2>1 DEF CompileEnd
    <2>3. row \in StageRow /\ row.status # "running"
      BY <2>2 DEF StageRow, CompileEnd
    <2>4. stage' = [stage EXCEPT ![Key(w)] = row]
      BY <1>4 DEF Settle
    <2>5. StageDone(w) \/ Return(w, "cancelled") \/ Return(w, "fail")
      BY <1>4 DEF Settle
    <2> HIDE DEF row
    <2>6. Latest(w) /\ TasksKeep
      BY <1>1, <1>2, <1>4, GuardIsLatest DEF TasksKeep, TypeOK
    <2>7. NoneRuns
      <3>1. /\ Key(w) \in Keys
            /\ \A l \in Keys : stage[l].status = "running" => l = Key(w)
        BY <1>1, <2>6, AtStage
      <3>2. stage'[Key(w)] = row /\ \A l \in Keys \ {Key(w)} : stage'[l] = stage[l]
        BY <1>2, <2>4, <3>1 DEF TypeOK
      <3> QED
        BY <2>3, <3>1, <3>2 DEF NoneRuns
    <2>8. Moves(w) /\ (worker'[w].pc # "idle" => Known(w)') /\ (Latest(w)' => Entitled(w)')
      <3>1. CASE StageDone(w)
        BY <1>1, <2>6, <2>7, <3>1, StageDoneMoves
      <3>2. ASSUME NEW o \in Outcomes, Return(w, o)
            PROVE  Moves(w) /\ (worker'[w].pc # "idle" => Known(w)') /\ (Latest(w)' => Entitled(w)')
        <4>1. QuietNext(worker[w].run)
          BY <2>7 DEF NoneRuns, QuietNext
        <4>2. Leaves(w)
          BY <1>2, <3>2, <4>1, ReturnLeaves
        <4> QED
          BY <2>6, <4>2, LeaverKeeps DEF Leaves
      <3>3. {"cancelled", "fail"} \subseteq Outcomes
        BY DEF Outcomes
      <3> QED
        BY <2>5, <3>1, <3>2, <3>3
    <2> QED
      BY <1>1, <2>1, <2>3, <2>4, <2>6, <2>8, StageStepKeeps
  <1> QED
    BY <1>3, <1>4 DEF Settle

-----------------------------------------------------------------------------
(* The lease and the result *)

\* A step of a worker that changes the lease or a result, and takes neither from
\* an attempt that needs it.
LEMMA HoldingStepKeeps ==
    ASSUME IInv, NEW w \in Workers, Moves(w), lease' \in LeaseRow, result' \subseteq Runs,
           \A r \in result' : Quiet(r),
           UNCHANGED <<task, stage, compile, wire, ended, stalls>>,
           worker'[w].pc # "idle" => Known(w)', Latest(w)' => Entitled(w)',
           \A v \in Workers \ {w} : Latest(v) => Spared(v)
    PROVE  IInv'
  <1>1. TypeOK /\ Keys' = Keys
    BY DEF IInv, Keys
  <1>2. \A v \in Workers : worker'[v].pc # "idle" => worker'[v].run \in Runs
    BY <1>1 DEF TypeOK, Moves
  <1>3. TypeOK'
    BY <1>1, <1>2 DEF TypeOK, Moves
  <1>4. CompileIsRecorded' /\ OneStageRuns'
    BY <1>1 DEF IInv, StagesInv, CompileIsRecorded, OneStageRuns
  <1>5. OverIsQuiet'
    BY <1>1 DEF IInv, StagesInv, OverIsQuiet, Quiet
  <1>6. TasksKeep /\ CompilesKeep
    BY <1>1 DEF TasksKeep, CompilesKeep, TypeOK
  <1> QED
    BY <1>3, <1>4, <1>5, <1>6, StepKeeps DEF StagesInv

\* The second transaction of aggregate: no other run that is not over has the
\* lease or a stage running.
LEMMA AcquireKeeps ==
    ASSUME IInv, NEW w \in Workers, Acquire(w)
    PROVE  IInv'
  <1>1. /\ TypeOK /\ worker[w] \in Attempt /\ worker[w].pc = "acquire" /\ worker[w].run \in Runs
        /\ UNCHANGED <<task, result, stage, compile, wire, ended, stalls>>
        /\ stalls' \in 0..MaxStalls /\ wire' \in Sent(w)
    BY DEF IInv, TypeOK, Acquire, At, Sent
  <1>2. CASE Answer(w, "retry") /\ UNCHANGED lease
    BY <1>1, <1>2, AnswerLeaves, LeaveStepKeeps DEF Outcomes, Final
  <1>3. CASE /\ Guard(w) /\ ~Blocked(worker[w].run)
             /\ lease' = [owner |-> worker[w].run, n |-> worker[w].n, live |-> TRUE]
             /\ Goto(w, "recover", worker[w])
    <2>1. Latest(w)
      BY <1>1, <1>3, GuardIsLatest
    <2>2. worker[w].n \in Nat
      BY <1>1 DEF Attempt
    <2>3. lease' \in LeaseRow /\ lease'.owner = worker[w].run /\ lease'.n = worker[w].n
      BY <1>1, <1>3, <2>2 DEF LeaseRow
    <2>4. /\ Moves(w) /\ worker'[w].pc = "recover" /\ worker'[w].run = worker[w].run
          /\ worker'[w].n = worker[w].n
      BY <1>1, <1>3, GoesOn DEF Location
    <2>5. TasksKeep
      BY <1>1 DEF TasksKeep, TypeOK
    <2>6. Known(w)'
      BY <2>4, <2>5, StillKnown DEF Known, InStage
    <2>7. \A key \in Keys : stage[key].status = "running" => key[1] = worker[w].run
      BY <1>3, KeyFacts DEF Blocked, RunningStages
    <2>8. worker[w].run \notin result
      BY <1>1, <2>1 DEF IInv, AllEntitled, Entitled
    <2>9. Entitled(w)'
      <3>1. LeaseIsMine(w)' /\ worker'[w].run \notin result'
        BY <1>1, <2>3, <2>4, <2>8 DEF LeaseIsMine, Run
      <3>2. \A key \in Keys' : stage'[key].status = "running" => key[1] = worker'[w].run
        BY <1>1, <2>4, <2>7 DEF Keys
      <3> QED
        BY <2>4, <3>1, <3>2 DEF Entitled, InStage
    <2>10. ASSUME NEW v \in Workers \ {w}, Latest(v) PROVE Spared(v)
      <3>1. worker[v].run # worker[w].run /\ worker[v].run \in Runs
        BY <1>1, <2>1, <2>10 DEF IInv, AttemptsDiffer, Latest, Fenced, TypeOK
      <3>2. task[worker[v].run].status \in {"running", "reconciling", "retry_wait"}
        BY <2>10 DEF Latest, Fenced, Active
      <3>3. worker[v].pc \in InTry => lease.owner = worker[v].run
        BY <2>10 DEF IInv, AllEntitled, Entitled, LeaseIsMine, Run
      <3>4. worker[v].pc \notin InTry
        BY <1>3, <3>1, <3>2, <3>3 DEF Blocked
      <3> QED
        BY <1>1, <3>4 DEF Spared
    <2>11. \A r \in result' : Quiet(r)
      BY <1>1 DEF IInv, StagesInv, OverIsQuiet
    <2>12. result' \subseteq Runs
      BY <1>1 DEF TypeOK
    <2> QED
      BY <1>1, <2>3, <2>4, <2>6, <2>9, <2>10, <2>11, <2>12, HoldingStepKeeps
  <1> QED
    BY <1>2, <1>3 DEF Acquire, Run

\* The end of the pipeline sets the run's result.
LEMMA FinishKeeps ==
    ASSUME IInv, NEW w \in Workers, Finish(w)
    PROVE  IInv'
  <1>1. /\ TypeOK /\ worker[w] \in Attempt /\ worker[w].pc = "durable" /\ worker[w].run \in Runs
        /\ UNCHANGED <<task, stage, lease, compile, wire, ended, stalls>>
        /\ stalls' \in 0..MaxStalls /\ wire' \in Sent(w)
    BY DEF IInv, TypeOK, Finish, At, Sent
  <1>2. Latest(w) => Quiet(worker[w].run) /\ QuietNext(worker[w].run)
    BY <1>1, QuietStays DEF IInv, AllEntitled, Entitled
  <1>3. TasksKeep
    BY <1>1 DEF TasksKeep, TypeOK
  <1>4. CASE UNCHANGED result /\ Raise(w)
    BY <1>1, <1>4, RaiseLeaves, LeaveStepKeeps
  <1>5. CASE UNCHANGED result /\ Return(w, "cancelled")
    BY <1>1, <1>2, <1>5, ReturnLeaves, LeaveStepKeeps DEF Outcomes
  <1>6. CASE Guard(w) /\ result' = result \cup {worker[w].run} /\ Return(w, "succeed")
    <2>1. Latest(w)
      BY <1>1, <1>6, GuardIsLatest
    <2>2. Leaves(w)
      BY <1>1, <1>2, <1>6, ReturnLeaves DEF Outcomes
    <2>3. Moves(w) /\ (worker'[w].pc # "idle" => Known(w)') /\ (Latest(w)' => Entitled(w)')
      BY <1>3, <2>2, LeaverKeeps DEF Leaves
    <2>4. result' \subseteq Runs /\ lease' \in LeaseRow
      BY <1>1, <1>6 DEF TypeOK
    <2>5. \A r \in result' : Quiet(r)
      BY <1>2, <1>6, <2>1 DEF IInv, StagesInv, OverIsQuiet
    <2>6. worker[w].pc \in InTry
      BY <1>1 DEF InTry
    <2>7. ASSUME NEW v \in Workers \ {w}, Latest(v) PROVE Spared(v)
      <3>1. worker[v].run # worker[w].run
        BY <2>1, <2>6, <2>7, Alone
      <3> QED
        BY <1>1, <1>6, <3>1 DEF Spared
    <2> QED
      BY <1>1, <2>3, <2>4, <2>5, <2>7, HoldingStepKeeps
  <1> QED
    BY <1>4, <1>5, <1>6 DEF Finish, Run

\* The lease is given back, by the attempt it was granted to.
LEMMA ReleaseKeeps ==
    ASSUME IInv, NEW w \in Workers, Release(w)
    PROVE  IInv'
  <1>1. /\ TypeOK /\ worker[w] \in Attempt /\ worker[w].pc = "release" /\ worker[w].run \in Runs
        /\ UNCHANGED <<task, result, stage, compile, wire, ended, stalls>>
    BY DEF IInv, TypeOK, Release, At
  <1>2. TasksKeep
    BY <1>1 DEF TasksKeep, TypeOK
  <1>3. Leaves(w)
    <2>1. CASE Goto(w, "idle", Idle)
      BY <1>1, <2>1, DropLeaves
    <2>2. CASE worker[w].outcome # "none" /\ Answer(w, worker[w].outcome)
      <3>1. worker[w].outcome \in Outcomes
        BY <1>1, <2>2 DEF Attempt
      <3>2. worker[w].outcome \in Final /\ Latest(w) => QuietNext(worker[w].run)
        BY <1>1, QuietStays DEF IInv, AllEntitled, Entitled
      <3> QED
        BY <1>1, <2>2, <3>1, <3>2, AnswerLeaves
    <2> QED
      BY <2>1, <2>2 DEF Release
  <1>4. Moves(w) /\ (worker'[w].pc # "idle" => Known(w)') /\ (Latest(w)' => Entitled(w)')
    BY <1>2, <1>3, LeaverKeeps DEF Leaves
  <1>5. lease' = lease \/ (LeaseIsMine(w) /\ lease' = NoLease)
    BY DEF Release, Released
  <1>6. lease' \in LeaseRow /\ result' \subseteq Runs
    <2>1. NoLease \in LeaseRow
      BY DEF NoLease, LeaseRow
    <2> QED
      BY <1>1, <1>5, <2>1 DEF TypeOK
  <1>7. \A r \in result' : Quiet(r)
    BY <1>1 DEF IInv, StagesInv, OverIsQuiet
  <1>8. ASSUME NEW v \in Workers \ {w}, Latest(v) PROVE Spared(v)
    <2>1. LeaseIsMine(w) => worker[v].pc \notin InTry
      BY <1>1, <1>8 DEF IInv, AllEntitled, Entitled, LeaseIsMine, Run, AttemptsDiffer, Latest
    <2> QED
      BY <1>1, <1>5, <2>1 DEF Spared
  <1> QED
    BY <1>1, <1>4, <1>6, <1>7, <1>8, HoldingStepKeeps

\* The lease runs out: it still says to whom it was granted.
LEMMA ResourceLeaseKeeps ==
    ASSUME IInv, ResourceLeaseExpires
    PROVE  IInv'
  <1>1. /\ TypeOK /\ Keys' = Keys /\ lease \in LeaseRow
        /\ UNCHANGED <<task, result, stage, compile, wire, worker, ended>>
    BY DEF IInv, TypeOK, ResourceLeaseExpires, Keys
  <1>2. stalls' \in 0..MaxStalls
    <2>1. stalls \in 0..MaxStalls
      BY <1>1 DEF TypeOK
    <2>2. CASE Stall
      BY <2>1, <2>2, StallType
    <2>3. CASE UNCHANGED stalls
      BY <2>1, <2>3
    <2> QED
      BY <2>2, <2>3 DEF ResourceLeaseExpires
  <1>3. lease' = [lease EXCEPT !.live = FALSE]
    BY DEF ResourceLeaseExpires
  <1>4. lease' \in LeaseRow /\ lease'.owner = lease.owner /\ lease'.n = lease.n
    BY <1>1, <1>3 DEF LeaseRow
  <1>5. TypeOK'
    BY <1>1, <1>2, <1>4 DEF TypeOK
  <1>6. StagesInv'
    BY <1>1 DEF IInv, StagesInv, CompileIsRecorded, OneStageRuns, OverIsQuiet, Quiet
  <1>7. TasksKeep /\ CompilesKeep
    BY <1>1 DEF TasksKeep, CompilesKeep, TypeOK
  <1>8. \A v \in Workers : Spared(v)
    BY <1>1, <1>4 DEF Spared
  <1> QED
    BY <1>1, <1>5, <1>6, <1>7, <1>8, StepKeeps

-----------------------------------------------------------------------------
(* The task rows *)

\* A step that changes task rows: a run whose row it touches is not ended, or is
\* ended by an attempt that knows it is quiet.
LEMMA TaskStepKeeps ==
    ASSUME IInv, TasksKeep, ended' \subseteq Runs, stalls' \in 0..MaxStalls,
           UNCHANGED <<result, stage, lease, compile, wire>>,
           \A r \in ended' : Quiet(r) /\ task'[r].status \in Terminal,
           \/ UNCHANGED worker
           \/ \E w \in Workers : Leaves(w)
    PROVE  IInv'
  <1>1. TypeOK /\ Keys' = Keys
    BY DEF IInv, Keys
  <1>2. /\ worker' \in [Workers -> Attempt]
        /\ \A v \in Workers : worker'[v].pc # "idle" => worker'[v].run \in Runs
    BY <1>1 DEF TypeOK, Leaves, Moves
  <1>3. TypeOK'
    BY <1>1, <1>2 DEF TypeOK, TasksKeep
  <1>4. CompileIsRecorded' /\ OneStageRuns'
    BY <1>1 DEF IInv, StagesInv, CompileIsRecorded, OneStageRuns
  <1>5. OverIsQuiet'
    BY <1>1 DEF IInv, StagesInv, OverIsQuiet, Quiet
  <1>6. CompilesKeep /\ \A v \in Workers : Spared(v)
    BY DEF CompilesKeep, Spared
  <1>7. ASSUME NEW w \in Workers, Leaves(w)
        PROVE  Moves(w) /\ (worker'[w].pc # "idle" => Known(w)') /\ (Latest(w)' => Entitled(w)')
    BY <1>7, LeaverKeeps DEF Leaves
  <1> QED
    BY <1>3, <1>4, <1>5, <1>6, <1>7, StepKeeps DEF StagesInv

\* One task row changes, and keeps its attempt's number.
LEMMA RowKeeps ==
    ASSUME TypeOK, NEW r \in Runs, NEW row \in TaskRow, task' = [task EXCEPT ![r] = row],
           task[r].status # "absent" => row.n = task[r].n /\ row.status # "absent",
           row.status \in Active => task[r].status \in Active
    PROVE  TasksKeep /\ task'[r] = row /\ \A other \in Runs \ {r} : task'[other] = task[other]
  BY DEF TypeOK, TasksKeep

\* Callers, operators and the clock.
LEMMA TaskActionsKeep ==
    ASSUME IInv, NEW r \in Runs,
           Accept(r) \/ RequestCancel(r) \/ Requeue(r) \/ TaskLeaseExpires(r)
    PROVE  IInv'
  <1>1. /\ TypeOK /\ task[r] \in TaskRow /\ stalls \in 0..MaxStalls /\ ended \subseteq Runs
        /\ \A other \in ended : Quiet(other) /\ task[other].status \in Terminal
    BY DEF IInv, TypeOK, StagesInv, OverIsQuiet
  <1>2. UNCHANGED <<result, stage, lease, compile, wire, worker>>
    BY DEF Accept, RequestCancel, Requeue, TaskLeaseExpires
  <1>3. stalls' \in 0..MaxStalls
    <2>1. CASE UNCHANGED stalls
      BY <1>1, <2>1
    <2>2. CASE Stall
      BY <1>1, <2>2, StallType
    <2> QED
      BY <2>1, <2>2 DEF Accept, RequestCancel, Requeue, TaskLeaseExpires
  <1>4. ASSUME NEW row \in TaskRow, task' = [task EXCEPT ![r] = row],
               task[r].status # "absent" => row.n = task[r].n /\ row.status # "absent",
               row.status \in Active => task[r].status \in Active,
               ended' \subseteq ended, r \notin ended'
        PROVE  IInv'
    <2>1. TasksKeep /\ \A other \in Runs \ {r} : task'[other] = task[other]
      BY <1>1, <1>4, RowKeeps
    <2>2. /\ ended' \subseteq Runs
          /\ \A other \in ended' : Quiet(other) /\ task'[other].status \in Terminal
      BY <1>1, <1>4, <2>1
    <2> QED
      BY <1>2, <1>3, <2>1, <2>2, TaskStepKeeps
  <1>5. CASE Accept(r)
    <2>1. /\ task' = [task EXCEPT ![r] = Enqueued] /\ ended' = ended
          /\ task[r].status = "absent"
      BY <1>5 DEF Accept
    <2>2. r \notin ended /\ "queued" \notin Active
      BY <1>1, <2>1 DEF Terminal, Active
    <2> QED
      BY <1>1, <1>4, <2>1, <2>2, RowTypes, RowUpdates
  <1>6. CASE RequestCancel(r)
    <2>1. /\ task' = [task EXCEPT ![r] = CancelAsked(task[r])] /\ ended' = ended
          /\ task[r].status \in Waiting \cup Active
      BY <1>6 DEF RequestCancel, Cancellable
    <2>2. r \notin ended
      BY <1>1, <2>1 DEF Terminal, Active, Waiting
    <2>3. CancelAsked(task[r]).status \in Active => task[r].status \in Active
      BY <1>1 DEF CancelAsked, TaskRow, Active, Waiting
    <2> QED
      BY <1>1, <1>4, <2>1, <2>2, <2>3, RowTypes, RowUpdates
  <1>7. CASE Requeue(r)
    <2>1. task' = [task EXCEPT ![r] = Requeued(task[r])] /\ ended' = ended \ {r}
      BY <1>7 DEF Requeue
    <2>2. "queued" \notin Active
      BY DEF Active
    <2> QED
      BY <1>1, <1>4, <2>1, <2>2, RowTypes, RowUpdates
  <1>8. CASE TaskLeaseExpires(r)
    <2> DEFINE row == [task[r] EXCEPT !.leased = FALSE]
    <2>1. task[r].status \in Active /\ ended' = ended
      BY <1>8 DEF TaskLeaseExpires
    <2>2. task' = [task EXCEPT ![r] = row]
      BY <1>1, <1>8 DEF TaskLeaseExpires, TypeOK
    <2>3. row \in TaskRow /\ row.n = task[r].n /\ row.status = task[r].status
      BY <1>1, RowTypes, RowUpdates
    <2>4. r \notin ended
      BY <1>1, <2>1 DEF Terminal, Active
    <2> HIDE DEF row
    <2> QED
      BY <1>4, <2>1, <2>2, <2>3, <2>4
  <1> QED
    BY <1>5, <1>6, <1>7, <1>8

\* The result of an attempt is written, or refused.
LEMMA WriteKeeps ==
    ASSUME IInv, NEW w \in Workers, Write(w)
    PROVE  IInv'
  <1>1. /\ TypeOK /\ worker[w] \in Attempt /\ worker[w].pc = "write" /\ worker[w].run \in Runs
        /\ task[worker[w].run] \in TaskRow /\ stalls' \in 0..MaxStalls /\ ended \subseteq Runs
        /\ UNCHANGED <<result, stage, lease, compile, wire>>
        /\ \A other \in ended : Quiet(other) /\ task[other].status \in Terminal
    BY DEF IInv, TypeOK, Write, At, StagesInv, OverIsQuiet
  <1>2. Leaves(w)
    BY <1>1, DropLeaves DEF Write
  <1>3. CASE UNCHANGED <<task, ended>>
    <2>1. TasksKeep
      BY <1>1, <1>3 DEF TasksKeep, TypeOK
    <2> QED
      BY <1>1, <1>2, <1>3, <2>1, TaskStepKeeps
  <1>4. CASE Fenced(task[worker[w].run], worker[w].n)
    <2> DEFINE r   == worker[w].run
               o   == worker[w].outcome
               row == Written(task[r], o)
    <2>1. o \in Outcomes
      BY <1>1 DEF Attempt, IInv, AllKnown, Known
    <2>2. /\ row \in TaskRow /\ row.n = task[r].n /\ row.status # "absent"
      BY <1>1, <2>1, RowTypes, WrittenRow
    <2>3. o \in Final => row.status \in Terminal
      BY <1>1 DEF Written, Final, Terminal, TaskRow
    <2>4. task[r].status \in Active
      BY <1>4 DEF Fenced
    <2>5. task' = [task EXCEPT ![r] = row] /\ ended' = IF o \in Final THEN ended \cup {r} ELSE ended
      BY <1>4 DEF Write, Run, Final
    <2>6. r \notin ended
      BY <1>1, <2>4 DEF Active, Terminal
    <2>7. o \in Final => Quiet(r)
      BY <1>1, <1>4 DEF IInv, AllEntitled, Entitled, Latest
    <2> HIDE DEF row, o, r
    <2>8. r \in Runs
      BY <1>1 DEF r
    <2>9. TasksKeep /\ task'[r] = row /\ \A other \in Runs \ {r} : task'[other] = task[other]
      BY <1>1, <2>2, <2>4, <2>5, <2>8, RowKeeps
    <2>10. /\ ended' \subseteq Runs
          /\ \A other \in ended' : Quiet(other) /\ task'[other].status \in Terminal
      BY <1>1, <2>3, <2>5, <2>6, <2>7, <2>8, <2>9
    <2> QED
      BY <1>1, <1>2, <2>9, <2>10, TaskStepKeeps
  <1> QED
    BY <1>3, <1>4 DEF Write, Run

\* A claim begins an attempt, and no other one of the run may write any more.
LEMMA ClaimKeeps ==
    ASSUME IInv, NEW w \in Workers, NEW r \in Runs, Claim(w, r)
    PROVE  IInv'
  <1>1. /\ TypeOK /\ task[r] \in TaskRow /\ Keys' = Keys
        /\ worker[w].pc = "idle" /\ Claimable(task[r])
        /\ task' = [task EXCEPT ![r] = Claimed(task[r])]
        /\ UNCHANGED <<result, stage, lease, compile, wire, ended, stalls>>
    BY DEF IInv, TypeOK, Claim, At, Keys
  <1>2. task[r].n \in Nat /\ task[r].n + 1 \in Nat
    <2>1. task[r].n \in Nat
      BY <1>1 DEF TaskRow
    <2> QED
      BY <2>1
  <1>3. /\ task' \in [Runs -> TaskRow] /\ task'[r].n = task[r].n + 1 /\ task'[r].status = "running"
        /\ \A other \in Runs \ {r} : task'[other] = task[other]
    BY <1>1, RowTypes, RowUpdates DEF TypeOK
  <1> DEFINE n   == task[r].n + 1
             new == [Idle EXCEPT !.run = r, !.n = n]
  <1>4. new \in Attempt /\ new.run = r /\ new.n = n
    <2> HIDE DEF n
    <2>1. n \in Nat
      BY <1>2 DEF n
    <2> QED
      BY <2>1, IdleType DEF Attempt
  <1>5. Goto(w, "enter", new) /\ "enter" \in Location /\ worker \in [Workers -> Attempt]
    BY <1>1 DEF Claim, Location, TypeOK
  <1> HIDE DEF new
  <1>6. /\ worker' \in [Workers -> Attempt]
        /\ worker'[w].pc = "enter" /\ worker'[w].run = r /\ worker'[w].n = n
        /\ \A v \in Workers \ {w} : worker'[v] = worker[v]
    BY <1>4, <1>5, GotoFacts
  <1>7. r \notin ended
    BY <1>1 DEF IInv, StagesInv, OverIsQuiet, Claimable, Waiting, Active, Terminal
  <1>8. TypeOK'
    <2>1. \A v \in Workers : worker'[v].pc # "idle" => worker'[v].run \in Runs
      BY <1>1, <1>6 DEF TypeOK
    <2> QED
      BY <1>1, <1>3, <1>6, <2>1 DEF TypeOK
  <1>9. StagesInv'
    <2>1. CompileIsRecorded' /\ OneStageRuns'
      BY <1>1 DEF IInv, StagesInv, CompileIsRecorded, OneStageRuns
    <2>2. OverIsQuiet'
      <3>1. \A other \in result \cup ended : Quiet(other)'
        BY <1>1 DEF IInv, StagesInv, OverIsQuiet, Quiet
      <3>2. \A other \in ended : task'[other].status \in Terminal
        BY <1>1, <1>3, <1>7 DEF IInv, StagesInv, OverIsQuiet, TypeOK
      <3> QED
        BY <1>1, <3>1, <3>2 DEF OverIsQuiet
    <2> QED
      BY <2>1, <2>2 DEF StagesInv
  <1>10. ASSUME NEW v \in Workers \ {w}, worker[v].pc # "idle"
         PROVE  /\ worker[v].run \in Runs /\ worker[v].n \in Nat /\ task[worker[v].run].n \in Nat
                /\ Known(v) /\ worker[v].n <= task[worker[v].run].n
    <2>1. worker[v] \in Attempt /\ worker[v].run \in Runs /\ Known(v)
      BY <1>1, <1>10 DEF IInv, AllKnown, TypeOK
    <2>2. task[worker[v].run] \in TaskRow
      BY <1>1, <2>1 DEF TypeOK
    <2>3. worker[v].n \in Nat
      BY <2>1 DEF Attempt
    <2>4. task[worker[v].run].n \in Nat
      BY <2>2 DEF TaskRow
    <2> QED
      BY <2>1, <2>3, <2>4 DEF Known
  <1>11. ASSUME NEW v \in Workers \ {w}, worker[v].pc # "idle", worker[v].run = r
         PROVE  worker[v].n < n /\ worker[v].n # n
    BY <1>2, <1>10, <1>11
  <1>12. AllKnown'
    <2>1. ASSUME NEW v \in Workers \ {w}, worker[v].pc # "idle" PROVE Known(v)'
      <3>1. /\ task'[worker[v].run].status # "absent"
            /\ worker[v].n <= task'[worker[v].run].n
        <4>1. CASE worker[v].run = r
          BY <1>3, <2>1, <4>1, <1>10, <1>11, <1>2
        <4>2. CASE worker[v].run # r
          BY <1>3, <2>1, <4>2, <1>10 DEF Known
        <4> QED
          BY <4>1, <4>2
      <3>2. worker'[v] = worker[v] /\ Key(v)' = Key(v) /\ Known(v)
        BY <1>6, <1>10, <2>1 DEF Key
      <3> QED
        BY <1>1, <3>1, <3>2 DEF Known
    <2>2. Known(w)'
      <3>1. worker'[w].n <= task'[worker'[w].run].n
        BY <1>2, <1>3, <1>6
      <3>2. task'[worker'[w].run].status # "absent"
        BY <1>3, <1>6
      <3> QED
        BY <1>6, <3>1, <3>2 DEF Known, InStage
    <2> QED
      BY <1>6, <2>1, <2>2 DEF AllKnown
  <1>13. AllEntitled'
    <2>1. ASSUME NEW v \in Workers \ {w}, Latest(v)' PROVE Entitled(v)'
      <3>1. worker'[v] = worker[v] /\ worker[v].pc # "idle"
        BY <1>6, <2>1 DEF Latest
      <3>2. worker[v].run # r
        BY <1>3, <1>11, <2>1, <3>1 DEF Latest, Fenced
      <3>3. Latest(v)
        BY <1>3, <1>10, <2>1, <3>1, <3>2 DEF Latest
      <3>4. Entitled(v)
        BY <3>3 DEF IInv, AllEntitled
      <3> QED
        BY <1>1, <3>1, <3>4 DEF Entitled, LeaseIsMine, Run, Key, Quiet
    <2>2. Entitled(w)'
      BY <1>6 DEF Entitled, InTry, InStage
    <2> QED
      BY <2>1, <2>2 DEF AllEntitled
  <1>14. AttemptsDiffer'
    BY <1>6, <1>11 DEF IInv, AttemptsDiffer
  <1> QED
    BY <1>8, <1>9, <1>12, <1>13, <1>14 DEF IInv

-----------------------------------------------------------------------------
(* The theorems *)

\* The invariant holds before the first run is accepted.
LEMMA InitInv ==
    ASSUME Init
    PROVE  IInv
  <1>1. TypeOK
    <2>1. Absent \in TaskRow /\ NoStage \in StageRow /\ NoLease \in LeaseRow /\ Idle \in Attempt
      BY IdleType DEF Absent, TaskRow, NoStage, StageRow, NoLease, LeaseRow
    <2>2. stalls \in 0..MaxStalls
      BY DEF Init
    <2>3. \A w \in Workers : worker[w].pc = "idle"
      BY DEF Init, Idle
    <2> QED
      BY <2>1, <2>2, <2>3 DEF Init, TypeOK
  <1>2. AllKnown /\ AllEntitled /\ AttemptsDiffer
    BY DEF Init, Idle, AllKnown, AllEntitled, AttemptsDiffer, Latest
  <1>3. StagesInv
    BY DEF Init, NoStage, StagesInv, CompileIsRecorded, OneStageRuns, OverIsQuiet, Quiet
  <1> QED
    BY <1>1, <1>2, <1>3 DEF IInv

\* A step that changes nothing keeps it.
LEMMA StutterKeeps ==
    ASSUME IInv, UNCHANGED vars
    PROVE  IInv'
  <1>1. /\ UNCHANGED <<task, result, stage, lease, compile, wire, worker, ended, stalls>>
        /\ Keys' = Keys /\ TypeOK
    BY DEF vars, Keys, IInv
  <1>2. TypeOK'
    BY <1>1 DEF TypeOK
  <1>3. StagesInv'
    BY <1>1 DEF IInv, StagesInv, CompileIsRecorded, OneStageRuns, OverIsQuiet, Quiet
  <1>4. TasksKeep /\ CompilesKeep /\ \A v \in Workers : Spared(v)
    BY <1>1 DEF TasksKeep, CompilesKeep, Spared, TypeOK
  <1> QED
    BY <1>1, <1>2, <1>3, <1>4, StepKeeps

\* Every step keeps it.
LEMMA NextInv ==
    ASSUME IInv, [Next]_vars
    PROVE  IInv'
  <1>1. ASSUME NEW w \in Workers, Step(w) PROVE IInv'
    BY <1>1, EnterKeeps, AcquireKeeps, RecoverKeeps, DurableKeeps, FinishKeeps, ReadStageKeeps,
       AskedUpstreamKeeps, SaveRecordKeeps, SubmitPollKeeps, SettleKeeps, LeavingKeeps,
       ReleaseKeeps, WriteKeeps DEF Step
  <1>2. ASSUME NEW w \in Workers,
               \/ \E r \in Runs : Claim(w, r)
               \/ PipelineInvalid(w)
               \/ PulseFails(w) \/ WorkCancelled(w) \/ HeartbeatLost(w) \/ Error(w) \/ Crash(w)
        PROVE  IInv'
    BY <1>2, ClaimKeeps, DurableKeeps, LeavingKeeps, PulseFailsKeeps
  <1>3. ASSUME NEW r \in Runs, Accept(r) \/ RequestCancel(r) \/ Requeue(r) \/ TaskLeaseExpires(r)
        PROVE  IInv'
    BY <1>3, TaskActionsKeep
  <1>4. ASSUME NEW key \in Keys, CompileEnds(key) \/ LateSubmission(key) PROVE IInv'
    BY <1>4, UpstreamKeeps
  <1> QED
    BY <1>1, <1>2, <1>3, <1>4, ResourceLeaseKeeps, StutterKeeps DEF Next

\* IInv is an invariant of every behaviour.
LEMMA InvHolds == Spec => []IInv
  <1>1. Init => IInv
    BY InitInv
  <1>2. IInv /\ [Next]_vars => IInv'
    BY NextInv
  <1> QED
    BY <1>1, <1>2, PTL DEF Spec

\* Type correctness, for every number of runs, stages, workers and disturbances.
THEOREM TypeCorrect == Spec => []TypeOK
  <1>1. IInv => TypeOK
    BY DEF IInv
  <1> QED
    BY <1>1, InvHolds, PTL

\* The account has one Compile running upstream at most: a Compile runs only for a
\* stage that memory_stages says is running, and aggregate's check of the other
\* runs' tasks and stages lets one such stage through.
THEOREM OneCompile == Spec => []OneCompileAtATime
  <1>1. IInv => OneCompileAtATime
    BY DEF IInv, StagesInv, CompileIsRecorded, OneStageRuns, OneCompileAtATime
  <1> QED
    BY <1>1, InvHolds, PTL

\* A run that its handler ended has no Compile running upstream, and no lost
\* submission can start one: _write accepts an end only from an attempt that has
\* settled every stage it began or found begun.
THEOREM EndedQuiet == Spec => []EndedRunIsQuiet
  <1>1. ASSUME IInv PROVE EndedRunIsQuiet
    <2>1. \A key \in Keys : key[1] \in ended => stage[key].status # "running"
      BY <1>1 DEF IInv, StagesInv, OverIsQuiet, Quiet
    <2> QED
      BY <1>1, <2>1 DEF IInv, StagesInv, CompileIsRecorded, EndedRunIsQuiet
  <1> QED
    BY <1>1, InvHolds, PTL

\* What is saved of a stage: never less than was there.
Kept ==
    \A key \in Keys :
        /\ stage[key].upstream => stage'[key].upstream
        /\ stage[key].status = "succeeded" => stage'[key].status = "succeeded"

\* A step keeps the upstream ids and the stages that succeeded.
LEMMA StepKept ==
    ASSUME IInv, [Next]_vars
    PROVE  Kept
  <1>1. CASE UNCHANGED stage
    BY <1>1 DEF Kept
  <1>2. ASSUME NEW w \in Workers, worker[w].pc \in {"save", "record", "settle"}, Guard(w),
               NEW row \in StageRow, stage' = [stage EXCEPT ![Key(w)] = row],
               worker[w].pc # "save" => row.upstream
        PROVE  Kept
    <2>1. worker[w].pc \in InStage
      BY <1>2 DEF InStage
    <2>2. TypeOK /\ worker[w].pc # "idle" /\ Key(w) \in Keys
      BY <2>1, AtStage
    <2>3. Latest(w)
      BY <1>2, <2>2, GuardIsLatest
    <2>4. Entitled(w)
      BY <2>3 DEF IInv, AllEntitled
    <2>5. /\ stage[Key(w)].status # "succeeded"
          /\ worker[w].pc = "save" => ~stage[Key(w)].upstream
      BY <1>2, <2>4 DEF Entitled
    <2>6. stage'[Key(w)] = row /\ \A l \in Keys \ {Key(w)} : stage'[l] = stage[l]
      BY <1>2, <2>2 DEF TypeOK
    <2> QED
      BY <1>2, <2>5, <2>6 DEF Kept
  <1>3. ASSUME NEW w \in Workers, SaveRunning(w) PROVE Kept
    <2>1. CASE UNCHANGED stage
      BY <1>1, <2>1
    <2>2. CASE /\ Guard(w)
               /\ stage' = [stage EXCEPT ![Key(w)] = [status |-> "running", upstream |-> FALSE]]
      <3> DEFINE row == [status |-> "running", upstream |-> FALSE]
      <3>1. row \in StageRow
        BY DEF StageRow
      <3>2. stage' = [stage EXCEPT ![Key(w)] = row] /\ worker[w].pc = "save"
        BY <1>3, <2>2 DEF SaveRunning, At
      <3> HIDE DEF row
      <3> QED
        BY <1>2, <2>2, <3>1, <3>2
    <2> QED
      BY <1>3, <2>1, <2>2 DEF SaveRunning
  <1>4. ASSUME NEW w \in Workers, RecordUpstream(w) PROVE Kept
    <2>1. CASE UNCHANGED stage
      BY <1>1, <2>1
    <2>2. CASE /\ Guard(w)
               /\ stage' = [stage EXCEPT ![Key(w)] = [status |-> "running", upstream |-> TRUE]]
      <3> DEFINE row == [status |-> "running", upstream |-> TRUE]
      <3>1. row \in StageRow /\ row.upstream
        BY DEF StageRow
      <3>2. stage' = [stage EXCEPT ![Key(w)] = row] /\ worker[w].pc = "record"
        BY <1>4, <2>2 DEF RecordUpstream, At
      <3> HIDE DEF row
      <3> QED
        BY <1>2, <2>2, <3>1, <3>2
    <2> QED
      BY <1>4, <2>1, <2>2 DEF RecordUpstream
  <1>5. ASSUME NEW w \in Workers, Settle(w) PROVE Kept
    <2>1. CASE UNCHANGED stage
      BY <1>1, <2>1
    <2>2. CASE Guard(w)
      <3> DEFINE state == worker[w].state
                 good  == state = "succeeded" /\ ~worker[w].asked
                 saved == IF good /\ Asked(w) THEN "cancelled" ELSE state
                 row   == [status |-> saved, upstream |-> TRUE]
      <3>1. worker[w].pc = "settle"
        BY <1>5 DEF Settle, At
      <3>2. state \in CompileEnd
        BY <3>1 DEF IInv, AllKnown, Known
      <3>3. saved \in CompileEnd
        BY <3>2 DEF CompileEnd
      <3>4. row \in StageRow /\ row.upstream
        BY <3>3 DEF StageRow
      <3>5. stage' = [stage EXCEPT ![Key(w)] = row]
        BY <1>5, <2>2 DEF Settle
      <3> HIDE DEF row
      <3> QED
        BY <1>2, <2>2, <3>1, <3>4, <3>5
    <2> QED
      BY <1>5, <2>1, <2>2 DEF Settle
  <1>6. ASSUME NEW w \in Workers, Step(w) PROVE Kept
    BY <1>1, <1>3, <1>4, <1>5, <1>6 DEF Step, Enter, Acquire, Recover, Durable, Finish, ReadStage,
       Query, Submit, Poll, PollStatus, Except, Release, Write
  <1>7. ASSUME NEW w \in Workers,
               \/ \E r \in Runs : Claim(w, r)
               \/ PipelineInvalid(w)
               \/ PulseFails(w) \/ WorkCancelled(w) \/ HeartbeatLost(w) \/ Error(w) \/ Crash(w)
        PROVE  Kept
    BY <1>1, <1>7 DEF Claim, PipelineInvalid, PulseFails, WorkCancelled, HeartbeatLost, Error,
                         Crash
  <1>8. ASSUME NEW r \in Runs, Accept(r) \/ RequestCancel(r) \/ Requeue(r) \/ TaskLeaseExpires(r)
        PROVE  Kept
    BY <1>1, <1>8 DEF Accept, RequestCancel, Requeue, TaskLeaseExpires
  <1>9. ASSUME NEW key \in Keys, CompileEnds(key) \/ LateSubmission(key) PROVE Kept
    BY <1>1, <1>9 DEF CompileEnds, LateSubmission
  <1>10. CASE ResourceLeaseExpires \/ UNCHANGED vars
    BY <1>1, <1>10 DEF ResourceLeaseExpires, vars
  <1> QED
    BY <1>6, <1>7, <1>8, <1>9, <1>10 DEF Next

\* An attempt that read a stage before another one recorded it cannot write over
\* it: recorded upstream ids and stages that succeeded stay.
THEOREM Checkpoints == Spec => CheckpointsKept
  <1>1. IInv /\ [Next]_vars => [Kept]_vars
    BY StepKept
  <1>2. Spec => [][Kept]_vars
    BY <1>1, InvHolds, PTL DEF Spec
  <1> QED
    BY <1>2 DEF CheckpointsKept, Kept

=============================================================================
