----------------------- MODULE SessionIngestionProofs -----------------------
(***************************************************************************)
(* Proofs about SessionIngestion for every set of workers and plans and    *)
(* every bound on faults.                                                  *)
(***************************************************************************)
EXTENDS SessionIngestion, TLAPS

USE PlansAssumption

-----------------------------------------------------------------------------
(* The inductive invariant *)

\* The state apart from the workers is well typed.
DataOK ==
    /\ raw \in {"valid", "empty"}
    /\ status \in {"absent", "accepted", "processing", "archived", "skipped", "failed"}
    /\ stage \in [Stages -> {"none", "pending", "succeeded", "failed"}]
    /\ plan \in Plans \cup {NoPlan}
    /\ report \in Analyses
    /\ row \in [Kinds -> TaskRow]
    /\ child \in [Children -> {"absent", "live", "done"}]
    /\ blob \in [Children -> Segments \cup {NoSegment}]
    /\ session \in Analyses
    /\ spent \in [FaultKinds -> Nat]
    /\ \A f \in FaultKinds : spent[f] <= MaxFaults[f]

\* The places in session.split that work from a plan.
WithPlan == {"checkpoint", "single", "put", "accept", "fanned", "fanfail"}

\* Where worker w is fits the kind of its task and what it has in hand.
Placed(w) ==
    /\ worker[w].pc \in WithPlan \cup {"ask"} => worker[w].kind = "split"
    /\ worker[w].pc = "trace" => worker[w].kind = "analyze"
    /\ worker[w].pc = "advance" => worker[w].kind # "archive"
    /\ worker[w].pc \in WithPlan \cup {"trace"} => worker[w].plan \in Plans
    /\ worker[w].pc = "single" => Len(worker[w].plan) = 1
    /\ worker[w].pc \in {"put", "accept", "fanned"} => Len(worker[w].plan) > 1
    /\ worker[w].pc \in {"incomplete", "compose", "file"} => worker[w].kind = "archive"
    /\ worker[w].next >= 1
    /\ worker[w].pc \in {"start", "ask", "checkpoint"} => worker[w].next = 1
    /\ worker[w].pc \in {"put", "accept"} => worker[w].next <= Len(worker[w].plan)

\* The children before the one at hand are accepted with their segments.
Progress(w) ==
    /\ worker[w].pc \in {"put", "accept"} =>
          \A i \in 1..(worker[w].next - 1) : child[i] # "absent" /\ blob[i] = worker[w].plan[i]
    /\ worker[w].pc = "accept" => blob[worker[w].next] = worker[w].plan[worker[w].next]
    /\ worker[w].pc = "fanned" => AllAccepted(worker[w].plan)

IInv ==
    /\ DataOK
    /\ worker \in [Workers -> Handler]
    /\ \A w \in Workers : Placed(w)
    /\ \A w \in Workers : Progress(w)
    /\ FanOutComplete

-----------------------------------------------------------------------------
(* Lemmas *)

\* The segments of a plan, and its children's places.
LEMMA PlanFacts ==
    ASSUME NEW p \in Plans
    PROVE  /\ Len(p) \in Nat \ {0}
           /\ \A i \in 1..Len(p) : i \in Children /\ p[i] \in Segments /\ p[i] # NoSegment
  <1>1. p \in Seq(Segments) /\ p # << >>
    OBVIOUS
  <1>2. Len(p) \in Nat \ {0}
    BY <1>1
  <1>3. \A i \in 1..Len(p) : p[i] \in Segments
    BY <1>1
  <1>4. \A i \in 1..Len(p) : i \in Children
    BY DEF Children
  <1> QED
    BY <1>2, <1>3, <1>4

\* Children are not taken back, and stored payloads do not change.
FamilyKeeps ==
    \A i \in Children :
        /\ child[i] # "absent" => child'[i] # "absent"
        /\ blob[i] # NoSegment => blob'[i] = blob[i]

\* What was handed over stays so.
LEMMA AcceptedStays ==
    ASSUME FamilyKeeps, NEW p \in Plans, NEW i \in 1..Len(p)
    PROVE  /\ child[i] # "absent" => child'[i] # "absent"
           /\ blob[i] = p[i] => blob'[i] = p[i]
  BY PlanFacts DEF FamilyKeeps

\* Worker w moves, and the others do not.
Moves(w) ==
    /\ worker' \in [Workers -> Handler]
    /\ \A v \in Workers \ {w} : worker'[v] = worker[v]

\* The split row stays, is not recorded as done, or is so rightly.
SplitKeeps ==
    \/ (stage'["split"] = stage["split"] /\ plan' = plan)
    \/ stage'["split"] # "succeeded"
    \/ ~(Len(plan') > 1)
    \/ \A i \in 1..Len(plan') : child'[i] # "absent" /\ blob'[i] = plan'[i]

\* A worker that rests keeps its place and its progress.
LEMMA RestingKeeps ==
    ASSUME IInv, FamilyKeeps, NEW v \in Workers, worker'[v] = worker[v]
    PROVE  Placed(v)' /\ Progress(v)'
  <1>1. Placed(v) /\ Progress(v) /\ worker[v] \in Handler
    BY DEF IInv
  <1>2. Placed(v)'
    BY <1>1 DEF Placed
  <1>3. worker[v].next \in Nat
    BY <1>1 DEF Handler
  <1>4. ASSUME worker[v].pc \in {"put", "accept"}
        PROVE  \A i \in 1..(worker[v].next - 1) : child'[i] # "absent" /\ blob'[i] = worker[v].plan[i]
    <2>1. worker[v].plan \in Plans /\ worker[v].next <= Len(worker[v].plan)
      BY <1>1, <1>4 DEF Placed, WithPlan
    <2>2. \A i \in 1..(worker[v].next - 1) : i \in 1..Len(worker[v].plan)
      BY <1>3, <2>1, PlanFacts
    <2> QED
      BY <1>1, <1>4, <2>1, <2>2, AcceptedStays DEF Progress
  <1>5. ASSUME worker[v].pc = "accept"
        PROVE  blob'[worker[v].next] = worker[v].plan[worker[v].next]
    <2>1. /\ worker[v].plan \in Plans /\ worker[v].next <= Len(worker[v].plan)
          /\ worker[v].next >= 1
      BY <1>1, <1>5 DEF Placed, WithPlan
    <2>2. worker[v].next \in 1..Len(worker[v].plan)
      BY <1>3, <2>1, PlanFacts
    <2> QED
      BY <1>1, <1>5, <2>1, <2>2, AcceptedStays DEF Progress
  <1>6. ASSUME worker[v].pc = "fanned" PROVE AllAccepted(worker[v].plan)'
    <2>1. worker[v].plan \in Plans /\ AllAccepted(worker[v].plan)
      BY <1>1, <1>6 DEF Placed, Progress, WithPlan
    <2> QED
      BY <2>1, AcceptedStays DEF AllAccepted
  <1> QED
    BY <1>2, <1>4, <1>5, <1>6 DEF Progress

\* The split row keeps what it says.
LEMMA FanOutKept ==
    ASSUME IInv, FamilyKeeps, SplitKeeps
    PROVE  FanOutComplete'
  <1>1. CASE stage'["split"] = stage["split"] /\ plan' = plan
    <2>1. ASSUME stage["split"] = "succeeded", Len(plan) > 1
          PROVE  \A i \in 1..Len(plan) : child'[i] # "absent" /\ blob'[i] = plan[i]
      <3>1. AllAccepted(plan)
        BY <2>1 DEF IInv, FanOutComplete
      <3>2. plan \in Plans
        BY <2>1 DEF IInv, DataOK, NoPlan
      <3> QED
        BY <3>1, <3>2, AcceptedStays DEF AllAccepted
    <2> QED
      BY <1>1, <2>1 DEF FanOutComplete, AllAccepted
  <1>2. CASE stage'["split"] # "succeeded"
    BY <1>2 DEF FanOutComplete
  <1>3. CASE ~(Len(plan') > 1)
    BY <1>3 DEF FanOutComplete
  <1>4. CASE \A i \in 1..Len(plan') : child'[i] # "absent" /\ blob'[i] = plan'[i]
    BY <1>4 DEF FanOutComplete, AllAccepted
  <1> QED
    BY <1>1, <1>2, <1>3, <1>4 DEF SplitKeeps

-----------------------------------------------------------------------------
(* What a worker does next *)

Places == {"idle", "start", "advance", "ask", "checkpoint", "single", "put", "accept",
           "fanned", "fanfail", "trace", "incomplete", "compose", "file", "write"}

\* A worker goes to another place of its handler and keeps what it has in hand.
LEMMA GotoMoves ==
    ASSUME worker \in [Workers -> Handler], NEW w \in Workers, NEW pc \in Places, Goto(w, pc)
    PROVE  /\ Moves(w)
           /\ worker'[w] = [worker[w] EXCEPT !.pc = pc]
           /\ worker'[w].pc = pc
           /\ worker'[w].kind = worker[w].kind
           /\ worker'[w].plan = worker[w].plan
           /\ worker'[w].next = worker[w].next
           /\ worker'[w].try = worker[w].try
  <1> DEFINE new == [worker[w] EXCEPT !.pc = pc]
  <1>1. /\ new \in Handler
        /\ new.pc = pc /\ new.kind = worker[w].kind
        /\ new.plan = worker[w].plan /\ new.next = worker[w].next
        /\ new.try = worker[w].try
    BY DEF Handler, Places
  <1>2. worker' = [worker EXCEPT ![w] = new]
    BY DEF Goto
  <1> HIDE DEF new
  <1>3. worker'[w] = new /\ Moves(w)
    BY <1>1, <1>2 DEF Moves
  <1> QED
    BY <1>1, <1>3 DEF new

\* A worker hands its outcome to the worker loop.
LEMMA ReturnMoves ==
    ASSUME worker \in [Workers -> Handler], NEW w \in Workers,
           NEW outcome \in {"succeed", "retry", "fail"}, Return(w, outcome)
    PROVE  /\ Moves(w) /\ worker'[w].pc = "write" /\ worker'[w].next = 1
           /\ worker'[w].kind = worker[w].kind /\ worker'[w].try = worker[w].try
           /\ worker'[w].outcome = outcome
  <1> DEFINE new == [Idle EXCEPT !.pc = "write", !.kind = worker[w].kind,
                                 !.try = worker[w].try, !.outcome = outcome]
  <1>1. /\ new \in Handler /\ new.pc = "write" /\ new.next = 1
        /\ new.kind = worker[w].kind /\ new.try = worker[w].try /\ new.outcome = outcome
    BY DEF Handler, Idle, Analyses, NoPlan
  <1>2. worker' = [worker EXCEPT ![w] = new]
    BY DEF Return
  <1> HIDE DEF new
  <1> QED
    BY <1>1, <1>2 DEF Moves

\* A worker that has nothing to do.
LEMMA IdleMoves ==
    ASSUME worker \in [Workers -> Handler], NEW w \in Workers,
           worker' = [worker EXCEPT ![w] = Idle]
    PROVE  Moves(w) /\ worker'[w].pc = "idle" /\ worker'[w].next = 1
  <1>1. Idle \in Handler /\ Idle.pc = "idle" /\ Idle.next = 1
    BY DEF Handler, Idle, Analyses, NoPlan, Kinds
  <1> QED
    BY <1>1 DEF Moves

\* Outside session.split's plan work a place asks for little.
LEMMA OutsideSplit ==
    ASSUME NEW w \in Workers, worker'[w].next >= 1,
           worker'[w].pc \in {"start", "ask"} => worker'[w].next = 1,
           \/ worker'[w].pc \in {"idle", "start", "write"}
           \/ /\ worker'[w].pc \in {"incomplete", "compose", "file"}
              /\ worker'[w].kind = "archive"
           \/ worker'[w].pc = "ask" /\ worker'[w].kind = "split"
           \/ worker'[w].pc = "advance" /\ worker'[w].kind # "archive"
           \/ /\ worker'[w].pc = "trace" /\ worker'[w].kind = "analyze"
              /\ worker'[w].plan \in Plans
    PROVE  Placed(w)' /\ Progress(w)'
  BY DEF Placed, Progress, WithPlan

\* A plan in hand with no child handed over yet.
LEMMA PlanInHand ==
    ASSUME NEW w \in Workers, worker'[w].next >= 1, worker'[w].kind = "split",
           worker'[w].plan \in Plans,
           \/ worker'[w].pc = "checkpoint" /\ worker'[w].next = 1
           \/ worker'[w].pc = "fanfail"
           \/ worker'[w].pc = "single" /\ Len(worker'[w].plan) = 1
    PROVE  Placed(w)' /\ Progress(w)'
  BY DEF Placed, Progress, WithPlan

\* The parts of a step of one worker.
LEMMA OneWorkerSteps ==
    ASSUME IInv, NEW w \in Workers, Moves(w), DataOK', FamilyKeeps, SplitKeeps,
           Placed(w)', Progress(w)'
    PROVE  IInv'
  <1>1. \A v \in Workers \ {w} : Placed(v)' /\ Progress(v)'
    BY RestingKeeps DEF Moves
  <1>2. FanOutComplete'
    BY FanOutKept
  <1> QED
    BY <1>1, <1>2 DEF IInv, Moves

\* The parts of a step in which no worker moves.
LEMMA NoWorkerSteps ==
    ASSUME IInv, UNCHANGED worker, DataOK', FamilyKeeps, SplitKeeps
    PROVE  IInv'
  <1>1. \A v \in Workers : Placed(v)' /\ Progress(v)'
    BY RestingKeeps
  <1>2. FanOutComplete'
    BY FanOutKept
  <1> QED
    BY <1>1, <1>2 DEF IInv

\* A step that leaves children and split row alone.
LEMMA Elsewhere ==
    ASSUME UNCHANGED family, UNCHANGED <<stage, plan>>
    PROVE  FamilyKeeps /\ SplitKeeps
  BY DEF family, FamilyKeeps, SplitKeeps

\* A step that leaves children and plan alone and records another stage.
LEMMA OtherStage ==
    ASSUME DataOK, UNCHANGED family, UNCHANGED plan, NEW s \in Stages \ {"split"}, NEW st,
           stage' = [stage EXCEPT ![s] = st]
    PROVE  FamilyKeeps /\ SplitKeeps
  BY DEF family, FamilyKeeps, SplitKeeps, DataOK, Stages

\* A fault is counted within its bound.
LEMMA FaultCounted ==
    ASSUME DataOK, NEW f \in FaultKinds, Fault(f)
    PROVE  spent' \in [FaultKinds -> Nat] /\ \A g \in FaultKinds : spent'[g] <= MaxFaults[g]
  <1>1. spent \in [FaultKinds -> Nat] /\ spent[f] \in Nat /\ MaxFaults[f] \in Nat
    BY DEF DataOK
  <1>2. spent[f] + 1 \in Nat /\ spent[f] + 1 <= MaxFaults[f]
    BY <1>1 DEF Fault
  <1>3. spent' = [spent EXCEPT ![f] = spent[f] + 1]
    BY DEF Fault
  <1>4. \A g \in FaultKinds : spent[g] <= MaxFaults[g]
    BY DEF DataOK
  <1> QED
    BY <1>1, <1>2, <1>3, <1>4

-----------------------------------------------------------------------------
(* Where the other moves lead *)

\* What every handler step starts from.
LEMMA HandlerFacts ==
    ASSUME IInv, NEW w \in Workers
    PROVE  /\ worker \in [Workers -> Handler]
           /\ worker[w] \in Handler
           /\ worker[w].kind \in Kinds
           /\ worker[w].next \in Nat
           /\ worker[w].next >= 1
           /\ Placed(w)
           /\ Progress(w)
  <1>1. worker[w] \in Handler /\ Placed(w) /\ Progress(w)
    BY DEF IInv
  <1>2. worker[w].kind \in Kinds
    BY <1>1 DEF Handler
  <1>3. worker[w].next \in Nat
    BY <1>1 DEF Handler
  <1> QED
    BY <1>1, <1>2, <1>3 DEF IInv, Placed

\* A plan is reused, or the model will be asked.
LEMMA LoadPlanMoves ==
    ASSUME IInv, NEW w \in Workers, LoadPlan(w)
    PROVE  /\ Moves(w) /\ worker'[w].kind = worker[w].kind
           /\ worker'[w].try = worker[w].try /\ worker'[w].next = worker[w].next
           /\ \/ /\ plan \in Plans /\ worker'[w].plan = plan
                 /\ worker'[w].pc = OnPlan(plan)
              \/ plan = NoPlan /\ worker'[w].pc = "ask"
  <1>1. worker \in [Workers -> Handler] /\ worker[w] \in Handler
    BY HandlerFacts
  <1>2. CASE Checkpointed
    <2> DEFINE new == [worker[w] EXCEPT !.plan = plan, !.pc = OnPlan(plan)]
    <2>1. plan \in Plans
      BY <1>2 DEF Checkpointed, IInv, DataOK
    <2>2. OnPlan(plan) \in {"single", "put"}
      BY DEF OnPlan
    <2>3. /\ new \in Handler /\ new.kind = worker[w].kind /\ new.next = worker[w].next
          /\ new.try = worker[w].try /\ new.plan = plan /\ new.pc = OnPlan(plan)
      BY <1>1, <2>1, <2>2 DEF Handler
    <2>4. worker' = [worker EXCEPT ![w] = new]
      BY <1>2 DEF LoadPlan
    <2> HIDE DEF new
    <2>5. worker'[w] = new /\ Moves(w)
      BY <1>1, <2>3, <2>4 DEF Moves
    <2> QED
      BY <2>1, <2>3, <2>5
  <1>3. CASE ~Checkpointed
    <2>1. Goto(w, "ask") /\ plan = NoPlan
      BY <1>1, <1>3 DEF LoadPlan, Goto, Checkpointed
    <2> QED
      BY <1>1, <2>1, GotoMoves DEF Places
  <1> QED
    BY <1>2, <1>3

\* The model answers with a plan.
LEMMA AskModelMoves ==
    ASSUME IInv, NEW w \in Workers, AskModel(w)
    PROVE  /\ Moves(w) /\ worker'[w].kind = worker[w].kind
           /\ worker'[w].try = worker[w].try /\ worker'[w].next = worker[w].next
           /\ worker'[w].plan \in Plans /\ worker'[w].pc = "checkpoint"
  <1>1. worker \in [Workers -> Handler] /\ worker[w] \in Handler
    BY HandlerFacts
  <1>2. PICK p \in Plans :
          worker' = [worker EXCEPT ![w] = [worker[w] EXCEPT !.plan = p, !.pc = "checkpoint"]]
    BY DEF AskModel
  <1> DEFINE new == [worker[w] EXCEPT !.plan = p, !.pc = "checkpoint"]
  <1>3. /\ new \in Handler /\ new.kind = worker[w].kind /\ new.next = worker[w].next
        /\ new.try = worker[w].try /\ new.plan = p /\ new.pc = "checkpoint"
    BY <1>1 DEF Handler
  <1> HIDE DEF new
  <1>4. worker'[w] = new /\ Moves(w)
    BY <1>1, <1>2, <1>3 DEF Moves, new
  <1> QED
    BY <1>3, <1>4

\* The fan-out goes on to the next segment.
LEMMA NextSegmentMoves ==
    ASSUME IInv, NEW w \in Workers, NEW m \in Nat,
           worker' = [worker EXCEPT ![w] = [worker[w] EXCEPT !.pc = "put", !.next = m]]
    PROVE  /\ Moves(w) /\ worker'[w].kind = worker[w].kind
           /\ worker'[w].try = worker[w].try /\ worker'[w].next = m
           /\ worker'[w].plan = worker[w].plan /\ worker'[w].pc = "put"
  <1>1. worker \in [Workers -> Handler] /\ worker[w] \in Handler
    BY HandlerFacts
  <1> DEFINE new == [worker[w] EXCEPT !.pc = "put", !.next = m]
  <1>2. /\ new \in Handler /\ new.pc = "put" /\ new.kind = worker[w].kind
        /\ new.try = worker[w].try /\ new.plan = worker[w].plan /\ new.next = m
    BY <1>1 DEF Handler
  <1> HIDE DEF new
  <1>3. worker'[w] = new /\ Moves(w)
    BY <1>1, <1>2 DEF Moves, new
  <1> QED
    BY <1>2, <1>3

\* The single segment goes to the trace analysis.
LEMMA AnalyzeMoves ==
    ASSUME IInv, NEW w \in Workers, Analyze(w)
    PROVE  /\ Moves(w) /\ worker'[w].kind = worker[w].kind
           /\ worker'[w].try = worker[w].try /\ worker'[w].next = worker[w].next
           /\ plan \in Plans /\ worker'[w].plan = plan /\ worker'[w].pc = "trace"
  <1>1. worker \in [Workers -> Handler] /\ worker[w] \in Handler
    BY HandlerFacts
  <1>2. plan \in Plans
    <2>1. Len(plan) = 1 /\ plan \in Plans \cup {NoPlan}
      BY DEF Analyze, SplitIsSingle, IInv, DataOK
    <2>2. Len(NoPlan) = 0
      BY DEF NoPlan
    <2> QED
      BY <2>1, <2>2
  <1> DEFINE new == [worker[w] EXCEPT !.plan = plan, !.pc = "trace"]
  <1>3. /\ new \in Handler /\ new.kind = worker[w].kind /\ new.next = worker[w].next
        /\ new.try = worker[w].try /\ new.plan = plan /\ new.pc = "trace"
    BY <1>1, <1>2 DEF Handler
  <1>4. worker' = [worker EXCEPT ![w] = new]
    BY DEF Analyze
  <1> HIDE DEF new
  <1>5. worker'[w] = new /\ Moves(w)
    BY <1>1, <1>3, <1>4 DEF Moves
  <1> QED
    BY <1>2, <1>3, <1>5

\* The Session is composed from the report.
LEMMA ComposeMoves ==
    ASSUME IInv, NEW w \in Workers, Compose(w)
    PROVE  /\ Moves(w) /\ worker'[w].kind = worker[w].kind
           /\ worker'[w].try = worker[w].try /\ worker'[w].next = worker[w].next
           /\ worker'[w].found = report /\ worker'[w].pc = "file"
  <1>1. worker \in [Workers -> Handler] /\ worker[w] \in Handler
    BY HandlerFacts
  <1>2. report \in Analyses
    BY DEF IInv, DataOK
  <1> DEFINE new == [worker[w] EXCEPT !.found = report, !.pc = "file"]
  <1>3. /\ new \in Handler /\ new.next = worker[w].next /\ new.pc = "file"
        /\ new.try = worker[w].try /\ new.kind = worker[w].kind /\ new.found = report
    BY <1>1, <1>2 DEF Handler
  <1>4. worker' = [worker EXCEPT ![w] = new]
    BY DEF Compose
  <1> HIDE DEF new
  <1>5. worker'[w] = new /\ Moves(w)
    BY <1>1, <1>3, <1>4 DEF Moves
  <1> QED
    BY <1>3, <1>5

\* A claim starts an attempt with the row's new number.
LEMMA ClaimMoves ==
    ASSUME IInv, NEW w \in Workers, NEW k \in Kinds, Claim(w, k)
    PROVE  /\ Moves(w) /\ worker'[w].pc = "start" /\ worker'[w].next = 1
           /\ worker'[w].kind = k /\ worker'[w].try = row[k].try + 1
  <1>1. row[k].try \in Nat
    BY DEF IInv, DataOK, TaskRow
  <1> DEFINE try == row[k].try + 1
             new == [Idle EXCEPT !.pc = "start", !.kind = k, !.try = try]
  <1>2. try \in Nat
    BY <1>1
  <1>3. worker' = [worker EXCEPT ![w] = new]
    BY DEF Claim
  <1> HIDE DEF try
  <1>4. /\ new \in Handler /\ new.pc = "start" /\ new.next = 1
        /\ new.kind = k /\ new.try = try
    BY <1>2 DEF Handler, Idle, Analyses, NoPlan
  <1> HIDE DEF new
  <1>5. worker'[w] = new /\ Moves(w)
    BY <1>3, <1>4 DEF Moves, IInv
  <1> QED
    BY <1>4, <1>5 DEF try

-----------------------------------------------------------------------------
(* The queue's actions *)

\* A row that is put back or ended, or whose lease runs out, stays a row.
LEMMA RowFacts ==
    ASSUME NEW r \in TaskRow
    PROVE  /\ [r EXCEPT !.st = "queued"] \in TaskRow
           /\ [r EXCEPT !.st = "succeeded"] \in TaskRow
           /\ [r EXCEPT !.st = "failed"] \in TaskRow
           /\ [r EXCEPT !.lapsed = TRUE] \in TaskRow
           /\ [r EXCEPT !.st = "queued", !.lapsed = FALSE] \in TaskRow
           /\ r.try \in Nat
           /\ [st |-> "running", try |-> r.try + 1, lapsed |-> FALSE] \in TaskRow
  <1>1. /\ [r EXCEPT !.st = "queued"] \in TaskRow
        /\ [r EXCEPT !.st = "succeeded"] \in TaskRow
        /\ [r EXCEPT !.st = "failed"] \in TaskRow
    BY DEF TaskRow
  <1>2. /\ [r EXCEPT !.lapsed = TRUE] \in TaskRow
        /\ [r EXCEPT !.st = "queued", !.lapsed = FALSE] \in TaskRow
    BY DEF TaskRow
  <1>3. r.try \in Nat
    BY DEF TaskRow
  <1>4. r.try + 1 \in Nat
    BY <1>3
  <1>5. ASSUME NEW n \in Nat PROVE [st |-> "running", try |-> n, lapsed |-> FALSE] \in TaskRow
    BY DEF TaskRow
  <1> QED
    BY <1>1, <1>2, <1>3, <1>4, <1>5

\* _accept touches the rows and the status.
LEMMA AcceptStep ==
    ASSUME IInv, Accept
    PROVE  IInv'
  <1>1. row \in [Kinds -> TaskRow] /\ "normalize" \in Kinds
    BY DEF IInv, DataOK, Kinds
  <1>2. [row["normalize"] EXCEPT !.st = "queued"] \in TaskRow
    BY <1>1, RowFacts
  <1>3. row' \in [Kinds -> TaskRow]
    BY <1>1, <1>2 DEF Accept
  <1>4. DataOK'
    BY <1>3 DEF IInv, DataOK, Accept, family
  <1> QED
    BY <1>4, Elsewhere, NoWorkerSteps DEF Accept

\* claim starts an attempt of a queued or lapsed row.
LEMMA ClaimStep ==
    ASSUME IInv, NEW w \in Workers, NEW k \in Kinds, Claim(w, k)
    PROVE  IInv'
  <1>1. row \in [Kinds -> TaskRow] /\ row[k].try \in Nat
    BY RowFacts DEF IInv, DataOK
  <1>2. row' \in [Kinds -> TaskRow]
    BY <1>1, RowFacts DEF Claim
  <1>3. DataOK'
    BY <1>2 DEF IInv, DataOK, Claim, ledger, family
  <1>4. Moves(w) /\ worker'[w].pc = "start" /\ worker'[w].next = 1
    BY ClaimMoves
  <1>5. Placed(w)' /\ Progress(w)'
    BY <1>4, OutsideSplit
  <1>6. UNCHANGED family /\ UNCHANGED <<stage, plan>>
    BY DEF Claim, ledger
  <1> QED
    BY <1>3, <1>4, <1>5, <1>6, Elsewhere, OneWorkerSteps

\* A step of one worker that touches only rows, counters and that worker, and
\* leaves session.split's places.
LEMMA QueueStep ==
    ASSUME IInv, NEW w \in Workers, UNCHANGED <<raw, ledger, family, session>>,
           row' \in [Kinds -> TaskRow],
           spent' \in [FaultKinds -> Nat], \A g \in FaultKinds : spent'[g] <= MaxFaults[g],
           Moves(w), worker'[w].pc \in {"idle", "write"}, worker'[w].next = 1
    PROVE  IInv'
  <1>1. DataOK'
    BY DEF IInv, DataOK, ledger, family
  <1>2. Placed(w)' /\ Progress(w)'
    BY OutsideSplit
  <1>3. UNCHANGED family /\ UNCHANGED <<stage, plan>>
    BY DEF ledger
  <1> QED
    BY <1>1, <1>2, <1>3, Elsewhere, OneWorkerSteps

\* What a fault-free step keeps of the counters.
LEMMA SpentKept ==
    ASSUME IInv, UNCHANGED spent
    PROVE  spent' \in [FaultKinds -> Nat] /\ \A g \in FaultKinds : spent'[g] <= MaxFaults[g]
  BY DEF IInv, DataOK

\* The fenced result write.
LEMMA WriteStep ==
    ASSUME IInv, NEW w \in Workers, Write(w)
    PROVE  IInv'
  <1>1. worker \in [Workers -> Handler] /\ worker[w].kind \in Kinds
    BY DEF IInv, Handler
  <1>2. row \in [Kinds -> TaskRow]
    BY DEF IInv, DataOK
  <1>3. Settled(row[worker[w].kind], worker[w].outcome) \in TaskRow
    BY <1>1, <1>2, RowFacts DEF Settled
  <1>4. row' \in [Kinds -> TaskRow]
    BY <1>1, <1>2, <1>3 DEF Write
  <1>5. worker' = [worker EXCEPT ![w] = Idle] /\ UNCHANGED <<raw, ledger, family, session>>
    BY DEF Write
  <1>6. UNCHANGED spent
    BY DEF Write
  <1> QED
    BY <1>1, <1>4, <1>5, <1>6, IdleMoves, QueueStep, SpentKept

\* A lapsed lease of the row a worker is on.
LEMMA LapsedRow ==
    ASSUME IInv, NEW w \in Workers
    PROVE  [row EXCEPT ![worker[w].kind].lapsed = TRUE] \in [Kinds -> TaskRow]
  <1>1. worker[w].kind \in Kinds /\ row \in [Kinds -> TaskRow]
    BY DEF IInv, DataOK, Handler
  <1>2. [row[worker[w].kind] EXCEPT !.lapsed = TRUE] \in TaskRow
    BY <1>1, RowFacts
  <1> QED
    BY <1>1, <1>2

\* A process dies.
LEMMA CrashStep ==
    ASSUME IInv, NEW w \in Workers, Crash(w)
    PROVE  IInv'
  <1>1. row' \in [Kinds -> TaskRow]
    BY LapsedRow DEF Crash, IInv, DataOK
  <1>2. spent' \in [FaultKinds -> Nat] /\ \A g \in FaultKinds : spent'[g] <= MaxFaults[g]
    BY FaultCounted DEF Crash, IInv, FaultKinds
  <1>3. worker' = [worker EXCEPT ![w] = Idle] /\ UNCHANGED <<raw, ledger, family, session>>
    BY DEF Crash
  <1>4. worker \in [Workers -> Handler]
    BY DEF IInv
  <1> QED
    BY <1>1, <1>2, <1>3, <1>4, IdleMoves, QueueStep

\* A lost lease is noticed.
LEMMA DroppedStep ==
    ASSUME IInv, NEW w \in Workers, Dropped(w)
    PROVE  IInv'
  <1>1. row' \in [Kinds -> TaskRow]
    BY DEF Dropped, IInv, DataOK
  <1>2. worker' = [worker EXCEPT ![w] = Idle] /\ UNCHANGED <<raw, ledger, family, session>>
    BY DEF Dropped
  <1>3. worker \in [Workers -> Handler] /\ UNCHANGED spent
    BY DEF IInv, Dropped
  <1> QED
    BY <1>1, <1>2, <1>3, IdleMoves, QueueStep, SpentKept

\* An exception leaves the handler.
LEMMA RaisesStep ==
    ASSUME IInv, NEW w \in Workers, Raises(w)
    PROVE  IInv'
  <1>1. row' \in [Kinds -> TaskRow]
    BY DEF Raises, IInv, DataOK
  <1>2. spent' \in [FaultKinds -> Nat] /\ \A g \in FaultKinds : spent'[g] <= MaxFaults[g]
    BY FaultCounted DEF Raises, IInv, FaultKinds
  <1>3. Return(w, "retry") /\ UNCHANGED <<raw, ledger, family, session>>
    BY DEF Raises
  <1>4. worker \in [Workers -> Handler]
    BY DEF IInv
  <1> QED
    BY <1>1, <1>2, <1>3, <1>4, ReturnMoves, QueueStep

\* The follow-up is enqueued.
LEMMA AdvanceStep ==
    ASSUME IInv, NEW w \in Workers, Advance(w)
    PROVE  IInv'
  <1>1. worker \in [Workers -> Handler] /\ row \in [Kinds -> TaskRow]
    BY DEF IInv, DataOK
  <1>2. worker[w].kind \in Kinds /\ worker[w].kind # "archive"
    BY <1>1 DEF Advance, IInv, Placed, Handler
  <1>3. NextKind[worker[w].kind] \in Kinds
    BY <1>2 DEF NextKind, Kinds
  <1>4. [row[NextKind[worker[w].kind]] EXCEPT !.st = "queued"] \in TaskRow
    BY <1>1, <1>3, RowFacts
  <1>5. [row EXCEPT ![NextKind[worker[w].kind]].st = "queued"] \in [Kinds -> TaskRow]
    BY <1>1, <1>3, <1>4
  <1>6. row' \in [Kinds -> TaskRow]
    BY <1>1, <1>5 DEF Advance
  <1>7. Return(w, "succeed") \/ Return(w, "retry")
    BY DEF Advance
  <1>8. Moves(w) /\ worker'[w].pc = "write" /\ worker'[w].next = 1
    BY <1>1, <1>7, ReturnMoves
  <1>9. UNCHANGED <<raw, ledger, family, session>> /\ UNCHANGED spent
    BY DEF Advance
  <1> QED
    BY <1>6, <1>8, <1>9, QueueStep, SpentKept

\* A step that only changes rows and counters.
LEMMA RowStep ==
    ASSUME IInv, UNCHANGED <<raw, ledger, worker, family, session>>,
           row' \in [Kinds -> TaskRow],
           spent' \in [FaultKinds -> Nat], \A g \in FaultKinds : spent'[g] <= MaxFaults[g]
    PROVE  IInv'
  <1>1. DataOK'
    BY DEF IInv, DataOK, ledger, family
  <1>2. UNCHANGED family /\ UNCHANGED <<stage, plan>>
    BY DEF ledger
  <1> QED
    BY <1>1, <1>2, Elsewhere, NoWorkerSteps

\* A process is suspended.
LEMMA StallStep ==
    ASSUME IInv, NEW w \in Workers, Stall(w)
    PROVE  IInv'
  <1>1. row' \in [Kinds -> TaskRow]
    BY LapsedRow DEF Stall
  <1>2. spent' \in [FaultKinds -> Nat] /\ \A g \in FaultKinds : spent'[g] <= MaxFaults[g]
    BY FaultCounted DEF Stall, IInv, FaultKinds
  <1> QED
    BY <1>1, <1>2, RowStep DEF Stall

\* A failed task is put back.
LEMMA RequeueStep ==
    ASSUME IInv, NEW k \in Kinds, Requeue(k)
    PROVE  IInv'
  <1>1. row \in [Kinds -> TaskRow]
    BY DEF IInv, DataOK
  <1>2. [row[k] EXCEPT !.st = "queued", !.lapsed = FALSE] \in TaskRow
    BY <1>1, RowFacts
  <1>3. row' \in [Kinds -> TaskRow]
    BY <1>1, <1>2 DEF Requeue
  <1>4. spent' \in [FaultKinds -> Nat] /\ \A g \in FaultKinds : spent'[g] <= MaxFaults[g]
    BY FaultCounted DEF Requeue, IInv, FaultKinds
  <1> QED
    BY <1>3, <1>4, RowStep DEF Requeue

\* A child's task ends.
LEMMA ChildEndsStep ==
    ASSUME IInv, NEW i \in Children, ChildEnds(i)
    PROVE  IInv'
  <1>1. DataOK'
    BY DEF IInv, DataOK, ChildEnds, ledger
  <1>2. FamilyKeeps /\ SplitKeeps
    BY DEF IInv, DataOK, ChildEnds, ledger, FamilyKeeps, SplitKeeps
  <1> QED
    BY <1>1, <1>2, NoWorkerSteps DEF ChildEnds

-----------------------------------------------------------------------------
(* The handlers' actions *)

\* A stage gets a status.
LEMMA StageFacts ==
    ASSUME DataOK, NEW s \in Stages, NEW st \in {"pending", "succeeded", "failed"}
    PROVE  /\ [stage EXCEPT ![s] = st] \in [Stages -> {"none", "pending", "succeeded", "failed"}]
           /\ [stage EXCEPT ![s] = st][s] = st
  BY DEF DataOK

\* A stage failure is recorded.
LEMMA FailStageStep ==
    ASSUME IInv, NEW w \in Workers, NEW s \in Stages, FailStage(w, s),
           spent' \in [FaultKinds -> Nat], \A g \in FaultKinds : spent'[g] <= MaxFaults[g]
    PROVE  IInv'
  <1>1. Moves(w) /\ worker'[w].pc = "write" /\ worker'[w].next = 1
    BY HandlerFacts, ReturnMoves DEF FailStage
  <1>2. Placed(w)' /\ Progress(w)'
    BY <1>1, OutsideSplit
  <1>3. stage' \in [Stages -> {"none", "pending", "succeeded", "failed"}] /\ stage'[s] = "failed"
    BY StageFacts DEF FailStage, IInv
  <1>4. plan' \in Plans \cup {NoPlan}
    BY DEF FailStage, IInv, DataOK
  <1>5. DataOK'
    BY <1>3, <1>4 DEF FailStage, IInv, DataOK, family
  <1>6. FamilyKeeps
    BY DEF FailStage, family, FamilyKeeps
  <1>7. SplitKeeps
    <2>1. CASE s = "split"
      BY <2>1, <1>3 DEF SplitKeeps
    <2>2. CASE s # "split"
      BY <2>2, OtherStage DEF FailStage, IInv
    <2> QED
      BY <2>1, <2>2
  <1> QED
    BY <1>1, <1>2, <1>5, <1>6, <1>7, OneWorkerSteps

\* session.normalize succeeds.
LEMMA NormalizeStep ==
    ASSUME IInv, NEW w \in Workers, Normalize(w)
    PROVE  IInv'
  <1>1. worker[w].kind = "normalize"
    BY DEF Normalize, At
  <1>2. /\ Moves(w) /\ worker'[w].pc = "advance" /\ worker'[w].kind = worker[w].kind
        /\ worker'[w].next = worker[w].next
    BY HandlerFacts, GotoMoves DEF Normalize, Places
  <1>3. Placed(w)' /\ Progress(w)'
    BY <1>1, <1>2, HandlerFacts, OutsideSplit
  <1>4. "normalize" \in Stages \ {"split"} /\ DataOK
    BY DEF Stages, Kinds, IInv
  <1>5. stage' \in [Stages -> {"none", "pending", "succeeded", "failed"}]
    BY <1>4, StageFacts DEF Normalize
  <1>6. DataOK'
    BY <1>4, <1>5 DEF Normalize, DataOK, family
  <1>7. FamilyKeeps /\ SplitKeeps
    BY <1>4, OtherStage DEF Normalize
  <1> QED
    BY <1>2, <1>3, <1>6, <1>7, OneWorkerSteps

\* A worker moves inside its handler and nothing else changes.
LEMMA QuietStep ==
    ASSUME IInv, NEW w \in Workers, UNCHANGED <<raw, ledger, row, family, session>>,
           spent' \in [FaultKinds -> Nat], \A g \in FaultKinds : spent'[g] <= MaxFaults[g],
           Moves(w), Placed(w)', Progress(w)'
    PROVE  IInv'
  <1>1. DataOK'
    BY DEF IInv, DataOK, ledger, family
  <1>2. UNCHANGED family /\ UNCHANGED <<stage, plan>>
    BY DEF ledger
  <1> QED
    BY <1>1, <1>2, Elsewhere, OneWorkerSteps

\* A worker with a plan in hand starts on its first segment.
LEMMA StartsFanOut ==
    ASSUME NEW w \in Workers, worker'[w].kind = "split", worker'[w].plan \in Plans,
           worker'[w].next = 1, worker'[w].pc = OnPlan(worker'[w].plan)
    PROVE  Placed(w)' /\ Progress(w)'
  <1>1. Len(worker'[w].plan) \in Nat \ {0}
    BY PlanFacts
  <1>2. CASE Len(worker'[w].plan) = 1
    <2>1. worker'[w].pc = "single"
      BY <1>2 DEF OnPlan
    <2> QED
      BY <1>2, <2>1, PlanInHand
  <1>3. CASE Len(worker'[w].plan) # 1
    <2>1. worker'[w].pc = "put"
      BY <1>3 DEF OnPlan
    <2>2. \A n \in Nat \ {0} : n # 1 => 1 <= n /\ n > 1
      OBVIOUS
    <2>3. 1 <= Len(worker'[w].plan) /\ Len(worker'[w].plan) > 1
      BY <1>1, <1>3, <2>2
    <2>4. 1..(1 - 1) = {}
      OBVIOUS
    <2>5. Placed(w)'
      BY <2>1, <2>3 DEF Placed, WithPlan
    <2>6. Progress(w)'
      BY <2>1, <2>4 DEF Progress
    <2> QED
      BY <2>5, <2>6
  <1> QED
    BY <1>2, <1>3

\* The attempt settles on its plan, or asks for one.
LEMMA LoadPlanStep ==
    ASSUME IInv, NEW w \in Workers, LoadPlan(w)
    PROVE  IInv'
  <1>1. worker[w].kind = "split" /\ worker[w].next = 1
    BY HandlerFacts DEF LoadPlan, At, Placed
  <1>2. Moves(w) /\ worker'[w].kind = "split" /\ worker'[w].next = 1
    BY <1>1, LoadPlanMoves
  <1>3. ASSUME worker'[w].plan \in Plans, worker'[w].pc = OnPlan(worker'[w].plan)
        PROVE  Placed(w)' /\ Progress(w)'
    BY <1>2, <1>3, StartsFanOut
  <1>4. ASSUME worker'[w].pc = "ask" PROVE Placed(w)' /\ Progress(w)'
    BY <1>2, <1>4, OutsideSplit
  <1>5. Placed(w)' /\ Progress(w)'
    BY <1>3, <1>4, LoadPlanMoves
  <1>6. UNCHANGED <<raw, ledger, row, family, session>> /\ UNCHANGED spent
    BY DEF LoadPlan
  <1> QED
    BY <1>2, <1>5, <1>6, QuietStep, SpentKept

\* The model's plan is in hand.
LEMMA AskModelStep ==
    ASSUME IInv, NEW w \in Workers, AskModel(w)
    PROVE  IInv'
  <1>1. worker[w].kind = "split" /\ worker[w].next = 1
    BY HandlerFacts DEF AskModel, Placed
  <1>2. Moves(w) /\ Placed(w)' /\ Progress(w)'
    BY <1>1, AskModelMoves, PlanInHand
  <1>3. UNCHANGED <<raw, ledger, row, family, session>> /\ UNCHANGED spent
    BY DEF AskModel
  <1> QED
    BY <1>2, <1>3, QuietStep, SpentKept

\* A step that records the plan a worker has in hand in the split row.
LEMMA RecordStep ==
    ASSUME IInv, NEW w \in Workers, NEW st \in {"pending", "succeeded"}, RecordSplit(w, st),
           worker[w].plan \in Plans,
           status' = status \/ status' \in {"processing", "skipped"},
           UNCHANGED <<raw, report, row, family, session, spent>>,
           \/ st = "pending"
           \/ ~(Len(worker[w].plan) > 1)
           \/ AllAccepted(worker[w].plan),
           Moves(w), Placed(w)', Progress(w)'
    PROVE  IInv'
  <1>1. "split" \in Stages /\ DataOK
    BY DEF Stages, Kinds, IInv
  <1>2. /\ stage' \in [Stages -> {"none", "pending", "succeeded", "failed"}]
        /\ stage'["split"] = st
    BY <1>1, StageFacts DEF RecordSplit
  <1>3. plan' = worker[w].plan
    BY DEF RecordSplit
  <1>4. DataOK'
    BY <1>1, <1>2, <1>3 DEF DataOK, family
  <1>5. FamilyKeeps
    BY DEF family, FamilyKeeps
  <1>6. SplitKeeps
    BY <1>2, <1>3 DEF SplitKeeps, AllAccepted, family
  <1> QED
    BY <1>4, <1>5, <1>6, OneWorkerSteps

\* A new plan is recorded before anything is done with it.
LEMMA CheckpointStep ==
    ASSUME IInv, NEW w \in Workers, Checkpoint(w)
    PROVE  IInv'
  <1>1. /\ worker \in [Workers -> Handler]
        /\ worker[w].kind = "split" /\ worker[w].next = 1 /\ worker[w].plan \in Plans
    BY HandlerFacts DEF Checkpoint, Placed, WithPlan
  <1>2. OnPlan(worker[w].plan) \in Places
    BY DEF OnPlan, Places
  <1>3. /\ Moves(w) /\ worker'[w].kind = "split" /\ worker'[w].next = 1
        /\ worker'[w].plan = worker[w].plan /\ worker'[w].pc = OnPlan(worker[w].plan)
    BY <1>1, <1>2, GotoMoves DEF Checkpoint
  <1>4. Placed(w)' /\ Progress(w)'
    BY <1>1, <1>3, StartsFanOut
  <1> QED
    BY <1>1, <1>3, <1>4, RecordStep DEF Checkpoint

\* The split row, its plan, or a new plan cannot be had.
LEMMA SplitFailsStep ==
    ASSUME IInv, NEW w \in Workers, SplitFails(w)
    PROVE  IInv'
  <1>1. spent' \in [FaultKinds -> Nat] /\ \A g \in FaultKinds : spent'[g] <= MaxFaults[g]
    BY FaultCounted DEF SplitFails, IInv, FaultKinds
  <1> QED
    BY <1>1, FailStageStep DEF SplitFails, Stages, Kinds

\* A plan with one segment is recorded as done.
LEMMA SingleStep ==
    ASSUME IInv, NEW w \in Workers, Single(w)
    PROVE  IInv'
  <1>1. /\ worker \in [Workers -> Handler]
        /\ worker[w].kind = "split" /\ worker[w].plan \in Plans
        /\ worker[w].next >= 1 /\ Len(worker[w].plan) = 1
    BY HandlerFacts DEF Single, Placed, WithPlan
  <1>2. ~(Len(worker[w].plan) > 1)
    BY <1>1
  <1>3. /\ Moves(w) /\ worker'[w].kind = "split" /\ worker'[w].next = worker[w].next
        /\ worker'[w].pc = "advance"
    BY <1>1, GotoMoves DEF Single, Places
  <1>4. Placed(w)' /\ Progress(w)'
    BY <1>1, <1>3, OutsideSplit
  <1> QED
    BY <1>1, <1>2, <1>3, <1>4, RecordStep DEF Single

\* A fan-out that failed keeps its plan.
LEMMA FanOutFailsStep ==
    ASSUME IInv, NEW w \in Workers, FanOutFails(w)
    PROVE  IInv'
  <1>1. worker \in [Workers -> Handler] /\ worker[w].plan \in Plans
    BY HandlerFacts DEF FanOutFails, Placed, WithPlan
  <1>2. Moves(w) /\ worker'[w].pc = "write" /\ worker'[w].next = 1
    BY <1>1, ReturnMoves DEF FanOutFails
  <1>3. Placed(w)' /\ Progress(w)'
    BY <1>2, OutsideSplit
  <1> QED
    BY <1>1, <1>2, <1>3, RecordStep DEF FanOutFails

\* A complete fan-out is recorded.
LEMMA FannedOutStep ==
    ASSUME IInv, NEW w \in Workers, FannedOut(w)
    PROVE  IInv'
  <1>1. /\ worker \in [Workers -> Handler] /\ worker[w].plan \in Plans
        /\ AllAccepted(worker[w].plan)
    BY HandlerFacts DEF FannedOut, Placed, Progress, WithPlan
  <1>2. Moves(w) /\ worker'[w].pc = "write" /\ worker'[w].next = 1
    BY <1>1, ReturnMoves DEF FannedOut
  <1>3. Placed(w)' /\ Progress(w)'
    BY <1>2, OutsideSplit
  <1> QED
    BY <1>1, <1>2, <1>3, RecordStep DEF FannedOut

\* A child's payload is stored, or found to be another one.
LEMMA PutChildStep ==
    ASSUME IInv, NEW w \in Workers, PutChild(w)
    PROVE  IInv'
  <1> DEFINE p == worker[w].plan
             n == worker[w].next
  <1>1. /\ worker \in [Workers -> Handler] /\ worker[w].kind = "split"
        /\ p \in Plans /\ n \in Nat /\ n >= 1 /\ n <= Len(p) /\ Len(p) > 1
        /\ \A i \in 1..(n - 1) : child[i] # "absent" /\ blob[i] = p[i]
    BY HandlerFacts DEF PutChild, Placed, Progress, WithPlan
  <1>2. Len(p) \in Nat /\ n \in 1..Len(p) /\ n \in Children /\ p[n] \in Segments
    BY <1>1, PlanFacts
  <1>3. blob \in [Children -> Segments \cup {NoSegment}]
    BY DEF IInv, DataOK
  <1>4. CASE PutOnce(n, Segment(w))
    <2>1. blob' = [blob EXCEPT ![n] = p[n]] /\ Goto(w, "accept")
      BY <1>4 DEF PutChild, Segment
    <2>2. blob' \in [Children -> Segments \cup {NoSegment}]
      BY <1>2, <1>3, <2>1
    <2>3. DataOK'
      BY <2>2 DEF PutChild, IInv, DataOK, ledger
    <2>4. FamilyKeeps
      BY <1>2, <1>3, <1>4, <2>1 DEF PutOnce, Segment, PutChild, FamilyKeeps
    <2>5. SplitKeeps
      BY DEF PutChild, ledger, SplitKeeps
    <2>6. /\ Moves(w) /\ worker'[w].pc = "accept" /\ worker'[w].kind = "split"
          /\ worker'[w].plan = p /\ worker'[w].next = n
      BY <1>1, <2>1, GotoMoves DEF Places
    <2>7. Placed(w)'
      BY <1>1, <2>6 DEF Placed, WithPlan
    <2>8. blob'[n] = p[n]
      BY <1>2, <1>3, <2>1
    <2>9. \A i \in 1..(n - 1) : child'[i] # "absent" /\ blob'[i] = p[i]
      <3> TAKE i \in 1..(n - 1)
      <3>1. i \in 1..Len(p)
        BY <1>1, <1>2
      <3> QED
        BY <1>1, <2>4, <3>1, AcceptedStays
    <2>10. Progress(w)'
      BY <2>6, <2>8, <2>9 DEF Progress
    <2> QED
      BY <2>3, <2>4, <2>5, <2>6, <2>7, <2>10, OneWorkerSteps
  <1>5. CASE ~PutOnce(n, Segment(w))
    <2>1. Goto(w, "fanfail") /\ UNCHANGED blob
      BY <1>5 DEF PutChild
    <2>2. /\ Moves(w) /\ worker'[w].pc = "fanfail" /\ worker'[w].kind = "split"
          /\ worker'[w].plan = p /\ worker'[w].next = n
      BY <1>1, <2>1, GotoMoves DEF Places
    <2>3. Placed(w)' /\ Progress(w)'
      BY <1>1, <2>2, PlanInHand
    <2>4. UNCHANGED <<raw, ledger, row, family, session>> /\ UNCHANGED spent
      BY <2>1 DEF PutChild, family
    <2> QED
      BY <2>2, <2>3, <2>4, QuietStep, SpentKept
  <1> QED
    BY <1>4, <1>5

\* A child ingestion is accepted, or its task has already ended.
LEMMA AcceptChildStep ==
    ASSUME IInv, NEW w \in Workers, AcceptChild(w)
    PROVE  IInv'
  <1> DEFINE p == worker[w].plan
             n == worker[w].next
  <1>1. /\ worker \in [Workers -> Handler] /\ worker[w] \in Handler
        /\ worker[w].kind = "split" /\ worker[w].pc = "accept"
        /\ p \in Plans /\ n \in Nat /\ n >= 1 /\ n <= Len(p) /\ Len(p) > 1
        /\ \A i \in 1..(n - 1) : child[i] # "absent" /\ blob[i] = p[i]
        /\ blob[n] = p[n]
    BY HandlerFacts DEF AcceptChild, Placed, Progress, WithPlan
  <1>2. Len(p) \in Nat /\ n \in 1..Len(p) /\ n \in Children /\ p[n] \in Segments
    BY <1>1, PlanFacts
  <1>3. child \in [Children -> {"absent", "live", "done"}]
    BY DEF IInv, DataOK
  <1>4. CASE Goto(w, "fanfail") /\ UNCHANGED child
    <2>1. /\ Moves(w) /\ worker'[w].pc = "fanfail" /\ worker'[w].kind = "split"
          /\ worker'[w].plan = p /\ worker'[w].next = n
      BY <1>1, <1>4, GotoMoves DEF Places
    <2>2. Placed(w)' /\ Progress(w)'
      BY <1>1, <2>1, PlanInHand
    <2>3. UNCHANGED <<raw, ledger, row, family, session>> /\ UNCHANGED spent
      BY <1>4 DEF AcceptChild, family
    <2> QED
      BY <2>1, <2>2, <2>3, QuietStep, SpentKept
  <1>5. CASE /\ child[n] # "done"
             /\ child' = [child EXCEPT ![n] = "live"]
             /\ worker' = [worker EXCEPT ![w] =
                             IF MoreSegments(w)
                             THEN [worker[w] EXCEPT !.pc = "put", !.next = n + 1]
                             ELSE [worker[w] EXCEPT !.pc = "fanned"]]
    <2>1. child' \in [Children -> {"absent", "live", "done"}]
      BY <1>2, <1>3, <1>5
    <2>2. DataOK'
      BY <2>1 DEF AcceptChild, IInv, DataOK, ledger
    <2>3. FamilyKeeps
      BY <1>2, <1>3, <1>5 DEF AcceptChild, FamilyKeeps
    <2>4. SplitKeeps
      BY DEF AcceptChild, ledger, SplitKeeps
    <2>5. \A i \in 1..n : child'[i] # "absent" /\ blob'[i] = p[i]
      <3> TAKE i \in 1..n
      <3>1. i \in 1..Len(p)
        BY <1>1, <1>2
      <3>2. CASE i = n
        <4>1. child'[n] = "live"
          BY <1>2, <1>3, <1>5
        <4> QED
          BY <1>1, <2>3, <3>1, <3>2, <4>1, AcceptedStays
      <3>3. CASE i # n
        <4>1. i \in 1..(n - 1)
          BY <1>1, <3>3
        <4> QED
          BY <1>1, <2>3, <3>1, <4>1, AcceptedStays
      <3> QED
        BY <3>2, <3>3
    <2>6. CASE MoreSegments(w)
      <3> DEFINE m == n + 1
      <3>1. m \in Nat /\ m >= 1 /\ m <= Len(p) /\ 1..(m - 1) = 1..n
        BY <1>1, <1>2, <2>6 DEF MoreSegments
      <3>2. worker' = [worker EXCEPT ![w] = [worker[w] EXCEPT !.pc = "put", !.next = m]]
        BY <1>5, <2>6
      <3> HIDE DEF m
      <3>3. /\ Moves(w) /\ worker'[w].pc = "put" /\ worker'[w].kind = "split"
            /\ worker'[w].plan = p /\ worker'[w].next = m
        BY <1>1, <3>1, <3>2, NextSegmentMoves
      <3>4. Placed(w)'
        BY <1>1, <3>1, <3>3 DEF Placed, WithPlan
      <3>5. Progress(w)'
        BY <2>5, <3>1, <3>3 DEF Progress
      <3> QED
        BY <2>2, <2>3, <2>4, <3>3, <3>4, <3>5, OneWorkerSteps
    <2>7. CASE ~MoreSegments(w)
      <3>1. Goto(w, "fanned")
        BY <1>1, <1>5, <2>7 DEF Goto
      <3>2. /\ Moves(w) /\ worker'[w].pc = "fanned" /\ worker'[w].kind = "split"
            /\ worker'[w].plan = p /\ worker'[w].next = n
        BY <1>1, <3>1, GotoMoves DEF Places
      <3>3. n = Len(p)
        BY <1>1, <1>2, <2>7 DEF MoreSegments
      <3>4. Placed(w)'
        BY <1>1, <3>2 DEF Placed, WithPlan
      <3>5. Progress(w)'
        BY <2>5, <3>2, <3>3 DEF Progress, AllAccepted
      <3> QED
        BY <2>2, <2>3, <2>4, <3>2, <3>4, <3>5, OneWorkerSteps
    <2> QED
      BY <2>6, <2>7
  <1> QED
    BY <1>4, <1>5 DEF AcceptChild

\* A store fails in the middle of the fan-out.
LEMMA FanOutRaisesStep ==
    ASSUME IInv, NEW w \in Workers, FanOutRaises(w)
    PROVE  IInv'
  <1>1. /\ worker \in [Workers -> Handler] /\ worker[w].kind = "split"
        /\ worker[w].plan \in Plans /\ worker[w].next >= 1
    BY HandlerFacts DEF FanOutRaises, Placed, WithPlan
  <1>2. /\ Moves(w) /\ worker'[w].pc = "fanfail" /\ worker'[w].kind = "split"
        /\ worker'[w].plan = worker[w].plan /\ worker'[w].next = worker[w].next
    BY <1>1, GotoMoves DEF FanOutRaises, Places
  <1>3. Placed(w)' /\ Progress(w)'
    BY <1>1, <1>2, PlanInHand
  <1>4. spent' \in [FaultKinds -> Nat] /\ \A g \in FaultKinds : spent'[g] <= MaxFaults[g]
    BY FaultCounted DEF FanOutRaises, IInv, FaultKinds
  <1> QED
    BY <1>2, <1>3, <1>4, QuietStep DEF FanOutRaises

\* A step that records a stage other than split, and leaves plan and children alone.
LEMMA StageStep ==
    ASSUME IInv, NEW w \in Workers, NEW s \in Stages \ {"split"},
           NEW st \in {"succeeded", "failed"}, stage' = [stage EXCEPT ![s] = st],
           UNCHANGED <<raw, plan, row, family, spent>>,
           status' \in {"absent", "accepted", "processing", "archived", "skipped", "failed"},
           report' \in Analyses, session' \in Analyses,
           Moves(w), Placed(w)', Progress(w)'
    PROVE  IInv'
  <1>1. DataOK /\ stage' \in [Stages -> {"none", "pending", "succeeded", "failed"}]
    BY StageFacts DEF IInv
  <1>2. DataOK'
    BY <1>1 DEF DataOK, family
  <1>3. FamilyKeeps /\ SplitKeeps
    BY <1>1, OtherStage
  <1> QED
    BY <1>2, <1>3, OneWorkerSteps

\* The segment of a single split is analyzed.
LEMMA AnalyzeStep ==
    ASSUME IInv, NEW w \in Workers, Analyze(w)
    PROVE  IInv'
  <1>1. worker[w].kind = "analyze" /\ worker[w].next = 1
    BY HandlerFacts DEF Analyze, At, Placed
  <1>2. Moves(w) /\ Placed(w)' /\ Progress(w)'
    BY <1>1, AnalyzeMoves, OutsideSplit
  <1>3. "analyze" \in Stages \ {"split"} /\ stage' = [stage EXCEPT !["analyze"] = "succeeded"]
    BY DEF Stages, Kinds, Analyze
  <1>4. /\ UNCHANGED <<raw, plan, row, family, spent>>
        /\ status' \in {"absent", "accepted", "processing", "archived", "skipped", "failed"}
        /\ report' \in Analyses /\ session' \in Analyses
    BY DEF Analyze, IInv, DataOK
  <1> QED
    BY <1>2, <1>3, <1>4, StageStep

\* The analysis fails.
LEMMA AnalyzeFailsStep ==
    ASSUME IInv, NEW w \in Workers, AnalyzeFails(w)
    PROVE  IInv'
  <1>1. spent' \in [FaultKinds -> Nat] /\ \A g \in FaultKinds : spent'[g] <= MaxFaults[g]
    BY FaultCounted, SpentKept DEF AnalyzeFails, IInv, FaultKinds
  <1> QED
    BY <1>1, FailStageStep DEF AnalyzeFails, Stages, Kinds

\* The trace is analyzed and the report recorded.
LEMMA TraceAnalyzeStep ==
    ASSUME IInv, NEW w \in Workers, TraceAnalyze(w)
    PROVE  IInv'
  <1>1. /\ worker \in [Workers -> Handler] /\ worker[w].kind = "analyze"
        /\ worker[w].next >= 1 /\ worker[w].plan \in Plans
    BY HandlerFacts DEF TraceAnalyze, Placed
  <1>2. worker[w].plan[1] \in Segments
    <2>1. 1 \in 1..Len(worker[w].plan)
      BY <1>1, PlanFacts
    <2> QED
      BY <1>1, <2>1, PlanFacts
  <1>3. report' \in Analyses
    BY <1>2 DEF TraceAnalyze, Analyses
  <1>4. /\ Moves(w) /\ worker'[w].pc = "advance" /\ worker'[w].kind = "analyze"
        /\ worker'[w].next = worker[w].next
    BY <1>1, GotoMoves DEF TraceAnalyze, Places
  <1>5. Placed(w)' /\ Progress(w)'
    BY <1>1, <1>4, OutsideSplit
  <1>6. /\ "trace_analyze" \in Stages \ {"split"}
        /\ stage' = [stage EXCEPT !["trace_analyze"] = "succeeded"]
    BY DEF Stages, Kinds, TraceAnalyze
  <1>7. /\ UNCHANGED <<raw, plan, row, family, spent>>
        /\ status' \in {"absent", "accepted", "processing", "archived", "skipped", "failed"}
        /\ session' \in Analyses
    BY DEF TraceAnalyze, IInv, DataOK
  <1> QED
    BY <1>3, <1>4, <1>5, <1>6, <1>7, StageStep

\* The trace analysis fails.
LEMMA TraceAnalyzeFailsStep ==
    ASSUME IInv, NEW w \in Workers, TraceAnalyzeFails(w)
    PROVE  IInv'
  <1>1. spent' \in [FaultKinds -> Nat] /\ \A g \in FaultKinds : spent'[g] <= MaxFaults[g]
    BY FaultCounted DEF TraceAnalyzeFails, IInv, FaultKinds
  <1> QED
    BY <1>1, FailStageStep DEF TraceAnalyzeFails, Stages

\* session.archive looks at the stages.
LEMMA GateStep ==
    ASSUME IInv, NEW w \in Workers, Gate(w)
    PROVE  IInv'
  <1>1. \E pc \in {"compose", "incomplete"} : Goto(w, pc)
    BY DEF Gate
  <1>2. PICK pc \in {"compose", "incomplete"} : Goto(w, pc)
    BY <1>1
  <1>3. /\ Moves(w) /\ worker'[w].pc = pc /\ worker'[w].next = worker[w].next
        /\ worker'[w].kind = worker[w].kind
    BY <1>2, HandlerFacts, GotoMoves DEF Places
  <1>4. worker[w].next >= 1 /\ worker[w].kind = "archive"
    BY HandlerFacts DEF Gate, At
  <1>5. Placed(w)' /\ Progress(w)'
    BY <1>3, <1>4, OutsideSplit
  <1>6. UNCHANGED <<raw, ledger, row, family, session>> /\ UNCHANGED spent
    BY DEF Gate
  <1> QED
    BY <1>3, <1>5, <1>6, QuietStep, SpentKept

\* A mandatory stage is missing.
LEMMA IncompleteStep ==
    ASSUME IInv, NEW w \in Workers, Incomplete(w)
    PROVE  IInv'
  <1>1. Moves(w) /\ worker'[w].pc = "write" /\ worker'[w].next = 1
    BY HandlerFacts, ReturnMoves DEF Incomplete
  <1>2. Placed(w)' /\ Progress(w)'
    BY <1>1, OutsideSplit
  <1>3. "archive" \in Stages \ {"split"} /\ stage' = [stage EXCEPT !["archive"] = "failed"]
    BY DEF Stages, Kinds, Incomplete
  <1>4. /\ UNCHANGED <<raw, plan, row, family, spent>>
        /\ status' \in {"absent", "accepted", "processing", "archived", "skipped", "failed"}
        /\ report' \in Analyses /\ session' \in Analyses
    BY DEF Incomplete, IInv, DataOK
  <1> QED
    BY <1>1, <1>2, <1>3, <1>4, StageStep

\* The Session is in hand.
LEMMA ComposeStep ==
    ASSUME IInv, NEW w \in Workers, Compose(w)
    PROVE  IInv'
  <1>1. worker[w].next >= 1 /\ worker[w].kind = "archive"
    BY HandlerFacts DEF Compose, Placed
  <1>2. Moves(w) /\ Placed(w)' /\ Progress(w)'
    BY <1>1, ComposeMoves, OutsideSplit
  <1>3. UNCHANGED <<raw, ledger, row, family, session>> /\ UNCHANGED spent
    BY DEF Compose
  <1> QED
    BY <1>2, <1>3, QuietStep, SpentKept

\* The Session is filed.
LEMMA FileStep ==
    ASSUME IInv, NEW w \in Workers, File(w)
    PROVE  IInv'
  <1>1. Moves(w) /\ worker'[w].pc = "write" /\ worker'[w].next = 1
    BY HandlerFacts, ReturnMoves DEF File
  <1>2. Placed(w)' /\ Progress(w)'
    BY <1>1, OutsideSplit
  <1>3. "archive" \in Stages \ {"split"} /\ stage' = [stage EXCEPT !["archive"] = "succeeded"]
    BY DEF Stages, Kinds, File
  <1>4. worker[w].found \in Analyses
    BY HandlerFacts DEF Handler
  <1>5. /\ UNCHANGED <<raw, plan, row, family, spent>>
        /\ status' \in {"absent", "accepted", "processing", "archived", "skipped", "failed"}
        /\ report' \in Analyses /\ session' \in Analyses
    BY <1>4 DEF File, IInv, DataOK
  <1> QED
    BY <1>1, <1>2, <1>3, <1>5, StageStep

\* Every step of a handler.
LEMMA HandleStep ==
    ASSUME IInv, NEW w \in Workers, Handle(w)
    PROVE  IInv'
  <1>1. CASE NormalizeFails(w)
    BY <1>1, FailStageStep, SpentKept DEF NormalizeFails, Stages, Kinds
  <1>2. CASE ArchiveFails(w)
    BY <1>2, FailStageStep, SpentKept DEF ArchiveFails, Stages, Kinds
  <1>3. CASE \/ LoadPlan(w) \/ AskModel(w) \/ Checkpoint(w) \/ SplitFails(w) \/ Single(w)
             \/ PutChild(w) \/ AcceptChild(w) \/ FanOutRaises(w) \/ FanOutFails(w)
             \/ FannedOut(w)
    BY <1>3, LoadPlanStep, AskModelStep, CheckpointStep, SplitFailsStep, SingleStep,
       PutChildStep, AcceptChildStep, FanOutRaisesStep, FanOutFailsStep, FannedOutStep
  <1>4. CASE \/ Normalize(w) \/ Analyze(w) \/ AnalyzeFails(w) \/ TraceAnalyze(w)
             \/ TraceAnalyzeFails(w) \/ Gate(w) \/ Incomplete(w) \/ Compose(w) \/ File(w)
             \/ Advance(w)
    BY <1>4, NormalizeStep, AnalyzeStep, AnalyzeFailsStep, TraceAnalyzeStep,
       TraceAnalyzeFailsStep, GateStep, IncompleteStep, ComposeStep, FileStep, AdvanceStep
  <1> QED
    BY <1>1, <1>2, <1>3, <1>4 DEF Handle

-----------------------------------------------------------------------------
(* The theorems *)

\* Nothing is accepted yet.
LEMMA InitIInv == Init => IInv
  <1> SUFFICES ASSUME Init PROVE IInv
    OBVIOUS
  <1>1. NoRow \in TaskRow
    BY DEF NoRow, TaskRow
  <1>2. Idle \in Handler /\ Idle.pc = "idle" /\ Idle.next = 1
    BY DEF Idle, Handler, Kinds, Analyses, NoPlan
  <1>3. DataOK
    BY <1>1 DEF Init, DataOK, Analyses, NoPlan
  <1>4. worker \in [Workers -> Handler] /\ \A w \in Workers : worker[w] = Idle
    BY <1>2 DEF Init
  <1>5. ASSUME NEW w \in Workers PROVE Placed(w) /\ Progress(w)
    <2>1. worker[w].pc = "idle" /\ worker[w].next = 1
      BY <1>2, <1>4
    <2>2. Placed(w)
      BY <2>1 DEF Placed, WithPlan
    <2>3. Progress(w)
      BY <2>1 DEF Progress
    <2> QED
      BY <2>2, <2>3
  <1>6. FanOutComplete
    BY DEF Init, FanOutComplete, Stages, Kinds
  <1> QED
    BY <1>3, <1>4, <1>5, <1>6 DEF IInv

\* Every step keeps the invariant.
LEMMA NextIInv == IInv /\ [Next]_vars => IInv'
  <1> SUFFICES ASSUME IInv, [Next]_vars PROVE IInv'
    OBVIOUS
  <1>1. CASE Accept
    BY <1>1, AcceptStep
  <1>2. ASSUME NEW w \in Workers, NEW k \in Kinds, Claim(w, k) PROVE IInv'
    BY <1>2, ClaimStep
  <1>3. ASSUME NEW w \in Workers, Handle(w) PROVE IInv'
    BY <1>3, HandleStep
  <1>4. ASSUME NEW w \in Workers,
               Write(w) \/ Crash(w) \/ Stall(w) \/ Dropped(w) \/ Raises(w)
        PROVE  IInv'
    BY <1>4, WriteStep, CrashStep, StallStep, DroppedStep, RaisesStep
  <1>5. ASSUME NEW k \in Kinds, Requeue(k) PROVE IInv'
    BY <1>5, RequeueStep
  <1>6. ASSUME NEW i \in Children, ChildEnds(i) PROVE IInv'
    BY <1>6, ChildEndsStep
  <1>7. CASE UNCHANGED vars
    <2>1. /\ UNCHANGED <<raw, ledger, worker, family, session>> /\ UNCHANGED spent
          /\ row' = row
      BY <1>7 DEF vars
    <2>2. row' \in [Kinds -> TaskRow]
      BY <2>1 DEF IInv, DataOK
    <2> QED
      BY <2>1, <2>2, RowStep, SpentKept
  <1> QED
    BY <1>1, <1>2, <1>3, <1>4, <1>5, <1>6, <1>7 DEF Next

\* The invariant holds throughout.
LEMMA Inductive == Spec => []IInv
  BY InitIInv, NextIInv, PTL DEF Spec

\* For every set of workers and plans and every bound on faults, the ledger, the
\* rows, the children and the workers keep their types, and an attempt in the
\* fan-out loop never runs past its plan's last segment.
THEOREM TypeCorrect == Spec => []TypeOK
  <1>1. IInv => /\ worker \in [Workers -> Handler]
                /\ \A w \in Workers :
                      worker[w].pc \in {"put", "accept"} => worker[w].next <= Len(worker[w].plan)
    BY DEF IInv, Placed
  <1>2. IInv => DataOK
    BY DEF IInv
  <1>3. IInv => TypeOK
    BY <1>1, <1>2 DEF DataOK, TypeOK
  <1> QED
    BY <1>3, Inductive, PTL

\* A split recorded as done has handed over every segment of the recorded plan,
\* each in the child ingestion with its place, however many attempts with
\* different plans ran into each other: payloads are stored once, children are
\* never taken back, and an attempt records its own plan.
THEOREM FanOut == Spec => []FanOutComplete
  <1>1. IInv => FanOutComplete
    BY DEF IInv
  <1> QED
    BY <1>1, Inductive, PTL

-----------------------------------------------------------------------------
(* Nothing is dropped *)

\* Some plan has been fanned out completely.
SomeFanOut == \E p \in Plans : Len(p) > 1 /\ AllAccepted(p)

\* What the success of a task of kind k leaves behind.
Done(k) ==
    /\ k = "normalize" => row["split"].st # "absent"
    /\ k = "split" => row["analyze"].st # "absent" \/ SomeFanOut
    /\ k = "analyze" => row["archive"].st # "absent"
    /\ k = "archive" => Archived

\* A result in hand, and a Session about to be filed, is a real one.
Earned(w) ==
    /\ worker[w].pc = "write" /\ worker[w].outcome = "succeed" => Done(worker[w].kind)
    /\ worker[w].pc = "file" => worker[w].found # NoSession

\* The ingestion has its first task.
Begun == row["normalize"].st # "absent"

Untouched ==
    /\ status = "absent"
    /\ \A k \in Kinds : row[k].st = "absent"
    /\ \A w \in Workers : worker[w].pc = "idle"

\* Every task that succeeded, or is about to, has left its successor, the
\* children or the Session behind.
Handed ==
    /\ Begun \/ Untouched
    /\ \A k \in Kinds : row[k].st = "succeeded" => Done(k)
    /\ \A w \in Workers : Earned(w)
    /\ stage["trace_analyze"] = "succeeded" => report # NoSession

\* Children and payloads are only added.
LEMMA FamilyKept ==
    ASSUME IInv, [Next]_vars
    PROVE  FamilyKeeps
  <1>1. ASSUME NEW w \in Workers, PutChild(w) PROVE FamilyKeeps
    <2>1. blob \in [Children -> Segments \cup {NoSegment}]
      BY DEF IInv, DataOK
    <2>2. CASE UNCHANGED blob
      BY <1>1, <2>2 DEF PutChild, FamilyKeeps
    <2>3. CASE /\ PutOnce(worker[w].next, Segment(w))
               /\ blob' = [blob EXCEPT ![worker[w].next] = Segment(w)]
      BY <1>1, <2>1, <2>3 DEF PutChild, PutOnce, FamilyKeeps
    <2> QED
      BY <1>1, <2>2, <2>3 DEF PutChild
  <1>2. ASSUME NEW w \in Workers, AcceptChild(w) PROVE FamilyKeeps
    BY <1>2 DEF IInv, DataOK, AcceptChild, FamilyKeeps
  <1>3. ASSUME NEW i \in Children, ChildEnds(i) PROVE FamilyKeeps
    BY <1>3 DEF IInv, DataOK, ChildEnds, FamilyKeeps
  <1>4. CASE UNCHANGED family
    BY <1>4 DEF family, FamilyKeeps
  <1>5. ASSUME NEW w \in Workers, Handle(w) PROVE FamilyKeeps
    <2>1. CASE \/ Normalize(w) \/ NormalizeFails(w) \/ LoadPlan(w) \/ AskModel(w)
               \/ Checkpoint(w) \/ SplitFails(w) \/ Single(w)
      BY <1>4, <2>1 DEF Normalize, NormalizeFails, LoadPlan, AskModel, Checkpoint, SplitFails,
                        Single, FailStage
    <2>2. CASE FanOutRaises(w) \/ FanOutFails(w) \/ FannedOut(w) \/ Advance(w)
      BY <1>4, <2>2 DEF FanOutRaises, FanOutFails, FannedOut, Advance
    <2>3. CASE \/ Analyze(w) \/ AnalyzeFails(w) \/ TraceAnalyze(w) \/ TraceAnalyzeFails(w)
               \/ Gate(w) \/ Incomplete(w) \/ Compose(w) \/ ArchiveFails(w) \/ File(w)
      BY <1>4, <2>3 DEF Analyze, AnalyzeFails, TraceAnalyze, TraceAnalyzeFails, Gate,
                        Incomplete, Compose, ArchiveFails, File, FailStage
    <2> QED
      BY <1>1, <1>2, <1>5, <2>1, <2>2, <2>3 DEF Handle
  <1>6. CASE \/ Accept
             \/ \E w \in Workers, k \in Kinds : Claim(w, k)
             \/ \E w \in Workers :
                   Write(w) \/ Crash(w) \/ Stall(w) \/ Dropped(w) \/ Raises(w)
             \/ \E k \in Kinds : Requeue(k)
             \/ UNCHANGED vars
    BY <1>4, <1>6 DEF Accept, Claim, Write, Crash, Stall, Dropped, Raises, Requeue, vars
  <1> QED
    BY <1>3, <1>5, <1>6 DEF Next

\* No row disappears.
RowsStay == \A k \in Kinds : row[k].st # "absent" => row'[k].st # "absent"

\* What a task left behind stays.
LEMMA DoneStays ==
    ASSUME IInv, FamilyKeeps, RowsStay, Archived => Archived', NEW k \in Kinds, Done(k)
    PROVE  Done(k)'
  <1>1. SomeFanOut => SomeFanOut'
    <2> SUFFICES ASSUME SomeFanOut PROVE SomeFanOut'
      OBVIOUS
    <2>1. PICK p \in Plans : Len(p) > 1 /\ AllAccepted(p)
      BY DEF SomeFanOut
    <2>2. AllAccepted(p)'
      BY <2>1, AcceptedStays DEF AllAccepted
    <2> QED
      BY <2>1, <2>2 DEF SomeFanOut
  <1>2. {"split", "analyze", "archive"} \subseteq Kinds
    BY DEF Kinds
  <1> QED
    BY <1>1, <1>2 DEF Done, RowsStay

\* A worker that rests has earned what it had.
LEMMA RestingEarns ==
    ASSUME IInv, FamilyKeeps, RowsStay, Archived => Archived',
           NEW v \in Workers, Earned(v), worker'[v] = worker[v]
    PROVE  Earned(v)'
  <1>1. worker[v].kind \in Kinds
    BY HandlerFacts
  <1> QED
    BY <1>1, DoneStays DEF Earned

\* The parts of a step once the ingestion has begun.
LEMMA HandedKept ==
    ASSUME IInv, Handed, Begun, FamilyKeeps, RowsStay, Archived => Archived',
           \A k \in Kinds : row'[k].st = "succeeded" => row[k].st = "succeeded" \/ Done(k),
           stage'["trace_analyze"] = "succeeded" => report' # NoSession,
           \A v \in Workers : worker'[v] = worker[v] \/ Earned(v)'
    PROVE  Handed'
  <1>1. Begun'
    BY DEF Begun, RowsStay, Kinds
  <1>2. \A k \in Kinds : row'[k].st = "succeeded" => Done(k)'
    BY DoneStays DEF Handed
  <1>3. \A v \in Workers : Earned(v)'
    BY RestingEarns DEF Handed
  <1> QED
    BY <1>1, <1>2, <1>3 DEF Handed

\* A worker at work shows that the ingestion has begun.
LEMMA WorkBegun ==
    ASSUME Handed, NEW w \in Workers, worker[w].pc # "idle"
    PROVE  Begun
  BY DEF Handed, Untouched

\* A worker moves, and rows, report and Session stay.
LEMMA HandedMove ==
    ASSUME IInv, Handed, FamilyKeeps, NEW w \in Workers, worker[w].pc # "idle", Moves(w),
           row' = row, session' = session, report' = report,
           \/ stage'["trace_analyze"] = stage["trace_analyze"]
           \/ stage'["trace_analyze"] = "failed",
           Earned(w)'
    PROVE  Handed'
  <1>1. RowsStay /\ (Archived => Archived')
    BY DEF RowsStay, Archived
  <1>2. stage'["trace_analyze"] = "succeeded" => report' # NoSession
    BY DEF Handed
  <1>3. \A v \in Workers : worker'[v] = worker[v] \/ Earned(v)'
    BY DEF Moves
  <1> QED
    BY <1>1, <1>2, <1>3, WorkBegun, HandedKept

\* The trace analysis is not newly recorded as done.
TraceKept ==
    \/ stage'["trace_analyze"] = stage["trace_analyze"]
    \/ stage'["trace_analyze"] = "failed"

\* Recording another stage, or a failure.
LEMMA TraceStays ==
    ASSUME IInv, NEW s \in Stages, NEW st, s # "trace_analyze" \/ st = "failed",
           stage' = [stage EXCEPT ![s] = st]
    PROVE  TraceKept
  BY DEF IInv, DataOK, TraceKept, Stages

\* A worker goes on in its handler.
LEMMA HandedGoto ==
    ASSUME IInv, Handed, FamilyKeeps, NEW w \in Workers, worker[w].pc # "idle",
           NEW pc \in Places \ {"write", "file"}, Goto(w, pc),
           UNCHANGED <<row, session, report>>, TraceKept
    PROVE  Handed'
  <1>1. Moves(w) /\ worker'[w].pc = pc
    BY HandlerFacts, GotoMoves
  <1>2. Earned(w)'
    BY <1>1 DEF Earned
  <1> QED
    BY <1>1, <1>2, HandedMove DEF TraceKept

\* A worker gives up, for now or for good.
LEMMA HandedReturn ==
    ASSUME IInv, Handed, FamilyKeeps, NEW w \in Workers, worker[w].pc # "idle",
           NEW outcome \in {"retry", "fail"}, Return(w, outcome),
           UNCHANGED <<row, session, report>>, TraceKept
    PROVE  Handed'
  <1>1. Moves(w) /\ worker'[w].pc = "write" /\ worker'[w].outcome = outcome
    BY HandlerFacts, ReturnMoves
  <1>2. Earned(w)'
    BY <1>1 DEF Earned
  <1> QED
    BY <1>1, <1>2, HandedMove DEF TraceKept

\* A stage failure.
LEMMA HandedFail ==
    ASSUME IInv, Handed, FamilyKeeps, NEW w \in Workers, worker[w].pc # "idle",
           NEW s \in Stages, FailStage(w, s)
    PROVE  Handed'
  <1>1. TraceKept
    BY TraceStays DEF FailStage
  <1> QED
    BY <1>1, HandedReturn DEF FailStage

\* session.normalize and session.split.
LEMMA HandedSplit ==
    ASSUME IInv, Handed, FamilyKeeps, NEW w \in Workers,
           \/ Normalize(w) \/ NormalizeFails(w) \/ LoadPlan(w) \/ AskModel(w) \/ Checkpoint(w)
           \/ SplitFails(w) \/ Single(w) \/ PutChild(w) \/ AcceptChild(w) \/ FanOutRaises(w)
           \/ FanOutFails(w) \/ FannedOut(w)
    PROVE  Handed'
  <1>0. {"normalize", "split"} \subseteq Stages
    BY DEF Stages, Kinds
  <1>1. CASE Normalize(w)
    BY <1>0, <1>1, TraceStays, HandedGoto DEF Normalize, At, Places
  <1>2. CASE NormalizeFails(w)
    BY <1>0, <1>2, HandedFail DEF NormalizeFails, At
  <1>3. CASE LoadPlan(w)
    <2>1. Moves(w) /\ Earned(w)'
      BY <1>3, LoadPlanMoves DEF Earned, OnPlan
    <2> QED
      BY <1>3, <2>1, HandedMove DEF LoadPlan, At, ledger
  <1>4. CASE AskModel(w)
    <2>1. Moves(w) /\ Earned(w)'
      BY <1>4, AskModelMoves DEF Earned
    <2> QED
      BY <1>4, <2>1, HandedMove DEF AskModel, ledger
  <1>5. CASE Checkpoint(w)
    <2>1. OnPlan(worker[w].plan) \in Places \ {"write", "file"}
      BY DEF OnPlan, Places
    <2>2. TraceKept
      BY <1>0, <1>5, TraceStays DEF Checkpoint, RecordSplit
    <2> QED
      BY <1>5, <2>1, <2>2, HandedGoto DEF Checkpoint
  <1>6. CASE SplitFails(w)
    BY <1>0, <1>6, HandedFail DEF SplitFails, At
  <1>7. CASE Single(w)
    <2>1. TraceKept
      BY <1>0, <1>7, TraceStays DEF Single, RecordSplit
    <2> QED
      BY <1>7, <2>1, HandedGoto DEF Single, Places
  <1>8. CASE PutChild(w)
    <2>1. TraceKept /\ UNCHANGED <<row, session, report>>
      BY <1>8 DEF PutChild, ledger, TraceKept
    <2> QED
      BY <1>8, <2>1, HandedGoto DEF PutChild, Places
  <1>9. CASE AcceptChild(w)
    <2>1. TraceKept /\ UNCHANGED <<row, session, report>>
      BY <1>9 DEF AcceptChild, ledger, TraceKept
    <2>2. worker[w].next + 1 \in Nat
      BY HandlerFacts
    <2>3. CASE worker' = [worker EXCEPT ![w] =
                            [worker[w] EXCEPT !.pc = "put", !.next = worker[w].next + 1]]
      <3>1. Moves(w) /\ Earned(w)'
        BY <2>2, <2>3, NextSegmentMoves DEF Earned
      <3> QED
        BY <1>9, <2>1, <3>1, HandedMove DEF AcceptChild, TraceKept
    <2>4. CASE worker' = [worker EXCEPT ![w] = [worker[w] EXCEPT !.pc = "fanned"]]
      <3>1. Goto(w, "fanned")
        BY <2>4, HandlerFacts DEF Goto
      <3> QED
        BY <1>9, <2>1, <3>1, HandedGoto DEF AcceptChild, Places
    <2>5. CASE Goto(w, "fanfail")
      BY <1>9, <2>1, <2>5, HandedGoto DEF AcceptChild, Places
    <2> QED
      BY <1>9, <2>3, <2>4, <2>5 DEF AcceptChild
  <1>10. CASE FanOutRaises(w)
    <2>1. TraceKept /\ UNCHANGED <<row, session, report>>
      BY <1>10 DEF FanOutRaises, ledger, TraceKept
    <2> QED
      BY <1>10, <2>1, HandedGoto DEF FanOutRaises, Places
  <1>11. CASE FanOutFails(w)
    <2>1. TraceKept
      BY <1>0, <1>11, TraceStays DEF FanOutFails, RecordSplit
    <2> QED
      BY <1>11, <2>1, HandedReturn DEF FanOutFails
  <1>12. CASE FannedOut(w)
    <2>1. TraceKept
      BY <1>0, <1>12, TraceStays DEF FannedOut, RecordSplit
    <2>2. /\ worker[w].kind = "split" /\ worker[w].plan \in Plans
          /\ Len(worker[w].plan) > 1 /\ AllAccepted(worker[w].plan)
      BY <1>12, HandlerFacts DEF FannedOut, Placed, Progress, WithPlan
    <2>3. SomeFanOut'
      BY <1>12, <2>2 DEF FannedOut, family, SomeFanOut, AllAccepted
    <2>4. /\ Moves(w) /\ worker'[w].pc = "write" /\ worker'[w].kind = "split"
      BY <1>12, <2>2, HandlerFacts, ReturnMoves DEF FannedOut
    <2>5. Earned(w)'
      BY <2>3, <2>4 DEF Earned, Done
    <2> QED
      BY <1>12, <2>1, <2>4, <2>5, HandedMove DEF FannedOut, TraceKept
  <1> QED
    BY <1>1, <1>2, <1>3, <1>4, <1>5, <1>6, <1>7, <1>8, <1>9, <1>10, <1>11, <1>12

\* session.analyze and session.archive up to the Session.
LEMMA HandedArchive ==
    ASSUME IInv, Handed, FamilyKeeps, NEW w \in Workers,
           \/ Analyze(w) \/ AnalyzeFails(w) \/ TraceAnalyze(w) \/ TraceAnalyzeFails(w)
           \/ Gate(w) \/ Incomplete(w) \/ Compose(w) \/ ArchiveFails(w) \/ File(w)
    PROVE  Handed'
  <1>0. {"analyze", "trace_analyze", "archive"} \subseteq Stages
    BY DEF Stages, Kinds
  <1>1. CASE Analyze(w)
    <2>1. TraceKept
      BY <1>0, <1>1, TraceStays DEF Analyze
    <2>2. Moves(w) /\ Earned(w)'
      BY <1>1, AnalyzeMoves DEF Earned
    <2> QED
      BY <1>1, <2>1, <2>2, HandedMove DEF Analyze, At, TraceKept
  <1>2. CASE AnalyzeFails(w)
    BY <1>0, <1>2, HandedFail DEF AnalyzeFails, At
  <1>3. CASE TraceAnalyze(w)
    <2>1. report' # NoSession
      <3>1. worker[w].plan \in Plans
        BY <1>3, HandlerFacts DEF TraceAnalyze, Placed
      <3>2. 1 \in 1..Len(worker[w].plan)
        BY <3>1, PlanFacts
      <3>3. worker[w].plan[1] \in Segments
        BY <3>1, <3>2, PlanFacts
      <3>4. report' \in [segment : Segments, decision : Decisions]
        BY <1>3, <3>3 DEF TraceAnalyze
      <3> QED
        BY <3>4, NoSessionAssumption
    <2>2. Moves(w) /\ worker'[w].pc = "advance"
      BY <1>3, HandlerFacts, GotoMoves DEF TraceAnalyze, Places
    <2>3. \A v \in Workers : worker'[v] = worker[v] \/ Earned(v)'
      BY <2>2 DEF Earned, Moves
    <2>4. RowsStay /\ (Archived => Archived') /\ row' = row
      BY <1>3 DEF TraceAnalyze, RowsStay, Archived
    <2>5. Begun
      BY <1>3, WorkBegun DEF TraceAnalyze
    <2> QED
      BY <2>1, <2>3, <2>4, <2>5, HandedKept
  <1>4. CASE TraceAnalyzeFails(w)
    BY <1>0, <1>4, HandedFail DEF TraceAnalyzeFails
  <1>5. CASE Gate(w)
    <2>1. PICK pc \in {"compose", "incomplete"} : Goto(w, pc)
      BY <1>5 DEF Gate
    <2>2. TraceKept /\ UNCHANGED <<row, session, report>>
      BY <1>5 DEF Gate, ledger, TraceKept
    <2> QED
      BY <1>5, <2>1, <2>2, HandedGoto DEF Gate, At, Places
  <1>6. CASE Incomplete(w)
    <2>1. TraceKept
      BY <1>0, <1>6, TraceStays DEF Incomplete
    <2> QED
      BY <1>6, <2>1, HandedReturn DEF Incomplete
  <1>7. CASE Compose(w)
    <2>1. report # NoSession
      BY <1>7 DEF Compose, Handed
    <2>2. Moves(w) /\ Earned(w)'
      BY <1>7, <2>1, ComposeMoves DEF Earned
    <2> QED
      BY <1>7, <2>2, HandedMove DEF Compose, ledger
  <1>8. CASE ArchiveFails(w)
    BY <1>0, <1>8, HandedFail DEF ArchiveFails
  <1>9. CASE File(w)
    <2>1. worker[w].found # NoSession /\ worker[w].kind = "archive"
      BY <1>9, HandlerFacts DEF File, Handed, Earned, Placed
    <2>2. Archived'
      BY <1>9, <2>1 DEF File, Archived
    <2>3. Moves(w) /\ worker'[w].pc = "write" /\ worker'[w].kind = "archive"
      BY <1>9, <2>1, HandlerFacts, ReturnMoves DEF File
    <2>4. Earned(w)'
      BY <2>2, <2>3 DEF Earned, Done
    <2>5. \A v \in Workers : worker'[v] = worker[v] \/ Earned(v)'
      BY <2>3, <2>4 DEF Moves
    <2>6. RowsStay /\ row' = row /\ report' = report
      BY <1>9 DEF File, RowsStay
    <2>7. TraceKept
      BY <1>0, <1>9, TraceStays DEF File
    <2>8. stage'["trace_analyze"] = "succeeded" => report' # NoSession
      BY <2>6, <2>7 DEF TraceKept, Handed
    <2>9. Begun
      BY <1>9, WorkBegun DEF File
    <2> QED
      BY <2>2, <2>5, <2>6, <2>8, <2>9, HandedKept
  <1> QED
    BY <1>1, <1>2, <1>3, <1>4, <1>5, <1>6, <1>7, <1>8, <1>9

\* A step of the queue: rows change, the ledger and the Session do not.
LEMMA HandedQueue ==
    ASSUME IInv, Handed, Begun, FamilyKeeps, UNCHANGED <<ledger, session>>, RowsStay,
           \A k \in Kinds : row'[k].st = "succeeded" => row[k].st = "succeeded" \/ Done(k),
           \A v \in Workers : worker'[v] = worker[v] \/ Earned(v)'
    PROVE  Handed'
  <1>1. Archived => Archived'
    BY DEF Archived
  <1>2. stage'["trace_analyze"] = "succeeded" => report' # NoSession
    BY DEF Handed, ledger
  <1> QED
    BY <1>1, <1>2, HandedKept

\* What a result does to a row.
LEMMA SettledFacts ==
    ASSUME NEW r \in TaskRow, NEW outcome
    PROVE  /\ Settled(r, outcome).st # "absent"
           /\ Settled(r, outcome).st # "running"
           /\ Settled(r, outcome).st = "succeeded" => outcome = "succeed"
  <1>1. /\ [r EXCEPT !.st = "succeeded"].st = "succeeded"
        /\ [r EXCEPT !.st = "failed"].st = "failed"
        /\ [r EXCEPT !.st = "queued", !.lapsed = FALSE].st = "queued"
    BY DEF TaskRow
  <1>2. CASE outcome = "succeed"
    BY <1>1, <1>2 DEF Settled
  <1>3. CASE outcome # "succeed"
    BY <1>1, <1>3 DEF Settled
  <1> QED
    BY <1>2, <1>3

\* The follow-up is there when the task reports success.
LEMMA HandedAdvance ==
    ASSUME IInv, Handed, FamilyKeeps, NEW w \in Workers, Advance(w)
    PROVE  Handed'
  <1>1. worker \in [Workers -> Handler] /\ row \in [Kinds -> TaskRow]
    BY DEF IInv, DataOK
  <1>2. worker[w].kind \in {"normalize", "split", "analyze"}
    BY HandlerFacts DEF Advance, Placed, Kinds
  <1> DEFINE k == NextKind[worker[w].kind]
  <1>3. k \in Kinds
    BY <1>2 DEF NextKind, Kinds
  <1>4. Begun /\ UNCHANGED <<ledger, session>>
    BY WorkBegun DEF Advance
  <1>5. [row[k] EXCEPT !.st = "queued"].st = "queued"
    BY <1>1, <1>3 DEF TaskRow
  <1>6. CASE row' = [row EXCEPT ![k].st = "queued"] /\ Return(w, "succeed")
    <2>1. row'[k].st = "queued" /\ \A j \in Kinds \ {k} : row'[j] = row[j]
      BY <1>1, <1>3, <1>5, <1>6
    <2>2. Moves(w) /\ worker'[w].pc = "write" /\ worker'[w].kind = worker[w].kind
      BY <1>1, <1>6, ReturnMoves
    <2>3. Done(worker[w].kind)'
      BY <1>2, <2>1, <2>2 DEF Done, NextKind
    <2>4. \A v \in Workers : worker'[v] = worker[v] \/ Earned(v)'
      BY <2>2, <2>3 DEF Earned, Moves
    <2>5. RowsStay
      BY <2>1 DEF RowsStay
    <2>6. \A j \in Kinds : row'[j].st = "succeeded" => row[j].st = "succeeded" \/ Done(j)
      BY <2>1
    <2> QED
      BY <1>4, <2>4, <2>5, <2>6, HandedQueue
  <1>7. CASE /\ row[k].st \in {"queued", "running"}
             /\ UNCHANGED row
             /\ Return(w, "succeed")
    <2>1. Moves(w) /\ worker'[w].pc = "write" /\ worker'[w].kind = worker[w].kind
      BY <1>1, <1>7, ReturnMoves
    <2>2. Done(worker[w].kind)'
      BY <1>2, <1>7, <2>1 DEF Done, NextKind
    <2>3. \A v \in Workers : worker'[v] = worker[v] \/ Earned(v)'
      BY <2>1, <2>2 DEF Earned, Moves
    <2> QED
      BY <1>4, <1>7, <2>3, HandedQueue DEF RowsStay
  <1>8. CASE UNCHANGED row /\ Return(w, "retry")
    BY <1>4, <1>8, HandedReturn DEF Advance, TraceKept, ledger
  <1> QED
    BY <1>6, <1>7, <1>8 DEF Advance

\* The fenced result write records what was earned.
LEMMA HandedWrite ==
    ASSUME IInv, Handed, FamilyKeeps, NEW w \in Workers, Write(w)
    PROVE  Handed'
  <1>1. row \in [Kinds -> TaskRow] /\ worker[w].kind \in Kinds
    BY HandlerFacts DEF IInv, DataOK
  <1>2. Moves(w) /\ worker'[w].pc = "idle"
    BY HandlerFacts, IdleMoves DEF Write
  <1>3. \A v \in Workers : worker'[v] = worker[v] \/ Earned(v)'
    BY <1>2 DEF Earned, Moves
  <1>4. Begun /\ UNCHANGED <<ledger, session>>
    BY WorkBegun DEF Write
  <1>5. CASE row' = row
    BY <1>3, <1>4, <1>5, HandedQueue DEF RowsStay
  <1>6. CASE row' = [row EXCEPT ![worker[w].kind]
                        = Settled(row[worker[w].kind], worker[w].outcome)]
    <2>1. /\ row'[worker[w].kind] = Settled(row[worker[w].kind], worker[w].outcome)
          /\ \A k \in Kinds \ {worker[w].kind} : row'[k] = row[k]
      BY <1>1, <1>6
    <2>2. /\ row'[worker[w].kind].st # "absent"
          /\ row'[worker[w].kind].st = "succeeded" => worker[w].outcome = "succeed"
      BY <1>1, <2>1, SettledFacts
    <2>3. row'[worker[w].kind].st = "succeeded" => Done(worker[w].kind)
      BY <2>2 DEF Write, Handed, Earned
    <2>4. RowsStay
      BY <2>1, <2>2 DEF RowsStay
    <2>5. \A k \in Kinds : row'[k].st = "succeeded" => row[k].st = "succeeded" \/ Done(k)
      BY <2>1, <2>3
    <2> QED
      BY <1>3, <1>4, <2>4, <2>5, HandedQueue
  <1> QED
    BY <1>5, <1>6 DEF Write

\* Claims, crashes, stalls, lost leases and exceptions.
LEMMA HandedOther ==
    ASSUME IInv, Handed, FamilyKeeps, NEW w \in Workers, NEW k \in Kinds,
           Claim(w, k) \/ Crash(w) \/ Stall(w) \/ Dropped(w) \/ Raises(w)
    PROVE  Handed'
  <1>1. row \in [Kinds -> TaskRow] /\ worker[w].kind \in Kinds
    BY HandlerFacts DEF IInv, DataOK
  <1>2. \A r \in TaskRow : [r EXCEPT !.lapsed = TRUE].st = r.st
    BY DEF TaskRow
  <1>3. ASSUME row' = [row EXCEPT ![worker[w].kind].lapsed = TRUE]
        PROVE  \A j \in Kinds : row'[j].st = row[j].st
    BY <1>1, <1>2, <1>3
  <1>4. CASE Claim(w, k)
    <2>1. Moves(w) /\ worker'[w].pc = "start"
      BY <1>4, ClaimMoves
    <2>2. \A v \in Workers : worker'[v] = worker[v] \/ Earned(v)'
      BY <2>1 DEF Earned, Moves
    <2>3. row'[k].st = "running" /\ \A j \in Kinds \ {k} : row'[j] = row[j]
      BY <1>1, <1>4 DEF Claim
    <2>4. Begun /\ UNCHANGED <<ledger, session>>
      BY <1>4 DEF Claim, Handed, Untouched
    <2>5. RowsStay
      BY <2>3 DEF RowsStay
    <2>6. \A j \in Kinds : row'[j].st = "succeeded" => row[j].st = "succeeded"
      BY <2>3
    <2> QED
      BY <2>2, <2>4, <2>5, <2>6, HandedQueue
  <1>5. CASE Crash(w)
    <2>1. Moves(w) /\ worker'[w].pc = "idle"
      BY <1>5, HandlerFacts, IdleMoves DEF Crash
    <2>2. \A v \in Workers : worker'[v] = worker[v] \/ Earned(v)'
      BY <2>1 DEF Earned, Moves
    <2>3. \A j \in Kinds : row'[j].st = row[j].st
      BY <1>3, <1>5 DEF Crash
    <2>4. Begun /\ UNCHANGED <<ledger, session>>
      BY <1>5, WorkBegun DEF Crash
    <2> QED
      BY <2>2, <2>3, <2>4, HandedQueue DEF RowsStay
  <1>6. CASE Stall(w)
    <2>1. \A j \in Kinds : row'[j].st = row[j].st
      BY <1>3, <1>6 DEF Stall
    <2>2. Begun /\ UNCHANGED <<ledger, session>> /\ worker' = worker
      BY <1>6, WorkBegun DEF Stall
    <2> QED
      BY <2>1, <2>2, HandedQueue DEF RowsStay
  <1>7. CASE Dropped(w)
    <2>1. Moves(w) /\ worker'[w].pc = "idle"
      BY <1>7, HandlerFacts, IdleMoves DEF Dropped
    <2>2. \A v \in Workers : worker'[v] = worker[v] \/ Earned(v)'
      BY <2>1 DEF Earned, Moves
    <2>3. Begun /\ UNCHANGED <<ledger, session>> /\ row' = row
      BY <1>7, WorkBegun DEF Dropped
    <2> QED
      BY <2>2, <2>3, HandedQueue DEF RowsStay
  <1>8. CASE Raises(w)
    <2>1. TraceKept /\ UNCHANGED <<row, session, report>>
      BY <1>8 DEF Raises, ledger, TraceKept
    <2> QED
      BY <1>8, <2>1, HandedReturn DEF Raises
  <1> QED
    BY <1>4, <1>5, <1>6, <1>7, <1>8

\* A failed task is put back.
LEMMA HandedRequeue ==
    ASSUME IInv, Handed, FamilyKeeps, NEW k \in Kinds, Requeue(k)
    PROVE  Handed'
  <1>1. row \in [Kinds -> TaskRow]
    BY DEF IInv, DataOK
  <1>2. [row[k] EXCEPT !.st = "queued", !.lapsed = FALSE].st = "queued"
    BY <1>1 DEF TaskRow
  <1>3. row'[k].st = "queued" /\ \A j \in Kinds \ {k} : row'[j] = row[j]
    BY <1>1, <1>2 DEF Requeue
  <1>4. Begun /\ UNCHANGED <<ledger, session>> /\ worker' = worker
    BY DEF Requeue, Handed, Untouched
  <1>5. RowsStay
    BY <1>3 DEF RowsStay
  <1>6. \A j \in Kinds : row'[j].st = "succeeded" => row[j].st = "succeeded"
    BY <1>3
  <1> QED
    BY <1>4, <1>5, <1>6, HandedQueue

\* The ingestion gets its first task.
LEMMA HandedAccept ==
    ASSUME IInv, Handed, FamilyKeeps, Accept
    PROVE  Handed'
  <1>1. row \in [Kinds -> TaskRow] /\ "normalize" \in Kinds
    BY DEF IInv, DataOK, Kinds
  <1>2. [row["normalize"] EXCEPT !.st = "queued"].st = "queued"
    BY <1>1 DEF TaskRow
  <1>3. row'["normalize"].st = "queued" /\ \A j \in Kinds \ {"normalize"} : row'[j] = row[j]
    BY <1>1, <1>2 DEF Accept
  <1>4. RowsStay /\ Begun'
    BY <1>3 DEF RowsStay, Begun
  <1>5. Archived => Archived'
    BY DEF Accept, Archived
  <1>6. \A j \in Kinds : row'[j].st = "succeeded" => Done(j)'
    BY <1>3, <1>4, <1>5, DoneStays DEF Handed
  <1>7. \A v \in Workers : Earned(v)'
    BY <1>4, <1>5, RestingEarns DEF Handed, Accept
  <1> QED
    BY <1>4, <1>6, <1>7 DEF Handed, Accept

\* A step that leaves rows, workers, ledger and Session alone.
LEMMA HandedRest ==
    ASSUME IInv, Handed, FamilyKeeps, UNCHANGED <<ledger, row, worker, session>>
    PROVE  Handed'
  <1>1. CASE Begun
    BY <1>1, HandedQueue DEF RowsStay
  <1>2. CASE Untouched
    <2>1. Untouched'
      BY <1>2 DEF Untouched, ledger
    <2>2. \A k \in Kinds : row'[k].st = "absent"
      BY <1>2 DEF Untouched
    <2>3. \A v \in Workers : worker'[v].pc = "idle"
      BY <1>2 DEF Untouched
    <2>4. \A v \in Workers : Earned(v)'
      BY <2>3 DEF Earned
    <2> QED
      BY <2>1, <2>2, <2>4 DEF Handed, ledger
  <1> QED
    BY <1>1, <1>2 DEF Handed

\* Every step keeps what was handed on.
LEMMA HandedNext == IInv /\ Handed /\ [Next]_vars => Handed'
  <1> SUFFICES ASSUME IInv, Handed, [Next]_vars PROVE Handed'
    OBVIOUS
  <1>1. FamilyKeeps
    BY FamilyKept
  <1>2. CASE Accept
    BY <1>1, <1>2, HandedAccept
  <1>3. ASSUME NEW w \in Workers, NEW k \in Kinds,
               Claim(w, k) \/ Crash(w) \/ Stall(w) \/ Dropped(w) \/ Raises(w)
        PROVE  Handed'
    BY <1>1, <1>3, HandedOther
  <1>4. "split" \in Kinds
    BY DEF Kinds
  <1>5. ASSUME NEW w \in Workers, Handle(w) PROVE Handed'
    BY <1>1, <1>5, HandedSplit, HandedArchive, HandedAdvance DEF Handle
  <1>6. ASSUME NEW w \in Workers, Write(w) PROVE Handed'
    BY <1>1, <1>6, HandedWrite
  <1>7. ASSUME NEW k \in Kinds, Requeue(k) PROVE Handed'
    BY <1>1, <1>7, HandedRequeue
  <1>8. CASE (\E i \in Children : ChildEnds(i)) \/ UNCHANGED vars
    <2>1. UNCHANGED <<ledger, row, worker, session>>
      BY <1>8 DEF ChildEnds, vars
    <2> QED
      BY <1>1, <2>1, HandedRest
  <1> QED
    BY <1>2, <1>3, <1>4, <1>5, <1>6, <1>7, <1>8 DEF Next

\* An accepted Session is never dropped silently: when no task is queued,
\* running or failed, the Session was archived or a plan's every segment is in
\* its child ingestion, whatever crashed, stalled, failed or ran twice.
THEOREM NothingDropped == Spec => []NeverDropped
  <1>1. Init => Handed
    <2> SUFFICES ASSUME Init PROVE Handed
      OBVIOUS
    <2>1. NoRow.st = "absent" /\ Idle.pc = "idle"
      BY DEF NoRow, Idle
    <2>2. \A k \in Kinds : row[k].st = "absent"
      BY <2>1 DEF Init
    <2>3. \A w \in Workers : worker[w].pc = "idle"
      BY <2>1 DEF Init
    <2>4. stage["trace_analyze"] = "none" /\ status = "absent"
      BY DEF Init, Stages
    <2> QED
      BY <2>2, <2>3, <2>4 DEF Handed, Untouched, Earned
  <1>2. Handed => NeverDropped
    <2> SUFFICES ASSUME Handed, status # "absent",
                        \A k \in Kinds : row[k].st \in {"absent", "succeeded"}
                 PROVE  Archived \/ SomeFanOut
      BY DEF NeverDropped, SomeFanOut
    <2>1. row["normalize"].st = "succeeded"
      BY DEF Handed, Begun, Untouched, Kinds
    <2>2. row["split"].st = "succeeded"
      BY <2>1 DEF Handed, Done, Kinds
    <2>3. row["analyze"].st = "succeeded" \/ SomeFanOut
      BY <2>2 DEF Handed, Done, Kinds
    <2>4. row["archive"].st = "succeeded" \/ SomeFanOut
      BY <2>3 DEF Handed, Done, Kinds
    <2> QED
      BY <2>4 DEF Handed, Done, Kinds
  <1> QED
    BY <1>1, <1>2, Inductive, HandedNext, PTL DEF Spec

-----------------------------------------------------------------------------
(* One plan, while every store answers and no lease runs out under a handler *)

Calm == spent["store"] = 0 /\ spent["stall"] = 0

\* A worker at work holds its row's current attempt, and holds it alone.
Sole(w) ==
    worker[w].pc # "idle" =>
        /\ Current(w)
        /\ \A v \in Workers : worker[v].pc # "idle" /\ worker[v].kind = worker[w].kind => v = w
        /\ ~row[worker[w].kind].lapsed

\* The recorded plan is the one the worker acts on.
Guided(w) ==
    /\ worker[w].pc \in {"ask", "checkpoint"} => plan = NoPlan
    /\ worker[w].pc \in {"single", "put", "accept", "fanned", "fanfail"} => plan = worker[w].plan
    /\ worker[w].pc \in {"compose", "file"} => Len(plan) = 1

\* Everything downstream follows the recorded plan.
Followed ==
    /\ \A i \in Children : child[i] # "absent" => Len(plan) > 1
    /\ stage["analyze"] = "succeeded" => Len(plan) = 1
    /\ Archived => Len(plan) = 1

AllSole == \A w \in Workers : Sole(w)

AllGuided == (\A w \in Workers : Guided(w)) /\ Followed

OnePlan == Calm => AllSole /\ AllGuided

\* A fault of a calm time is neither a store's nor a stall.
LEMMA CalmFault ==
    ASSUME DataOK, NEW f \in FaultKinds, Fault(f), Calm'
    PROVE  Calm /\ f \notin {"store", "stall"}
  <1>1. spent \in [FaultKinds -> Nat] /\ spent' = [spent EXCEPT ![f] = spent[f] + 1]
    BY DEF DataOK, Fault
  <1>2. spent[f] \in Nat /\ spent'[f] = spent[f] + 1
    BY <1>1
  <1>3. spent'[f] # 0
    BY <1>2
  <1>4. f \notin {"store", "stall"}
    BY <1>3 DEF Calm
  <1>5. "store" \in FaultKinds /\ "stall" \in FaultKinds
    BY DEF FaultKinds
  <1>6. spent'["store"] = spent["store"] /\ spent'["stall"] = spent["stall"]
    BY <1>1, <1>4, <1>5
  <1> QED
    BY <1>4, <1>6 DEF Calm

\* Attempts stay alone when a worker works on or stops, and only its own row or
\* rows nobody runs change.
LEMMA SoleKept ==
    ASSUME IInv, AllSole, NEW w \in Workers,
           \A v \in Workers \ {w} : worker'[v] = worker[v],
           \/ worker'[w].pc = "idle"
           \/ /\ worker[w].pc # "idle"
              /\ worker'[w].kind = worker[w].kind /\ worker'[w].try = worker[w].try,
           \A k \in Kinds : \/ row'[k] = row[k]
                            \/ row[k].st # "running"
                            \/ /\ worker[w].pc # "idle" /\ worker'[w].pc = "idle"
                               /\ k = worker[w].kind
    PROVE  AllSole'
  <1> SUFFICES ASSUME NEW v \in Workers, worker'[v].pc # "idle"
               PROVE  /\ Current(v)'
                      /\ \A u \in Workers :
                            worker'[u].pc # "idle" /\ worker'[u].kind = worker'[v].kind => u = v
                      /\ ~row'[worker'[v].kind].lapsed
    BY DEF AllSole, Sole
  <1>1. /\ worker[v].pc # "idle"
        /\ worker'[v].kind = worker[v].kind /\ worker'[v].try = worker[v].try
    OBVIOUS
  <1>2. \A u \in Workers : worker'[u].pc # "idle" =>
            worker[u].pc # "idle" /\ worker'[u].kind = worker[u].kind
    OBVIOUS
  <1>3. Sole(v) /\ Sole(w)
    BY DEF AllSole
  <1>4. Current(v) /\ ~row[worker[v].kind].lapsed
    BY <1>1, <1>3 DEF Sole
  <1>5. row'[worker[v].kind] = row[worker[v].kind]
    <2>1. worker[v].kind \in Kinds
      BY HandlerFacts
    <2>2. row[worker[v].kind].st = "running"
      BY <1>4 DEF Current
    <2>3. worker[w].pc # "idle" /\ worker[v].kind = worker[w].kind => v = w
      BY <1>1, <1>3 DEF Sole
    <2> QED
      BY <2>1, <2>2, <2>3
  <1>6. \A u \in Workers :
            worker'[u].pc # "idle" /\ worker'[u].kind = worker'[v].kind => u = v
    BY <1>1, <1>2, <1>3 DEF Sole
  <1> QED
    BY <1>1, <1>4, <1>5, <1>6 DEF Current

\* The recorded plan is kept, and nothing leaves it.
LEMMA GuidedKept ==
    ASSUME AllGuided, NEW w \in Workers,
           \A v \in Workers \ {w} : worker'[v] = worker[v],
           plan' = plan, Guided(w)',
           \A i \in Children : child'[i] # "absent" => child[i] # "absent" \/ Len(plan) > 1,
           stage'["analyze"] = "succeeded" => stage["analyze"] = "succeeded" \/ Len(plan) = 1,
           session' = session \/ Len(plan) = 1
    PROVE  AllGuided'
  <1>1. \A v \in Workers \ {w} : Guided(v)'
    BY DEF AllGuided, Guided
  <1>2. Followed'
    BY DEF AllGuided, Followed, Archived
  <1> QED
    BY <1>1, <1>2 DEF AllGuided

\* A worker moves on; rows, children, Session and plan stay.
LEMMA PlanMove ==
    ASSUME IInv, AllSole, AllGuided, NEW w \in Workers, worker[w].pc # "idle", Moves(w),
           worker'[w].kind = worker[w].kind, worker'[w].try = worker[w].try,
           UNCHANGED <<row, child, session, plan>>,
           stage'["analyze"] = "succeeded" => stage["analyze"] = "succeeded" \/ Len(plan) = 1,
           Guided(w)'
    PROVE  AllSole' /\ AllGuided'
  <1>1. \A v \in Workers \ {w} : worker'[v] = worker[v]
    BY DEF Moves
  <1>2. AllSole'
    BY <1>1, SoleKept
  <1>3. AllGuided'
    BY <1>1, GuidedKept
  <1> QED
    BY <1>2, <1>3

\* A worker goes on to a place that needs no plan, or keeps the one it has.
LEMMA PlanGoto ==
    ASSUME IInv, AllSole, AllGuided, NEW w \in Workers, worker[w].pc # "idle",
           NEW pc \in Places, Goto(w, pc),
           UNCHANGED <<row, child, session, plan>>,
           stage'["analyze"] = "succeeded" => stage["analyze"] = "succeeded" \/ Len(plan) = 1,
           \/ pc \in {"advance", "incomplete"}
           \/ pc \in {"single", "put", "accept", "fanned", "fanfail"} /\ plan = worker[w].plan
           \/ pc = "compose" /\ Len(plan) = 1
    PROVE  AllSole' /\ AllGuided'
  <1>1. /\ Moves(w) /\ worker'[w].pc = pc /\ worker'[w].kind = worker[w].kind
        /\ worker'[w].try = worker[w].try /\ worker'[w].plan = worker[w].plan
    BY HandlerFacts, GotoMoves
  <1>2. Guided(w)'
    BY <1>1 DEF Guided
  <1> QED
    BY <1>1, <1>2, PlanMove

\* A worker hands over its outcome.
LEMMA PlanReturn ==
    ASSUME IInv, AllSole, AllGuided, NEW w \in Workers, worker[w].pc # "idle",
           NEW outcome \in {"succeed", "retry", "fail"}, Return(w, outcome),
           UNCHANGED <<row, child, plan>>, session' = session \/ Len(plan) = 1,
           stage'["analyze"] = "succeeded" => stage["analyze"] = "succeeded" \/ Len(plan) = 1
    PROVE  AllSole' /\ AllGuided'
  <1>1. /\ Moves(w) /\ worker'[w].pc = "write" /\ worker'[w].kind = worker[w].kind
        /\ worker'[w].try = worker[w].try
    BY HandlerFacts, ReturnMoves
  <1>2. Guided(w)'
    BY <1>1 DEF Guided
  <1>3. \A v \in Workers \ {w} : worker'[v] = worker[v]
    BY <1>1 DEF Moves
  <1>4. AllSole'
    BY <1>1, <1>3, SoleKept
  <1>5. AllGuided'
    BY <1>2, <1>3, GuidedKept
  <1> QED
    BY <1>4, <1>5

\* A stage other than split fails.
LEMMA PlanFail ==
    ASSUME IInv, AllSole, AllGuided, NEW w \in Workers, worker[w].pc # "idle",
           NEW s \in Stages \ {"split"}, FailStage(w, s)
    PROVE  AllSole' /\ AllGuided'
  <1>1. stage'["analyze"] = "succeeded" => stage["analyze"] = "succeeded"
    BY DEF FailStage, IInv, DataOK, Stages, Kinds
  <1>2. UNCHANGED <<row, child, session, plan>>
    BY DEF FailStage, family
  <1> QED
    BY <1>1, <1>2, PlanReturn DEF FailStage

\* Another stage's record leaves the analysis' alone.
LEMMA AnalyzeStays ==
    ASSUME IInv, NEW s \in Stages \ {"analyze"}, NEW st, stage' = [stage EXCEPT ![s] = st]
    PROVE  stage'["analyze"] = stage["analyze"]
  BY DEF IInv, DataOK, Stages, Kinds

\* A plan is recorded for the first time.
LEMMA PlanCheckpoint ==
    ASSUME IInv, AllSole, AllGuided, NEW w \in Workers, Checkpoint(w)
    PROVE  AllSole' /\ AllGuided'
  <1>1. plan = NoPlan /\ worker[w].kind = "split"
    BY HandlerFacts DEF Checkpoint, AllGuided, Guided, Placed, WithPlan
  <1>2. Len(plan) = 0
    BY <1>1 DEF NoPlan
  <1>3. /\ \A i \in Children : child[i] = "absent"
        /\ stage["analyze"] # "succeeded"
        /\ ~Archived
        /\ \A v \in Workers : worker[v].pc \notin {"compose", "file"}
    BY <1>2 DEF AllGuided, Followed, Guided
  <1>4. OnPlan(worker[w].plan) \in Places
    BY DEF OnPlan, Places
  <1>5. /\ Moves(w) /\ worker'[w].pc = OnPlan(worker[w].plan)
        /\ worker'[w].kind = worker[w].kind /\ worker'[w].try = worker[w].try
        /\ worker'[w].plan = worker[w].plan
    BY <1>4, HandlerFacts, GotoMoves DEF Checkpoint
  <1>6. plan' = worker[w].plan /\ UNCHANGED <<row, child, session>>
    BY DEF Checkpoint, RecordSplit, family
  <1>7. \A v \in Workers \ {w} : worker'[v] = worker[v]
    BY <1>5 DEF Moves
  <1>8. AllSole'
    BY <1>5, <1>6, <1>7, SoleKept DEF Checkpoint
  <1>9. Guided(w)'
    BY <1>5, <1>6 DEF Guided, OnPlan
  <1>10. \A v \in Workers \ {w} : Guided(v)'
    <2> TAKE v \in Workers \ {w}
    <2>1. worker[v].pc \notin WithPlan \cup {"ask"}
      <3>1. worker[v].pc \in WithPlan \cup {"ask"} =>
              worker[v].kind = "split" /\ worker[v].pc # "idle"
        BY HandlerFacts DEF Placed, WithPlan
      <3>2. worker[v].pc # "idle" /\ worker[v].kind = worker[w].kind => v = w
        BY DEF Checkpoint, AllSole, Sole
      <3> QED
        BY <1>1, <3>1, <3>2
    <2> QED
      BY <1>3, <1>7, <2>1 DEF Guided, WithPlan
  <1>11. stage'["analyze"] = stage["analyze"]
    BY AnalyzeStays DEF Checkpoint, RecordSplit, Stages, Kinds
  <1>12. Followed'
    BY <1>3, <1>6, <1>11 DEF Followed, Archived
  <1> QED
    BY <1>8, <1>9, <1>10, <1>12 DEF AllGuided

\* session.normalize and session.split stay with the recorded plan.
LEMMA PlanSplit ==
    ASSUME IInv, AllSole, AllGuided, NEW w \in Workers,
           \/ Normalize(w) \/ NormalizeFails(w) \/ LoadPlan(w) \/ AskModel(w) \/ Checkpoint(w)
           \/ Single(w) \/ PutChild(w) \/ AcceptChild(w) \/ FanOutFails(w) \/ FannedOut(w)
    PROVE  AllSole' /\ AllGuided'
  <1>0. {"normalize", "split"} \subseteq Stages \ {"analyze"}
    BY DEF Stages, Kinds
  <1>1. CASE Normalize(w)
    <2>1. stage'["analyze"] = stage["analyze"] /\ UNCHANGED <<row, child, session, plan>>
      BY <1>0, <1>1, AnalyzeStays DEF Normalize, family
    <2> QED
      BY <1>1, <2>1, PlanGoto DEF Normalize, At, Places
  <1>2. CASE NormalizeFails(w)
    BY <1>0, <1>2, PlanFail DEF NormalizeFails, At
  <1>3. CASE LoadPlan(w)
    <2>1. Moves(w) /\ worker'[w].kind = worker[w].kind /\ worker'[w].try = worker[w].try
      BY <1>3, LoadPlanMoves
    <2>2. UNCHANGED <<row, child, session, plan, stage>> /\ worker[w].pc # "idle"
      BY <1>3 DEF LoadPlan, At, ledger, family
    <2>3. Guided(w)'
      BY <1>3, <2>2, LoadPlanMoves DEF Guided, OnPlan
    <2> QED
      BY <2>1, <2>2, <2>3, PlanMove
  <1>4. CASE AskModel(w)
    <2>1. UNCHANGED <<row, child, session, plan, stage>> /\ worker[w].pc = "ask"
      BY <1>4 DEF AskModel, ledger, family
    <2>2. plan = NoPlan
      BY <2>1 DEF AllGuided, Guided
    <2>3. Guided(w)'
      BY <1>4, <2>1, <2>2, AskModelMoves DEF Guided
    <2> QED
      BY <1>4, <2>1, <2>3, AskModelMoves, PlanMove
  <1>5. CASE Checkpoint(w)
    BY <1>5, PlanCheckpoint
  <1>6. CASE Single(w)
    <2>1. stage'["analyze"] = stage["analyze"] /\ plan' = worker[w].plan
      BY <1>0, <1>6, AnalyzeStays DEF Single, RecordSplit
    <2>2. plan = worker[w].plan
      BY <1>6 DEF Single, AllGuided, Guided
    <2>3. UNCHANGED <<row, child, session, plan>>
      BY <1>6, <2>1, <2>2 DEF Single, family
    <2> QED
      BY <1>6, <2>1, <2>3, PlanGoto DEF Single, Places
  <1>7. CASE PutChild(w)
    <2>1. UNCHANGED <<row, child, session, plan, stage>>
      BY <1>7 DEF PutChild, ledger
    <2>2. plan = worker[w].plan
      BY <1>7 DEF PutChild, AllGuided, Guided
    <2>3. Goto(w, "accept") \/ Goto(w, "fanfail")
      BY <1>7 DEF PutChild
    <2> QED
      BY <1>7, <2>1, <2>2, <2>3, PlanGoto DEF PutChild, Places
  <1>8. CASE AcceptChild(w)
    <2>1. UNCHANGED <<row, session, plan, stage>> /\ worker[w].pc = "accept"
      BY <1>8 DEF AcceptChild, ledger
    <2>2. plan = worker[w].plan /\ Len(plan) > 1
      BY <2>1, HandlerFacts DEF AllGuided, Guided, Placed
    <2>3. worker[w].next + 1 \in Nat
      BY HandlerFacts
    <2>4. /\ Moves(w) /\ worker'[w].kind = worker[w].kind /\ worker'[w].try = worker[w].try
          /\ worker'[w].pc \in {"put", "fanned", "fanfail"} /\ worker'[w].plan = worker[w].plan
      <3>1. CASE worker' = [worker EXCEPT ![w] =
                              [worker[w] EXCEPT !.pc = "put", !.next = worker[w].next + 1]]
        BY <2>3, <3>1, NextSegmentMoves
      <3>2. CASE worker' = [worker EXCEPT ![w] = [worker[w] EXCEPT !.pc = "fanned"]]
        <4>1. Goto(w, "fanned")
          BY <3>2, HandlerFacts DEF Goto
        <4> QED
          BY <4>1, HandlerFacts, GotoMoves DEF Places
      <3>3. CASE Goto(w, "fanfail")
        BY <3>3, HandlerFacts, GotoMoves DEF Places
      <3> QED
        BY <1>8, <3>1, <3>2, <3>3 DEF AcceptChild
    <2>5. Guided(w)'
      BY <2>1, <2>2, <2>4 DEF Guided
    <2>6. \A v \in Workers \ {w} : worker'[v] = worker[v]
      BY <2>4 DEF Moves
    <2>7. AllSole'
      BY <2>1, <2>4, <2>6, SoleKept
    <2>8. AllGuided'
      BY <2>1, <2>2, <2>5, <2>6, GuidedKept
    <2> QED
      BY <2>7, <2>8
  <1>9. CASE FanOutFails(w)
    <2>1. stage'["analyze"] = stage["analyze"] /\ plan' = worker[w].plan
      BY <1>0, <1>9, AnalyzeStays DEF FanOutFails, RecordSplit
    <2>2. plan = worker[w].plan
      BY <1>9 DEF FanOutFails, AllGuided, Guided
    <2>3. UNCHANGED <<row, child, session, plan>>
      BY <1>9, <2>1, <2>2 DEF FanOutFails, family
    <2> QED
      BY <1>9, <2>1, <2>3, PlanReturn DEF FanOutFails
  <1>10. CASE FannedOut(w)
    <2>1. stage'["analyze"] = stage["analyze"] /\ plan' = worker[w].plan
      BY <1>0, <1>10, AnalyzeStays DEF FannedOut, RecordSplit
    <2>2. plan = worker[w].plan
      BY <1>10 DEF FannedOut, AllGuided, Guided
    <2>3. UNCHANGED <<row, child, session, plan>>
      BY <1>10, <2>1, <2>2 DEF FannedOut, family
    <2> QED
      BY <1>10, <2>1, <2>3, PlanReturn DEF FannedOut
  <1> QED
    BY <1>1, <1>2, <1>3, <1>4, <1>5, <1>6, <1>7, <1>8, <1>9, <1>10

\* The model makes no plan: there was none, and there still is none.
LEMMA PlanAskFails ==
    ASSUME IInv, AllSole, AllGuided, NEW w \in Workers, worker[w].pc = "ask",
           FailStage(w, "split")
    PROVE  AllSole' /\ AllGuided'
  <1>1. plan = NoPlan
    BY DEF AllGuided, Guided
  <1>2. UNCHANGED <<row, child, session, plan>>
    BY <1>1 DEF FailStage, family
  <1>3. stage'["analyze"] = stage["analyze"]
    BY AnalyzeStays DEF FailStage, Stages, Kinds
  <1> QED
    BY <1>2, <1>3, PlanReturn DEF FailStage

\* session.analyze and session.archive run for a single segment only.
LEMMA PlanArchive ==
    ASSUME IInv, AllSole, AllGuided, NEW w \in Workers,
           \/ Analyze(w) \/ AnalyzeFails(w) \/ TraceAnalyze(w) \/ TraceAnalyzeFails(w)
           \/ Gate(w) \/ Incomplete(w) \/ Compose(w) \/ ArchiveFails(w) \/ File(w)
    PROVE  AllSole' /\ AllGuided'
  <1>0. /\ {"trace_analyze", "archive"} \subseteq Stages \ {"analyze"}
        /\ {"analyze", "trace_analyze", "archive"} \subseteq Stages \ {"split"}
    BY DEF Stages, Kinds
  <1>1. CASE Analyze(w)
    <2>1. UNCHANGED <<row, child, session, plan>> /\ worker[w].pc # "idle" /\ Len(plan) = 1
      BY <1>1 DEF Analyze, At, SplitIsSingle, family
    <2>2. Guided(w)'
      BY <1>1, AnalyzeMoves DEF Guided
    <2> QED
      BY <1>1, <2>1, <2>2, AnalyzeMoves, PlanMove
  <1>2. CASE AnalyzeFails(w)
    BY <1>0, <1>2, PlanFail DEF AnalyzeFails, At
  <1>3. CASE TraceAnalyze(w)
    <2>1. stage'["analyze"] = stage["analyze"] /\ UNCHANGED <<row, child, session, plan>>
      BY <1>0, <1>3, AnalyzeStays DEF TraceAnalyze, family
    <2> QED
      BY <1>3, <2>1, PlanGoto DEF TraceAnalyze, Places
  <1>4. CASE TraceAnalyzeFails(w)
    BY <1>0, <1>4, PlanFail DEF TraceAnalyzeFails
  <1>5. CASE Gate(w)
    <2>1. UNCHANGED <<row, child, session, plan, stage>> /\ worker[w].pc # "idle"
      BY <1>5 DEF Gate, At, ledger, family
    <2>2. CASE Goto(w, "incomplete")
      BY <2>1, <2>2, PlanGoto DEF Places
    <2>3. CASE Goto(w, "compose") /\ \A s \in Required : stage[s] = "succeeded"
      <3>1. stage["analyze"] = "succeeded"
        BY <2>3 DEF Required, Stages, Kinds
      <3>2. Len(plan) = 1
        BY <3>1 DEF AllGuided, Followed
      <3> QED
        BY <2>1, <2>3, <3>2, PlanGoto DEF Places
    <2> QED
      BY <1>5, <2>2, <2>3 DEF Gate
  <1>6. CASE Incomplete(w)
    <2>1. stage'["analyze"] = stage["analyze"] /\ UNCHANGED <<row, child, session, plan>>
      BY <1>0, <1>6, AnalyzeStays DEF Incomplete, family
    <2> QED
      BY <1>6, <2>1, PlanReturn DEF Incomplete
  <1>7. CASE Compose(w)
    <2>1. UNCHANGED <<row, child, session, plan, stage>> /\ worker[w].pc = "compose"
      BY <1>7 DEF Compose, ledger, family
    <2>2. Len(plan) = 1
      BY <2>1 DEF AllGuided, Guided
    <2>3. Guided(w)'
      BY <1>7, <2>1, <2>2, ComposeMoves DEF Guided
    <2> QED
      BY <1>7, <2>1, <2>3, ComposeMoves, PlanMove
  <1>8. CASE ArchiveFails(w)
    BY <1>0, <1>8, PlanFail DEF ArchiveFails
  <1>9. CASE File(w)
    <2>1. stage'["analyze"] = stage["analyze"] /\ UNCHANGED <<row, child, plan>>
      BY <1>0, <1>9, AnalyzeStays DEF File, family
    <2>2. Len(plan) = 1
      BY <1>9 DEF File, AllGuided, Guided
    <2> QED
      BY <1>9, <2>1, <2>2, PlanReturn DEF File
  <1> QED
    BY <1>1, <1>2, <1>3, <1>4, <1>5, <1>6, <1>7, <1>8, <1>9

\* A claim takes a row that nobody runs.
LEMMA PlanClaim ==
    ASSUME IInv, AllSole, AllGuided, NEW w \in Workers, NEW k \in Kinds, Claim(w, k)
    PROVE  AllSole' /\ AllGuided'
  <1>1. /\ Moves(w) /\ worker'[w].pc = "start" /\ worker'[w].kind = k
        /\ worker'[w].try = row[k].try + 1
    BY ClaimMoves
  <1>2. \A v \in Workers \ {w} : worker'[v] = worker[v]
    BY <1>1 DEF Moves
  <1>3. UNCHANGED <<child, session, plan, stage>> /\ worker[w].pc = "idle"
    BY DEF Claim, ledger, family
  <1>4. Guided(w)'
    BY <1>1 DEF Guided
  <1>5. AllGuided'
    BY <1>2, <1>3, <1>4, GuidedKept
  <1>6. \A v \in Workers : worker[v].pc # "idle" => worker[v].kind # k
    BY DEF Claim, AllSole, Sole, Current
  <1>7. /\ row'[k] = [st |-> "running", try |-> row[k].try + 1, lapsed |-> FALSE]
        /\ \A j \in Kinds \ {k} : row'[j] = row[j]
    BY DEF Claim, IInv, DataOK
  <1>8. row'[k].st = "running" /\ row'[k].try = row[k].try + 1 /\ ~row'[k].lapsed
    BY <1>7
  <1>9. Sole(w)'
    BY <1>1, <1>2, <1>6, <1>8 DEF Sole, Current
  <1>10. ASSUME NEW v \in Workers \ {w} PROVE Sole(v)'
    <2>1. worker'[v] = worker[v] /\ Sole(v) /\ worker[v].kind \in Kinds
      BY <1>2, HandlerFacts DEF AllSole
    <2>2. SUFFICES ASSUME worker[v].pc # "idle" PROVE Sole(v)'
      BY <2>1 DEF Sole
    <2>3. worker[v].kind # k
      BY <1>6, <2>2
    <2>4. row'[worker[v].kind] = row[worker[v].kind]
      BY <1>7, <2>1, <2>3
    <2>5. Current(v)' /\ ~row'[worker'[v].kind].lapsed
      BY <2>1, <2>2, <2>4 DEF Sole, Current
    <2>6. \A u \in Workers :
              worker'[u].pc # "idle" /\ worker'[u].kind = worker'[v].kind => u = v
      BY <1>1, <1>2, <2>1, <2>2, <2>3 DEF Sole
    <2> QED
      BY <2>5, <2>6 DEF Sole
  <1>11. AllSole'
    BY <1>9, <1>10 DEF AllSole
  <1> QED
    BY <1>5, <1>11

\* A worker stops and leaves its row behind, and no other.
LEMMA PlanStop ==
    ASSUME IInv, AllSole, AllGuided, NEW w \in Workers, Write(w) \/ Crash(w)
    PROVE  AllSole' /\ AllGuided'
  <1>1. row \in [Kinds -> TaskRow] /\ worker[w].kind \in Kinds
    BY HandlerFacts DEF IInv, DataOK
  <1>2. Moves(w) /\ worker'[w].pc = "idle"
    BY HandlerFacts, IdleMoves DEF Write, Crash
  <1>3. \A v \in Workers \ {w} : worker'[v] = worker[v]
    BY <1>2 DEF Moves
  <1>4. \A k \in Kinds \ {worker[w].kind} : row'[k] = row[k]
    BY <1>1 DEF Write, Crash
  <1>5. UNCHANGED <<child, session, plan, stage>> /\ worker[w].pc # "idle"
    BY DEF Write, Crash, ledger, family
  <1>6. Guided(w)'
    BY <1>2 DEF Guided
  <1>7. AllSole'
    BY <1>2, <1>3, <1>4, <1>5, SoleKept
  <1>8. AllGuided'
    BY <1>3, <1>5, <1>6, GuidedKept
  <1> QED
    BY <1>7, <1>8

\* The follow-up's row is not running when it is made.
LEMMA PlanAdvance ==
    ASSUME IInv, AllSole, AllGuided, NEW w \in Workers, Advance(w)
    PROVE  AllSole' /\ AllGuided'
  <1>1. UNCHANGED <<child, session, plan, stage>> /\ worker[w].pc # "idle"
    BY DEF Advance, ledger, family
  <1>2. PICK outcome \in {"succeed", "retry", "fail"} : Return(w, outcome)
    BY DEF Advance
  <1>3. /\ Moves(w) /\ worker'[w].pc = "write" /\ worker'[w].kind = worker[w].kind
        /\ worker'[w].try = worker[w].try
    BY <1>2, HandlerFacts, ReturnMoves
  <1>4. \A v \in Workers \ {w} : worker'[v] = worker[v]
    BY <1>3 DEF Moves
  <1>5. \A k \in Kinds : row'[k] = row[k] \/ row[k].st # "running"
    BY DEF Advance, IInv, DataOK
  <1>6. AllSole'
    BY <1>1, <1>3, <1>4, <1>5, SoleKept
  <1>7. Guided(w)'
    BY <1>3 DEF Guided
  <1>8. AllGuided'
    BY <1>1, <1>4, <1>7, GuidedKept
  <1> QED
    BY <1>6, <1>8

\* No worker moves, and only rows nobody runs change, or a child's task ends.
LEMMA PlanRest ==
    ASSUME IInv, AllSole, AllGuided, UNCHANGED <<worker, session, plan, stage>>,
           \A k \in Kinds : row'[k] = row[k] \/ row[k].st # "running",
           \A i \in Children : child'[i] # "absent" => child[i] # "absent"
    PROVE  AllSole' /\ AllGuided'
  <1>1. ASSUME NEW v \in Workers PROVE Sole(v)'
    <2>1. Sole(v) /\ worker[v].kind \in Kinds
      BY HandlerFacts DEF AllSole
    <2> QED
      BY <2>1 DEF Sole, Current
  <1>2. \A v \in Workers : Guided(v)'
    BY DEF AllGuided, Guided
  <1>3. Followed'
    BY DEF AllGuided, Followed, Archived
  <1> QED
    BY <1>1, <1>2, <1>3 DEF AllSole, AllGuided

\* Before the acceptance there is no first task.
Fresh == status = "absent" => row["normalize"].st = "absent"

\* The first task comes with the acceptance.
LEMMA FreshNext == IInv /\ Fresh /\ [Next]_vars => Fresh'
  <1> SUFFICES ASSUME IInv, Fresh, [Next]_vars, status' = "absent"
               PROVE  row'["normalize"].st = "absent"
    BY DEF Fresh
  <1>1. row \in [Kinds -> TaskRow] /\ "normalize" \in Kinds
    BY DEF IInv, DataOK, Kinds
  <1>2. ASSUME status' = status, row'["normalize"] = row["normalize"]
        PROVE  row'["normalize"].st = "absent"
    BY <1>2 DEF Fresh
  <1>3. ASSUME NEW w \in Workers, Handle(w) PROVE row'["normalize"].st = "absent"
    <2>1. CASE Advance(w)
      <3>1. worker[w].kind \in {"normalize", "split", "analyze"}
        BY <2>1, HandlerFacts DEF Advance, Placed, Kinds
      <3>2. NextKind[worker[w].kind] # "normalize"
        BY <3>1 DEF NextKind
      <3> QED
        BY <1>1, <1>2, <2>1, <3>2 DEF Advance, ledger
    <2>2. CASE \/ NormalizeFails(w) \/ LoadPlan(w) \/ AskModel(w) \/ Checkpoint(w)
               \/ SplitFails(w) \/ PutChild(w) \/ AcceptChild(w) \/ FanOutRaises(w)
               \/ FanOutFails(w)
      BY <1>2, <2>2 DEF NormalizeFails, LoadPlan, AskModel, Checkpoint, SplitFails, PutChild,
                        AcceptChild, FanOutRaises, FanOutFails, FailStage, ledger
    <2>3. CASE \/ Analyze(w) \/ AnalyzeFails(w) \/ TraceAnalyze(w) \/ TraceAnalyzeFails(w)
               \/ Gate(w) \/ Compose(w) \/ ArchiveFails(w)
      BY <1>2, <2>3 DEF Analyze, AnalyzeFails, TraceAnalyze, TraceAnalyzeFails, Gate, Compose,
                        ArchiveFails, FailStage, ledger
    <2>4. CASE \/ Normalize(w) \/ Single(w) \/ FannedOut(w) \/ Incomplete(w) \/ File(w)
      BY <2>4 DEF Normalize, Single, FannedOut, Incomplete, File
    <2> QED
      BY <1>3, <2>1, <2>2, <2>3, <2>4 DEF Handle
  <1>4. ASSUME NEW w \in Workers, Write(w) \/ Crash(w) \/ Stall(w)
        PROVE  row'["normalize"].st = "absent"
    <2>1. status' = status /\ worker[w].kind \in Kinds
      BY <1>4, HandlerFacts DEF Write, Crash, Stall, ledger
    <2>2. row["normalize"].st = "absent"
      BY <2>1 DEF Fresh
    <2>3. row'["normalize"] = row["normalize"]
      BY <1>1, <1>4, <2>1, <2>2 DEF Write, Crash, Stall, Current
    <2> QED
      BY <2>2, <2>3
  <1>5. ASSUME NEW w \in Workers, NEW k \in Kinds, Claim(w, k)
        PROVE  row'["normalize"].st = "absent"
    BY <1>1, <1>2, <1>5 DEF Claim, Fresh, ledger
  <1>6. ASSUME NEW k \in Kinds, Requeue(k) PROVE row'["normalize"].st = "absent"
    BY <1>1, <1>2, <1>6 DEF Requeue, Fresh, ledger
  <1>7. CASE \/ \E w \in Workers : Dropped(w) \/ Raises(w)
             \/ \E i \in Children : ChildEnds(i)
             \/ UNCHANGED vars
    BY <1>2, <1>7 DEF Dropped, Raises, ChildEnds, vars, ledger
  <1>8. CASE Accept
    BY <1>8 DEF Accept
  <1> QED
    BY <1>3, <1>4, <1>5, <1>6, <1>7, <1>8 DEF Next

\* Every step keeps one plan.
LEMMA OnePlanNext == IInv /\ Fresh /\ OnePlan /\ [Next]_vars => OnePlan'
  <1> SUFFICES ASSUME IInv, Fresh, OnePlan, [Next]_vars, Calm' PROVE AllSole' /\ AllGuided'
    BY DEF OnePlan
  <1>0. DataOK /\ FaultKinds = {"crash", "stall", "store", "model", "requeue"}
    BY DEF IInv, FaultKinds
  <1>1. UNCHANGED spent => AllSole /\ AllGuided
    BY DEF OnePlan, Calm
  <1>2. ASSUME NEW f \in FaultKinds, Fault(f)
        PROVE  AllSole /\ AllGuided /\ f \notin {"store", "stall"}
    BY <1>0, <1>2, CalmFault DEF OnePlan
  <1>3. ASSUME NEW w \in Workers, Handle(w) PROVE AllSole' /\ AllGuided'
    <2>1. CASE \/ Normalize(w) \/ NormalizeFails(w) \/ LoadPlan(w) \/ AskModel(w)
               \/ Checkpoint(w) \/ Single(w) \/ PutChild(w) \/ AcceptChild(w)
               \/ FanOutFails(w) \/ FannedOut(w)
      <3>1. UNCHANGED spent
        BY <2>1 DEF Normalize, NormalizeFails, LoadPlan, AskModel, Checkpoint, Single,
                    PutChild, AcceptChild, FanOutFails, FannedOut
      <3> QED
        BY <1>1, <2>1, <3>1, PlanSplit
    <2>2. CASE SplitFails(w) \/ FanOutRaises(w)
      <3>1. CASE Fault("store")
        BY <1>0, <1>2, <3>1
      <3>2. CASE Fault("model") /\ worker[w].pc = "ask" /\ FailStage(w, "split")
        <4>1. AllSole /\ AllGuided
          BY <1>0, <1>2, <3>2
        <4> QED
          BY <3>2, <4>1, PlanAskFails
      <3> QED
        BY <2>2, <3>1, <3>2 DEF SplitFails, FanOutRaises
    <2>3. CASE \/ Analyze(w) \/ AnalyzeFails(w) \/ TraceAnalyze(w) \/ TraceAnalyzeFails(w)
               \/ Gate(w) \/ Incomplete(w) \/ Compose(w) \/ ArchiveFails(w) \/ File(w)
      <3>1. UNCHANGED spent \/ Fault("model")
        BY <2>3 DEF Analyze, AnalyzeFails, TraceAnalyze, TraceAnalyzeFails, Gate, Incomplete,
                    Compose, ArchiveFails, File
      <3>2. AllSole /\ AllGuided
        BY <1>0, <1>1, <1>2, <3>1
      <3> QED
        BY <2>3, <3>2, PlanArchive
    <2>4. CASE Advance(w)
      BY <1>1, <2>4, PlanAdvance DEF Advance
    <2> QED
      BY <1>3, <2>1, <2>2, <2>3, <2>4 DEF Handle
  <1>4. ASSUME NEW w \in Workers, Write(w) \/ Crash(w) PROVE AllSole' /\ AllGuided'
    <2>1. UNCHANGED spent \/ Fault("crash")
      BY <1>4 DEF Write, Crash
    <2>2. AllSole /\ AllGuided
      BY <1>0, <1>1, <1>2, <2>1
    <2> QED
      BY <1>4, <2>2, PlanStop
  <1>5. ASSUME NEW w \in Workers, Stall(w) \/ Raises(w) PROVE AllSole' /\ AllGuided'
    <2>1. Fault("stall") \/ Fault("store")
      BY <1>5 DEF Stall, Raises
    <2> QED
      BY <1>0, <1>2, <2>1
  <1>6. ASSUME NEW w \in Workers, Dropped(w) PROVE AllSole' /\ AllGuided'
    BY <1>1, <1>6 DEF Dropped, AllSole, Sole
  <1>7. ASSUME NEW w \in Workers, NEW k \in Kinds, Claim(w, k) PROVE AllSole' /\ AllGuided'
    BY <1>1, <1>7, PlanClaim DEF Claim
  <1>8. ASSUME NEW k \in Kinds, Requeue(k) PROVE AllSole' /\ AllGuided'
    <2>1. AllSole /\ AllGuided
      BY <1>0, <1>2, <1>8 DEF Requeue
    <2>2. \A j \in Kinds : row'[j] = row[j] \/ row[j].st # "running"
      BY <1>0, <1>8 DEF Requeue, DataOK
    <2>3. UNCHANGED <<worker, session, plan, stage, child>>
      BY <1>8 DEF Requeue, ledger, family
    <2> QED
      BY <2>1, <2>2, <2>3, PlanRest
  <1>9. CASE Accept
    <2>1. AllSole /\ AllGuided
      BY <1>1, <1>9 DEF Accept
    <2>2. \A j \in Kinds : row'[j] = row[j] \/ row[j].st # "running"
      BY <1>0, <1>9 DEF Accept, Fresh, DataOK
    <2>3. UNCHANGED <<worker, session, plan, stage, child>>
      BY <1>9 DEF Accept, family
    <2> QED
      BY <2>1, <2>2, <2>3, PlanRest
  <1>10. ASSUME NEW i \in Children, ChildEnds(i) PROVE AllSole' /\ AllGuided'
    <2>1. UNCHANGED <<worker, session, plan, stage, row, spent>>
      BY <1>10 DEF ChildEnds, ledger
    <2>2. \A j \in Children : child'[j] # "absent" => child[j] # "absent"
      BY <1>0, <1>10 DEF ChildEnds, DataOK
    <2> QED
      BY <1>1, <2>1, <2>2, PlanRest
  <1>11. CASE UNCHANGED vars
    <2>1. UNCHANGED <<worker, session, plan, stage, row, spent, child>>
      BY <1>11 DEF vars, ledger, family
    <2> QED
      BY <1>1, <2>1, PlanRest
  <1> QED
    BY <1>3, <1>4, <1>5, <1>6, <1>7, <1>8, <1>9, <1>10, <1>11 DEF Next


\* While the split row and its plan can be read and no lease runs out under a
\* living handler, crashes, model failures and re-queued tasks never let the
\* conversation end up both in the ingestion's own Session and in children.
THEOREM CountsOnce == Spec => []CountedOnceWhenPlanReadable
  <1>1. Init => Fresh /\ OnePlan
    <2> SUFFICES ASSUME Init PROVE Fresh /\ AllSole /\ AllGuided
      BY DEF OnePlan
    <2>1. NoRow.st = "absent" /\ Idle.pc = "idle"
      BY DEF NoRow, Idle
    <2>2. Fresh
      BY <2>1 DEF Init, Fresh, Kinds
    <2>3. \A w \in Workers : worker[w].pc = "idle"
      BY <2>1 DEF Init
    <2>4. AllSole
      BY <2>3 DEF AllSole, Sole
    <2>5. Followed
      BY DEF Init, Followed, Archived, Stages, Kinds
    <2>6. AllGuided
      BY <2>3, <2>5 DEF AllGuided, Guided
    <2> QED
      BY <2>2, <2>4, <2>6
  <1>2. OnePlan => CountedOnceWhenPlanReadable
    <2> SUFFICES ASSUME Followed PROVE CountedOnce
      BY DEF OnePlan, Calm, AllGuided, CountedOnceWhenPlanReadable
    <2>1. ASSUME Archived, NEW i \in Children, child[i] # "absent" PROVE FALSE
      <3>1. Len(plan) = 1 /\ Len(plan) > 1
        BY <2>1 DEF Followed
      <3> QED
        BY <3>1
    <2> QED
      BY <2>1 DEF CountedOnce
  <1>3. Spec => [](Fresh /\ OnePlan)
    <2>1. IInv /\ (Fresh /\ OnePlan) /\ [Next]_vars => (Fresh /\ OnePlan)'
      BY FreshNext, OnePlanNext
    <2> QED
      BY <1>1, <2>1, Inductive, PTL DEF Spec
  <1> QED
    BY <1>2, <1>3, PTL

=============================================================================
