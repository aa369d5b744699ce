-------------------------- MODULE SessionIngestion --------------------------
(***************************************************************************)
(* One ingestion from its acceptance to a formal Session: the durable      *)
(* handlers session.normalize, session.split, session.analyze and          *)
(* session.archive (session_ingestion/handlers), the stage ledger and the  *)
(* Session row (session_ingestion/repository.py), the write-once payloads  *)
(* (payloads.py), and the fan-out of a split into child ingestions.        *)
(*                                                                         *)
(* Each action is one PostgreSQL transaction or one model call of a        *)
(* handler.  The queue is WorkerTasks seen from a handler: an attempt may  *)
(* die, or stall until another worker repeats it while it still runs, and  *)
(* only the result write is fenced; the handlers' own writes are not.  A   *)
(* row's attempt and fence move together here, so one number stands for    *)
(* both.  A child goes through the same pipeline; of it only the ingestion *)
(* row, the payload and the normalize task are kept.                       *)
(***************************************************************************)
EXTENDS Naturals, Sequences

CONSTANTS
    Workers,      \* worker processes
    Plans,        \* the split plans the model may answer, sequences of segments
    NoSegment,    \* no payload stored
    NoSession,    \* no formal Session, no analysis
    MaxAttempts,  \* DEFAULT_MAX_ATTEMPTS
    MaxFaults,    \* bound: [FaultKinds -> how often each happens]
    MaxTrouble    \* bound: faults of all kinds together

FaultKinds == {"crash", "stall", "store", "model", "requeue"}

Segments == UNION {{p[i] : i \in 1..Len(p)} : p \in Plans}
Children == UNION {1..Len(p) : p \in Plans}

Decisions == {"valuable", "skipped"}

ASSUME PlansAssumption ==
    /\ \A p \in Plans : p \in Seq(Segments) /\ p # << >>
    /\ NoSegment \notin Segments
    /\ MaxAttempts \in Nat \ {0}
    /\ MaxFaults \in [FaultKinds -> Nat]
    /\ MaxTrouble \in Nat

ASSUME NoSessionAssumption == NoSession \notin [segment : Segments, decision : Decisions]

VARIABLES
    raw,      \* whether the accepted Session has turns
    status,   \* ingestions.status
    stage,    \* session_stage_results.status, by stage
    plan,     \* result_ref of the split row, << >> when empty
    report,   \* result_ref of the trace_analyze row
    row,      \* worker_tasks, by kind
    worker,   \* what each worker process is doing
    child,    \* the child ingestions and their normalize tasks
    blob,     \* the children's stored payloads
    session,  \* the formal Session
    spent     \* how much of MaxFaults is used up

ledger == <<status, stage, plan, report>>
family == <<child, blob>>
vars == <<raw, ledger, row, worker, family, session, spent>>

-----------------------------------------------------------------------------
(* Types *)

Kinds == {"normalize", "split", "analyze", "archive"}

\* MANDATORY_STAGES
Stages == Kinds \cup {"trace_analyze"}

NoPlan == << >>

Analyses == [segment : Segments, decision : Decisions] \cup {NoSession}

TaskRow == [st     : {"absent", "queued", "running", "succeeded", "failed"},
            try    : Nat,
            lapsed : BOOLEAN]

NoRow == [st |-> "absent", try |-> 0, lapsed |-> FALSE]

Handler == [pc      : {"idle", "start", "advance", "ask", "checkpoint", "single",
                       "put", "accept", "fanned", "fanfail", "trace",
                       "incomplete", "compose", "file", "write"},
            kind    : Kinds,
            try     : Nat,
            plan    : Plans \cup {NoPlan},
            next    : Nat,
            found   : Analyses,
            outcome : {"none", "succeed", "retry", "fail"}]

Idle == [pc |-> "idle", kind |-> "normalize", try |-> 0, plan |-> NoPlan,
         next |-> 1, found |-> NoSession, outcome |-> "none"]

TypeOK ==
    /\ raw \in {"valid", "empty"}
    /\ status \in {"absent", "accepted", "processing", "archived", "skipped", "failed"}
    /\ stage \in [Stages -> {"none", "pending", "succeeded", "failed"}]
    /\ plan \in Plans \cup {NoPlan}
    /\ report \in Analyses
    /\ row \in [Kinds -> TaskRow]
    /\ worker \in [Workers -> Handler]
    /\ \A w \in Workers : worker[w].pc \in {"put", "accept"} => worker[w].next <= Len(worker[w].plan)
    /\ child \in [Children -> {"absent", "live", "done"}]
    /\ blob \in [Children -> Segments \cup {NoSegment}]
    /\ session \in Analyses
    /\ spent \in [FaultKinds -> Nat]
    /\ \A f \in FaultKinds : spent[f] <= MaxFaults[f]

Init ==
    /\ raw \in {"valid", "empty"}
    /\ status = "absent"
    /\ stage = [s \in Stages |-> "none"]
    /\ plan = NoPlan
    /\ report = NoSession
    /\ row = [k \in Kinds |-> NoRow]
    /\ worker = [w \in Workers |-> Idle]
    /\ child = [i \in Children |-> "absent"]
    /\ blob = [i \in Children |-> NoSegment]
    /\ session = NoSession
    /\ spent = [f \in FaultKinds |-> 0]

Fault(f) ==
    /\ spent[f] < MaxFaults[f]
    /\ spent["crash"] + spent["stall"] + spent["store"] + spent["model"] + spent["requeue"]
          < MaxTrouble
    /\ spent' = [spent EXCEPT ![f] = @ + 1]

-----------------------------------------------------------------------------
(* The queue *)

\* _accept: the ingestion row and its normalize task in one transaction.  A
\* repeated push finds the first ingestion and changes nothing.
Accept ==
    /\ status = "absent"
    /\ status' = "accepted"
    /\ row' = [row EXCEPT !["normalize"].st = "queued"]
    /\ UNCHANGED <<raw, stage, plan, report, worker, family, session, spent>>

Claim(w, k) ==
    /\ worker[w].pc = "idle"
    /\ \/ row[k].st = "queued"
       \/ row[k].st = "running" /\ row[k].lapsed
    /\ row' = [row EXCEPT ![k] = [st |-> "running", try |-> @.try + 1, lapsed |-> FALSE]]
    /\ worker' = [worker EXCEPT ![w] =
                    [Idle EXCEPT !.pc = "start", !.kind = k, !.try = row[k].try + 1]]
    /\ UNCHANGED <<raw, ledger, family, session, spent>>

\* Worker w's attempt is the one the row is on.
Current(w) ==
    /\ row[worker[w].kind].st = "running"
    /\ row[worker[w].kind].try = worker[w].try

At(w, k, pc) == worker[w].kind = k /\ worker[w].pc = pc

Goto(w, pc) == worker' = [worker EXCEPT ![w].pc = pc]

Return(w, outcome) ==
    worker' = [worker EXCEPT ![w] = [Idle EXCEPT !.pc = "write", !.kind = worker[w].kind,
                                                 !.try = worker[w].try,
                                                 !.outcome = outcome]]

Settled(r, outcome) ==
    CASE outcome = "succeed" -> [r EXCEPT !.st = "succeeded"]
      [] outcome = "fail" -> [r EXCEPT !.st = "failed"]
      [] outcome = "retry" /\ r.try < MaxAttempts -> [r EXCEPT !.st = "queued", !.lapsed = FALSE]
      [] OTHER -> [r EXCEPT !.st = "failed"]

\* _write: fenced, so a superseded attempt's result is dropped.
Write(w) ==
    /\ worker[w].pc = "write"
    /\ row' = IF Current(w)
              THEN [row EXCEPT ![worker[w].kind] = Settled(@, worker[w].outcome)]
              ELSE row
    /\ worker' = [worker EXCEPT ![w] = Idle]
    /\ UNCHANGED <<raw, ledger, family, session, spent>>

\* The process dies and the lease runs out.
Crash(w) ==
    /\ worker[w].pc # "idle"
    /\ Fault("crash")
    /\ row' = IF Current(w) THEN [row EXCEPT ![worker[w].kind].lapsed = TRUE] ELSE row
    /\ worker' = [worker EXCEPT ![w] = Idle]
    /\ UNCHANGED <<raw, ledger, family, session>>

\* The process is suspended, and its lease runs out while the handler lives on ...
Stall(w) ==
    /\ worker[w].pc # "idle"
    /\ Current(w)
    /\ Fault("stall")
    /\ row' = [row EXCEPT ![worker[w].kind].lapsed = TRUE]
    /\ UNCHANGED <<raw, ledger, worker, family, session>>

\* ... until its next heartbeat finds the lease lost.
Dropped(w) ==
    /\ worker[w].pc \notin {"idle", "write"}
    /\ ~Current(w)
    /\ worker' = [worker EXCEPT ![w] = Idle]
    /\ UNCHANGED <<raw, ledger, row, family, session, spent>>

\* A read or transaction outside the handlers' try blocks fails: process_once
\* turns the exception into a retry.  (So does a failure that _record_failed
\* could not record.)
Raises(w) ==
    /\ worker[w].pc \in {"start", "advance", "single", "fanned", "fanfail", "trace",
                         "incomplete", "compose", "file"}
    /\ Fault("store")
    /\ Return(w, "retry")
    /\ UNCHANGED <<raw, ledger, row, family, session>>

\* An operator re-queues a failed task.
Requeue(k) ==
    /\ row[k].st = "failed"
    /\ Fault("requeue")
    /\ row' = [row EXCEPT ![k] = [@ EXCEPT !.st = "queued", !.lapsed = FALSE]]
    /\ UNCHANGED <<raw, ledger, worker, family, session>>

NextKind == [normalize |-> "split", split |-> "analyze", analyze |-> "archive"]

\* _enqueue_next.  A live follow-up is found by its dedupe_key; one that has
\* ended is not, and the INSERT meets its primary key.
Advance(w) ==
    /\ worker[w].pc = "advance"
    /\ LET next == row[NextKind[worker[w].kind]]
       IN  \/ /\ next.st = "absent"
              /\ row' = [row EXCEPT ![NextKind[worker[w].kind]].st = "queued"]
              /\ Return(w, "succeed")
           \/ /\ next.st \in {"queued", "running"}
              /\ UNCHANGED row
              /\ Return(w, "succeed")
           \/ /\ next.st \in {"succeeded", "failed"}
              /\ UNCHANGED row
              /\ Return(w, "retry")
    /\ UNCHANGED <<raw, ledger, family, session, spent>>

-----------------------------------------------------------------------------
(* session.normalize *)

\* Mistake: an attempt that finds its stage done has nothing left to do.
NormalizeOnce(w) ==
    /\ At(w, "normalize", "start")
    /\ raw = "valid"
    /\ stage' = [stage EXCEPT !["normalize"] = "succeeded"]
    /\ status' = "processing"
    /\ IF stage["normalize"] = "succeeded" THEN Return(w, "succeed") ELSE Goto(w, "advance")
    /\ UNCHANGED <<raw, plan, report, row, family, session, spent>>

\* The stage is recorded, and the follow-up enqueued in the next transaction.
Normalize(w) ==
    /\ At(w, "normalize", "start")
    /\ raw = "valid"
    /\ stage' = [stage EXCEPT !["normalize"] = "succeeded"]
    /\ status' = "processing"
    /\ Goto(w, "advance")
    /\ UNCHANGED <<raw, plan, report, row, family, session, spent>>

\* _record_failed, then a retry.
FailStage(w, s) ==
    /\ stage' = [stage EXCEPT ![s] = "failed"]
    /\ plan' = IF s = "split" THEN NoPlan ELSE plan
    /\ Return(w, "retry")
    /\ UNCHANGED <<raw, status, report, row, family, session>>

NormalizeFails(w) ==
    /\ At(w, "normalize", "start")
    /\ raw = "empty"
    /\ FailStage(w, "normalize")
    /\ UNCHANGED spent

-----------------------------------------------------------------------------
(* session.split *)

RecordSplit(w, st) ==
    /\ stage' = [stage EXCEPT !["split"] = st]
    /\ plan' = worker[w].plan

OnPlan(p) == IF Len(p) = 1 THEN "single" ELSE "put"

\* Mistake: a retry decides the boundaries again.
NeverCheckpointed == FALSE

Checkpointed == plan # NoPlan

\* _load_or_create_split_plan: an earlier attempt's plan is reused ...
LoadPlan(w) ==
    /\ At(w, "split", "start")
    /\ worker' = [worker EXCEPT ![w] =
                    IF Checkpointed
                    THEN [worker[w] EXCEPT !.plan = plan, !.pc = OnPlan(plan)]
                    ELSE [worker[w] EXCEPT !.pc = "ask"]]
    /\ UNCHANGED <<raw, ledger, row, family, session, spent>>

\* ... and otherwise the model decides, from the normalized Session ...
AskModel(w) ==
    /\ worker[w].pc = "ask"
    /\ stage["normalize"] = "succeeded"
    /\ \E p \in Plans :
          worker' = [worker EXCEPT ![w] = [worker[w] EXCEPT !.plan = p, !.pc = "checkpoint"]]
    /\ UNCHANGED <<raw, ledger, row, family, session, spent>>

\* ... and the plan is recorded before it is acted on.
Checkpoint(w) ==
    /\ worker[w].pc = "checkpoint"
    /\ RecordSplit(w, "pending")
    /\ Goto(w, OnPlan(worker[w].plan))
    /\ UNCHANGED <<raw, status, report, row, family, session, spent>>

\* The split row or its plan cannot be read, or a new plan cannot be stored, or
\* the model does not make one: the failure is recorded over whatever the split
\* row holds.
SplitFails(w) ==
    /\ \/ At(w, "split", "start") /\ Fault("store")
       \/ worker[w].pc = "ask" /\ (Fault("store") \/ Fault("model"))
       \/ worker[w].pc = "checkpoint" /\ Fault("store")
    /\ FailStage(w, "split")

\* One segment: the ingestion itself goes on.
Single(w) ==
    /\ worker[w].pc = "single"
    /\ RecordSplit(w, "succeeded")
    /\ status' = "processing"
    /\ Goto(w, "advance")
    /\ UNCHANGED <<raw, report, row, family, session, spent>>

Segment(w) == worker[w].plan[worker[w].next]

\* Mistake: the stored payload is replaced.
ReplacesPayload(i, seg) == TRUE

\* _put_once: a payload may be stored again, never changed.
PutOnce(i, seg) == blob[i] \in {NoSegment, seg}

PutChild(w) ==
    /\ worker[w].pc = "put"
    /\ IF PutOnce(worker[w].next, Segment(w))
       THEN /\ blob' = [blob EXCEPT ![worker[w].next] = Segment(w)]
            /\ Goto(w, "accept")
       ELSE /\ Goto(w, "fanfail")
            /\ UNCHANGED blob
    /\ UNCHANGED <<raw, ledger, row, child, session, spent>>

\* Mistake: the loop goes one segment too far.
MoreSegmentsOrLast(w) == worker[w].next <= Len(worker[w].plan)

MoreSegments(w) == worker[w].next < Len(worker[w].plan)

\* _accept_and_enqueue_child: accept answers a repeated child with its own id,
\* so enqueue runs again; it finds a live normalize task, and meets the primary
\* key of one that has ended.
AcceptChild(w) ==
    /\ worker[w].pc = "accept"
    /\ LET i == worker[w].next
       IN  \/ /\ child[i] = "done"
              /\ Goto(w, "fanfail")
              /\ UNCHANGED child
           \/ /\ child[i] # "done"
              /\ child' = [child EXCEPT ![i] = "live"]
              /\ worker' = [worker EXCEPT ![w] =
                              IF MoreSegments(w)
                              THEN [worker[w] EXCEPT !.pc = "put", !.next = i + 1]
                              ELSE [worker[w] EXCEPT !.pc = "fanned"]]
    /\ UNCHANGED <<raw, ledger, row, blob, session, spent>>

FanOutRaises(w) ==
    /\ worker[w].pc \in {"put", "accept"}
    /\ Fault("store")
    /\ Goto(w, "fanfail")
    /\ UNCHANGED <<raw, ledger, row, family, session>>

\* A failed fan-out keeps the plan and retries.
FanOutFails(w) ==
    /\ worker[w].pc = "fanfail"
    /\ RecordSplit(w, "pending")
    /\ Return(w, "retry")
    /\ UNCHANGED <<raw, status, report, row, family, session, spent>>

FannedOut(w) ==
    /\ worker[w].pc = "fanned"
    /\ RecordSplit(w, "succeeded")
    /\ status' = "skipped"
    /\ Return(w, "succeed")
    /\ UNCHANGED <<raw, report, row, family, session, spent>>

\* A child's normalize task ends.
ChildEnds(i) ==
    /\ child[i] = "live"
    /\ child' = [child EXCEPT ![i] = "done"]
    /\ UNCHANGED <<raw, ledger, row, worker, blob, session, spent>>

-----------------------------------------------------------------------------
(* session.analyze *)

\* SessionStages.analyze takes the single segment of a succeeded split.
SplitIsSingle == stage["split"] = "succeeded" /\ Len(plan) = 1

Analyze(w) ==
    /\ At(w, "analyze", "start")
    /\ SplitIsSingle
    /\ stage' = [stage EXCEPT !["analyze"] = "succeeded"]
    /\ worker' = [worker EXCEPT ![w] = [worker[w] EXCEPT !.plan = plan, !.pc = "trace"]]
    /\ UNCHANGED <<raw, status, plan, report, row, family, session, spent>>

AnalyzeFails(w) ==
    /\ At(w, "analyze", "start")
    /\ IF SplitIsSingle THEN Fault("model") ELSE UNCHANGED spent
    /\ FailStage(w, "analyze")

TraceAnalyze(w) ==
    /\ worker[w].pc = "trace"
    /\ \E d \in Decisions : report' = [segment |-> worker[w].plan[1], decision |-> d]
    /\ stage' = [stage EXCEPT !["trace_analyze"] = "succeeded"]
    /\ Goto(w, "advance")
    /\ UNCHANGED <<raw, status, plan, row, family, session, spent>>

TraceAnalyzeFails(w) ==
    /\ worker[w].pc = "trace"
    /\ Fault("model")
    /\ FailStage(w, "trace_analyze")

-----------------------------------------------------------------------------
(* session.archive *)

Required == Stages \ {"archive"}

Gate(w) ==
    /\ At(w, "archive", "start")
    /\ Goto(w, IF \A s \in Required : stage[s] = "succeeded" THEN "compose" ELSE "incomplete")
    /\ UNCHANGED <<raw, ledger, row, family, session, spent>>

\* mandatory_stages_incomplete: the task fails, with no retry.
Incomplete(w) ==
    /\ worker[w].pc = "incomplete"
    /\ stage' = [stage EXCEPT !["archive"] = "failed"]
    /\ status' = "failed"
    /\ Return(w, "fail")
    /\ UNCHANGED <<raw, plan, report, row, family, session, spent>>

Compose(w) ==
    /\ worker[w].pc = "compose"
    /\ stage["trace_analyze"] = "succeeded"
    /\ worker' = [worker EXCEPT ![w] = [worker[w] EXCEPT !.found = report, !.pc = "file"]]
    /\ UNCHANGED <<raw, ledger, row, family, session, spent>>

ArchiveFails(w) ==
    /\ worker[w].pc = "compose"
    /\ stage["trace_analyze"] # "succeeded"
    /\ FailStage(w, "archive")
    /\ UNCHANGED spent

\* The Session, the archive stage and the status in one transaction.
File(w) ==
    /\ worker[w].pc = "file"
    /\ session' = worker[w].found
    /\ stage' = [stage EXCEPT !["archive"] = "succeeded"]
    /\ status' = IF worker[w].found.decision = "skipped" THEN "skipped" ELSE "archived"
    /\ Return(w, "succeed")
    /\ UNCHANGED <<raw, plan, report, row, family, spent>>

-----------------------------------------------------------------------------
Handle(w) ==
    \/ Normalize(w)
    \/ NormalizeFails(w)
    \/ LoadPlan(w)
    \/ AskModel(w)
    \/ Checkpoint(w)
    \/ SplitFails(w)
    \/ Single(w)
    \/ PutChild(w)
    \/ AcceptChild(w)
    \/ FanOutRaises(w)
    \/ FanOutFails(w)
    \/ FannedOut(w)
    \/ Analyze(w)
    \/ AnalyzeFails(w)
    \/ TraceAnalyze(w)
    \/ TraceAnalyzeFails(w)
    \/ Gate(w)
    \/ Incomplete(w)
    \/ Compose(w)
    \/ ArchiveFails(w)
    \/ File(w)
    \/ Advance(w)

Next ==
    \/ Accept
    \/ \E w \in Workers, k \in Kinds : Claim(w, k)
    \/ \E w \in Workers : Handle(w)
    \/ \E w \in Workers : Write(w)
    \/ \E w \in Workers : Crash(w)
    \/ \E w \in Workers : Stall(w)
    \/ \E w \in Workers : Dropped(w)
    \/ \E w \in Workers : Raises(w)
    \/ \E k \in Kinds : Requeue(k)
    \/ \E i \in Children : ChildEnds(i)

Spec == Init /\ [][Next]_vars

-----------------------------------------------------------------------------
(* Safety *)

AllAccepted(p) == \A i \in 1..Len(p) : child[i] # "absent" /\ blob[i] = p[i]

\* A split that is recorded as done has handed every one of its segments to a
\* child ingestion that holds exactly that segment, whichever attempts of the
\* task ran into each other on the way.
FanOutComplete ==
    stage["split"] = "succeeded" /\ Len(plan) > 1 => AllAccepted(plan)

Archived == session # NoSession

\* The conversation ends up in the ingestion's own Session or in its children's,
\* never in both: Evidence would count it twice.
CountedOnce == ~(Archived /\ \E i \in Children : child[i] # "absent")

\* Crashes, model failures and re-queued tasks alone never make an ingestion
\* count twice: the checkpointed plan binds every later attempt.
CountedOnceWhenPlanReadable ==
    spent["store"] = 0 /\ spent["stall"] = 0 => CountedOnce

\* An accepted Session is never dropped silently: when nothing is queued or in
\* work any more, it was archived or fanned out completely, or a task shows as
\* failed.
NeverDropped ==
    /\ status # "absent"
    /\ \A k \in Kinds : row[k].st \in {"absent", "succeeded"}
    => \/ Archived
       \/ \E p \in Plans : Len(p) > 1 /\ AllAccepted(p)

\* A split task whose attempts are used up has not left its fan-out half done:
\* a retry reuses the plan and the children's ids, and so can finish it.
FanOutResumes ==
    row["split"].st = "failed"
    => \/ \A i \in Children : child[i] = "absent"
       \/ \E p \in Plans : AllAccepted(p)
=============================================================================
