-------------------------- MODULE ExperienceOutbox --------------------------
(***************************************************************************)
(* The experience outbox (team_skills/experiences): revisions of a         *)
(* subject's document are appended to an outbox, the worker's periodic     *)
(* experience_tick dispatches one delivery job at a time, and the          *)
(* experience.sync handler projects the document to a file in OpenViking   *)
(* under the lease experience:deliver.  OpenViking is external.            *)
(*                                                                         *)
(* A document is known by its subject and revision.  The tenant has        *)
(* experience_sync enabled.  The lease's owner_id is made of task id and   *)
(* fence, so that no two attempts share one, and a lease that has run out  *)
(* is as good as released: it is known by the attempt that holds it.       *)
(***************************************************************************)
EXTENDS TaskAttempts, FiniteSets

CONSTANTS
    Subjects,        \* experiences, and the pattern sets of Skills
    MaxRevision,     \* bound: revisions of a subject
    Workers,         \* worker processes
    MaxDeliveries,   \* the 3 of _deliver's terminal
    MaxStalls,       \* bound: crashes, errors, lost leases and re-queues
    MaxCancels,      \* bound: jobs with a cancel request at a time
    NoEvent          \* what an idle worker or dispatch pass has in hand

Events == Subjects \X (1..MaxRevision)

ASSUME OutboxAssumption ==
    /\ {MaxRevision, MaxDeliveries, MaxStalls, MaxCancels} \subseteq Nat
    /\ MaxDeliveries <= MaxAttempts
    /\ NoEvent \notin Events \cup (Events \X Nat)

VARIABLES
    event,     \* experience_sync_outbox
    job,       \* worker_tasks, by the event a delivery command is for
    done,      \* events whose delivery command has a result
    lease,     \* who holds experience:deliver: event and attempt, or NoEvent
    remote,    \* the revision of the file in OpenViking, by subject
    worker,    \* what each worker process is doing
    tick,      \* the queued event that a dispatch pass found without a job
    lost,      \* writes sent by an attempt that no longer waits, not yet served
    strays,    \* of those, the ones served since over a newer document
    late,      \* whether the lease ever ran out during a request
    stalls     \* how much of MaxStalls is used up

vars == <<event, job, done, lease, remote, worker, tick, lost, strays, late, stalls>>

-----------------------------------------------------------------------------
(* Types *)

Settled == {"synced", "dead_letter"}

\* tried: attempt > 0; indexed: both index statuses are "complete".  Both are
\* kept while the event is queued: of a settled one nothing reads them.
EventRow == [status  : {"none", "pending", "queued"} \cup Settled,
             tried   : BOOLEAN,
             indexed : BOOLEAN]

RowIn(status) == [status |-> status, tried |-> FALSE, indexed |-> FALSE]

Location == {"idle", "open", "event", "guard", "out", "receipt", "release", "write"}

\* Where a worker is in sync and _deliver, with the locals it still needs.
Attempt == [pc      : Location,
            event   : Events \cup {NoEvent},
            n       : Nat,                     \* ClaimedTask.attempt
            known   : BOOLEAN,                 \* event.indexed, as read
            req     : {"none", "check", "write", "confirm"},
            served  : BOOLEAN,                 \* the write has taken effect
            indexed : BOOLEAN,                 \* of the receipt
            failure : {"none", "retryable", "final"},   \* SyncFailure
            outcome : Outcomes \cup {"none"}]

Idle == [pc |-> "idle", event |-> NoEvent, n |-> 0, known |-> FALSE,
         req |-> "none", served |-> FALSE, indexed |-> FALSE, failure |-> "none",
         outcome |-> "none"]

TypeOK ==
    /\ event \in [Events -> EventRow]
    /\ job \in [Events -> TaskRow]
    /\ done \subseteq Events
    /\ lease \in (Events \X Nat) \cup {NoEvent}
    /\ remote \in [Subjects -> 0..MaxRevision]
    /\ worker \in [Workers -> Attempt]
    /\ \A w \in Workers : worker[w].pc # "idle" => worker[w].event \in Events
    /\ tick \in Events \cup {NoEvent}
    /\ lost \subseteq Events
    /\ strays \subseteq Events
    /\ late \in BOOLEAN
    /\ stalls \in 0..MaxStalls

Init ==
    /\ event = [e \in Events |-> RowIn("none")]
    /\ job = [e \in Events |-> Absent]
    /\ done = {}
    /\ lease = NoEvent
    /\ remote = [s \in Subjects |-> 0]
    /\ worker = [w \in Workers |-> Idle]
    /\ tick = NoEvent
    /\ lost = {}
    /\ strays = {}
    /\ late = FALSE
    /\ stalls = 0

-----------------------------------------------------------------------------
(* The attempt of worker w.  A definition marked "Mistake" is not part of the *)
(* model: it is a plausible error in the definition below it, which one of    *)
(* the properties has to rule out.                                            *)

At(w, pc) == worker[w].pc = pc

Event(w) == worker[w].event

Goto(w, pc, new) == worker' = [worker EXCEPT ![w] = [new EXCEPT !.pc = pc]]

\* Leaving the try of sync, and a result from outside of it.
Left(w) == [Idle EXCEPT !.event = Event(w), !.n = worker[w].n]

Return(w, outcome) == Goto(w, "release", [Left(w) EXCEPT !.outcome = outcome])

\* The end of project, and of what only it needs.
Deliver(w, failure, indexed) ==
    Goto(w, "receipt", [Left(w) EXCEPT !.failure = failure, !.indexed = indexed])

Answer(w, outcome) ==
    Goto(w, "write", [Left(w) EXCEPT !.outcome = outcome])

\* require_current, without allow_cancel.
Holds(w) == Current(job[Event(w)], worker[w].n) /\ ~job[Event(w)].cancel

Self(w) == <<Event(w), worker[w].n>>

\* current: the attempt, and a renewal of the resource lease.
CurrentAttempt(w) == Holds(w) /\ lease = Self(w)

InTry == {"event", "guard", "out", "receipt"}

Stall ==
    /\ stalls < MaxStalls
    /\ stalls' = stalls + 1

-----------------------------------------------------------------------------
(* The outbox and the dispatch pass *)

Appended(s) == {r \in 1..MaxRevision : event[<<s, r>>].status # "none"}

\* ExperienceOutbox.append, under the lock of the subject's head: a changed
\* exemplary experience, a compilation or a candidate's outcome.
Append(s) ==
    /\ \E r \in 1..MaxRevision :
          /\ Appended(s) = 1..(r - 1)
          /\ event' = [event EXCEPT ![<<s, r>>].status = "pending"]
    /\ UNCHANGED <<job, done, lease, remote, worker, tick, lost, strays, late, stalls>>

Queued(rows) == {e \in Events : rows[e].status = "queued"}

\* Mistake: any pending event will do.
AnyPending(rows) == {e \in Events : rows[e].status = "pending"}

\* ExperienceOutbox.next: created_at is taken in any order.
Deliverable(rows) ==
    {e \in Events :
        /\ rows[e].status = "pending"
        /\ \A r \in 1..(e[2] - 1) : rows[<<e[1], r>>].status \notin {"pending", "queued"}}

\* The end of a pass: the next event gets its command and its job.
Dispatch(rows) ==
    IF Queued(rows) = {} /\ Deliverable(rows) # {}
    THEN \E e \in Deliverable(rows) :
            /\ event' = [rows EXCEPT ![e].status = "queued"]
            /\ job' = [job EXCEPT ![e] = Enqueued]
    ELSE /\ event' = rows
         /\ UNCHANGED job

\* Mistake: a cancelled job is overlooked.
JobHasFailed(row) == row.status = "failed"

JobIsOver(row) == row.status \in {"cancelled", "failed"}

\* experience_tick is one transaction and, by the row lock of its lease,
\* excludes another; but a job it has read may change before it commits.
TickFinds ==
    /\ tick = NoEvent
    /\ \E e \in Queued(event) :
          /\ JobIsOver(job[e])
          /\ tick' = e
    /\ UNCHANGED <<event, job, done, lease, remote, worker, lost, strays, late, stalls>>

TickBuries ==
    /\ tick # NoEvent
    /\ Dispatch([event EXCEPT ![tick] = RowIn("dead_letter")])
    /\ tick' = NoEvent
    /\ UNCHANGED <<done, lease, remote, worker, lost, strays, late, stalls>>

TickDispatches ==
    /\ tick = NoEvent
    /\ Queued(event) = {}
    /\ Deliverable(event) # {}
    /\ Dispatch(event)
    /\ UNCHANGED <<done, lease, remote, worker, tick, lost, strays, late, stalls>>

TickFails ==
    /\ tick # NoEvent
    /\ Stall
    /\ tick' = NoEvent
    /\ UNCHANGED <<event, job, done, lease, remote, worker, lost, strays, late>>

-----------------------------------------------------------------------------
(* Operators and the queue *)

RequestCancel(e) ==
    /\ Cancellable(job[e])
    /\ Cardinality({d \in Events : job[d].cancel}) < MaxCancels
    /\ job' = [job EXCEPT ![e] = CancelAsked(job[e])]
    /\ UNCHANGED <<event, done, lease, remote, worker, tick, lost, strays, late, stalls>>

Requeue(e) ==
    /\ Requeuable(job[e])
    /\ Stall
    /\ job' = [job EXCEPT ![e] = Requeued(job[e])]
    /\ UNCHANGED <<event, done, lease, remote, worker, tick, lost, strays, late>>

\* claim; process_once answers a cancelled task without the handler.
Claim(w, e) ==
    /\ At(w, "idle")
    /\ Claimable(job[e])
    /\ job' = [job EXCEPT ![e] = Claimed(job[e])]
    /\ LET new == [Idle EXCEPT !.event = e, !.n = job[e].n + 1]
       IN  IF job[e].cancel
           THEN Goto(w, "write", [new EXCEPT !.outcome = "cancelled"])
           ELSE Goto(w, "open", new)
    /\ UNCHANGED <<event, done, lease, remote, tick, lost, strays, late, stalls>>

\* The attempt that holds job e is still there.
Attended(e) == \E w \in Workers : Event(w) = e /\ worker[w].n = job[e].n

TaskLeaseExpires(e) ==
    /\ job[e].leased
    /\ job[e].status \in Active
    /\ IF Attended(e) THEN Stall ELSE UNCHANGED stalls
    /\ job' = [job EXCEPT ![e].leased = FALSE]
    /\ UNCHANGED <<event, done, lease, remote, worker, tick, lost, strays, late>>

-----------------------------------------------------------------------------
(* sync, _deliver and project *)

\* Mistake: the lease is taken from whoever has it.
TakenOver == TRUE

\* ResourceLeaseRepository.acquire, for an owner that has never held it.
Grantable == lease = NoEvent

\* The first transaction: the command's result, and the resource lease.
Open(w) ==
    /\ At(w, "open")
    /\ IF Holds(w) /\ Event(w) \in done
       THEN Answer(w, "succeed") /\ UNCHANGED lease
       ELSE IF Holds(w) /\ Grantable
       THEN lease' = Self(w) /\ Goto(w, "event", worker[w])
       ELSE Answer(w, "retry") /\ UNCHANGED lease
    /\ UNCHANGED <<event, job, done, remote, tick, lost, strays, late, stalls>>

\* The event as it is now.  A file that an earlier attempt may have written is
\* looked at first; the parent directories are taken to be there.
ReadEvent(w) ==
    /\ At(w, "event")
    /\ LET row == event[Event(w)]
       IN  IF row.status = "dead_letter"
           THEN Return(w, "fail")
           ELSE Goto(w, "guard", [worker[w] EXCEPT !.known = row.indexed,
                                                   !.req = IF row.tried THEN "check" ELSE "write"])
    /\ UNCHANGED <<event, job, done, lease, remote, tick, lost, strays, late, stalls>>

\* The secret of the target cannot be resolved.
SecretMissing(w) ==
    /\ At(w, "event")
    /\ event[Event(w)].status # "dead_letter"
    /\ Deliver(w, "final", FALSE)
    /\ UNCHANGED <<event, job, done, lease, remote, tick, lost, strays, late, stalls>>

\* before_send, ahead of each request; its RuntimeError leaves the handler.
BeforeSend(w) ==
    /\ At(w, "guard")
    /\ IF CurrentAttempt(w)
       THEN Goto(w, "out", worker[w])
       ELSE Return(w, "retry")
    /\ UNCHANGED <<event, job, done, lease, remote, tick, lost, strays, late, stalls>>

\* OpenViking carries out the write that worker w waits for.
Overwritten(e) == [remote EXCEPT ![e[1]] = e[2]]

Serve(w) ==
    /\ At(w, "out")
    /\ worker[w].req = "write"
    /\ ~worker[w].served
    /\ remote' = Overwritten(Event(w))
    /\ Goto(w, "out", [worker[w] EXCEPT !.served = TRUE])
    /\ UNCHANGED <<event, job, done, lease, tick, lost, strays, late, stalls>>

\* matches: the file's digest is the event's.
Matches(w) == remote[Event(w)[1]] = Event(w)[2]

\* The answer to the check: there and indexed, or the file is written (again).
CheckAnswered(w) ==
    /\ At(w, "out")
    /\ worker[w].req = "check"
    /\ IF Matches(w) /\ worker[w].known
       THEN Deliver(w, "none", TRUE)
       ELSE Goto(w, "guard", [worker[w] EXCEPT !.req = "write", !.known = FALSE])
    /\ UNCHANGED <<event, job, done, lease, remote, tick, lost, strays, late, stalls>>

\* Mistake: the index is not waited for, nor is the file read back.
TakenAtItsWord(w) ==
    /\ At(w, "out")
    /\ worker[w].req = "write"
    /\ Deliver(w, "none", TRUE)
    /\ UNCHANGED <<event, job, done, lease, remote, tick, lost, strays, late, stalls>>

\* The answer to the write: content_updated, and the index complete or not yet.
\* Of the requests that project may make here (the directories, replace, create,
\* replace again after a race), each behind its own before_send, at most one writes
\* the document, and that is the last: it stands for all of them.
WriteAnswered(w) ==
    /\ At(w, "out")
    /\ worker[w].req = "write"
    /\ worker[w].served
    /\ \/ Goto(w, "guard", [worker[w] EXCEPT !.indexed = TRUE, !.req = "confirm",
                                             !.served = FALSE])
       \/ Deliver(w, "retryable", FALSE)
    /\ UNCHANGED <<event, job, done, lease, remote, tick, lost, strays, late, stalls>>

ConfirmAnswered(w) ==
    /\ At(w, "out")
    /\ worker[w].req = "confirm"
    /\ Deliver(w, IF Matches(w) THEN "none" ELSE "retryable", TRUE)
    /\ UNCHANGED <<event, job, done, lease, remote, tick, lost, strays, late, stalls>>

\* A write whose sender goes away may still be served.
Gone(w) ==
    IF At(w, "out") /\ worker[w].req = "write" /\ ~worker[w].served
    THEN lost \cup {Event(w)}
    ELSE lost

\* A refusal, or no answer within httpx's timeout.
RequestFails(w) ==
    /\ At(w, "out")
    /\ \/ Deliver(w, "final", FALSE) /\ UNCHANGED lost
       \/ Deliver(w, "retryable", worker[w].indexed) /\ lost' = Gone(w)
    /\ UNCHANGED <<event, job, done, lease, remote, tick, strays, late, stalls>>

\* Mistake: the attempts are left for the queue to count.
RetriedRow(w) ==
    IF worker[w].failure = "final"
    THEN RowIn("dead_letter")
    ELSE [status |-> "queued", tried |-> TRUE, indexed |-> worker[w].indexed]

\* The event after a delivery that failed.
FailedRow(w) ==
    IF worker[w].failure = "final" \/ worker[w].n >= MaxDeliveries
    THEN RowIn("dead_letter")
    ELSE [status |-> "queued", tried |-> TRUE, indexed |-> worker[w].indexed]

\* The receipt of a delivery, and with it the command's result.
Receipt(w) ==
    /\ At(w, "receipt")
    /\ IF ~CurrentAttempt(w)
       THEN Return(w, "retry") /\ UNCHANGED <<event, done>>
       ELSE IF worker[w].failure = "none"
       THEN /\ event' = [event EXCEPT ![Event(w)] = RowIn("synced")]
            /\ done' = done \cup {Event(w)}
            /\ Return(w, "succeed")
       ELSE /\ event' = [event EXCEPT ![Event(w)] = FailedRow(w)]
            /\ Return(w, IF FailedRow(w).status = "queued" THEN "retry" ELSE "fail")
            /\ UNCHANGED done
    /\ UNCHANGED <<job, lease, remote, tick, lost, strays, late, stalls>>

\* finally; without an outcome the handler was cancelled and nothing follows.
Release(w) ==
    /\ At(w, "release")
    /\ lease' = IF lease = Self(w) THEN NoEvent ELSE lease
    /\ IF worker[w].outcome = "none"
       THEN Goto(w, "idle", Idle)
       ELSE Answer(w, worker[w].outcome)
    /\ UNCHANGED <<event, job, done, remote, tick, lost, strays, late, stalls>>

\* _write of process_once.
WriteResult(w) ==
    /\ At(w, "write")
    /\ job' = IF Fenced(job[Event(w)], worker[w].n)
              THEN [job EXCEPT ![Event(w)] = Written(job[Event(w)], worker[w].outcome)]
              ELSE job
    /\ Goto(w, "idle", Idle)
    /\ UNCHANGED <<event, done, lease, remote, tick, lost, strays, late, stalls>>

-----------------------------------------------------------------------------
(* Faults *)

\* _run_renewing cannot renew the task lease and cancels the handler.
HeartbeatLost(w) ==
    /\ worker[w].pc \notin {"idle", "write"}
    /\ ~Current(job[Event(w)], worker[w].n)
    /\ lost' = Gone(w)
    /\ IF worker[w].pc \in InTry
       THEN Return(w, "none")
       ELSE Goto(w, "idle", Idle)
    /\ UNCHANGED <<event, job, done, lease, remote, tick, strays, late, stalls>>

\* A transaction fails.
Error(w) ==
    /\ worker[w].pc \notin {"idle", "out"}
    /\ Stall
    /\ CASE worker[w].pc \in InTry              -> Return(w, "retry")
         [] worker[w].pc \in {"open", "release"} -> Answer(w, "retry")
         [] worker[w].pc = "write"               -> Goto(w, "idle", Idle)
    /\ UNCHANGED <<event, job, done, lease, remote, tick, lost, strays, late>>

Crash(w) ==
    /\ worker[w].pc # "idle"
    /\ Stall
    /\ lost' = Gone(w)
    /\ Goto(w, "idle", Idle)
    /\ UNCHANGED <<event, job, done, lease, remote, tick, strays, late>>

Holder(w) == worker[w].pc \in InTry \cup {"release"} /\ lease = Self(w)

\* The resource lease runs out: its holder is gone or does not get to renew,
\* which is the same stall if it has also lost its task.  That a request fits into
\* the lease's 180 seconds is left to httpx, whose 30 seconds are for each phase.
LeaseExpires ==
    /\ lease # NoEvent
    /\ IF \E w \in Workers : Holder(w) /\ Current(job[Event(w)], worker[w].n)
       THEN Stall
       ELSE UNCHANGED stalls
    /\ late' = (late \/ \E w \in Workers : Holder(w) /\ At(w, "out"))
    /\ lease' = NoEvent
    /\ UNCHANGED <<event, job, done, remote, worker, tick, lost, strays>>

\* A write is served after its sender stopped waiting: httpx gives up on an answer,
\* and nothing takes the request back.
ServeLate(e) ==
    /\ e \in lost
    /\ lost' = lost \ {e}
    /\ strays' = IF remote[e[1]] > e[2] THEN strays \cup {e} ELSE strays
    /\ remote' = Overwritten(e)
    /\ UNCHANGED <<event, job, done, lease, worker, tick, late, stalls>>

-----------------------------------------------------------------------------

Tick == TickFinds \/ TickBuries \/ TickDispatches

Step(w) ==
    \/ Open(w) \/ ReadEvent(w) \/ BeforeSend(w)
    \/ CheckAnswered(w) \/ WriteAnswered(w) \/ ConfirmAnswered(w) \/ RequestFails(w)
    \/ Receipt(w) \/ Release(w) \/ WriteResult(w)

Next ==
    \/ \E s \in Subjects : Append(s)
    \/ TickFinds \/ TickBuries \/ TickDispatches \/ TickFails
    \/ \E e \in Events : RequestCancel(e) \/ Requeue(e) \/ TaskLeaseExpires(e) \/ ServeLate(e)
    \/ \E w \in Workers :
          \/ \E e \in Events : Claim(w, e)
          \/ Step(w) \/ SecretMissing(w) \/ Serve(w)
          \/ HeartbeatLost(w) \/ Error(w) \/ Crash(w)
    \/ LeaseExpires

Spec == Init /\ [][Next]_vars

\* A lease runs out whose holder is gone.
Lapse ==
    \/ \E e \in Events : ~Attended(e) /\ TaskLeaseExpires(e)
    \/ (\A w \in Workers : ~Holder(w)) /\ LeaseExpires

\* The supervisor keeps ticking, the workers keep claiming and none sits still
\* (a request is answered or times out), and the lease of an attempt that is
\* gone runs out.  Nothing else is promised: not that OpenViking ever works.
Fairness ==
    /\ WF_vars(Tick)
    /\ WF_vars(\E w \in Workers, e \in Events : Claim(w, e))
    /\ \A w \in Workers : WF_vars(Step(w))
    /\ WF_vars(Lapse)

FairSpec == Spec /\ Fairness

-----------------------------------------------------------------------------
(* Properties *)

\* As long as no lease runs out during a request, the workers of the tenant wait
\* for one request at a time: the lease and before_send keep an attempt that was
\* taken over from sending another.
OneRequestAtATime ==
    ~late => \A w1, w2 \in Workers : At(w1, "out") /\ At(w2, "out") => w1 = w2

\* OpenViking has e's document or a later one of its subject, unless a write of an
\* earlier one was served too late.
InPlace(e) ==
    \/ remote[e[1]] >= e[2]
    \/ \E r \in 1..(e[2] - 1) : <<e[1], r>> \in strays

\* As long as no lease runs out during a request, a revision reported as synced is
\* in OpenViking, or a later one is: no retry and no attempt that was taken over
\* puts an older document over it.  What project cannot rule out is named: a
\* write that OpenViking serves when its sender has stopped waiting for it.
SyncedIsInPlace ==
    ~late => \A e \in Events : event[e].status = "synced" => InPlace(e)

\* The revisions of a subject are delivered in order: one is dispatched when
\* every earlier one is settled, and no receipt, of whichever attempt, takes a
\* settled one back.
DeliveredInOrder ==
    \A e \in Events :
        event[e].status \in {"queued"} \cup Settled =>
           \A r \in 1..(e[2] - 1) : event[<<e[1], r>>].status \in Settled

\* A settled event stays settled: a job that an operator re-queues, or one the
\* dispatch pass has given up on, does not put it back in the queue.
SettledStaysSettled ==
    [][\A e \in Events : event[e].status \in Settled => event'[e].status \in Settled]_vars

\* The outbox drains: no event waits for ever, whatever crashes, is cancelled or
\* re-queued, and the dispatch pass never waits for ever for a job.  (Appends
\* are bounded, so that it is empty again and again only if each one settles.)
OutboxDrains == []<>(\A e \in Events : event[e].status \notin {"pending", "queued"})
=============================================================================
