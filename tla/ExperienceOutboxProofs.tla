----------------------- MODULE ExperienceOutboxProofs -----------------------
(***************************************************************************)
(* Proofs about ExperienceOutbox for every set of subjects and workers and *)
(* every value of the limits.                                              *)
(***************************************************************************)
EXTENDS ExperienceOutbox, TaskAttemptsProofs

USE MaxAttemptsAssumption, OutboxAssumption

-----------------------------------------------------------------------------
(* Type correctness *)

\* The rows that the outbox is given are event rows.
LEMMA EventRowTypes ==
    /\ \A st \in {"none", "pending", "queued"} \cup Settled : RowIn(st) \in EventRow
    /\ \A row \in EventRow, st \in {"none", "pending", "queued"} \cup Settled :
          [row EXCEPT !.status = st] \in EventRow
  BY DEF RowIn, EventRow

\* The record of an idle worker is an attempt's.
LEMMA IdleType == Idle \in Attempt
  BY DEF Idle, Attempt, Location

\* Goto changes the record of one worker.
LEMMA GotoType ==
    ASSUME worker \in [Workers -> Attempt], NEW w \in Workers, NEW pc \in Location,
           NEW new \in Attempt, Goto(w, pc, new)
    PROVE  /\ worker' \in [Workers -> Attempt]
           /\ worker'[w].pc = pc /\ worker'[w].event = new.event
           /\ worker'[w].n = new.n /\ worker'[w].outcome = new.outcome
           /\ \A v \in Workers \ {w} : worker'[v] = worker[v]
  BY DEF Goto, Attempt

-----------------------------------------------------------------------------
(* The inductive invariant *)

\* The number of an attempt is its own: no two workers on an event share it, it
\* is at most the job's, and only the latest can find the job in work.
AttemptsDiffer ==
    \A w \in Workers : worker[w].pc # "idle" =>
        /\ worker[w].n \in 1..job[worker[w].event].n
        /\ worker[w].n = job[worker[w].event].n => job[worker[w].event].status \in Active
        /\ \A v \in Workers :
              worker[v].pc # "idle" /\ worker[v].event = worker[w].event
                 /\ worker[v].n = worker[w].n => v = w

\* An event has a job from its dispatch on.
JobsFollowEvents ==
    \A e \in Events : event[e].status \in {"none", "pending"} => job[e] = Absent

\* The revisions of a subject are appended one after the other.
NoGaps ==
    \A e \in Events : event[e].status # "none" =>
        \A r \in 1..(e[2] - 1) : event[<<e[1], r>>].status # "none"

\* What a dispatch pass found stays true enough until it commits: the job was
\* cancelled, or it is past the attempts that would queue the event again.
FoundJobIsSpent ==
    tick # NoEvent =>
        /\ event[tick].status \notin {"none", "pending"}
        /\ job[tick].status = "cancelled" \/ job[tick].n >= MaxDeliveries

\* A job that failed with its event still queued has used up its attempts.
FailedJobIsSpent ==
    \A e \in Events :
        job[e].status = "failed" /\ event[e].status = "queued" => job[e].n >= MaxAttempts

\* A handler that is about to fail its job has settled the event.
FailureIsRecorded ==
    \A w \in Workers :
        worker[w].pc \in {"release", "write"} /\ worker[w].outcome = "fail" =>
            event[worker[w].event].status \in Settled

\* A worker that writes a result has one.
ResultIsKnown ==
    \A w \in Workers : worker[w].pc = "write" => worker[w].outcome # "none"

\* The latest attempt is not at work on an event that is delivered, nor, while
\* it could still put the event back, on one that is settled.
LatestAttemptDelivers ==
    /\ \A e \in Events : event[e].status = "synced" => e \in done
    /\ \A w \in Workers :
          worker[w].pc \in InTry /\ worker[w].n = job[worker[w].event].n =>
             /\ worker[w].event \notin done
             /\ worker[w].pc # "event" /\ worker[w].n < MaxDeliveries =>
                   event[worker[w].event].status = "queued"

\* As long as no lease runs out during a request, who has one out holds the lease.
SenderHoldsLease ==
    ~late => \A w \in Workers : worker[w].pc = "out" => lease = Self(w)

IInv ==
    /\ TypeOK
    /\ AttemptsDiffer
    /\ JobsFollowEvents
    /\ NoGaps
    /\ FoundJobIsSpent
    /\ FailedJobIsSpent
    /\ FailureIsRecorded
    /\ ResultIsKnown
    /\ LatestAttemptDelivers
    /\ SenderHoldsLease
    /\ DeliveredInOrder

-----------------------------------------------------------------------------
(* A step of one worker's handler *)

\* Worker w goes on with its attempt or drops it.
Moves(w) ==
    /\ worker' \in [Workers -> Attempt]
    /\ \A v \in Workers \ {w} : worker'[v] = worker[v]
    /\ \/ worker'[w].pc = "idle"
       \/ /\ worker[w].pc # "idle"
          /\ worker'[w].event = worker[w].event
          /\ worker'[w].n = worker[w].n
          /\ worker'[w].pc \in {"release", "write"} /\ worker'[w].outcome = "fail" =>
                \/ worker[w].pc \in {"release", "write"} /\ worker[w].outcome = "fail"
                \/ event'[worker[w].event].status \in Settled
          /\ worker'[w].pc \in InTry =>
                \/ worker[w].pc = "open" /\ worker'[w].pc = "event" /\ worker[w].event \notin done
                \/ worker[w].pc = "event" /\ event[worker[w].event].status # "dead_letter"
                \/ worker[w].pc \in InTry \ {"event"} /\ worker'[w].pc # "event"
          /\ worker'[w].pc = "write" => worker'[w].outcome # "none"
          /\ worker'[w].pc = "out" => worker[w].pc = "out" \/ lease = Self(w)

\* What may happen to the lease when w moves.
MovesLease(w) ==
    /\ UNCHANGED <<strays, late>>
    /\ \/ lease' = lease
       \/ lease = NoEvent /\ lease' = Self(w) /\ worker[w].pc = "open"
       \/ /\ lease = Self(w) /\ lease' = NoEvent
          /\ worker[w].pc # "idle" /\ worker'[w].pc # "out"

\* The ways out of the handler are moves, once a failure is on record.
LEMMA LeaveMoves ==
    ASSUME TypeOK, NEW w \in Workers, worker[w].pc # "idle",
           NEW o \in Outcomes \cup {"none"},
           Return(w, o) \/ (Answer(w, o) /\ o # "none"),
           o = "fail" => \/ worker[w].pc \in {"release", "write"} /\ worker[w].outcome = "fail"
                         \/ event'[worker[w].event].status \in Settled
    PROVE  Moves(w) /\ worker'[w].pc \in {"release", "write"}
  <1> USE DEF Attempt, Location, TypeOK
  <1> DEFINE left == Left(w)
  <1>1. left \in Attempt /\ left.event = worker[w].event /\ left.n = worker[w].n
    BY IdleType DEF Left, Event, Idle
  <1>2. CASE Return(w, o)
    BY <1>1, <1>2 DEF Return, Goto, Moves, InTry
  <1>3. CASE Answer(w, o) /\ o # "none"
    BY <1>1, <1>3 DEF Answer, Goto, Moves, InTry
  <1> QED
    BY <1>2, <1>3

\* So is the end of project.
LEMMA DeliverMoves ==
    ASSUME TypeOK, NEW w \in Workers,
           \/ worker[w].pc = "out"
           \/ worker[w].pc = "event" /\ event[worker[w].event].status # "dead_letter",
           NEW f \in {"none", "retryable", "final"}, NEW i \in BOOLEAN, Deliver(w, f, i)
    PROVE  Moves(w) /\ worker'[w].pc = "receipt"
  <1> USE DEF Attempt, Location, TypeOK
  <1> DEFINE left == Left(w)
  <1>1. left \in Attempt /\ left.event = worker[w].event /\ left.n = worker[w].n
    BY IdleType DEF Left, Event, Idle
  <1>2. worker' = [worker EXCEPT ![w] = [[left EXCEPT !.failure = f, !.indexed = i]
                                           EXCEPT !.pc = "receipt"]]
    BY DEF Deliver, Goto
  <1> QED
    BY <1>1, <1>2 DEF Moves, InTry

\* So is going on to the next request, or to wait for an answer.
LEMMA GoOnMoves ==
    ASSUME TypeOK, NEW w \in Workers,
           \/ worker[w].pc \in InTry \ {"event"}
           \/ worker[w].pc = "event" /\ event[worker[w].event].status # "dead_letter",
           NEW new \in Attempt, new.event = worker[w].event, new.n = worker[w].n,
           NEW pc \in {"guard", "out"}, Goto(w, pc, new),
           pc = "out" => worker[w].pc = "out" \/ lease = Self(w)
    PROVE  Moves(w)
  <1>1. /\ worker' \in [Workers -> Attempt]
        /\ worker'[w].pc = pc /\ worker'[w].event = new.event /\ worker'[w].n = new.n
        /\ \A v \in Workers \ {w} : worker'[v] = worker[v]
    BY GotoType DEF TypeOK, Location
  <1> QED
    BY <1>1 DEF Moves, InTry

\* Dropping the attempt.
LEMMA DropMoves ==
    ASSUME TypeOK, NEW w \in Workers, Goto(w, "idle", Idle)
    PROVE  Moves(w) /\ worker'[w].pc = "idle"
  BY IdleType, GotoType DEF Moves, TypeOK, Location

\* Each step of the handler that leaves outbox and job alone is a move.
LEMMA HandlerMoves ==
    ASSUME TypeOK, NEW w \in Workers,
           \/ Open(w) \/ ReadEvent(w) \/ SecretMissing(w) \/ BeforeSend(w) \/ Serve(w)
           \/ CheckAnswered(w) \/ WriteAnswered(w) \/ ConfirmAnswered(w) \/ RequestFails(w)
           \/ Release(w) \/ HeartbeatLost(w) \/ Error(w) \/ Crash(w)
    PROVE  Moves(w) /\ MovesLease(w) /\ UNCHANGED <<event, job, done, tick>>
  <1> USE DEF At, Event
  <1>0. worker[w] \in Attempt
    BY DEF TypeOK
  <1>1. CASE Open(w)
    <2>1. UNCHANGED <<event, job, done, tick, strays, late>> /\ worker[w].pc = "open"
      BY <1>1 DEF Open
    <2>2. CASE Holds(w) /\ worker[w].event \in done
      <3>1. Answer(w, "succeed") /\ lease' = lease
        BY <1>1, <2>2 DEF Open
      <3> QED
        BY <2>1, <3>1, LeaveMoves DEF Outcomes, MovesLease
    <2>3. CASE Holds(w) /\ worker[w].event \notin done /\ Grantable
      <3>1. Goto(w, "event", worker[w]) /\ lease = NoEvent /\ lease' = Self(w)
        BY <1>1, <2>3 DEF Open, Grantable
      <3> QED
        BY <2>1, <2>3, <3>1 DEF Moves, MovesLease, Goto, TypeOK, Attempt, Location, InTry
    <2>4. CASE ~(Holds(w) /\ worker[w].event \in done) /\ ~(Holds(w) /\ Grantable)
      <3>1. Answer(w, "retry") /\ lease' = lease
        BY <1>1, <2>4 DEF Open
      <3> QED
        BY <2>1, <3>1, LeaveMoves DEF Outcomes, MovesLease
    <2> QED
      BY <2>2, <2>3, <2>4
  <1>2. CASE ReadEvent(w)
    <2>1. UNCHANGED <<event, job, done, tick, lease, strays, late>> /\ worker[w].pc = "event"
      BY <1>2 DEF ReadEvent
    <2>2. CASE event[worker[w].event].status = "dead_letter"
      <3>1. Return(w, "fail")
        BY <1>2, <2>2 DEF ReadEvent
      <3> QED
        BY <2>1, <2>2, <3>1, LeaveMoves DEF Outcomes, MovesLease, Settled
    <2>3. CASE event[worker[w].event].status # "dead_letter"
      <3>1. worker[w].event \in Events
        BY <2>1 DEF TypeOK
      <3>2. event[worker[w].event].indexed \in BOOLEAN
        BY <3>1 DEF TypeOK, EventRow
      <3> DEFINE new == [worker[w] EXCEPT !.known = event[worker[w].event].indexed,
                                          !.req = IF event[worker[w].event].tried
                                                  THEN "check" ELSE "write"]
      <3>3. Goto(w, "guard", new)
        BY <1>2, <2>3 DEF ReadEvent
      <3>4. new \in Attempt /\ new.event = worker[w].event /\ new.n = worker[w].n
        BY <1>0, <3>2 DEF Attempt
      <3> HIDE DEF new
      <3> QED
        BY <2>1, <2>3, <3>3, <3>4, GoOnMoves DEF MovesLease
    <2> QED
      BY <2>2, <2>3
  <1>3. CASE SecretMissing(w)
    BY <1>3, DeliverMoves DEF SecretMissing, MovesLease
  <1>4. CASE BeforeSend(w)
    <2>1. UNCHANGED <<event, job, done, tick, lease, strays, late>> /\ worker[w].pc = "guard"
      BY <1>4 DEF BeforeSend
    <2>2. CASE CurrentAttempt(w)
      BY <1>4, <2>1, <2>2
         DEF BeforeSend, CurrentAttempt, Moves, MovesLease, Goto, TypeOK, Attempt, Location, InTry
    <2>3. CASE ~CurrentAttempt(w)
      <3>1. Return(w, "retry")
        BY <1>4, <2>3 DEF BeforeSend
      <3> QED
        BY <2>1, <3>1, LeaveMoves DEF Outcomes, MovesLease
    <2> QED
      BY <2>2, <2>3
  <1>5. CASE Serve(w)
    <2> DEFINE new == [worker[w] EXCEPT !.served = TRUE]
    <2>1. Goto(w, "out", new) /\ worker[w].pc = "out"
      BY <1>5 DEF Serve
    <2>2. new \in Attempt /\ new.event = worker[w].event /\ new.n = worker[w].n
      BY <1>0 DEF Attempt
    <2> HIDE DEF new
    <2>3. Moves(w)
      BY <2>1, <2>2, GoOnMoves DEF InTry
    <2> QED
      BY <1>5, <2>3 DEF Serve, MovesLease
  <1>6. CASE CheckAnswered(w)
    <2>1. UNCHANGED <<event, job, done, tick, lease, strays, late>> /\ worker[w].pc = "out"
      BY <1>6 DEF CheckAnswered
    <2>2. CASE Deliver(w, "none", TRUE)
      BY <2>1, <2>2, DeliverMoves DEF MovesLease
    <2>3. CASE Goto(w, "guard", [worker[w] EXCEPT !.req = "write", !.known = FALSE])
      <3> DEFINE new == [worker[w] EXCEPT !.req = "write", !.known = FALSE]
      <3>1. new \in Attempt /\ new.event = worker[w].event /\ new.n = worker[w].n
        BY <1>0 DEF Attempt
      <3>2. Goto(w, "guard", new)
        BY <2>3
      <3> HIDE DEF new
      <3>3. Moves(w)
        BY <2>1, <3>1, <3>2, GoOnMoves DEF InTry
      <3> QED
        BY <2>1, <3>3 DEF MovesLease
    <2> QED
      BY <1>6, <2>2, <2>3 DEF CheckAnswered
  <1>7. CASE WriteAnswered(w)
    <2>1. UNCHANGED <<event, job, done, tick, lease, strays, late>> /\ worker[w].pc = "out"
      BY <1>7 DEF WriteAnswered
    <2>2. CASE Deliver(w, "retryable", FALSE)
      BY <2>1, <2>2, DeliverMoves DEF MovesLease
    <2>3. CASE Goto(w, "guard", [worker[w] EXCEPT !.indexed = TRUE, !.req = "confirm",
                                                  !.served = FALSE])
      <3> DEFINE new == [worker[w] EXCEPT !.indexed = TRUE, !.req = "confirm",
                                           !.served = FALSE]
      <3>1. new \in Attempt /\ new.event = worker[w].event /\ new.n = worker[w].n
        BY <1>0 DEF Attempt
      <3>2. Goto(w, "guard", new)
        BY <2>3
      <3> HIDE DEF new
      <3>3. Moves(w)
        BY <2>1, <3>1, <3>2, GoOnMoves DEF InTry
      <3> QED
        BY <2>1, <3>3 DEF MovesLease
    <2> QED
      BY <1>7, <2>2, <2>3 DEF WriteAnswered
  <1>8. CASE ConfirmAnswered(w)
    BY <1>8, DeliverMoves DEF ConfirmAnswered, MovesLease
  <1>9. CASE RequestFails(w)
    <2>1. UNCHANGED <<event, job, done, tick, lease, strays, late>> /\ worker[w].pc = "out"
      BY <1>9 DEF RequestFails
    <2>2. PICK f \in {"retryable", "final"}, i \in BOOLEAN : Deliver(w, f, i)
      BY <1>9 DEF RequestFails, TypeOK, Attempt
    <2> QED
      BY <2>1, <2>2, DeliverMoves DEF MovesLease
  <1>10. CASE Release(w)
    <2>1. UNCHANGED <<event, job, done, tick, strays, late>> /\ worker[w].pc = "release"
      BY <1>10 DEF Release
    <2>2. lease' = lease \/ (lease = Self(w) /\ lease' = NoEvent)
      BY <1>10 DEF Release
    <2>3. CASE worker[w].outcome = "none"
      <3>1. Goto(w, "idle", Idle)
        BY <1>10, <2>3 DEF Release
      <3> QED
        BY <2>1, <2>2, <3>1, DropMoves DEF MovesLease
    <2>4. CASE worker[w].outcome # "none"
      <3>1. Answer(w, worker[w].outcome) /\ worker[w].outcome \in Outcomes
        BY <1>10, <2>4 DEF Release, TypeOK, Attempt
      <3> QED
        BY <2>1, <2>2, <2>4, <3>1, LeaveMoves DEF MovesLease
    <2> QED
      BY <2>3, <2>4
  <1>11. CASE HeartbeatLost(w)
    <2>1. UNCHANGED <<event, job, done, tick, lease, strays, late>> /\ worker[w].pc # "idle"
      BY <1>11 DEF HeartbeatLost
    <2>2. Return(w, "none") \/ Goto(w, "idle", Idle)
      BY <1>11 DEF HeartbeatLost
    <2> QED
      BY <2>1, <2>2, LeaveMoves, DropMoves DEF MovesLease
  <1>12. CASE Error(w)
    <2>1. UNCHANGED <<event, job, done, tick, lease, strays, late>> /\ worker[w].pc # "idle"
      BY <1>12 DEF Error
    <2>2. Return(w, "retry") \/ Answer(w, "retry") \/ Goto(w, "idle", Idle)
      <3>1. worker[w].pc \in InTry \cup {"open", "release", "write"}
        BY <1>12 DEF Error, TypeOK, Attempt, Location, InTry
      <3> QED
        BY <1>12, <3>1 DEF Error, InTry
    <2> QED
      BY <2>1, <2>2, LeaveMoves, DropMoves DEF Outcomes, MovesLease
  <1>13. CASE Crash(w)
    BY <1>13, DropMoves DEF Crash, MovesLease
  <1> QED
    BY <1>1, <1>2, <1>3, <1>4, <1>5, <1>6, <1>7, <1>8, <1>9, <1>10, <1>11, <1>12, <1>13

\* Such a move preserves the invariant, but for the types.
LEMMA MoveKeeps ==
    ASSUME IInv, NEW w \in Workers, Moves(w), MovesLease(w),
           UNCHANGED <<event, job, done, tick>>
    PROVE  /\ AttemptsDiffer' /\ JobsFollowEvents' /\ NoGaps' /\ FoundJobIsSpent'
           /\ FailedJobIsSpent' /\ FailureIsRecorded' /\ ResultIsKnown' /\ LatestAttemptDelivers'
           /\ SenderHoldsLease' /\ DeliveredInOrder'
  <1>1. AttemptsDiffer'
    BY DEF IInv, AttemptsDiffer, Moves
  <1>2. /\ JobsFollowEvents' /\ NoGaps' /\ FoundJobIsSpent' /\ FailedJobIsSpent'
        /\ DeliveredInOrder'
    BY DEF IInv, JobsFollowEvents, NoGaps, FoundJobIsSpent, FailedJobIsSpent, DeliveredInOrder
  <1>3. FailureIsRecorded' /\ ResultIsKnown'
    BY DEF IInv, FailureIsRecorded, ResultIsKnown, Moves
  <1>4. LatestAttemptDelivers'
    <2> SUFFICES ASSUME NEW v \in Workers, worker'[v].pc \in InTry,
                        worker'[v].n = job[worker'[v].event].n
                 PROVE  /\ worker'[v].event \notin done
                        /\ worker'[v].pc # "event" /\ worker'[v].n < MaxDeliveries =>
                              event[worker'[v].event].status = "queued"
      BY DEF IInv, LatestAttemptDelivers
    <2>1. CASE v # w
      BY <2>1 DEF IInv, LatestAttemptDelivers, Moves
    <2>2. CASE v = w
      <3>1. /\ worker[w].pc # "idle" /\ worker'[w].event = worker[w].event
            /\ worker'[w].n = worker[w].n /\ worker[w].event \in Events
        BY <2>2 DEF IInv, TypeOK, Moves, InTry
      <3>2. worker[w].n = job[worker[w].event].n /\ worker[w].n >= 1
        BY <2>2, <3>1 DEF IInv, AttemptsDiffer
      <3>3. event[worker[w].event].status \notin {"none", "pending"}
        BY <3>1, <3>2 DEF IInv, JobsFollowEvents, Absent
      <3>4. event[worker[w].event].status \in {"queued", "synced", "dead_letter"}
        BY <3>1, <3>3 DEF IInv, TypeOK, EventRow, Settled
      <3>5. CASE worker[w].pc = "open" /\ worker'[w].pc = "event" /\ worker[w].event \notin done
        BY <2>2, <3>1, <3>5
      <3>6. CASE worker[w].pc = "event" /\ event[worker[w].event].status # "dead_letter"
        BY <2>2, <3>1, <3>2, <3>4, <3>6 DEF IInv, LatestAttemptDelivers, InTry
      <3>7. CASE worker[w].pc \in InTry \ {"event"}
        BY <2>2, <3>1, <3>2, <3>7 DEF IInv, LatestAttemptDelivers
      <3> QED
        BY <2>2, <3>1, <3>5, <3>6, <3>7 DEF Moves, InTry
    <2> QED
      BY <2>1, <2>2
  <1>5. SenderHoldsLease'
    <2> SUFFICES ASSUME ~late', NEW v \in Workers, worker'[v].pc = "out"
                 PROVE  lease' = <<worker'[v].event, worker'[v].n>>
      BY DEF SenderHoldsLease, Self, Event
    <2>1. ~late
      BY DEF MovesLease
    <2>2. lease = <<worker'[v].event, worker'[v].n>>
      BY <2>1 DEF IInv, SenderHoldsLease, Moves, Self, Event
    <2>3. worker'[v].event \in Events /\ worker'[v].n \in Nat
      BY DEF IInv, TypeOK, Moves, Attempt
    <2>4. lease # NoEvent
      BY <2>2, <2>3
    <2>5. CASE lease = Self(w) /\ worker[w].pc # "idle" /\ worker'[w].pc # "out"
      <3>1. v # w /\ worker'[v] = worker[v]
        BY <2>5 DEF Moves
      <3>2. worker[v].event = worker[w].event /\ worker[v].n = worker[w].n
        BY <2>2, <2>5, <3>1 DEF Self, Event
      <3>3. worker[v].pc # "idle"
        BY <3>1
      <3> QED
        BY <2>5, <3>1, <3>2, <3>3 DEF IInv, AttemptsDiffer
    <2> QED
      BY <2>2, <2>4, <2>5 DEF MovesLease
  <1> QED
    BY <1>1, <1>2, <1>3, <1>4, <1>5

-----------------------------------------------------------------------------
(* The other steps *)

\* A step that no worker's record takes part in.
LEMMA AppendKeeps ==
    ASSUME IInv, NEW s \in Subjects, Append(s)
    PROVE  IInv'
  <1>1. PICK r \in 1..MaxRevision :
           /\ Appended(s) = 1..(r - 1)
           /\ event' = [event EXCEPT ![<<s, r>>].status = "pending"]
    BY DEF Append
  <1> DEFINE e == <<s, r>>
  <1>2. e \in Events /\ event[e] \in EventRow
    BY DEF Events, IInv, TypeOK
  <1>3. event[e].status = "none"
    BY <1>1 DEF Appended
  <1>4. /\ event' \in [Events -> EventRow]
        /\ event'[e].status = "pending"
        /\ \A d \in Events \ {e} : event'[d] = event[d]
    BY <1>1, <1>2 DEF EventRow, IInv, TypeOK
  <1>5. UNCHANGED <<job, done, lease, remote, worker, tick, lost, strays, late, stalls>>
    BY DEF Append
  <1>6. \A q \in 1..(r - 1) : event[<<s, q>>].status # "none"
    BY <1>1 DEF Appended
  <1> HIDE DEF e
  <1>7. TypeOK'
    BY <1>4, <1>5 DEF IInv, TypeOK
  <1>8. AttemptsDiffer' /\ SenderHoldsLease'
    BY <1>5 DEF IInv, AttemptsDiffer, SenderHoldsLease, Self, Event
  <1>9. JobsFollowEvents'
    BY <1>2, <1>3, <1>4, <1>5 DEF IInv, JobsFollowEvents
  <1>10. NoGaps' /\ DeliveredInOrder'
    <2> SUFFICES ASSUME NEW d \in Events, NEW q \in 1..(d[2] - 1)
                 PROVE  /\ event'[d].status # "none" => event'[<<d[1], q>>].status # "none"
                        /\ event'[d].status \in {"queued"} \cup Settled =>
                              event'[<<d[1], q>>].status \in Settled
      BY DEF NoGaps, DeliveredInOrder
    <2>1. <<d[1], q>> \in Events
      BY DEF Events
    <2>2. CASE d = e
      BY <1>4, <1>6, <2>1, <2>2 DEF e, Settled
    <2>3. CASE d # e /\ <<d[1], q>> = e
      BY <1>2, <1>3, <1>4, <2>1, <2>3 DEF IInv, NoGaps, DeliveredInOrder, Settled
    <2>4. CASE d # e /\ <<d[1], q>> # e
      BY <1>4, <2>1, <2>4 DEF IInv, NoGaps, DeliveredInOrder
    <2> QED
      BY <2>2, <2>3, <2>4
  <1>11. FoundJobIsSpent' /\ FailedJobIsSpent'
    BY <1>2, <1>3, <1>4, <1>5 DEF IInv, TypeOK, FoundJobIsSpent, FailedJobIsSpent
  <1>12. FailureIsRecorded' /\ ResultIsKnown' /\ LatestAttemptDelivers'
    <2>1. \A v \in Workers : worker[v].pc # "idle" =>
             worker[v].event \in Events /\ worker[v].event # e
      BY <1>3, <1>2 DEF IInv, TypeOK, AttemptsDiffer, JobsFollowEvents, Absent
    <2> QED
      BY <1>2, <1>3, <1>4, <1>5, <2>1 DEF IInv, FailureIsRecorded, ResultIsKnown, LatestAttemptDelivers, InTry
  <1> QED
    BY <1>7, <1>8, <1>9, <1>10, <1>11, <1>12 DEF IInv

\* Giving an event without a job its job keeps attempts apart and rows typed.
LEMMA DispatchKeeps ==
    ASSUME IInv, UNCHANGED <<done, lease, remote, worker, lost, strays, late, stalls>>,
           tick' = NoEvent,
           NEW rows \in [Events -> EventRow], Dispatch(rows),
           \/ rows = event
           \/ tick # NoEvent /\ rows = [event EXCEPT ![tick] = RowIn("dead_letter")]
    PROVE  IInv'
  <1> USE DEF Settled
  <1>1. \A e \in Events : /\ event[e].status \in {"none", "pending"} => rows[e] = event[e]
                          /\ event[e].status \notin {"none", "pending"} =>
                                rows[e] = event[e] \/ (e = tick /\ rows[e].status = "dead_letter")
    BY DEF IInv, FoundJobIsSpent, TypeOK, RowIn
  <1>2. \A e \in Events :
           /\ rows[e].status = "none" <=> event[e].status = "none"
           /\ rows[e].status = "pending" <=> event[e].status = "pending"
           /\ rows[e].status = "queued" => event[e].status = "queued"
           /\ event[e].status \in Settled => rows[e].status \in Settled
           /\ rows[e].status = "synced" => event[e].status = "synced"
           /\ rows[e].status \in {"queued"} \cup Settled =>
                 event[e].status \in {"queued"} \cup Settled
    <2>1. \A e \in Events : event[e].status \in {"none", "pending", "queued"} \cup Settled
      BY DEF IInv, TypeOK, EventRow
    <2> QED
      BY <1>1, <2>1
  <1>3. \A e \in Events : event[e].status = "queued" /\ rows[e].status # "queued" =>
           /\ rows[e].status \in Settled
           /\ job[e].status = "cancelled" \/ job[e].n >= MaxDeliveries
    BY <1>1 DEF IInv, FoundJobIsSpent, TypeOK
  <1>4. CASE event' = rows /\ job' = job
    <2> USE <1>4
    <2>1. TypeOK'
      BY DEF IInv, TypeOK
    <2>2. AttemptsDiffer' /\ SenderHoldsLease' /\ FoundJobIsSpent'
      BY DEF IInv, AttemptsDiffer, SenderHoldsLease, FoundJobIsSpent, Self, Event
    <2>3. JobsFollowEvents' /\ FailedJobIsSpent'
      BY <1>2 DEF IInv, JobsFollowEvents, FailedJobIsSpent
    <2>4. NoGaps' /\ DeliveredInOrder'
      <3>1. \A e \in Events : \A r \in 1..(e[2] - 1) : <<e[1], r>> \in Events
        BY DEF Events
      <3> QED
        BY <1>2, <3>1 DEF IInv, NoGaps, DeliveredInOrder
    <2>5. FailureIsRecorded' /\ ResultIsKnown'
      BY <1>2 DEF IInv, FailureIsRecorded, ResultIsKnown, TypeOK
    <2>6. LatestAttemptDelivers'
      <3>1. ASSUME NEW w \in Workers, worker[w].pc \in InTry,
                   worker[w].n = job[worker[w].event].n,
                   worker[w].pc # "event", worker[w].n < MaxDeliveries
            PROVE  rows[worker[w].event].status = "queued"
        <4>1. worker[w].event \in Events /\ job[worker[w].event].status \in Active
          BY <3>1 DEF IInv, TypeOK, AttemptsDiffer, InTry
        <4>2. event[worker[w].event].status = "queued"
          BY <3>1 DEF IInv, LatestAttemptDelivers
        <4>3. job[worker[w].event].n \in Nat
          BY <4>1 DEF IInv, TypeOK, TaskRow
        <4> QED
          BY <1>3, <3>1, <4>1, <4>2, <4>3 DEF Active
      <3>2. \A d \in Events : event'[d].status = "synced" => d \in done
        BY <1>2 DEF IInv, LatestAttemptDelivers
      <3>3. ASSUME NEW w \in Workers, worker[w].pc \in InTry,
                   worker[w].n = job[worker[w].event].n
            PROVE  worker[w].event \notin done
        BY <3>3 DEF IInv, LatestAttemptDelivers
      <3> QED
        BY <3>1, <3>2, <3>3 DEF LatestAttemptDelivers
    <2> QED
      BY <2>1, <2>2, <2>3, <2>4, <2>5, <2>6 DEF IInv
  <1>5. CASE \E e \in Deliverable(rows) :
                /\ event' = [rows EXCEPT ![e].status = "queued"]
                /\ job' = [job EXCEPT ![e] = Enqueued]
    <2>1. PICK e \in Deliverable(rows) :
                /\ event' = [rows EXCEPT ![e].status = "queued"]
                /\ job' = [job EXCEPT ![e] = Enqueued]
      BY <1>5
    <2>2. /\ e \in Events /\ event[e].status = "pending"
          /\ \A r \in 1..(e[2] - 1) : rows[<<e[1], r>>].status \notin {"pending", "queued"}
      BY <1>2 DEF Deliverable
    <2>3. job[e] = Absent /\ \A w \in Workers : worker[w].pc # "idle" => worker[w].event # e
      BY <2>2 DEF IInv, JobsFollowEvents, AttemptsDiffer, TypeOK, Absent
    <2>4. /\ event' \in [Events -> EventRow] /\ event'[e].status = "queued"
          /\ \A d \in Events \ {e} : event'[d] = rows[d]
      BY <2>1, <2>2 DEF EventRow
    <2>5. /\ job' \in [Events -> TaskRow] /\ job'[e] = Enqueued
          /\ \A d \in Events \ {e} : job'[d] = job[d]
      BY <2>1, <2>2, <2>3, RowTypes DEF IInv, TypeOK
    <2>6. TypeOK'
      BY <2>4, <2>5 DEF IInv, TypeOK
    <2>7. AttemptsDiffer'
      BY <2>3, <2>5 DEF IInv, AttemptsDiffer, TypeOK
    <2>8. SenderHoldsLease' /\ FoundJobIsSpent'
      BY DEF IInv, SenderHoldsLease, FoundJobIsSpent, Self, Event
    <2>9. JobsFollowEvents'
      BY <1>2, <2>4, <2>5 DEF IInv, JobsFollowEvents
    <2>10. FailedJobIsSpent'
      <3>1. Enqueued.status = "queued"
        BY DEF Enqueued, Absent
      <3> QED
        BY <1>2, <2>4, <2>5, <3>1 DEF IInv, FailedJobIsSpent
    <2>11. NoGaps' /\ DeliveredInOrder'
      <3> SUFFICES ASSUME NEW d \in Events, NEW q \in 1..(d[2] - 1)
                   PROVE  /\ event'[d].status # "none" => event'[<<d[1], q>>].status # "none"
                          /\ event'[d].status \in {"queued"} \cup Settled =>
                                event'[<<d[1], q>>].status \in Settled
        BY DEF NoGaps, DeliveredInOrder
      <3>1. <<d[1], q>> \in Events
        BY DEF Events
      <3>2. /\ rows[d].status # "none" => rows[<<d[1], q>>].status # "none"
            /\ rows[d].status \in {"queued"} \cup Settled => rows[<<d[1], q>>].status \in Settled
        BY <1>2, <3>1 DEF IInv, NoGaps, DeliveredInOrder
      <3>3. CASE d = e
        <4>1. rows[<<d[1], q>>].status # "none" /\ <<d[1], q>> # e
          BY <1>2, <2>2, <3>1, <3>2, <3>3
        <4>2. rows[<<d[1], q>>].status \in Settled
          BY <2>2, <3>1, <3>3, <4>1 DEF EventRow
        <4> QED
          BY <2>4, <3>1, <4>1, <4>2
      <3>4. CASE d # e /\ <<d[1], q>> = e
        BY <1>2, <2>2, <2>4, <3>1, <3>2, <3>4
      <3>5. CASE d # e /\ <<d[1], q>> # e
        BY <2>4, <3>1, <3>2, <3>5
      <3> QED
        BY <3>3, <3>4, <3>5
    <2>12. FailureIsRecorded' /\ ResultIsKnown'
      BY <1>2, <2>3, <2>4 DEF IInv, FailureIsRecorded, ResultIsKnown, TypeOK
    <2>13. LatestAttemptDelivers'
      <3>1. ASSUME NEW w \in Workers, worker[w].pc \in InTry,
                   worker[w].n = job'[worker[w].event].n
            PROVE  /\ worker[w].event \notin done
                   /\ worker[w].pc # "event" /\ worker[w].n < MaxDeliveries =>
                         event'[worker[w].event].status = "queued"
        <4>1. worker[w].event \in Events \ {e} /\ worker[w].pc # "idle"
          BY <2>3, <3>1 DEF IInv, TypeOK, InTry
        <4>2. worker[w].n = job[worker[w].event].n
          BY <2>5, <3>1, <4>1
        <4>3. job[worker[w].event].status \in Active /\ job[worker[w].event].n \in Nat
          BY <4>1, <4>2 DEF IInv, TypeOK, AttemptsDiffer, TaskRow
        <4>4. /\ worker[w].event \notin done
              /\ worker[w].pc # "event" /\ worker[w].n < MaxDeliveries =>
                    event[worker[w].event].status = "queued"
          BY <3>1, <4>2 DEF IInv, LatestAttemptDelivers
        <4>5. worker[w].n < MaxDeliveries /\ event[worker[w].event].status = "queued" =>
                 rows[worker[w].event].status = "queued"
          BY <1>3, <4>1, <4>2, <4>3 DEF Active
        <4> QED
          BY <2>4, <4>1, <4>4, <4>5
      <3>2. \A d \in Events : event'[d].status = "synced" => d \in done
        BY <1>2, <2>4 DEF IInv, LatestAttemptDelivers
      <3> QED
        BY <3>1, <3>2 DEF LatestAttemptDelivers
    <2> QED
      BY <2>6, <2>7, <2>8, <2>9, <2>10, <2>11, <2>12, <2>13 DEF IInv
  <1> QED
    BY <1>4, <1>5 DEF Dispatch

\* A dispatch pass, in its steps.
LEMMA TickKeeps ==
    ASSUME IInv, TickFinds \/ TickBuries \/ TickDispatches \/ TickFails
    PROVE  IInv'
  <1>1. ASSUME UNCHANGED <<event, job, done, lease, remote, worker, lost, strays, late>>,
               tick' \in Events \cup {NoEvent}, stalls' \in 0..MaxStalls, FoundJobIsSpent'
        PROVE  IInv'
    BY <1>1 DEF IInv, TypeOK, AttemptsDiffer, JobsFollowEvents, NoGaps, FailedJobIsSpent,
                FailureIsRecorded, ResultIsKnown, LatestAttemptDelivers, SenderHoldsLease, DeliveredInOrder,
                Self, Event
  <1>2. CASE TickFinds
    <2>1. PICK e \in Queued(event) : JobIsOver(job[e]) /\ tick' = e
      BY <1>2 DEF TickFinds
    <2>2. e \in Events /\ event[e].status = "queued" /\ job[e].n \in Nat
      BY DEF Queued, IInv, TypeOK, TaskRow
    <2>3. job[e].status = "cancelled" \/ job[e].n >= MaxDeliveries
      BY <2>1, <2>2 DEF JobIsOver, IInv, FailedJobIsSpent
    <2>4. UNCHANGED <<event, job, done, lease, remote, worker, lost, strays, late, stalls>>
      BY <1>2 DEF TickFinds
    <2>5. FoundJobIsSpent'
      BY <2>1, <2>2, <2>3, <2>4 DEF FoundJobIsSpent
    <2>6. stalls' \in 0..MaxStalls
      BY <2>4 DEF IInv, TypeOK
    <2> QED
      BY <1>1, <2>1, <2>2, <2>4, <2>5, <2>6
  <1>3. CASE TickFails
    <2>1. stalls' \in 0..MaxStalls
      BY <1>3 DEF TickFails, Stall, IInv, TypeOK
    <2> QED
      BY <1>1, <1>3, <2>1 DEF TickFails, FoundJobIsSpent
  <1>4. CASE TickBuries
    <2> DEFINE rows == [event EXCEPT ![tick] = RowIn("dead_letter")]
    <2>1. rows \in [Events -> EventRow]
      BY EventRowTypes DEF IInv, TypeOK, Settled
    <2>2. tick # NoEvent /\ tick' = NoEvent /\ Dispatch(rows)
          /\ UNCHANGED <<done, lease, remote, worker, lost, strays, late, stalls>>
      BY <1>4 DEF TickBuries
    <2>3. tick # NoEvent /\ rows = [event EXCEPT ![tick] = RowIn("dead_letter")]
      BY <2>2
    <2> HIDE DEF rows
    <2> QED
      BY <2>1, <2>2, <2>3, DispatchKeeps
  <1>5. CASE TickDispatches
    <2>1. event \in [Events -> EventRow]
      BY DEF IInv, TypeOK
    <2>2. tick' = NoEvent /\ Dispatch(event)
          /\ UNCHANGED <<done, lease, remote, worker, lost, strays, late, stalls>>
      BY <1>5 DEF TickDispatches
    <2> QED
      BY <2>1, <2>2, DispatchKeeps
  <1> QED
    BY <1>2, <1>3, <1>4, <1>5

\* A change of a job that keeps its number, and its status if it is in work.
LEMMA JobKeeps ==
    ASSUME IInv, NEW e \in Events, NEW new \in TaskRow, job' = [job EXCEPT ![e] = new],
           UNCHANGED <<event, done, lease, remote, worker, tick, lost, strays, late>>,
           stalls' \in 0..MaxStalls,
           job[e].status # "absent", new.n = job[e].n,
           job[e].status \in Active => new.status = job[e].status,
           job[e].status = "cancelled" => new.status = "cancelled",
           new.status = "failed" => job[e].status = "failed"
    PROVE  IInv'
  <1>1. /\ job' \in [Events -> TaskRow] /\ job'[e] = new
        /\ \A d \in Events \ {e} : job'[d] = job[d]
    BY DEF IInv, TypeOK
  <1>2. \A d \in Events : job'[d].n = job[d].n
    BY <1>1
  <1>3. TypeOK'
    BY <1>1 DEF IInv, TypeOK
  <1>4. AttemptsDiffer'
    BY <1>1, <1>2 DEF IInv, AttemptsDiffer, TypeOK
  <1>5. JobsFollowEvents' /\ FailedJobIsSpent'
    <2>1. Absent.status = "absent"
      BY DEF Absent
    <2>2. event[e].status \notin {"none", "pending"}
      BY <2>1 DEF IInv, JobsFollowEvents
    <2>3. JobsFollowEvents'
      BY <1>1, <2>2 DEF IInv, JobsFollowEvents
    <2>4. \A d \in Events : job'[d].status = "failed" => job[d].status = "failed"
      BY <1>1
    <2> QED
      BY <1>2, <2>3, <2>4 DEF IInv, FailedJobIsSpent
  <1>6. FoundJobIsSpent'
    BY <1>1, <1>2 DEF IInv, TypeOK, FoundJobIsSpent
  <1>7. LatestAttemptDelivers'
    BY <1>2 DEF IInv, TypeOK, LatestAttemptDelivers, InTry
  <1>8. NoGaps' /\ FailureIsRecorded' /\ ResultIsKnown' /\ SenderHoldsLease' /\ DeliveredInOrder'
    BY DEF IInv, NoGaps, FailureIsRecorded, ResultIsKnown, SenderHoldsLease, DeliveredInOrder, Self, Event
  <1> QED
    BY <1>3, <1>4, <1>5, <1>6, <1>7, <1>8 DEF IInv

\* Cancels, re-queues and the end of a task lease are such changes.
LEMMA QueueKeeps ==
    ASSUME IInv, NEW e \in Events,
           RequestCancel(e) \/ Requeue(e) \/ TaskLeaseExpires(e)
    PROVE  IInv'
  <1>0. job[e] \in TaskRow /\ stalls \in 0..MaxStalls
    BY DEF IInv, TypeOK
  <1>1. CASE RequestCancel(e)
    <2> DEFINE new == CancelAsked(job[e])
    <2>1. new \in TaskRow /\ new.n = job[e].n /\ job[e].status \in Waiting \cup Active
          /\ new.status = IF job[e].status \in Waiting THEN "cancelled" ELSE job[e].status
      BY <1>0, <1>1, RowTypes DEF RequestCancel, Cancellable, CancelAsked, TaskRow
    <2>2. /\ job' = [job EXCEPT ![e] = new] /\ stalls' \in 0..MaxStalls
          /\ UNCHANGED <<event, done, lease, remote, worker, tick, lost, strays, late>>
      BY <1>0, <1>1 DEF RequestCancel
    <2> HIDE DEF new
    <2> QED
      BY <2>1, <2>2, JobKeeps DEF Waiting, Active
  <1>2. CASE Requeue(e)
    <2> DEFINE new == Requeued(job[e])
    <2>1. new \in TaskRow /\ new.n = job[e].n /\ job[e].status = "failed" /\ new.status = "queued"
      BY <1>0, <1>2, RowTypes DEF Requeue, Requeuable, Requeued, TaskRow
    <2>2. /\ job' = [job EXCEPT ![e] = new] /\ stalls' \in 0..MaxStalls
          /\ UNCHANGED <<event, done, lease, remote, worker, tick, lost, strays, late>>
      BY <1>0, <1>2 DEF Requeue, Stall
    <2> HIDE DEF new
    <2> QED
      BY <2>1, <2>2, JobKeeps DEF Active
  <1>3. CASE TaskLeaseExpires(e)
    <2> DEFINE new == [job[e] EXCEPT !.leased = FALSE]
    <2>1. new \in TaskRow /\ new.n = job[e].n /\ new.status = job[e].status
          /\ job[e].status \in Active
      BY <1>0, <1>3 DEF TaskLeaseExpires, TaskRow
    <2>2. /\ job' = [job EXCEPT ![e] = new] /\ stalls' \in 0..MaxStalls
          /\ UNCHANGED <<event, done, lease, remote, worker, tick, lost, strays, late>>
      BY <1>0, <1>3 DEF TaskLeaseExpires, Stall
    <2> HIDE DEF new
    <2> QED
      BY <2>1, <2>2, JobKeeps DEF Active
  <1> QED
    BY <1>1, <1>2, <1>3

\* The end of the resource lease, and a write that is served late.
LEMMA TimingKeeps ==
    ASSUME IInv, LeaseExpires \/ \E e \in Events : ServeLate(e)
    PROVE  IInv'
  <1>1. UNCHANGED <<event, job, done, worker, tick>>
    BY DEF LeaseExpires, ServeLate
  <1>2. TypeOK'
    <2>1. CASE LeaseExpires
      BY <1>1, <2>1 DEF LeaseExpires, Stall, IInv, TypeOK
    <2>2. ASSUME NEW e \in Events, ServeLate(e) PROVE TypeOK'
      <3>1. e[1] \in Subjects /\ e[2] \in 0..MaxRevision
        BY DEF Events
      <3> QED
        BY <1>1, <2>2, <3>1 DEF ServeLate, Overwritten, Stall, IInv, TypeOK
    <2> QED
      BY <2>1, <2>2
  <1>3. SenderHoldsLease'
    <2>1. CASE LeaseExpires
      BY <1>1, <2>1 DEF LeaseExpires, Holder, At, InTry, IInv, SenderHoldsLease, Self, Event
    <2>2. ASSUME NEW e \in Events, ServeLate(e) PROVE SenderHoldsLease'
      BY <2>2 DEF ServeLate, IInv, SenderHoldsLease, Self, Event
    <2> QED
      BY <2>1, <2>2
  <1>4. /\ AttemptsDiffer' /\ JobsFollowEvents' /\ NoGaps' /\ FoundJobIsSpent'
        /\ FailedJobIsSpent' /\ FailureIsRecorded' /\ ResultIsKnown' /\ LatestAttemptDelivers' /\ DeliveredInOrder'
    BY <1>1 DEF IInv, AttemptsDiffer, JobsFollowEvents, NoGaps, FoundJobIsSpent,
                FailedJobIsSpent, FailureIsRecorded, ResultIsKnown, LatestAttemptDelivers, DeliveredInOrder
  <1> QED
    BY <1>2, <1>3, <1>4 DEF IInv

\* A claim begins an attempt with a number of its own.
LEMMA ClaimKeeps ==
    ASSUME IInv, NEW w \in Workers, NEW e \in Events, Claim(w, e)
    PROVE  IInv'
  <1> DEFINE row == job[e]
             new == [Idle EXCEPT !.event = e, !.n = job[e].n + 1]
             o   == IF job[e].cancel THEN "cancelled" ELSE "none"
             pc  == IF job[e].cancel THEN "write" ELSE "open"
             rec == [new EXCEPT !.outcome = o]
  <1>1. row \in TaskRow /\ row.n \in Nat /\ row.status # "absent" /\ worker[w].pc = "idle"
    BY DEF IInv, TypeOK, TaskRow, Claim, Claimable, Waiting, Active, At
  <1>2. new \in Attempt /\ new.event = e /\ new.n = row.n + 1 /\ new.outcome = "none"
    <2>1. row.n + 1 \in Nat
      BY <1>1
    <2> QED
      BY <2>1, IdleType DEF Idle, Attempt
  <1>3. rec \in Attempt /\ rec.event = e /\ rec.n = row.n + 1 /\ rec.outcome = o
    BY <1>2 DEF Attempt, Outcomes
  <1>4. rec = IF job[e].cancel THEN [new EXCEPT !.outcome = "cancelled"] ELSE new
    <2>1. CASE job[e].cancel
      BY <2>1
    <2>2. CASE ~job[e].cancel
      BY <1>2, <2>2 DEF Attempt
    <2> QED
      BY <2>1, <2>2
  <1>5. Goto(w, pc, rec)
    <2>1. CASE job[e].cancel
      BY <1>4, <2>1 DEF Claim
    <2>2. CASE ~job[e].cancel
      BY <1>4, <2>2 DEF Claim
    <2> QED
      BY <2>1, <2>2
  <1> HIDE DEF new, rec
  <1>6. /\ worker' \in [Workers -> Attempt]
        /\ worker'[w].pc = pc /\ worker'[w].event = e
        /\ worker'[w].n = row.n + 1 /\ worker'[w].outcome = o
        /\ \A v \in Workers \ {w} : worker'[v] = worker[v]
    BY <1>3, <1>5, GotoType DEF IInv, TypeOK, Location
  <1>7. /\ job' \in [Events -> TaskRow] /\ job'[e].n = row.n + 1 /\ job'[e].status = "running"
        /\ \A d \in Events \ {e} : job'[d] = job[d]
    <2>1. job' = [job EXCEPT ![e] = Claimed(row)] /\ Claimed(row) \in TaskRow
      BY <1>1, RowTypes DEF Claim
    <2>2. Claimed(row).n = row.n + 1 /\ Claimed(row).status = "running"
      BY <1>1 DEF Claimed, TaskRow
    <2> QED
      BY <2>1, <2>2 DEF IInv, TypeOK
  <1>8. UNCHANGED <<event, done, lease, remote, tick, lost, strays, late, stalls>>
    BY DEF Claim
  <1>9. event[e].status \notin {"none", "pending"}
    BY <1>1 DEF IInv, JobsFollowEvents, Absent
  <1>10. \A v \in Workers : worker[v].pc # "idle" =>
            /\ v # w /\ worker'[v] = worker[v]
            /\ worker[v].event \in Events /\ worker[v].n \in 1..job[worker[v].event].n
            /\ worker[v].event = e => worker[v].n # row.n + 1
    BY <1>1, <1>6 DEF IInv, TypeOK, AttemptsDiffer
  <1>11. \A v \in Workers \ {w} : worker'[v].pc # "idle" => worker[v].pc # "idle"
    BY <1>6
  <1> HIDE DEF row, pc, o
  <1>12. TypeOK'
    BY <1>6, <1>7, <1>8, <1>10 DEF IInv, TypeOK
  <1>13. AttemptsDiffer'
    <2> SUFFICES ASSUME NEW v \in Workers, worker'[v].pc # "idle"
                 PROVE  /\ worker'[v].n \in 1..job'[worker'[v].event].n
                        /\ worker'[v].n = job'[worker'[v].event].n =>
                              job'[worker'[v].event].status \in Active
                        /\ \A u \in Workers :
                              worker'[u].pc # "idle" /\ worker'[u].event = worker'[v].event
                                 /\ worker'[u].n = worker'[v].n => u = v
      BY DEF AttemptsDiffer
    <2>1. CASE v = w
      BY <1>1, <1>6, <1>7, <1>10, <1>11, <2>1 DEF Active
    <2>2. CASE v # w
      <3>1. worker[v].pc # "idle" /\ worker'[v] = worker[v]
        BY <1>6, <2>2
      <3>2. CASE worker[v].event = e
        <4>1. worker[v].n \in 1..row.n /\ worker[v].n # row.n + 1
          BY <1>10, <3>1, <3>2 DEF row
        <4>2. worker[v].n \in 1..job'[e].n /\ worker[v].n # job'[e].n
          BY <1>1, <1>7, <4>1
        <4>3. ASSUME NEW u \in Workers, worker'[u].pc # "idle",
                     worker'[u].event = worker'[v].event, worker'[u].n = worker'[v].n
              PROVE  u = v
          <5>1. u # w
            BY <1>6, <3>1, <4>1, <4>3
          <5>2. worker[u].pc # "idle" /\ worker'[u] = worker[u]
            BY <1>6, <4>3, <5>1
          <5> QED
            BY <3>1, <4>3, <5>2 DEF IInv, AttemptsDiffer
        <4> QED
          BY <3>1, <3>2, <4>2, <4>3
      <3>3. CASE worker[v].event # e
        BY <1>6, <1>7, <1>10, <1>11, <2>2, <3>1, <3>3 DEF IInv, AttemptsDiffer
      <3> QED
        BY <3>2, <3>3
    <2> QED
      BY <2>1, <2>2
  <1>14. JobsFollowEvents' /\ FailedJobIsSpent'
    BY <1>7, <1>8, <1>9 DEF IInv, JobsFollowEvents, FailedJobIsSpent
  <1>15. FoundJobIsSpent'
    <2>1. job[e].status # "cancelled"
      BY DEF Claim, Claimable, Waiting, Active
    <2> QED
      BY <1>1, <1>7, <1>8, <2>1 DEF IInv, FoundJobIsSpent, row, TypeOK
  <1>16. FailureIsRecorded' /\ ResultIsKnown'
    BY <1>6, <1>8 DEF IInv, FailureIsRecorded, ResultIsKnown, o, pc
  <1>17. LatestAttemptDelivers'
    <2>1. \A v \in Workers : worker'[v].pc \in InTry =>
             /\ v # w /\ worker'[v] = worker[v] /\ worker[v].pc # "idle"
             /\ worker[v].n = job'[worker[v].event].n => worker[v].n = job[worker[v].event].n
      BY <1>1, <1>6, <1>7, <1>10, <1>11 DEF InTry, pc
    <2> QED
      BY <1>8, <2>1 DEF IInv, LatestAttemptDelivers
  <1>18. SenderHoldsLease'
    BY <1>6, <1>8 DEF IInv, SenderHoldsLease, Self, Event, pc
  <1>19. NoGaps' /\ DeliveredInOrder'
    BY <1>8 DEF IInv, NoGaps, DeliveredInOrder
  <1> QED
    BY <1>12, <1>13, <1>14, <1>15, <1>16, <1>17, <1>18, <1>19 DEF IInv

\* The types after a step of the handler.
LEMMA HandlerTypes ==
    ASSUME IInv, NEW w \in Workers,
           \/ Open(w) \/ ReadEvent(w) \/ SecretMissing(w) \/ BeforeSend(w) \/ Serve(w)
           \/ CheckAnswered(w) \/ WriteAnswered(w) \/ ConfirmAnswered(w) \/ RequestFails(w)
           \/ Release(w) \/ HeartbeatLost(w) \/ Error(w) \/ Crash(w)
    PROVE  TypeOK'
  <1>1. Moves(w) /\ UNCHANGED <<event, job, done, tick>>
    BY HandlerMoves DEF IInv
  <1>2. UNCHANGED <<strays, late>> /\ late \in BOOLEAN
    BY HandlerMoves DEF MovesLease, IInv, TypeOK
  <1>3. worker[w].pc # "idle"
    BY DEF Open, ReadEvent, SecretMissing, BeforeSend, Serve, CheckAnswered, WriteAnswered,
           ConfirmAnswered, RequestFails, Release, HeartbeatLost, Error, Crash, At
  <1>4. worker[w].event \in Events /\ worker[w].n \in Nat
    BY <1>3 DEF IInv, TypeOK, Attempt
  <1>5. \A v \in Workers : worker'[v].pc # "idle" => worker'[v].event \in Events
    BY <1>1, <1>4 DEF Moves, IInv, TypeOK
  <1>6. lease' \in (Events \X Nat) \cup {NoEvent}
    <2>1. Self(w) \in Events \X Nat
      BY <1>4 DEF Self, Event
    <2>2. lease' \in {lease, NoEvent, Self(w)}
      BY DEF Open, ReadEvent, SecretMissing, BeforeSend, Serve, CheckAnswered, WriteAnswered,
             ConfirmAnswered, RequestFails, Release, HeartbeatLost, Error, Crash
    <2> QED
      BY <2>1, <2>2 DEF IInv, TypeOK
  <1>7. remote' \in [Subjects -> 0..MaxRevision]
    <2>1. remote' = remote \/ remote' = Overwritten(worker[w].event)
      BY DEF Open, ReadEvent, SecretMissing, BeforeSend, Serve, CheckAnswered, WriteAnswered,
             ConfirmAnswered, RequestFails, Release, HeartbeatLost, Error, Crash, Event
    <2>2. worker[w].event[1] \in Subjects /\ worker[w].event[2] \in 0..MaxRevision
      BY <1>4 DEF Events
    <2> QED
      BY <2>1, <2>2 DEF Overwritten, IInv, TypeOK
  <1>8. lost' \subseteq Events
    <2>1. lost' = lost \/ lost' = Gone(w)
      BY DEF Open, ReadEvent, SecretMissing, BeforeSend, Serve, CheckAnswered, WriteAnswered,
             ConfirmAnswered, RequestFails, Release, HeartbeatLost, Error, Crash
    <2> QED
      BY <1>4, <2>1 DEF Gone, Event, IInv, TypeOK
  <1>9. stalls' \in 0..MaxStalls
    <2>1. stalls' = stalls \/ Stall
      BY DEF Open, ReadEvent, SecretMissing, BeforeSend, Serve, CheckAnswered, WriteAnswered,
             ConfirmAnswered, RequestFails, Release, HeartbeatLost, Error, Crash
    <2> QED
      BY <2>1 DEF Stall, IInv, TypeOK
  <1> QED
    BY <1>1, <1>2, <1>5, <1>6, <1>7, <1>8, <1>9 DEF Moves, IInv, TypeOK

\* A step of the handler that leaves outbox and job alone.
LEMMA HandlerKeeps ==
    ASSUME IInv, NEW w \in Workers,
           \/ Open(w) \/ ReadEvent(w) \/ SecretMissing(w) \/ BeforeSend(w) \/ Serve(w)
           \/ CheckAnswered(w) \/ WriteAnswered(w) \/ ConfirmAnswered(w) \/ RequestFails(w)
           \/ Release(w) \/ HeartbeatLost(w) \/ Error(w) \/ Crash(w)
    PROVE  IInv'
  <1>1. TypeOK'
    BY HandlerTypes
  <1>2. Moves(w) /\ MovesLease(w) /\ UNCHANGED <<event, job, done, tick>>
    BY HandlerMoves DEF IInv
  <1> QED
    BY <1>1, <1>2, MoveKeeps DEF IInv

\* The receipt of the latest attempt settles the event, or leaves it queued.
LEMMA ReceiptWrites ==
    ASSUME IInv, NEW w \in Workers, Receipt(w), NEW e, e = worker[w].event
    PROVE  /\ e \in Events /\ worker[w].pc = "receipt"
           /\ event' \in [Events -> EventRow]
           /\ \A d \in Events \ {e} : event'[d] = event[d]
           /\ \/ event'[e] = event[e]
              \/ event'[e].status \in Settled
              \/ event[e].status = "queued" /\ event'[e].status = "queued"
           /\ event'[e] # event[e] \/ done' # done => worker[w].n = job[e].n
           /\ done' = done \/ done' = done \cup {e}
           /\ event'[e].status = "synced" => event'[e] = event[e] \/ e \in done'
           /\ worker' \in [Workers -> Attempt]
           /\ worker'[w].event = e /\ worker'[w].n = worker[w].n
           /\ worker'[w].pc = "release"
           /\ worker'[w].outcome = "fail" => event'[e].status \in Settled
           /\ \A v \in Workers \ {w} : worker'[v] = worker[v]
  <1> DEFINE left == Left(w)
  <1>1. worker[w].pc = "receipt" /\ worker[w] \in Attempt /\ e \in Events
    BY DEF Receipt, At, IInv, TypeOK
  <1>2. e \in Events /\ event[e] \in EventRow /\ worker[w].n \in Nat
    BY <1>1 DEF IInv, TypeOK, Attempt
  <1>3. left \in Attempt /\ left.event = e /\ left.n = worker[w].n
    BY <1>1, IdleType DEF Left, Event, Idle, Attempt
  <1>4. ASSUME NEW o \in Outcomes, Return(w, o)
        PROVE  /\ worker' \in [Workers -> Attempt]
               /\ worker'[w].event = e /\ worker'[w].n = worker[w].n
               /\ worker'[w].pc = "release" /\ worker'[w].outcome = o
               /\ \A v \in Workers \ {w} : worker'[v] = worker[v]
    <2> DEFINE new == [left EXCEPT !.outcome = o]
    <2>1. new \in Attempt /\ new.event = e /\ new.n = worker[w].n /\ new.outcome = o
      BY <1>3 DEF Attempt
    <2>2. Goto(w, "release", new)
      BY <1>4 DEF Return
    <2> HIDE DEF new
    <2> QED
      BY <2>1, <2>2, GotoType DEF IInv, TypeOK, Location
  <1>5. CASE ~CurrentAttempt(w)
    <2>1. Return(w, "retry") /\ event' = event /\ done' = done
      BY <1>5 DEF Receipt
    <2> QED
      BY <1>1, <1>4, <2>1 DEF IInv, TypeOK, Outcomes
  <1>6. CASE CurrentAttempt(w)
    <2>1. worker[w].n = job[e].n
      BY <1>6 DEF CurrentAttempt, Holds, Current, Event
    <2>2. CASE worker[w].failure = "none"
      <3>1. /\ event' = [event EXCEPT ![e] = RowIn("synced")]
            /\ done' = done \cup {e} /\ Return(w, "succeed")
        BY <1>6, <2>2 DEF Receipt, Event
      <3>2. RowIn("synced") \in EventRow /\ RowIn("synced").status = "synced"
        BY EventRowTypes DEF Settled, RowIn
      <3>3. /\ event' \in [Events -> EventRow] /\ event'[e].status = "synced"
            /\ \A d \in Events \ {e} : event'[d] = event[d]
        BY <1>2, <3>1, <3>2 DEF IInv, TypeOK
      <3>4. done' = done \cup {e} /\ e \in done'
        BY <3>1
      <3>5. /\ worker' \in [Workers -> Attempt]
            /\ worker'[w].event = e /\ worker'[w].n = worker[w].n
            /\ worker'[w].pc = "release" /\ worker'[w].outcome = "succeed"
            /\ \A v \in Workers \ {w} : worker'[v] = worker[v]
        BY <1>4, <3>1 DEF Outcomes
      <3> QED
        BY <1>1, <1>2, <2>1, <3>3, <3>4, <3>5 DEF Settled
    <2>3. CASE worker[w].failure # "none"
      <3> DEFINE row == FailedRow(w)
                 o   == IF row.status = "queued" THEN "retry" ELSE "fail"
      <3>1. /\ event' = [event EXCEPT ![e] = row]
            /\ done' = done /\ Return(w, o)
        BY <1>6, <2>3 DEF Receipt, Event
      <3>2. /\ row \in EventRow
            /\ \/ row.status = "dead_letter"
               \/ row.status = "queued" /\ worker[w].n < MaxDeliveries
        BY <1>1, <1>2 DEF FailedRow, RowIn, EventRow, Settled, Attempt
      <3>3. row.status = "queued" => event[e].status = "queued"
        BY <1>1, <2>1, <3>2 DEF IInv, LatestAttemptDelivers, InTry
      <3> HIDE DEF row
      <3>4. /\ event' \in [Events -> EventRow] /\ event'[e] = row
            /\ \A d \in Events \ {e} : event'[d] = event[d]
        BY <1>2, <3>1, <3>2 DEF IInv, TypeOK
      <3>5. /\ worker' \in [Workers -> Attempt]
            /\ worker'[w].event = e /\ worker'[w].n = worker[w].n
            /\ worker'[w].pc = "release" /\ worker'[w].outcome = o
            /\ \A v \in Workers \ {w} : worker'[v] = worker[v]
        BY <1>4, <3>1 DEF Outcomes
      <3>6. done' = done
        BY <3>1
      <3> QED
        BY <1>1, <1>2, <2>1, <3>2, <3>3, <3>4, <3>5, <3>6 DEF Settled
    <2> QED
      BY <2>2, <2>3
  <1> QED
    BY <1>5, <1>6

\* The receipt, and with it the result of the command.
LEMMA ReceiptKeeps ==
    ASSUME IInv, NEW w \in Workers, Receipt(w)
    PROVE  IInv' /\ \A d \in Events : event[d].status \in Settled => event'[d].status \in Settled
  <1> DEFINE e == worker[w].event
  <1>1. /\ e \in Events /\ worker[w].pc = "receipt"
        /\ event' \in [Events -> EventRow]
        /\ \A d \in Events \ {e} : event'[d] = event[d]
        /\ \/ event'[e] = event[e]
           \/ event'[e].status \in Settled
           \/ event[e].status = "queued" /\ event'[e].status = "queued"
        /\ event'[e] # event[e] \/ done' # done => worker[w].n = job[e].n
        /\ done' = done \/ done' = done \cup {e}
        /\ event'[e].status = "synced" => event'[e] = event[e] \/ e \in done'
        /\ worker' \in [Workers -> Attempt]
        /\ worker'[w].event = e /\ worker'[w].n = worker[w].n
        /\ worker'[w].pc = "release"
        /\ worker'[w].outcome = "fail" => event'[e].status \in Settled
        /\ \A v \in Workers \ {w} : worker'[v] = worker[v]
    BY ReceiptWrites
  <1>2. UNCHANGED <<job, lease, remote, tick, lost, strays, late, stalls>>
    BY DEF Receipt
  <1>3. event[e].status \notin {"none", "pending"}
    <2>1. job[e].n # 0 /\ Absent.n = 0
      BY <1>1 DEF IInv, AttemptsDiffer, TypeOK, TaskRow, Absent
    <2> QED
      BY <1>1, <2>1 DEF IInv, JobsFollowEvents
  <1> HIDE DEF e
  <1>4. \A d \in Events :
           /\ event'[d].status = "none" <=> event[d].status = "none"
           /\ event'[d].status = "pending" <=> event[d].status = "pending"
           /\ event'[d].status = "queued" => event[d].status = "queued"
           /\ event[d].status \in Settled => event'[d].status \in Settled
           /\ event'[d].status \in {"queued"} \cup Settled =>
                 event[d].status \in {"queued"} \cup Settled
    <2>1. event[e].status \in {"queued"} \cup Settled
      BY <1>1, <1>3 DEF IInv, TypeOK, EventRow
    <2>2. ASSUME NEW d \in Events, d # e
          PROVE  event'[d] = event[d]
      BY <1>1, <2>2
    <2> QED
      BY <1>1, <2>1, <2>2 DEF Settled
  <1>5. TypeOK'
    <2>1. \A v \in Workers : worker'[v].pc # "idle" => worker'[v].event \in Events
      BY <1>1 DEF IInv, TypeOK
    <2>2. done' \subseteq Events
      BY <1>1 DEF IInv, TypeOK
    <2> QED
      BY <1>1, <1>2, <2>1, <2>2 DEF IInv, TypeOK
  <1>6. \A v \in Workers : /\ worker'[v].event = worker[v].event /\ worker'[v].n = worker[v].n
                           /\ worker'[v].pc # "idle" => worker[v].pc # "idle"
    BY <1>1 DEF e
  <1>7. AttemptsDiffer'
    BY <1>2, <1>6 DEF IInv, AttemptsDiffer
  <1>8. JobsFollowEvents' /\ FailedJobIsSpent'
    BY <1>2, <1>4 DEF IInv, JobsFollowEvents, FailedJobIsSpent
  <1>9. FoundJobIsSpent'
    BY <1>2, <1>4 DEF IInv, FoundJobIsSpent, TypeOK
  <1>10. NoGaps' /\ DeliveredInOrder'
    <2> SUFFICES ASSUME NEW d \in Events, NEW q \in 1..(d[2] - 1)
                 PROVE  /\ event'[d].status # "none" => event'[<<d[1], q>>].status # "none"
                        /\ event'[d].status \in {"queued"} \cup Settled =>
                              event'[<<d[1], q>>].status \in Settled
      BY DEF NoGaps, DeliveredInOrder
    <2>1. <<d[1], q>> \in Events
      BY DEF Events
    <2> QED
      BY <1>4, <2>1 DEF IInv, NoGaps, DeliveredInOrder
  <1>11. FailureIsRecorded' /\ ResultIsKnown'
    <2>1. \A v \in Workers : v # w /\ worker[v].pc # "idle" =>
             worker'[v] = worker[v] /\ worker[v].event \in Events
      BY <1>1 DEF IInv, TypeOK
    <2> QED
      BY <1>1, <1>4, <2>1 DEF IInv, FailureIsRecorded, ResultIsKnown
  <1>12. LatestAttemptDelivers'
    <2>1. \A d \in Events : event'[d].status = "synced" => d \in done'
      BY <1>1 DEF IInv, LatestAttemptDelivers
    <2>2. ASSUME NEW v \in Workers, worker'[v].pc \in InTry,
                 worker'[v].n = job[worker'[v].event].n
          PROVE  /\ worker'[v].event \notin done'
                 /\ worker'[v].pc # "event" /\ worker'[v].n < MaxDeliveries =>
                       event'[worker'[v].event].status = "queued"
      <3>1. v # w /\ worker'[v] = worker[v] /\ worker[v].pc # "idle"
        BY <1>1, <2>2 DEF InTry
      <3>2. worker[v].event \in Events
        BY <3>1 DEF IInv, TypeOK
      <3>3. worker[v].event = e => event'[e] = event[e] /\ done' = done
        BY <1>1, <2>2, <3>1 DEF IInv, AttemptsDiffer, e
      <3>4. /\ event'[worker[v].event] = event[worker[v].event]
            /\ worker[v].event \in done' <=> worker[v].event \in done
        BY <1>1, <3>2, <3>3
      <3> QED
        BY <2>2, <3>1, <3>4 DEF IInv, LatestAttemptDelivers
    <2> QED
      BY <1>2, <2>1, <2>2 DEF LatestAttemptDelivers
  <1>13. SenderHoldsLease'
    BY <1>1, <1>2 DEF IInv, SenderHoldsLease, Self, Event
  <1> QED
    BY <1>4, <1>5, <1>7, <1>8, <1>9, <1>10, <1>11, <1>12, <1>13 DEF IInv

\* The result of an attempt is written if it is the latest, and the attempt ends.
LEMMA WriteKeeps ==
    ASSUME IInv, NEW w \in Workers, WriteResult(w)
    PROVE  IInv'
  <1> DEFINE e == worker[w].event
             o == worker[w].outcome
  <1>1. /\ worker[w].pc = "write" /\ e \in Events /\ o \in Outcomes
        /\ UNCHANGED <<event, done, lease, remote, tick, lost, strays, late, stalls>>
    BY DEF WriteResult, At, IInv, TypeOK, ResultIsKnown, Attempt
  <1>2. /\ worker' \in [Workers -> Attempt] /\ worker'[w].pc = "idle"
        /\ \A v \in Workers \ {w} : worker'[v] = worker[v]
    BY DropMoves DEF WriteResult, IInv, Moves
  <1>3. job[e] \in TaskRow
    BY <1>1 DEF IInv, TypeOK
  <1>4. /\ job' \in [Events -> TaskRow]
        /\ \A d \in Events \ {e} : job'[d] = job[d]
        /\ \A d \in Events : job'[d].n = job[d].n
        /\ job'[e] # job[e] =>
              /\ worker[w].n = job[e].n /\ job[e].status \in Active
              /\ job'[e].status = "failed" => o = "fail" \/ job[e].n >= MaxAttempts
    <2>1. CASE ~Fenced(job[e], worker[w].n)
      BY <2>1 DEF WriteResult, Event, IInv, TypeOK
    <2>2. CASE Fenced(job[e], worker[w].n)
      <3> DEFINE new == Written(job[e], o)
      <3>1. /\ new \in TaskRow /\ new.n = job[e].n
            /\ new.status = "failed" => o = "fail" \/ job[e].n >= MaxAttempts
        BY <1>1, <1>3, RowTypes, WrittenRow
      <3>2. job' = [job EXCEPT ![e] = new]
        BY <2>2 DEF WriteResult, Event
      <3> HIDE DEF new
      <3>3. worker[w].n = job[e].n /\ job[e].status \in Active
        BY <2>2 DEF Fenced
      <3> QED
        BY <1>1, <3>1, <3>2, <3>3 DEF IInv, TypeOK
    <2> QED
      BY <2>1, <2>2
  <1> HIDE DEF e, o
  <1>5. TypeOK'
    BY <1>1, <1>2, <1>4 DEF IInv, TypeOK
  <1>6. \A v \in Workers : worker'[v].pc # "idle" =>
           /\ v # w /\ worker'[v] = worker[v] /\ worker[v].event \in Events
           /\ worker[v].event = e /\ worker[v].n = job[e].n => job'[e] = job[e]
    BY <1>1, <1>2, <1>4 DEF IInv, TypeOK, AttemptsDiffer, e
  <1>7. AttemptsDiffer'
    <2> SUFFICES ASSUME NEW v \in Workers, worker'[v].pc # "idle"
                 PROVE  /\ worker'[v].n \in 1..job'[worker'[v].event].n
                        /\ worker'[v].n = job'[worker'[v].event].n =>
                              job'[worker'[v].event].status \in Active
                        /\ \A u \in Workers :
                              worker'[u].pc # "idle" /\ worker'[u].event = worker'[v].event
                                 /\ worker'[u].n = worker'[v].n => u = v
      BY DEF AttemptsDiffer
    <2>1. worker'[v] = worker[v] /\ worker[v].pc # "idle" /\ worker[v].event \in Events
      BY <1>6
    <2>2. /\ worker[v].n \in 1..job[worker[v].event].n
          /\ worker[v].n = job[worker[v].event].n => job[worker[v].event].status \in Active
      BY <2>1 DEF IInv, AttemptsDiffer
    <2>3. job'[worker[v].event].n = job[worker[v].event].n
      BY <1>4, <2>1
    <2>4. worker[v].n = job[worker[v].event].n => job'[worker[v].event] = job[worker[v].event]
      BY <1>4, <1>6, <2>1
    <2>5. ASSUME NEW u \in Workers, worker'[u].pc # "idle",
                 worker'[u].event = worker'[v].event, worker'[u].n = worker'[v].n
          PROVE  u = v
      <3>1. worker'[u] = worker[u]
        BY <1>6, <2>5
      <3> QED
        BY <2>1, <2>5, <3>1 DEF IInv, AttemptsDiffer
    <2> QED
      BY <2>1, <2>2, <2>3, <2>4, <2>5
  <1>8. JobsFollowEvents'
    <2>1. event[e].status \notin {"none", "pending"}
      <3>1. job[e].n # 0 /\ Absent.n = 0
        BY <1>1 DEF IInv, AttemptsDiffer, TypeOK, TaskRow, Absent, e
      <3> QED
        BY <1>1, <3>1 DEF IInv, JobsFollowEvents
    <2> QED
      BY <1>1, <1>4, <2>1 DEF IInv, JobsFollowEvents
  <1>9. FailedJobIsSpent'
    <2> SUFFICES ASSUME NEW d \in Events, job'[d].status = "failed", event[d].status = "queued"
                 PROVE  job'[d].n >= MaxAttempts
      BY <1>1 DEF FailedJobIsSpent
    <2>1. CASE job'[d] = job[d]
      BY <2>1 DEF IInv, FailedJobIsSpent
    <2>2. CASE job'[d] # job[d]
      <3>1. d = e
        BY <1>4, <2>2
      <3>2. o = "fail" => event[e].status \in Settled
        BY <1>1 DEF IInv, FailureIsRecorded, e, o
      <3> QED
        BY <1>4, <2>2, <3>1, <3>2 DEF Settled
    <2> QED
      BY <2>1, <2>2
  <1>10. FoundJobIsSpent'
    <2>1. job'[e] # job[e] => job[e].status # "cancelled"
      BY <1>4 DEF Active
    <2>2. tick # NoEvent => tick \in Events
      BY DEF IInv, TypeOK
    <2>3. tick # NoEvent => /\ job'[tick].n = job[tick].n
                            /\ job'[tick] = job[tick] \/ tick = e
      BY <1>4, <2>2
    <2> QED
      BY <1>1, <2>1, <2>3 DEF IInv, FoundJobIsSpent
  <1>11. FailureIsRecorded' /\ ResultIsKnown'
    BY <1>1, <1>2 DEF IInv, FailureIsRecorded, ResultIsKnown
  <1>12. LatestAttemptDelivers'
    <2>1. \A v \in Workers : worker'[v].pc \in InTry =>
             worker'[v] = worker[v] /\ job'[worker[v].event].n = job[worker[v].event].n
      BY <1>4, <1>6 DEF InTry
    <2> QED
      BY <1>1, <2>1 DEF IInv, LatestAttemptDelivers
  <1>13. SenderHoldsLease'
    BY <1>1, <1>2 DEF IInv, SenderHoldsLease, Self, Event
  <1>14. NoGaps' /\ DeliveredInOrder'
    BY <1>1 DEF IInv, NoGaps, DeliveredInOrder
  <1> QED
    BY <1>5, <1>7, <1>8, <1>9, <1>10, <1>11, <1>12, <1>13, <1>14 DEF IInv

\* A dispatch pass takes no settled event back.
LEMMA TickSettles ==
    ASSUME IInv, TickFinds \/ TickBuries \/ TickDispatches \/ TickFails,
           NEW d \in Events, event[d].status \in Settled
    PROVE  event'[d].status \in Settled
  <1>1. ASSUME NEW rows \in [Events -> EventRow], rows[d].status \in Settled, Dispatch(rows)
        PROVE  event'[d].status \in Settled
    <2>1. CASE event' = rows
      BY <1>1, <2>1
    <2>2. ASSUME NEW e \in Deliverable(rows), event' = [rows EXCEPT ![e].status = "queued"]
          PROVE  event'[d].status \in Settled
      BY <1>1, <2>2 DEF Deliverable, Settled
    <2> QED
      BY <1>1, <2>1, <2>2 DEF Dispatch
  <1>2. CASE TickFinds \/ TickFails
    BY <1>2 DEF TickFinds, TickFails
  <1>3. CASE TickBuries
    <2> DEFINE rows == [event EXCEPT ![tick] = RowIn("dead_letter")]
    <2>1. rows \in [Events -> EventRow] /\ rows[d].status \in Settled
      BY EventRowTypes DEF IInv, TypeOK, Settled, RowIn
    <2>2. Dispatch(rows)
      BY <1>3 DEF TickBuries
    <2> HIDE DEF rows
    <2> QED
      BY <1>1, <2>1, <2>2
  <1>4. CASE TickDispatches
    BY <1>1, <1>4 DEF TickDispatches, IInv, TypeOK
  <1> QED
    BY <1>2, <1>3, <1>4

-----------------------------------------------------------------------------
(* The theorems *)

\* The invariant holds at the start.
LEMMA InitInv == Init => IInv
  <1> SUFFICES ASSUME Init PROVE IInv
    OBVIOUS
  <1>1. RowIn("none") \in EventRow /\ RowIn("none").status = "none"
    BY EventRowTypes DEF RowIn
  <1>2. Absent \in TaskRow /\ Absent.status = "absent"
    BY DEF Absent, TaskRow
  <1>3. Idle \in Attempt /\ Idle.pc = "idle"
    BY IdleType DEF Idle
  <1>4. TypeOK
    <2>1. /\ event \in [Events -> EventRow] /\ job \in [Events -> TaskRow]
          /\ worker \in [Workers -> Attempt]
      BY <1>1, <1>2, <1>3 DEF Init
    <2>2. \A w \in Workers : worker[w].pc = "idle"
      BY <1>3 DEF Init
    <2>3. remote \in [Subjects -> 0..MaxRevision] /\ stalls \in 0..MaxStalls
      BY DEF Init
    <2> QED
      BY <2>1, <2>2, <2>3 DEF Init, TypeOK
  <1>5. \A w \in Workers : worker[w].pc = "idle"
    BY <1>3 DEF Init
  <1>6. \A e \in Events : event[e].status = "none" /\ job[e] = Absent
    BY <1>1 DEF Init
  <1>7. AttemptsDiffer /\ FailureIsRecorded /\ ResultIsKnown /\ SenderHoldsLease
    BY <1>5 DEF AttemptsDiffer, FailureIsRecorded, ResultIsKnown, SenderHoldsLease
  <1>8. JobsFollowEvents /\ NoGaps /\ FailedJobIsSpent /\ DeliveredInOrder
    BY <1>6 DEF JobsFollowEvents, NoGaps, FailedJobIsSpent, DeliveredInOrder, Settled
  <1>9. FoundJobIsSpent
    BY DEF Init, FoundJobIsSpent
  <1>10. LatestAttemptDelivers
    BY <1>5, <1>6 DEF LatestAttemptDelivers, InTry
  <1> QED
    BY <1>4, <1>7, <1>8, <1>9, <1>10 DEF IInv

\* No step breaks the invariant or takes a settled event back.
LEMMA NextInv ==
    ASSUME IInv, [Next]_vars
    PROVE  IInv' /\ \A d \in Events : event[d].status \in Settled => event'[d].status \in Settled
  <1>1. CASE UNCHANGED vars
    BY <1>1 DEF vars, IInv, TypeOK, AttemptsDiffer, JobsFollowEvents, NoGaps, FoundJobIsSpent,
                FailedJobIsSpent, FailureIsRecorded, ResultIsKnown, LatestAttemptDelivers,
                SenderHoldsLease, DeliveredInOrder, Self, Event
  <1>2. ASSUME NEW s \in Subjects, Append(s)
        PROVE  \A d \in Events : event[d].status \in Settled => event'[d].status \in Settled
    <2>1. PICK r \in 1..MaxRevision :
             /\ Appended(s) = 1..(r - 1)
             /\ event' = [event EXCEPT ![<<s, r>>].status = "pending"]
      BY <1>2 DEF Append
    <2>2. event[<<s, r>>].status = "none"
      BY <2>1 DEF Appended
    <2> QED
      BY <2>1, <2>2 DEF Settled, IInv, TypeOK
  <1>3. CASE \E s \in Subjects : Append(s)
    BY <1>2, <1>3, AppendKeeps
  <1>4. CASE TickFinds \/ TickBuries \/ TickDispatches \/ TickFails
    BY <1>4, TickKeeps, TickSettles
  <1>5. CASE \E e \in Events : RequestCancel(e) \/ Requeue(e) \/ TaskLeaseExpires(e)
    <2>1. event' = event
      BY <1>5 DEF RequestCancel, Requeue, TaskLeaseExpires
    <2> QED
      BY <1>5, <2>1, QueueKeeps
  <1>6. CASE LeaseExpires \/ \E e \in Events : ServeLate(e)
    <2>1. event' = event
      BY <1>6 DEF LeaseExpires, ServeLate
    <2> QED
      BY <1>6, <2>1, TimingKeeps
  <1>7. ASSUME NEW w \in Workers, NEW e \in Events, Claim(w, e)
        PROVE  IInv' /\ event' = event
    BY <1>7, ClaimKeeps DEF Claim
  <1>8. ASSUME NEW w \in Workers, Step(w) \/ SecretMissing(w) \/ Serve(w)
                                     \/ HeartbeatLost(w) \/ Error(w) \/ Crash(w)
        PROVE  IInv' /\ \A d \in Events : event[d].status \in Settled =>
                                             event'[d].status \in Settled
    <2>1. CASE Receipt(w)
      BY <2>1, ReceiptKeeps
    <2>2. CASE WriteResult(w)
      BY <2>2, WriteKeeps DEF WriteResult
    <2>3. CASE \/ Open(w) \/ ReadEvent(w) \/ SecretMissing(w) \/ BeforeSend(w) \/ Serve(w)
               \/ CheckAnswered(w) \/ WriteAnswered(w) \/ ConfirmAnswered(w) \/ RequestFails(w)
               \/ Release(w) \/ HeartbeatLost(w) \/ Error(w) \/ Crash(w)
      <3>1. event' = event
        BY <2>3, HandlerMoves DEF IInv
      <3> QED
        BY <2>3, <3>1, HandlerKeeps
    <2> QED
      BY <1>8, <2>1, <2>2, <2>3 DEF Step
  <1> QED
    BY <1>1, <1>3, <1>4, <1>5, <1>6, <1>7, <1>8 DEF Next

\* The variables keep their types.
THEOREM TypeCorrect == Spec => []TypeOK
  <1>1. IInv => TypeOK
    BY DEF IInv
  <1> QED
    BY <1>1, InitInv, NextInv, PTL DEF Spec

\* The revisions of every subject are delivered in order, whatever the attempts
\* of experience.sync, the dispatch passes and the operators do to each other.
THEOREM InOrder == Spec => []DeliveredInOrder
  <1>1. IInv => DeliveredInOrder
    BY DEF IInv
  <1> QED
    BY <1>1, InitInv, NextInv, PTL DEF Spec

\* Any number of workers have one request out at a time, as long as no lease runs out
\* during one: who waits for OpenViking holds the lease, and no two attempts are the
\* same.
THEOREM MutualExclusion == Spec => []OneRequestAtATime
  <1>1. IInv => OneRequestAtATime
    <2> SUFFICES ASSUME IInv, ~late, NEW w1 \in Workers, NEW w2 \in Workers,
                        worker[w1].pc = "out", worker[w2].pc = "out"
                 PROVE  w1 = w2
      BY DEF OneRequestAtATime, At
    <2>1. lease = Self(w1) /\ lease = Self(w2)
      BY DEF IInv, SenderHoldsLease
    <2>2. worker[w1].event = worker[w2].event /\ worker[w1].n = worker[w2].n
      BY <2>1 DEF Self, Event
    <2> QED
      BY <2>2 DEF IInv, AttemptsDiffer
  <1> QED
    BY <1>1, InitInv, NextInv, PTL DEF Spec

\* A synced or dead-lettered event is never put back in the queue: the receipt
\* of an attempt that could do so finds itself overtaken.
THEOREM SettledForGood == Spec => SettledStaysSettled
  <1>1. IInv /\ [Next]_vars =>
           [\A e \in Events : event[e].status \in Settled => event'[e].status \in Settled]_vars
    BY NextInv
  <1> QED
    BY <1>1, InitInv, NextInv, PTL DEF Spec, SettledStaysSettled

-----------------------------------------------------------------------------
(* What is synced is in place.  The lease is acquired once per attempt, so who *)
(* has it has had it since it looked at the event: nobody can have settled a   *)
(* later revision in the meantime, and nobody else can have written.           *)

\* Who works under the lease has found its event without a result, and nobody
\* has delivered it since.
HolderIsUndone ==
    \A w \in Workers : worker[w].pc \in InTry /\ lease = Self(w) => Event(w) \notin done

\* Who has read its event under the lease has no later revision in its way.
HolderIsNewest ==
    \A w \in Workers :
        worker[w].pc \in InTry \ {"event"} /\ lease = Self(w) =>
            \A r \in 1..MaxRevision :
                event[<<Event(w)[1], r>>].status = "synced" => r < Event(w)[2]

\* As long as no lease runs out during a request, a delivery about to be recorded is
\* in OpenViking.
DeliveredIsInPlace ==
    ~late => \A w \in Workers :
        worker[w].pc = "receipt" /\ worker[w].failure = "none" /\ lease = Self(w) =>
            InPlace(Event(w))

PlaceInv == HolderIsUndone /\ HolderIsNewest /\ DeliveredIsInPlace /\ SyncedIsInPlace

\* One attempt holds the lease.
LEMMA OneHolder ==
    ASSUME IInv, NEW v \in Workers, NEW w \in Workers,
           worker[v].pc # "idle", worker[w].pc # "idle", Self(v) = Self(w)
    PROVE  v = w
  <1>1. worker[v].event = worker[w].event /\ worker[v].n = worker[w].n
    BY DEF Self, Event
  <1> QED
    BY <1>1 DEF IInv, AttemptsDiffer

\* The lease is somebody's or NoEvent, never both.
LEMMA SelfIsSomebody ==
    ASSUME TypeOK, NEW w \in Workers, worker[w].pc # "idle"
    PROVE  /\ Self(w) # NoEvent /\ Event(w) \in Events /\ worker[w].n \in Nat
           /\ Event(w)[1] \in Subjects /\ Event(w)[2] \in 1..MaxRevision
           /\ Event(w) = <<Event(w)[1], Event(w)[2]>>
  <1>1. worker[w].event \in Events /\ worker[w].n \in Nat
    BY DEF TypeOK, Attempt
  <1> QED
    BY <1>1 DEF Self, Event, Events

\* A step that nobody in the try takes, that gives the lease to nobody and reports
\* nothing as synced.
LEMMA QuietKeepsPlace ==
    ASSUME IInv, PlaceInv, TypeOK',
           \A v \in Workers : worker'[v].pc \in InTry => worker'[v] = worker[v],
           done' = done, lease' = lease \/ lease' = NoEvent,
           late => late', \A d \in Events : InPlace(d) => InPlace(d)',
           \A d \in Events : event'[d].status = "synced" => event[d].status = "synced"
    PROVE  PlaceInv'
  <1>1. ASSUME NEW v \in Workers, worker'[v].pc \in InTry, lease' = Self(v)'
        PROVE  /\ worker'[v] = worker[v] /\ lease = Self(v) /\ Event(v)' = Event(v)
               /\ Event(v) \in Events /\ Event(v)[1] \in Subjects
    <2>1. worker'[v] = worker[v] /\ worker[v].pc # "idle"
      BY <1>1 DEF InTry
    <2>2. Self(v)' = Self(v) /\ Event(v)' = Event(v)
      BY <2>1 DEF Self, Event
    <2>3. Self(v) # NoEvent /\ Event(v) \in Events /\ Event(v)[1] \in Subjects
      BY <2>1, SelfIsSomebody DEF IInv
    <2> QED
      BY <1>1, <2>1, <2>2, <2>3
  <1>2. HolderIsUndone'
    BY <1>1 DEF PlaceInv, HolderIsUndone
  <1>3. HolderIsNewest'
    <2> SUFFICES ASSUME NEW v \in Workers, worker'[v].pc \in InTry \ {"event"}, lease' = Self(v)',
                        NEW r \in 1..MaxRevision, event'[<<Event(v)'[1], r>>].status = "synced"
                 PROVE  r < Event(v)'[2]
      BY DEF HolderIsNewest
    <2>1. worker'[v] = worker[v] /\ lease = Self(v) /\ Event(v)' = Event(v) /\ Event(v)[1] \in Subjects
      BY <1>1
    <2>2. <<Event(v)[1], r>> \in Events
      BY <2>1 DEF Events
    <2> QED
      BY <2>1, <2>2 DEF PlaceInv, HolderIsNewest
  <1>4. DeliveredIsInPlace'
    <2> SUFFICES ASSUME ~late', NEW v \in Workers, worker'[v].pc = "receipt",
                        worker'[v].failure = "none", lease' = Self(v)'
                 PROVE  InPlace(Event(v))'
      BY DEF DeliveredIsInPlace
    <2>1. worker'[v] = worker[v] /\ lease = Self(v) /\ Event(v)' = Event(v) /\ Event(v) \in Events
      BY <1>1 DEF InTry
    <2>2. InPlace(Event(v))
      BY <2>1 DEF PlaceInv, DeliveredIsInPlace
    <2> QED
      BY <2>1, <2>2 DEF InPlace
  <1>5. SyncedIsInPlace'
    BY DEF PlaceInv, SyncedIsInPlace
  <1> QED
    BY <1>2, <1>3, <1>4, <1>5 DEF PlaceInv

\* A move of worker w that leaves the outbox alone: what w knows it knows of the
\* time since it took the lease.
LEMMA MoveKeepsHolder ==
    ASSUME IInv, PlaceInv, NEW w \in Workers, Moves(w), MovesLease(w),
           UNCHANGED <<event, job, done, tick>>
    PROVE  /\ HolderIsUndone' /\ HolderIsNewest'
           /\ \A v \in Workers \ {w} :
                 worker'[v].pc \in InTry /\ lease' = Self(v)' =>
                    worker'[v] = worker[v] /\ lease = Self(v) /\ Event(v)' = Event(v)
           /\ worker'[w].pc \in InTry \ {"event"} /\ lease' = Self(w)' =>
                 worker[w].pc \in InTry /\ lease = Self(w) /\ Event(w)' = Event(w)
  <1>1. ASSUME NEW v \in Workers \ {w}, worker'[v].pc \in InTry, lease' = Self(v)'
        PROVE  worker'[v] = worker[v] /\ lease = Self(v) /\ Event(v)' = Event(v)
    <2>1. worker'[v] = worker[v] /\ worker[v].pc # "idle"
      BY <1>1 DEF Moves, InTry
    <2>2. Self(v)' = Self(v) /\ Event(v)' = Event(v)
      BY <2>1 DEF Self, Event
    <2>3. Self(v) # NoEvent
      BY <2>1, SelfIsSomebody DEF IInv
    <2>4. ~(lease' = Self(w) /\ worker[w].pc = "open")
      BY <1>1, <2>1, <2>2, OneHolder
    <2> QED
      BY <1>1, <2>1, <2>2, <2>3, <2>4 DEF MovesLease
  <1>2. ASSUME worker'[w].pc \in InTry
        PROVE  Self(w)' = Self(w) /\ Event(w)' = Event(w) /\ worker[w].pc # "idle" /\ Self(w) # NoEvent
    <2>1. worker[w].pc # "idle" /\ worker'[w].event = worker[w].event /\ worker'[w].n = worker[w].n
      BY <1>2 DEF Moves, InTry
    <2>2. Self(w) # NoEvent
      BY <2>1, SelfIsSomebody DEF IInv
    <2> QED
      BY <2>1, <2>2 DEF Self, Event
  <1>3. ASSUME worker'[w].pc \in InTry, lease' = Self(w)', worker[w].pc # "open"
        PROVE  worker[w].pc \in InTry /\ lease = Self(w)
    <2>1. worker[w].pc \in InTry
      BY <1>2, <1>3 DEF Moves, InTry
    <2> QED
      BY <1>2, <1>3, <2>1 DEF MovesLease
  <1>4. worker'[w].pc \in InTry /\ worker[w].pc = "open" =>
           worker'[w].pc = "event" /\ worker[w].event \notin done
    BY <1>2 DEF Moves, InTry
  <1>5. HolderIsUndone'
    <2> SUFFICES ASSUME NEW v \in Workers, worker'[v].pc \in InTry, lease' = Self(v)'
                 PROVE  Event(v)' \notin done
      BY DEF HolderIsUndone
    <2>1. CASE v # w
      BY <1>1, <2>1 DEF PlaceInv, HolderIsUndone
    <2>2. CASE v = w /\ worker[w].pc = "open"
      BY <1>2, <1>4, <2>2 DEF Event
    <2>3. CASE v = w /\ worker[w].pc # "open"
      BY <1>2, <1>3, <2>3 DEF PlaceInv, HolderIsUndone
    <2> QED
      BY <2>1, <2>2, <2>3
  <1>6. HolderIsNewest'
    <2> SUFFICES ASSUME NEW v \in Workers, worker'[v].pc \in InTry \ {"event"}, lease' = Self(v)',
                        NEW r \in 1..MaxRevision, event[<<Event(v)'[1], r>>].status = "synced"
                 PROVE  r < Event(v)'[2]
      BY DEF HolderIsNewest
    <2>1. CASE v # w
      BY <1>1, <2>1 DEF PlaceInv, HolderIsNewest
    <2>2. CASE v = w
      <3>1. /\ worker[w].pc \in InTry /\ lease = Self(w) /\ Event(w)' = Event(w)
            /\ worker[w].pc # "idle"
        BY <1>2, <1>3, <1>4, <2>2
      <3>2. CASE worker[w].pc # "event"
        BY <2>2, <3>1, <3>2 DEF PlaceInv, HolderIsNewest
      <3>3. CASE worker[w].pc = "event"
        <4> DEFINE e == worker[w].event
        <4>1. e \in Events /\ e[1] \in Subjects /\ e[2] \in 1..MaxRevision /\ e = <<e[1], e[2]>>
          BY <3>1, SelfIsSomebody DEF IInv, Event
        <4>2. event[e].status # "dead_letter"
          BY <2>2, <3>3 DEF Moves, InTry
        <4>3. event[e].status # "synced"
          BY <3>1, <4>1 DEF PlaceInv, HolderIsUndone, IInv, LatestAttemptDelivers, Event
        <4>4. <<e[1], r>> \in Events
          BY <4>1 DEF Events
        <4>5. event[<<e[1], r>>].status = "synced"
          BY <2>2, <3>1 DEF Event
        <4>6. r # e[2]
          BY <4>1, <4>3, <4>5
        <4>7. ~(e[2] < r)
          <5>1. ASSUME e[2] < r PROVE event[<<e[1], e[2]>>].status \in Settled
            <6>1. e[2] \in 1..(r - 1)
              BY <4>1, <5>1
            <6> DEFINE d == <<e[1], r>>
            <6>2. d \in Events /\ d[1] = e[1] /\ d[2] = r /\ event[d].status = "synced"
              BY <4>4, <4>5
            <6> HIDE DEF d, e
            <6> QED
              BY <6>1, <6>2 DEF IInv, DeliveredInOrder, Settled
          <5> QED
            BY <4>1, <4>2, <4>3, <5>1 DEF Settled
        <4> QED
          BY <2>2, <3>1, <4>1, <4>6, <4>7 DEF Event
      <3> QED
        BY <3>2, <3>3
    <2> QED
      BY <2>1, <2>2
  <1> QED
    BY <1>1, <1>2, <1>3, <1>4, <1>5, <1>6

\* The end of project leaves its failure with the worker.
LEMMA DeliverFailure ==
    ASSUME TypeOK, NEW w \in Workers, NEW f \in {"none", "retryable", "final"}, NEW i \in BOOLEAN,
           Deliver(w, f, i)
    PROVE  worker'[w].failure = f
  <1> DEFINE left == Left(w)
  <1>1. left \in Attempt
    BY IdleType DEF Left, Event, Idle, Attempt, TypeOK
  <1>2. worker' = [worker EXCEPT ![w] = [[left EXCEPT !.failure = f, !.indexed = i]
                                           EXCEPT !.pc = "receipt"]]
    BY DEF Deliver, Goto
  <1> QED
    BY <1>1, <1>2 DEF TypeOK, Attempt

\* A step of the handler that writes nothing to OpenViking: a delivery is taken for
\* done when the file was seen to match.
LEMMA MoveKeepsPlace ==
    ASSUME IInv, PlaceInv, NEW w \in Workers, Moves(w), MovesLease(w),
           UNCHANGED <<event, job, done, tick, remote>>,
           worker'[w].pc = "receipt" /\ worker'[w].failure = "none" => InPlace(Event(w))
    PROVE  PlaceInv'
  <1>1. UNCHANGED <<strays, late>>
    BY DEF MovesLease
  <1>2. DeliveredIsInPlace'
    <2> SUFFICES ASSUME ~late', NEW v \in Workers, worker'[v].pc = "receipt",
                        worker'[v].failure = "none", lease' = Self(v)'
                 PROVE  InPlace(Event(v))'
      BY DEF DeliveredIsInPlace
    <2>1. CASE v # w
      <3>1. worker'[v] = worker[v] /\ lease = Self(v) /\ Event(v)' = Event(v)
        BY <2>1, MoveKeepsHolder DEF InTry
      <3> QED
        BY <1>1, <3>1 DEF PlaceInv, DeliveredIsInPlace, InPlace
    <2>2. CASE v = w
      <3>1. Event(w)' = Event(w)
        BY <2>2, MoveKeepsHolder DEF InTry
      <3> QED
        BY <1>1, <2>2, <3>1 DEF InPlace
    <2> QED
      BY <2>1, <2>2
  <1>3. SyncedIsInPlace'
    BY <1>1 DEF PlaceInv, SyncedIsInPlace, InPlace
  <1> QED
    BY <1>2, <1>3, MoveKeepsHolder DEF PlaceInv

\* OpenViking carries out a write: its sender holds the lease, so that no synced
\* revision is later than the one written.
LEMMA ServeKeepsPlace ==
    ASSUME IInv, PlaceInv, NEW w \in Workers, Serve(w)
    PROVE  PlaceInv'
  <1>1. /\ worker[w].pc = "out" /\ remote' = Overwritten(Event(w)) /\ lease' = lease
        /\ UNCHANGED <<strays, late>>
    BY DEF Serve, At
  <1>2. Moves(w) /\ MovesLease(w) /\ UNCHANGED <<event, job, done, tick>>
    BY HandlerMoves DEF IInv
  <1>3. worker'[w].pc = "out"
    <2> DEFINE new == [worker[w] EXCEPT !.served = TRUE]
    <2>0. worker[w] \in Attempt
      BY DEF IInv, TypeOK
    <2>1. Goto(w, "out", new) /\ new \in Attempt
      BY <2>0 DEF Serve, Attempt
    <2> HIDE DEF new
    <2> QED
      BY <2>1, GotoType DEF IInv, TypeOK, Location
  <1>4. ~late => lease = Self(w)
    BY <1>1 DEF IInv, SenderHoldsLease
  <1>5. /\ Event(w)[1] \in Subjects /\ Event(w)[2] \in 1..MaxRevision
        /\ worker[w].pc # "idle"
    BY <1>1, SelfIsSomebody DEF IInv
  <1>6. DeliveredIsInPlace'
    <2> SUFFICES ASSUME ~late', NEW v \in Workers, worker'[v].pc = "receipt", lease' = Self(v)'
                 PROVE  FALSE
      BY DEF DeliveredIsInPlace
    <2>1. v # w
      BY <1>3
    <2>2. worker'[v] = worker[v] /\ lease = Self(v)
      BY <1>2, <2>1, MoveKeepsHolder DEF InTry
    <2>3. worker[v].pc # "idle" /\ Self(v) = Self(w)
      BY <1>1, <1>4, <2>2
    <2> QED
      BY <1>5, <2>1, <2>3, OneHolder
  <1>7. SyncedIsInPlace'
    <2> SUFFICES ASSUME ~late', NEW e \in Events, event[e].status = "synced"
                 PROVE  InPlace(e)'
      BY <1>2 DEF SyncedIsInPlace
    <2>1. e[1] \in Subjects /\ e[2] \in 1..MaxRevision /\ e = <<e[1], e[2]>>
      BY DEF Events
    <2>2. remote \in [Subjects -> 0..MaxRevision]
      BY DEF IInv, TypeOK
    <2>3. CASE e[1] # Event(w)[1]
      <3>1. remote'[e[1]] = remote[e[1]]
        BY <1>1, <2>1, <2>2, <2>3 DEF Overwritten
      <3> QED
        BY <1>1, <3>1 DEF PlaceInv, SyncedIsInPlace, InPlace
    <2>4. CASE e[1] = Event(w)[1]
      <3>1. remote'[e[1]] = Event(w)[2]
        BY <1>1, <2>1, <2>2, <2>4 DEF Overwritten
      <3>2. event[<<Event(w)[1], e[2]>>].status = "synced"
        BY <2>1, <2>4
      <3>3. e[2] < Event(w)[2]
        BY <1>1, <1>4, <2>1, <3>2 DEF PlaceInv, HolderIsNewest, InTry
      <3> QED
        BY <1>5, <2>1, <3>1, <3>3 DEF InPlace
    <2> QED
      BY <2>3, <2>4
  <1> QED
    BY <1>2, <1>6, <1>7, MoveKeepsHolder DEF PlaceInv

\* The steps of the handler up to the receipt and after it.
LEMMA HandlerKeepsPlace ==
    ASSUME IInv, PlaceInv, NEW w \in Workers,
           \/ Open(w) \/ ReadEvent(w) \/ SecretMissing(w) \/ BeforeSend(w) \/ Serve(w)
           \/ CheckAnswered(w) \/ WriteAnswered(w) \/ ConfirmAnswered(w) \/ RequestFails(w)
           \/ Release(w) \/ HeartbeatLost(w) \/ Error(w) \/ Crash(w)
    PROVE  PlaceInv'
  <1>1. Moves(w) /\ MovesLease(w) /\ UNCHANGED <<event, job, done, tick>>
    BY HandlerMoves DEF IInv
  <1>2. CASE Serve(w)
    BY <1>2, ServeKeepsPlace
  <1>3. ASSUME remote' = remote,
               worker'[w].pc = "receipt" /\ worker'[w].failure = "none" => Matches(w)
        PROVE  PlaceInv'
    <2>1. ASSUME worker'[w].pc = "receipt", worker'[w].failure = "none"
          PROVE  InPlace(Event(w))
      <3>1. Event(w)[1] \in Subjects /\ Event(w)[2] \in 1..MaxRevision
        BY <1>1, <2>1, SelfIsSomebody DEF Moves, IInv
      <3> QED
        BY <1>3, <2>1, <3>1 DEF Matches, InPlace
    <2> QED
      BY <1>1, <1>3, <2>1, MoveKeepsPlace
  <1>4. ASSUME remote' = remote, NEW f \in {"none", "retryable", "final"}, NEW i \in BOOLEAN,
               Deliver(w, f, i), f = "none" => Matches(w)
        PROVE  PlaceInv'
    BY <1>3, <1>4, DeliverFailure DEF IInv
  <1>5. ASSUME remote' = remote, NEW new \in Attempt, NEW pc \in Location \ {"receipt"},
               Goto(w, pc, new)
        PROVE  PlaceInv'
    <2>1. worker'[w].pc = pc
      BY <1>5, GotoType DEF IInv, TypeOK
    <2> QED
      BY <1>3, <1>5, <2>1
  <1>6. worker[w] \in Attempt
    BY DEF IInv, TypeOK
  <1>7. ASSUME remote' = remote, NEW o \in Outcomes \cup {"none"}, Return(w, o) \/ Answer(w, o)
        PROVE  PlaceInv'
    <2> DEFINE left == Left(w)
               new  == [left EXCEPT !.outcome = o]
    <2>1. left \in Attempt
      BY <1>6, IdleType DEF Left, Event, Idle, Attempt
    <2>2. new \in Attempt
      BY <2>1 DEF Attempt
    <2>3. Goto(w, "release", new) \/ Goto(w, "write", new)
      BY <1>7 DEF Return, Answer
    <2> HIDE DEF new
    <2> QED
      BY <1>5, <1>7, <2>2, <2>3 DEF Location
  <1>8. CASE Open(w)
    <2>1. Answer(w, "succeed") \/ Answer(w, "retry") \/ Goto(w, "event", worker[w])
      BY <1>8 DEF Open
    <2> QED
      BY <1>5, <1>6, <1>7, <1>8, <2>1 DEF Open, Outcomes, Location
  <1>9. CASE ReadEvent(w)
    <2>1. worker[w].pc = "event" /\ remote' = remote
      BY <1>9 DEF ReadEvent, At
    <2>2. CASE event[worker[w].event].status = "dead_letter"
      BY <1>7, <1>9, <2>1, <2>2 DEF ReadEvent, Event, Outcomes
    <2>3. CASE event[worker[w].event].status # "dead_letter"
      <3>1. worker[w].event \in Events
        BY <2>1 DEF IInv, TypeOK
      <3>2. event[worker[w].event].indexed \in BOOLEAN
        BY <3>1 DEF IInv, TypeOK, EventRow
      <3> DEFINE new == [worker[w] EXCEPT !.known = event[worker[w].event].indexed,
                                          !.req = IF event[worker[w].event].tried
                                                  THEN "check" ELSE "write"]
      <3>3. Goto(w, "guard", new)
        BY <1>9, <2>3 DEF ReadEvent, Event
      <3>4. new \in Attempt
        BY <1>6, <3>2 DEF Attempt
      <3> HIDE DEF new
      <3> QED
        BY <1>5, <2>1, <3>3, <3>4 DEF Location
    <2> QED
      BY <2>2, <2>3
  <1>10. CASE SecretMissing(w)
    BY <1>4, <1>10 DEF SecretMissing
  <1>11. CASE BeforeSend(w)
    <2>1. Goto(w, "out", worker[w]) \/ Return(w, "retry")
      BY <1>11 DEF BeforeSend
    <2> QED
      BY <1>5, <1>6, <1>7, <1>11, <2>1 DEF BeforeSend, Outcomes, Location
  <1>12. CASE CheckAnswered(w)
    <2>1. remote' = remote
      BY <1>12 DEF CheckAnswered
    <2>2. CASE Matches(w) /\ Deliver(w, "none", TRUE)
      BY <1>4, <2>1, <2>2
    <2>3. CASE Goto(w, "guard", [worker[w] EXCEPT !.req = "write", !.known = FALSE])
      <3> DEFINE new == [worker[w] EXCEPT !.req = "write", !.known = FALSE]
      <3>1. new \in Attempt /\ Goto(w, "guard", new)
        BY <1>6, <2>3 DEF Attempt
      <3> HIDE DEF new
      <3> QED
        BY <1>5, <2>1, <3>1 DEF Location
    <2> QED
      BY <1>12, <2>2, <2>3 DEF CheckAnswered
  <1>13. CASE WriteAnswered(w)
    <2>1. remote' = remote
      BY <1>13 DEF WriteAnswered
    <2>2. CASE Deliver(w, "retryable", FALSE)
      BY <1>4, <2>1, <2>2
    <2>3. CASE Goto(w, "guard", [worker[w] EXCEPT !.indexed = TRUE, !.req = "confirm",
                                                  !.served = FALSE])
      <3> DEFINE new == [worker[w] EXCEPT !.indexed = TRUE, !.req = "confirm",
                                           !.served = FALSE]
      <3>1. new \in Attempt /\ Goto(w, "guard", new)
        BY <1>6, <2>3 DEF Attempt
      <3> HIDE DEF new
      <3> QED
        BY <1>5, <2>1, <3>1 DEF Location
    <2> QED
      BY <1>13, <2>2, <2>3 DEF WriteAnswered
  <1>14. CASE ConfirmAnswered(w)
    <2>1. CASE Matches(w)
      BY <1>4, <1>14, <2>1 DEF ConfirmAnswered
    <2>2. CASE ~Matches(w)
      BY <1>4, <1>14, <2>2 DEF ConfirmAnswered
    <2> QED
      BY <2>1, <2>2
  <1>15. CASE RequestFails(w)
    <2>1. PICK f \in {"retryable", "final"}, i \in BOOLEAN : Deliver(w, f, i)
      BY <1>6, <1>15 DEF RequestFails, Attempt
    <2> QED
      BY <1>4, <1>15, <2>1 DEF RequestFails
  <1>16. CASE Release(w)
    <2>1. Goto(w, "idle", Idle) \/ Answer(w, worker[w].outcome)
      BY <1>16 DEF Release
    <2>2. worker[w].outcome \in Outcomes \cup {"none"} /\ remote' = remote
      BY <1>6, <1>16 DEF Release, Attempt
    <2> QED
      BY <1>5, <1>7, <2>1, <2>2, IdleType DEF Location
  <1>17. CASE HeartbeatLost(w)
    <2>1. Return(w, "none") \/ Goto(w, "idle", Idle)
      BY <1>17 DEF HeartbeatLost
    <2> QED
      BY <1>5, <1>7, <1>17, <2>1, IdleType DEF HeartbeatLost, Location
  <1>18. CASE Error(w)
    <2>1. Return(w, "retry") \/ Answer(w, "retry") \/ Goto(w, "idle", Idle)
      <3>1. worker[w].pc \in InTry \cup {"open", "release", "write"}
        BY <1>6, <1>18 DEF Error, Attempt, Location, InTry
      <3> QED
        BY <1>18, <3>1 DEF Error, InTry
    <2> QED
      BY <1>5, <1>7, <1>18, <2>1, IdleType DEF Error, Outcomes, Location
  <1>19. CASE Crash(w)
    BY <1>5, <1>19, IdleType DEF Crash, Location
  <1> QED
    BY <1>2, <1>8, <1>9, <1>10, <1>11, <1>12, <1>13, <1>14, <1>15, <1>16, <1>17, <1>18, <1>19

\* The receipt of the holder of the lease reports what is in place, and nobody else
\* works under the lease.
LEMMA ReceiptKeepsPlace ==
    ASSUME IInv, PlaceInv, NEW w \in Workers, Receipt(w)
    PROVE  PlaceInv'
  <1> DEFINE e == worker[w].event
  <1>1. /\ e \in Events /\ worker[w].pc = "receipt"
        /\ worker'[w].pc = "release"
        /\ \A v \in Workers \ {w} : worker'[v] = worker[v]
        /\ \A d \in Events \ {e} : event'[d] = event[d]
    BY ReceiptWrites
  <1>2. UNCHANGED <<lease, remote, strays, late>>
    BY DEF Receipt
  <1>3. TypeOK'
    BY ReceiptKeeps DEF IInv
  <1>4. \A v \in Workers : worker'[v].pc \in InTry => v # w /\ worker'[v] = worker[v]
    BY <1>1 DEF InTry
  <1>5. CASE done' = done /\ (event'[e].status = "synced" => event[e].status = "synced")
    <2>1. \A d \in Events : event'[d].status = "synced" => event[d].status = "synced"
      BY <1>1, <1>5
    <2> HIDE DEF e
    <2> QED
      BY <1>2, <1>3, <1>4, <1>5, <2>1, QuietKeepsPlace DEF InPlace
  <1>6. CASE ~(done' = done /\ (event'[e].status = "synced" => event[e].status = "synced"))
    <2>1. CurrentAttempt(w)
      BY <1>6 DEF Receipt
    <2>2. worker[w].failure = "none"
      <3>1. FailedRow(w).status # "synced"
        BY DEF FailedRow, RowIn
      <3>2. event \in [Events -> EventRow]
        BY DEF IInv, TypeOK
      <3> QED
        BY <1>1, <1>6, <2>1, <3>1, <3>2 DEF Receipt, Event
    <2>3. lease = Self(w)
      BY <2>1 DEF CurrentAttempt
    <2>4. ~late => InPlace(e)
      BY <1>1, <2>2, <2>3 DEF PlaceInv, DeliveredIsInPlace, Event
    <2>5. ASSUME NEW v \in Workers, worker'[v].pc \in InTry, lease' = Self(v)'
          PROVE  FALSE
      <3>1. v # w /\ worker'[v] = worker[v]
        BY <1>4, <2>5
      <3>2. worker[v].pc # "idle" /\ Self(v) = Self(w)
        BY <1>2, <2>3, <2>5, <3>1 DEF Self, Event, InTry
      <3> QED
        BY <1>1, <3>1, <3>2, OneHolder
    <2>6. HolderIsUndone' /\ HolderIsNewest'
      BY <2>5 DEF HolderIsUndone, HolderIsNewest
    <2>7. DeliveredIsInPlace'
      BY <2>5 DEF DeliveredIsInPlace, InTry
    <2>8. SyncedIsInPlace'
      <3> SUFFICES ASSUME ~late, NEW d \in Events, event'[d].status = "synced"
                   PROVE  InPlace(d)
        BY <1>2 DEF SyncedIsInPlace, InPlace
      <3>1. CASE d = e
        BY <2>4, <3>1
      <3>2. CASE d # e
        BY <1>1, <3>2 DEF PlaceInv, SyncedIsInPlace
      <3> QED
        BY <3>1, <3>2
    <2> QED
      BY <2>6, <2>7, <2>8 DEF PlaceInv
  <1> QED
    BY <1>5, <1>6

\* No dispatch pass reports an event as synced.
LEMMA TickSyncsNothing ==
    ASSUME IInv, TickFinds \/ TickBuries \/ TickDispatches \/ TickFails,
           NEW d \in Events, event'[d].status = "synced"
    PROVE  event[d].status = "synced"
  <1>1. ASSUME NEW rows \in [Events -> EventRow], Dispatch(rows)
        PROVE  rows[d].status = "synced"
    <2>1. CASE event' = rows
      BY <2>1
    <2>2. ASSUME NEW e \in Deliverable(rows), event' = [rows EXCEPT ![e].status = "queued"]
          PROVE  rows[d].status = "synced"
      BY <1>1, <2>2 DEF Deliverable, EventRow
    <2> QED
      BY <1>1, <2>1, <2>2 DEF Dispatch
  <1>2. CASE TickFinds \/ TickFails
    BY <1>2 DEF TickFinds, TickFails
  <1>3. CASE TickBuries
    <2> DEFINE rows == [event EXCEPT ![tick] = RowIn("dead_letter")]
    <2>1. rows \in [Events -> EventRow]
      BY EventRowTypes DEF IInv, TypeOK, Settled
    <2>2. Dispatch(rows)
      BY <1>3 DEF TickBuries
    <2>3. rows[d].status = "synced" => event[d].status = "synced"
      BY DEF IInv, TypeOK, RowIn
    <2> HIDE DEF rows
    <2> QED
      BY <1>1, <2>1, <2>2, <2>3
  <1>4. CASE TickDispatches
    BY <1>1, <1>4 DEF TickDispatches, IInv, TypeOK
  <1> QED
    BY <1>2, <1>3, <1>4

\* A write that is served too late is the earlier revision in the way of a later one.
LEMMA StrayKeepsPlace ==
    ASSUME IInv, NEW e \in Events, ServeLate(e), NEW d \in Events, InPlace(d)
    PROVE  InPlace(d)'
  <1>1. /\ e[1] \in Subjects /\ e[2] \in 1..MaxRevision /\ e = <<e[1], e[2]>>
        /\ d[1] \in Subjects /\ d[2] \in 1..MaxRevision
    BY DEF Events
  <1>2. /\ remote \in [Subjects -> 0..MaxRevision] /\ remote' = Overwritten(e)
        /\ strays \subseteq strays' /\ (remote[e[1]] > e[2] => e \in strays')
    BY DEF ServeLate, IInv, TypeOK
  <1>3. CASE \E r \in 1..(d[2] - 1) : <<d[1], r>> \in strays
    BY <1>2, <1>3 DEF InPlace
  <1>4. CASE remote[d[1]] >= d[2] /\ d[1] # e[1]
    BY <1>1, <1>2, <1>4 DEF InPlace, Overwritten
  <1>5. CASE remote[d[1]] >= d[2] /\ d[1] = e[1]
    <2>1. remote'[d[1]] = e[2] /\ remote[d[1]] \in Nat
      BY <1>1, <1>2, <1>5 DEF Overwritten
    <2>2. CASE e[2] >= d[2]
      BY <2>1, <2>2 DEF InPlace
    <2>3. CASE e[2] < d[2]
      <3>1. e[2] \in 1..(d[2] - 1) /\ <<d[1], e[2]>> \in strays'
        BY <1>1, <1>2, <1>5, <2>1, <2>3
      <3> QED
        BY <3>1 DEF InPlace
    <2> QED
      BY <1>1, <2>2, <2>3
  <1> QED
    BY <1>3, <1>4, <1>5 DEF InPlace

\* No step breaks the invariant.
LEMMA NextPlace ==
    ASSUME IInv, PlaceInv, [Next]_vars
    PROVE  PlaceInv'
  <1>0. TypeOK'
    BY NextInv DEF IInv
  <1>1. CASE UNCHANGED vars
    BY <1>0, <1>1, QuietKeepsPlace DEF vars, InPlace
  <1>2. ASSUME NEW s \in Subjects, Append(s)
        PROVE  PlaceInv'
    <2>1. PICK r \in 1..MaxRevision : event' = [event EXCEPT ![<<s, r>>].status = "pending"]
      BY <1>2 DEF Append
    <2>2. \A d \in Events : event'[d].status = "synced" => event[d].status = "synced"
      BY <2>1 DEF IInv, TypeOK, EventRow
    <2> QED
      BY <1>0, <1>2, <2>2, QuietKeepsPlace DEF Append, InPlace
  <1>3. CASE TickFinds \/ TickBuries \/ TickDispatches \/ TickFails
    <2>1. UNCHANGED <<done, lease, remote, worker, strays, late>>
      BY <1>3 DEF TickFinds, TickBuries, TickDispatches, TickFails
    <2>2. \A d \in Events : event'[d].status = "synced" => event[d].status = "synced"
      BY <1>3, TickSyncsNothing
    <2> QED
      BY <1>0, <2>1, <2>2, QuietKeepsPlace DEF InPlace
  <1>4. ASSUME NEW e \in Events,
               RequestCancel(e) \/ Requeue(e) \/ TaskLeaseExpires(e) \/ ServeLate(e)
        PROVE  PlaceInv'
    <2>1. UNCHANGED <<event, done, lease, worker, late>>
      BY <1>4 DEF RequestCancel, Requeue, TaskLeaseExpires, ServeLate
    <2>2. ASSUME NEW d \in Events, InPlace(d) PROVE InPlace(d)'
      <3>1. CASE ServeLate(e)
        BY <2>2, <3>1, StrayKeepsPlace
      <3>2. CASE ~ServeLate(e)
        BY <1>4, <2>2, <3>2 DEF RequestCancel, Requeue, TaskLeaseExpires, InPlace
      <3> QED
        BY <3>1, <3>2
    <2> QED
      BY <1>0, <2>1, <2>2, QuietKeepsPlace
  <1>5. CASE LeaseExpires
    <2>1. UNCHANGED <<event, done, remote, strays, worker>> /\ lease' = NoEvent /\ (late => late')
      BY <1>5 DEF LeaseExpires
    <2> QED
      BY <1>0, <2>1, QuietKeepsPlace DEF InPlace
  <1>6. ASSUME NEW w \in Workers, NEW e \in Events, Claim(w, e)
        PROVE  PlaceInv'
    <2>1. UNCHANGED <<event, done, lease, remote, strays, late>>
      BY <1>6 DEF Claim
    <2>2. \A v \in Workers : worker'[v].pc \in InTry => worker'[v] = worker[v]
      <3>1. \A v \in Workers \ {w} : worker'[v] = worker[v]
        BY <1>6 DEF Claim, Goto, IInv, TypeOK
      <3>2. worker'[w].pc \in {"write", "open"}
        <4> DEFINE new == [Idle EXCEPT !.event = e, !.n = job[e].n + 1]
        <4>1. job[e].n + 1 \in Nat
          BY DEF IInv, TypeOK, TaskRow
        <4>2. new \in Attempt
          BY <4>1, IdleType DEF Attempt
        <4>3. [new EXCEPT !.outcome = "cancelled"] \in Attempt
          BY <4>2 DEF Attempt, Outcomes
        <4>4. \/ Goto(w, "write", [new EXCEPT !.outcome = "cancelled"])
              \/ Goto(w, "open", new)
          BY <1>6 DEF Claim
        <4> HIDE DEF new
        <4> QED
          BY <4>2, <4>3, <4>4, GotoType DEF IInv, TypeOK, Location
      <3> QED
        BY <3>1, <3>2 DEF InTry
    <2> QED
      BY <1>0, <2>1, <2>2, QuietKeepsPlace DEF InPlace
  <1>7. ASSUME NEW w \in Workers, WriteResult(w)
        PROVE  PlaceInv'
    <2>1. UNCHANGED <<event, done, lease, remote, strays, late>>
      BY <1>7 DEF WriteResult
    <2>2. Moves(w) /\ worker'[w].pc = "idle"
      BY <1>7, DropMoves DEF WriteResult, IInv
    <2>3. \A v \in Workers : worker'[v].pc \in InTry => worker'[v] = worker[v]
      BY <2>2 DEF Moves, InTry
    <2> QED
      BY <1>0, <2>1, <2>3, QuietKeepsPlace DEF InPlace
  <1>8. ASSUME NEW w \in Workers, Step(w) \/ SecretMissing(w) \/ Serve(w)
                                     \/ HeartbeatLost(w) \/ Error(w) \/ Crash(w)
        PROVE  PlaceInv'
    BY <1>7, <1>8, ReceiptKeepsPlace, HandlerKeepsPlace DEF Step
  <1> QED
    BY <1>1, <1>2, <1>3, <1>4, <1>5, <1>6, <1>8 DEF Next

\* As long as no lease runs out during a request, a revision reported as synced is in
\* OpenViking or a later one is: no retry, and no attempt that was taken over, puts an
\* older document over it, whatever is cancelled, re-queued or buried on the way.  Only
\* a write that is served when its sender has stopped waiting can.
THEOREM SyncedInPlace == Spec => []SyncedIsInPlace
  <1>1. Init => PlaceInv
    <2> SUFFICES ASSUME Init PROVE PlaceInv
      OBVIOUS
    <2>1. \A w \in Workers : worker[w].pc = "idle"
      BY DEF Init, Idle
    <2>2. \A e \in Events : event[e].status = "none"
      BY DEF Init, RowIn
    <2> QED
      BY <2>1, <2>2 DEF PlaceInv, HolderIsUndone, HolderIsNewest, DeliveredIsInPlace,
                        SyncedIsInPlace, InTry
  <1>2. PlaceInv => SyncedIsInPlace
    BY DEF PlaceInv
  <1> QED
    BY <1>1, <1>2, InitInv, NextInv, NextPlace, PTL DEF Spec

=============================================================================
