-------------------------- MODULE WorkerLoopProofs --------------------------
(***************************************************************************)
(* Proofs about WorkerLoop for every list of tenants and every bound.      *)
(***************************************************************************)
EXTENDS WorkerLoop, WellFoundedInduction, TLAPS

\* The order of a shutdown: the stop event is set once readiness is gone, the pool
\* is closed last, and before that the loop has ended.
ShutdownOrder ==
    /\ life = "new" => pc = "off" /\ ~stop /\ ~accepting
    /\ life = "serving" => ~stop
    /\ life \notin {"new", "serving"} => ~accepting
    /\ life \in {"closing", "stopped"} => pc \in Ended
    /\ pool = "closed" => life = "stopped"

\* Nothing is claimed late before the stop event, and whoever claimed one task late
\* is on its way to the next look at the event.
LateClaims ==
    /\ late \in {0, 1}
    /\ late = 1 => stop /\ pc \in {"running", "backoff", "check"} \cup Ended

\* The probe knows of failed iterations.
ProbeKnows == healthy => failures = 0

LoopInv == ShutdownOrder /\ LateClaims /\ ProbeKnows

\* Steps of run_worker.
LEMMA LoopStep ==
    ASSUME LoopInv, Loop
    PROVE  LoopInv'
  <1>1. UNCHANGED <<accepting, stop, life, pool>>
    BY DEF Loop, Check, Refresh, Schedule, ScanClaim, ScanEmpty, ScanDone, RunDone, RunLost,
       Failed, Wake, lifeVars
  <1>2. pc \notin Ended /\ pc # "off"
    BY DEF Loop, Check, Refresh, Schedule, ScanClaim, ScanEmpty, ScanDone, RunDone, RunLost,
       Failed, Wake, Ended
  <1>3. ShutdownOrder'
    BY <1>1, <1>2 DEF LoopInv, ShutdownOrder
  <1>4. ProbeKnows'
    <2>1. CASE UNCHANGED <<healthy, failures>>
      BY <2>1 DEF LoopInv, ProbeKnows
    <2>2. CASE Recovered
      BY <2>2 DEF Recovered, ProbeKnows
    <2>3. CASE Failed
      BY <2>3 DEF Failed, HealthAfterFailure, ProbeKnows
    <2> QED
      BY <2>1, <2>2, <2>3 DEF Loop, Check, Refresh, Schedule, ScanClaim, ScanEmpty, ScanDone,
         RunDone, RunLost, Wake
  <1>5. LateClaims'
    <2>1. CASE ScanClaim
      <3>1. late = 0
        BY <2>1 DEF ScanClaim, LoopInv, LateClaims, Ended
      <3> QED
        BY <1>1, <2>1, <3>1 DEF ScanClaim, LateClaims
    <2>2. CASE ~ScanClaim
      <3>1. UNCHANGED late
        BY <2>2 DEF Loop, Check, Refresh, Schedule, ScanEmpty, ScanDone, RunDone, RunLost,
           Failed, Wake
      <3>2. CASE late = 0
        BY <3>1, <3>2 DEF LateClaims
      <3>3. CASE late = 1
        <4>1. stop /\ pc \in {"running", "backoff", "check"}
          BY <1>2, <3>3 DEF LoopInv, LateClaims
        <4>2. pc' \in {"running", "backoff", "check"} \cup Ended
          BY <2>2, <4>1 DEF Loop, Check, Stopping, Refresh, Schedule, ScanEmpty, ScanDone, RunDone,
             RunLost, Failed, Wake, Ended
        <4> QED
          BY <1>1, <3>1, <3>3, <4>1, <4>2 DEF LateClaims
      <3> QED
        BY <3>2, <3>3 DEF LoopInv, LateClaims
    <2> QED
      BY <2>1, <2>2
  <1> QED
    BY <1>3, <1>4, <1>5 DEF LoopInv

\* Steps of RuntimeLifecycle.
LEMMA LifeStep ==
    ASSUME LoopInv, Startup \/ Shutdown \/ Drained \/ DrainTimeout \/ LoopCancelled \/ Close
    PROVE  LoopInv'
  <1>1. UNCHANGED <<healthy, failures, late>>
    BY DEF Startup, Shutdown, Drained, DrainTimeout, LoopCancelled, Close, loopVars
  <1>2. ProbeKnows'
    BY <1>1 DEF LoopInv, ProbeKnows
  <1>3. CASE Startup
    BY <1>1, <1>2, <1>3 DEF Startup, LoopInv, ShutdownOrder, LateClaims
  <1>4. CASE Shutdown
    BY <1>1, <1>2, <1>4 DEF Shutdown, loopVars, LoopInv, ShutdownOrder, LateClaims
  <1>5. CASE Drained
    BY <1>1, <1>2, <1>5 DEF Drained, LoopOver, loopVars, LoopInv, ShutdownOrder, LateClaims
  <1>6. CASE DrainTimeout
    BY <1>1, <1>2, <1>6 DEF DrainTimeout, loopVars, LoopInv, ShutdownOrder, LateClaims
  <1>7. CASE Close
    BY <1>1, <1>2, <1>7 DEF Close, loopVars, LoopInv, ShutdownOrder, LateClaims
  <1>8. CASE LoopCancelled
    BY <1>1, <1>2, <1>8 DEF LoopCancelled, lifeVars, Ended, LoopInv, ShutdownOrder, LateClaims
  <1> QED
    BY <1>3, <1>4, <1>5, <1>6, <1>7, <1>8

\* Everything else leaves the loop and the lifecycle alone.
LEMMA LoopInvStep == LoopInv /\ [Next]_vars => LoopInv'
  <1> SUFFICES ASSUME LoopInv, [Next]_vars PROVE LoopInv'
    OBVIOUS
  <1>1. CASE UNCHANGED <<pc, failures, healthy, accepting, stop, life, pool, late>>
    BY <1>1 DEF LoopInv, ShutdownOrder, LateClaims, ProbeKnows
  <1>2. ASSUME NEW t \in Tenants, TenantChanges(t) \/ Arrive(t) \/ LeaseExpires(t)
        PROVE  LoopInv'
    BY <1>1, <1>2 DEF TenantChanges, Arrive, LeaseExpires, loopVars, lifeVars
  <1>3. CASE RefreshDue \/ DbDown \/ DbUp \/ UNCHANGED vars
    BY <1>1, <1>3 DEF RefreshDue, DbDown, DbUp, vars, loopVars, lifeVars
  <1> QED
    BY <1>2, <1>3, LoopStep, LifeStep DEF Next

\* LoopInv holds in every reachable state.
LEMMA LoopInvAlways == Spec => []LoopInv
  <1>1. Init => LoopInv
    BY DEF Init, LoopInv, ShutdownOrder, LateClaims, ProbeKnows
  <1> QED
    BY <1>1, LoopInvStep, PTL DEF Spec

\* The pool is closed only once no iteration of run_worker can use it any more,
\* drained or cancelled.
THEOREM PoolLast == Spec => []PoolOutlivesLoop
  <1>1. LoopInv => PoolOutlivesLoop
    BY DEF LoopInv, ShutdownOrder, PoolOutlivesLoop
  <1> QED
    BY <1>1, LoopInvAlways, PTL

\* After the stop event at most the iteration in progress claims a task, however
\* many tenants it still has to scan and whatever fails on the way.
THEOREM LateClaimOnce == Spec => []OneLateClaimAtMost
  <1>1. LoopInv => OneLateClaimAtMost
    BY DEF LoopInv, LateClaims, OneLateClaimAtMost
  <1> QED
    BY <1>1, LoopInvAlways, PTL

\* /readyz never says ready while iterations fail or after a shutdown began.
THEOREM HonestReadiness == Spec => []ReadinessIsHonest
  <1>1. LoopInv => ReadinessIsHonest
    BY DEF LoopInv, ShutdownOrder, ProbeKnows, ReadinessIsHonest, Ready
  <1> QED
    BY <1>1, LoopInvAlways, PTL

-----------------------------------------------------------------------------
(* What the refresh reads.  The induction principle is stated with a set, so   *)
(* that the provers can use it.                                                *)

\* A set of naturals that is not empty has a least member.
LEMMA LeastNatural ==
    ASSUME NEW S \in SUBSET Nat, S # {}
    PROVE  \E x \in S : \A y \in S : x <= y
  <1> DEFINE Less == {p \in Nat \X Nat : p[1] < p[2]}
  <1>1. IsWellFoundedOn(Less, Nat)
    BY NatLessThanWellFounded, Zenon DEF OpToRel
  <1>2. \A y, z \in Nat : y < z => <<y, z>> \in Less
    OBVIOUS
  <1> HIDE DEF Less
  <1>3. PICK x \in S : \A y \in S : <<y, x>> \notin Less
    BY <1>1, WFMin
  <1>4. \A y \in S : ~(y < x)
    BY <1>2, <1>3
  <1> QED
    BY <1>4

\* Induction over the naturals.
LEMMA Induction ==
    ASSUME NEW S \in SUBSET Nat, 0 \in S, \A n \in S : n + 1 \in S
    PROVE  S = Nat
  <1> SUFFICES ASSUME Nat \ S # {} PROVE FALSE
    OBVIOUS
  <1>1. PICK x \in Nat \ S : \A y \in Nat \ S : x <= y
    BY LeastNatural, Nat \ S \in SUBSET Nat, Zenon
  <1>2. x # 0 /\ x - 1 \in Nat
    BY <1>1
  <1>3. x - 1 \in S
    BY <1>1, <1>2
  <1>4. (x - 1) + 1 = x
    BY <1>1
  <1> QED
    BY <1>1, <1>3, <1>4

\* What one row adds to the list.
WithRow(s, n) ==
    IF TenantOrder[n] \in registry THEN Append(s, TenantOrder[n]) ELSE s

\* g is the list of the active tenants among the first 0, 1, ..., k tenants.
ListsUpTo(g, k) ==
    /\ g \in [0..k -> Seq(Tenants)]
    /\ g[0] = << >>
    /\ \A n \in 1..k : g[n] = WithRow(g[n - 1], n)

\* A row's tenant is a tenant.
LEMMA RowTenant ==
    ASSUME NEW n \in 1..Len(TenantOrder)
    PROVE  TenantOrder[n] \in Tenants
  BY TenantOrderAssumption DEF Tenants

\* The defining equation of ActiveAmong has a solution.
LEMMA ListsExist == \E g : ListsUpTo(g, Len(TenantOrder))
  <1> DEFINE N == Len(TenantOrder)
             S == {k \in Nat : k <= N => \E g : ListsUpTo(g, k)}
  <1>0. N \in Nat
    BY TenantOrderAssumption
  <1>1. 0 \in S
    <2>1. ListsUpTo([i \in 0..0 |-> << >>], 0)
      BY DEF ListsUpTo
    <2> QED
      BY <2>1
  <1>2. ASSUME NEW n \in S PROVE n + 1 \in S
    <2> SUFFICES ASSUME n + 1 <= N PROVE \E g : ListsUpTo(g, n + 1)
      BY n \in Nat
    <2>1. PICK g : ListsUpTo(g, n)
      BY <1>0, n <= N
    <2> DEFINE h == [i \in 0..(n + 1) |-> IF i = n + 1 THEN WithRow(g[n], n + 1) ELSE g[i]]
    <2>2. WithRow(g[n], n + 1) \in Seq(Tenants)
      <3>1. g[n] \in Seq(Tenants)
        BY <2>1 DEF ListsUpTo
      <3>2. TenantOrder[n + 1] \in Tenants
        BY <1>0, RowTenant, n + 1 \in 1..N
      <3> QED
        BY <3>1, <3>2 DEF WithRow
    <2>3. h \in [0..(n + 1) -> Seq(Tenants)]
      BY <2>1, <2>2 DEF ListsUpTo
    <2>4. h[0] = << >>
      BY <2>1 DEF ListsUpTo
    <2>5. ASSUME NEW i \in 1..(n + 1) PROVE h[i] = WithRow(h[i - 1], i)
      <3>1. h[i - 1] = g[i - 1]
        OBVIOUS
      <3>2. CASE i = n + 1
        BY <3>1, <3>2
      <3>3. CASE i # n + 1
        <4>1. i \in 1..n /\ h[i] = g[i]
          BY <3>3
        <4> QED
          BY <2>1, <3>1, <4>1 DEF ListsUpTo
      <3> QED
        BY <3>2, <3>3
    <2> QED
      BY <2>3, <2>4, <2>5 DEF ListsUpTo
  <1> HIDE DEF S
  <1>3. S = Nat
    BY <1>1, <1>2, Induction, S \in SUBSET Nat DEF S
  <1> QED
    BY <1>0, <1>3 DEF S

\* ActiveAmong satisfies its defining equation.
LEMMA ActiveAmongDef ==
    /\ ActiveAmong[0] = << >>
    /\ \A n \in 1..Len(TenantOrder) : ActiveAmong[n] = WithRow(ActiveAmong[n - 1], n)
  <1> DEFINE N == Len(TenantOrder)
             Body(g) == [n \in 0..N |-> IF n = 0 THEN << >>
                                        ELSE IF TenantOrder[n] \in registry
                                        THEN Append(g[n - 1], TenantOrder[n])
                                        ELSE g[n - 1]]
  <1>0. N \in Nat
    BY TenantOrderAssumption
  <1>1. PICK g : ListsUpTo(g, N)
    BY ListsExist
  <1>2. g = Body(g)
    <2>1. g = [n \in 0..N |-> g[n]]
      BY <1>1 DEF ListsUpTo
    <2>2. ASSUME NEW n \in 0..N PROVE g[n] = Body(g)[n]
      <3>1. CASE n = 0
        BY <1>1, <3>1 DEF ListsUpTo
      <3>2. CASE n # 0
        BY <1>0, <1>1, <3>2, n \in 1..N DEF ListsUpTo, WithRow
      <3> QED
        BY <3>1, <3>2
    <2> QED
      BY <2>1, <2>2
  <1>3. ActiveAmong = Body(ActiveAmong)
    BY <1>2, Zenon DEF ActiveAmong
  <1>4. \A n \in 0..N : ActiveAmong[n] = Body(ActiveAmong)[n]
    BY <1>3
  <1>5. ActiveAmong[0] = << >>
    BY <1>0, <1>4
  <1>6. ASSUME NEW n \in 1..N PROVE ActiveAmong[n] = WithRow(ActiveAmong[n - 1], n)
    BY <1>0, <1>4, n \in 0..N, n # 0 DEF WithRow
  <1> QED
    BY <1>5, <1>6

\* The refresh reads a list of tenants.
LEMMA ActiveTenantsType == ActiveTenants \in Seq(Tenants)
  <1> DEFINE N == Len(TenantOrder)
             S == {k \in Nat : k <= N => ActiveAmong[k] \in Seq(Tenants)}
  <1>0. N \in Nat
    BY TenantOrderAssumption
  <1>1. 0 \in S
    <2>1. ActiveAmong[0] \in Seq(Tenants)
      BY ActiveAmongDef
    <2> QED
      BY <2>1
  <1>2. ASSUME NEW n \in S PROVE n + 1 \in S
    <2> SUFFICES ASSUME n + 1 <= N PROVE ActiveAmong[n + 1] \in Seq(Tenants)
      BY n \in Nat
    <2>1. ActiveAmong[n] \in Seq(Tenants)
      BY <1>0, n <= N
    <2>2. n + 1 \in 1..N /\ (n + 1) - 1 = n
      BY <1>0
    <2>3. ActiveAmong[n + 1] = WithRow(ActiveAmong[n], n + 1)
      BY <2>2, ActiveAmongDef
    <2> QED
      BY <2>1, <2>2, <2>3, RowTenant DEF WithRow
  <1> HIDE DEF S
  <1>3. S = Nat
    BY <1>1, <1>2, Induction, S \in SUBSET Nat DEF S
  <1> QED
    BY <1>0, <1>3 DEF S, ActiveTenants

-----------------------------------------------------------------------------
(* Types *)

\* The loop's own variables.
LoopTypes ==
    /\ pc \in Location
    /\ active \in Seq(Tenants)
    /\ cursor \in 1..(Len(active) + 1)
    /\ current \in Tenants
    /\ failures \in 0..(MaxFailures + 1)

LifeTypes ==
    /\ life \in {"new", "serving", "draining", "cancelling", "closing", "stopped"}
    /\ pool \in {"open", "closed"}

EnvTypes ==
    /\ registry \subseteq Tenants
    /\ used \in [Bounded -> Nat]

TaskTypes ==
    /\ pending \in [Tenants -> Nat]
    /\ leased \in [Tenants -> Nat]
    /\ late \in Nat

Flags ==
    /\ due \in BOOLEAN
    /\ healthy \in BOOLEAN
    /\ accepting \in BOOLEAN
    /\ stop \in BOOLEAN
    /\ db \in BOOLEAN

\* TypeOK by the variables an action changes together.
LEMMA TypeParts == TypeOK <=> LoopTypes /\ LifeTypes /\ EnvTypes /\ TaskTypes /\ Flags
  BY Zenon DEF TypeOK, LoopTypes, LifeTypes, EnvTypes, TaskTypes, Flags

\* The tenant under the cursor.
LEMMA CursorTenant ==
    ASSUME LoopTypes, cursor <= Len(active)
    PROVE  active[cursor] \in Tenants /\ cursor + 1 \in 1..(Len(active) + 1)
  BY DEF LoopTypes

\* One more and one fewer task of a tenant.
LEMMA CountsStayCounts ==
    ASSUME NEW c \in [Tenants -> Nat], NEW t \in Tenants
    PROVE  /\ [c EXCEPT ![t] = @ + 1] \in [Tenants -> Nat]
           /\ c[t] > 0 => [c EXCEPT ![t] = @ - 1] \in [Tenants -> Nat]
  <1>1. c[t] \in Nat
    OBVIOUS
  <1>2. c[t] + 1 \in Nat /\ (c[t] > 0 => c[t] - 1 \in Nat)
    BY <1>1
  <1> QED
    BY <1>2

\* The task left behind is one more task of the tenant in work.
LEMMA LeftBehindTypes ==
    ASSUME LoopTypes, TaskTypes, LeftBehind
    PROVE  leased' \in [Tenants -> Nat]
  BY CountsStayCounts DEF LoopTypes, TaskTypes, LeftBehind

\* What is used of a bound stays a number.
LEMMA UsedStaysCounts ==
    ASSUME EnvTypes, NEW b \in Bounded
    PROVE  [used EXCEPT ![b] = @ + 1] \in [Bounded -> Nat]
  <1>1. used[b] + 1 \in Nat
    BY DEF EnvTypes
  <1> QED
    BY <1>1 DEF EnvTypes

\* Recovered, the end of an iteration without an exception.
LEMMA RecoveredTypes ==
    ASSUME LoopTypes, Recovered
    PROVE  failures' \in 0..(MaxFailures + 1)
  BY BoundsAssumption DEF LoopTypes, Recovered

\* Every flag is set to TRUE or FALSE, or left alone.
LEMMA FlagsStep == Flags /\ [Next]_vars => Flags'
  <1> SUFFICES ASSUME Flags, [Next]_vars PROVE Flags'
    OBVIOUS
  <1>1. due' \in {due, TRUE, FALSE}
    BY Zenon DEF Next, Loop, Check, Refresh, Schedule, ScanClaim, ScanEmpty, ScanDone, RunDone,
       RunLost, Failed, Wake, RefreshDue, Startup, Shutdown, Drained, DrainTimeout, LoopCancelled,
       Close, DbDown, DbUp, TenantChanges, Arrive, LeaseExpires, vars, loopVars
  <1>2. healthy' \in {healthy, TRUE, FALSE}
    BY Zenon DEF Next, Loop, Check, Refresh, Schedule, ScanClaim, ScanEmpty, ScanDone, RunDone,
       RunLost, Failed, Wake, RefreshDue, Startup, Shutdown, Drained, DrainTimeout, LoopCancelled,
       Close, DbDown, DbUp, TenantChanges, Arrive, LeaseExpires, vars, loopVars, Recovered, HealthAfterFailure
  <1>3. accepting' \in {accepting, TRUE, FALSE} /\ stop' \in {stop, TRUE}
    BY Zenon DEF Next, Loop, Check, Refresh, Schedule, ScanClaim, ScanEmpty, ScanDone, RunDone,
       RunLost, Failed, Wake, RefreshDue, Startup, Shutdown, Drained, DrainTimeout, LoopCancelled,
       Close, DbDown, DbUp, TenantChanges, Arrive, LeaseExpires, vars, lifeVars
  <1>4. db' \in {db, TRUE, FALSE}
    BY Zenon DEF Next, Loop, Check, Refresh, Schedule, ScanClaim, ScanEmpty, ScanDone, RunDone,
       RunLost, Failed, Wake, RefreshDue, Startup, Shutdown, Drained, DrainTimeout, LoopCancelled,
       Close, DbDown, DbUp, TenantChanges, Arrive, LeaseExpires, vars, envVars
  <1> QED
    BY <1>1, <1>2, <1>3, <1>4, Zenon DEF Flags

\* Steps of run_worker.
LEMMA LoopStepTypes ==
    ASSUME LoopTypes, LifeTypes, EnvTypes, TaskTypes, Loop
    PROVE  LoopTypes' /\ LifeTypes' /\ EnvTypes' /\ TaskTypes'
  <1>1. LifeTypes'
    BY DEF Loop, Check, Refresh, Schedule, ScanClaim, ScanEmpty, ScanDone, RunDone, RunLost,
       Failed, Wake, lifeVars, LifeTypes
  <1>2. CASE Check
    BY <1>1, <1>2 DEF Check, LoopTypes, EnvTypes, TaskTypes, envVars, taskVars, Location, Ended
  <1>3. CASE Refresh
    BY <1>1, <1>3, ActiveTenantsType
       DEF Refresh, LoopTypes, EnvTypes, TaskTypes, envVars, taskVars, Location
  <1>4. CASE Schedule
    <2>1. LoopTypes'
      BY <1>4, CursorTenant DEF Schedule, LoopTypes, Location
    <2>2. TaskTypes'
      BY <1>4, CursorTenant, CountsStayCounts DEF Schedule, TaskTypes
    <2>3. EnvTypes'
      BY <1>4, UsedStaysCounts DEF Schedule, EnvTypes, Bounded
    <2> QED
      BY <1>1, <2>1, <2>2, <2>3
  <1>5. CASE ScanClaim
    <2>1. LoopTypes'
      BY <1>5, CursorTenant DEF ScanClaim, LoopTypes, Location
    <2>2. TaskTypes'
      BY <1>5, CursorTenant, CountsStayCounts DEF ScanClaim, HasWork, TaskTypes
    <2> QED
      BY <1>1, <1>5, <2>1, <2>2 DEF ScanClaim, envVars, EnvTypes
  <1>6. CASE ScanEmpty
    BY <1>1, <1>6, CursorTenant
       DEF ScanEmpty, LoopTypes, EnvTypes, TaskTypes, envVars, taskVars
  <1>7. CASE ScanDone
    BY <1>1, <1>7, RecoveredTypes
       DEF ScanDone, LoopTypes, EnvTypes, TaskTypes, envVars, taskVars, Location
  <1>8. CASE RunDone
    BY <1>1, <1>8, RecoveredTypes
       DEF RunDone, LoopTypes, EnvTypes, TaskTypes, envVars, taskVars, Location
  <1>9. CASE RunLost
    <2>1. TaskTypes'
      BY <1>9, LeftBehindTypes DEF RunLost, TaskTypes
    <2>2. EnvTypes'
      BY <1>9, UsedStaysCounts DEF RunLost, Spend, EnvTypes, Bounded
    <2> QED
      BY <1>1, <1>9, <2>1, <2>2, RecoveredTypes DEF RunLost, LoopTypes, Location
  <1>10. CASE Failed
    <2>1. TaskTypes'
      BY <1>10, LeftBehindTypes DEF Failed, TaskTypes
    <2>2. failures' \in 0..(MaxFailures + 1)
      BY <1>10, BoundsAssumption DEF Failed, LoopTypes
    <2> QED
      BY <1>1, <1>10, <2>1, <2>2
         DEF Failed, HealthAfterFailure, LoopTypes, EnvTypes, envVars, Location, Ended
  <1>11. CASE Wake
    BY <1>1, <1>11 DEF Wake, LoopTypes, EnvTypes, TaskTypes, envVars, taskVars, Location
  <1> QED
    BY <1>2, <1>3, <1>4, <1>5, <1>6, <1>7, <1>8, <1>9, <1>10, <1>11 DEF Loop

\* Steps of RuntimeLifecycle and of the refresh timer.
LEMMA LifeStepTypes ==
    ASSUME LoopTypes, LifeTypes, EnvTypes, TaskTypes,
           RefreshDue \/ Startup \/ Shutdown \/ Drained \/ DrainTimeout \/ LoopCancelled \/ Close
    PROVE  LoopTypes' /\ LifeTypes' /\ EnvTypes' /\ TaskTypes'
  <1>1. EnvTypes'
    BY DEF RefreshDue, Startup, Shutdown, Drained, DrainTimeout, LoopCancelled, Close, envVars,
       EnvTypes
  <1>2. LifeTypes'
    BY DEF RefreshDue, Startup, Shutdown, Drained, DrainTimeout, LoopCancelled, Close, lifeVars,
       LifeTypes
  <1>3. LoopTypes'
    BY DEF RefreshDue, Startup, Shutdown, Drained, DrainTimeout, LoopCancelled, Close, loopVars,
       LoopTypes, Location, Ended
  <1>4. TaskTypes'
    <2>1. CASE UNCHANGED <<taskVars, late>>
      BY <2>1 DEF taskVars, TaskTypes
    <2>2. CASE LoopCancelled
      BY <2>2, LeftBehindTypes DEF LoopCancelled, TaskTypes
    <2> QED
      BY <2>1, <2>2 DEF RefreshDue, Startup, Shutdown, Drained, DrainTimeout, Close
  <1> QED
    BY <1>1, <1>2, <1>3, <1>4

\* Steps of the database, the tenants and their users.
LEMMA EnvStepTypes ==
    ASSUME LoopTypes, LifeTypes, EnvTypes, TaskTypes, NEW t \in Tenants,
           DbDown \/ DbUp \/ TenantChanges(t) \/ Arrive(t) \/ LeaseExpires(t)
    PROVE  LoopTypes' /\ LifeTypes' /\ EnvTypes' /\ TaskTypes'
  <1>1. LoopTypes' /\ LifeTypes'
    BY DEF DbDown, DbUp, TenantChanges, Arrive, LeaseExpires, loopVars, lifeVars, LoopTypes,
       LifeTypes
  <1>2. TaskTypes'
    <2>1. CASE UNCHANGED <<taskVars, late>>
      BY <2>1 DEF taskVars, TaskTypes
    <2>2. CASE Arrive(t)
      BY <2>2, CountsStayCounts DEF Arrive, TaskTypes
    <2>3. CASE LeaseExpires(t)
      BY <2>3, CountsStayCounts DEF LeaseExpires, TaskTypes
    <2> QED
      BY <2>1, <2>2, <2>3 DEF DbDown, DbUp, TenantChanges
  <1>3. EnvTypes'
    <2>1. CASE DbDown
      BY <2>1, UsedStaysCounts DEF DbDown, Spend, EnvTypes, Bounded
    <2>2. CASE DbUp \/ LeaseExpires(t)
      BY <2>2 DEF DbUp, LeaseExpires, envVars, EnvTypes
    <2>3. CASE TenantChanges(t)
      BY <2>3, UsedStaysCounts DEF TenantChanges, Spend, EnvTypes, Bounded
    <2>4. CASE Arrive(t)
      BY <2>4, UsedStaysCounts DEF Arrive, EnvTypes, Bounded
    <2> QED
      BY <2>1, <2>2, <2>3, <2>4
  <1> QED
    BY <1>1, <1>2, <1>3

\* Every variable of the worker process keeps its type: the cursor never leaves the
\* list it scans although the list is replaced under it, and no task is counted
\* below zero.
THEOREM TypeCorrect == Spec => []TypeOK
  <1>1. Init => TypeOK
    <2> SUFFICES ASSUME Init PROVE TypeOK
      OBVIOUS
    <2>1. PICK t : t \in registry /\ t \in Tenants
      BY DEF Init
    <2>2. TenantOrder[1] \in Tenants
      BY <2>1, TenantOrderAssumption DEF Tenants
    <2>3. LoopTypes /\ LifeTypes /\ EnvTypes /\ TaskTypes
      BY <2>2, BoundsAssumption DEF Init, LoopTypes, Location, LifeTypes, EnvTypes, TaskTypes
    <2>4. Flags
      BY Zenon DEF Init, Flags
    <2> QED
      BY <2>3, <2>4, TypeParts
  <1>2. TypeOK /\ [Next]_vars => TypeOK'
    <2> SUFFICES ASSUME TypeOK, [Next]_vars PROVE TypeOK'
      OBVIOUS
    <2>1. LoopTypes /\ LifeTypes /\ EnvTypes /\ TaskTypes /\ Flags'
      BY FlagsStep, TypeParts
    <2>0. LoopTypes' /\ LifeTypes' /\ EnvTypes' /\ TaskTypes' => TypeOK'
      BY <2>1, Zenon DEF TypeOK, LoopTypes, LifeTypes, EnvTypes, TaskTypes, Flags
    <2>2. CASE UNCHANGED vars
      BY <2>0, <2>1, <2>2
         DEF LoopTypes, LifeTypes, EnvTypes, TaskTypes, vars, loopVars, lifeVars, envVars, taskVars
    <2>3. CASE Loop
      BY <2>0, <2>1, <2>3, LoopStepTypes
    <2>4. CASE RefreshDue \/ Startup \/ Shutdown \/ Drained \/ DrainTimeout \/ LoopCancelled \/ Close
      BY <2>0, <2>1, <2>4, LifeStepTypes
    <2>5. ASSUME NEW t \in Tenants,
                 DbDown \/ DbUp \/ TenantChanges(t) \/ Arrive(t) \/ LeaseExpires(t)
          PROVE  TypeOK'
      BY <2>0, <2>1, <2>5, EnvStepTypes
    <2>6. current \in Tenants
      BY <2>1 DEF LoopTypes
    <2> QED
      BY <2>2, <2>3, <2>4, <2>5, <2>6 DEF Next
  <1> QED
    BY <1>1, <1>2, PTL DEF Spec

=============================================================================
