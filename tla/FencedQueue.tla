---------------------------- MODULE FencedQueue ----------------------------
(***************************************************************************)
(* What the durable task queue promises its callers, with no workers,      *)
(* leases, owners or clocks: a task is open until it settles, each grant   *)
(* of it to a worker opens a new epoch, and of each epoch at most one      *)
(* result is accepted.  Domain state is committed only by the latest       *)
(* epoch, and only before that epoch's result is accepted.                 *)
(***************************************************************************)
EXTENDS Naturals

CONSTANT Tasks

VARIABLES
    st,       \* absent, open, or how the task settled
    epoch,    \* grants of the task so far
    commit,   \* epoch of the last domain commit
    settled   \* epoch of the last accepted result

vars == <<st, epoch, commit, settled>>

Settlements == {"succeeded", "failed", "cancelled"}

TypeOK ==
    /\ st \in [Tasks -> {"absent", "open"} \cup Settlements]
    /\ epoch \in [Tasks -> Nat]
    /\ commit \in [Tasks -> Nat]
    /\ settled \in [Tasks -> Nat]

Init ==
    /\ st = [t \in Tasks |-> "absent"]
    /\ epoch = [t \in Tasks |-> 0]
    /\ commit = [t \in Tasks |-> 0]
    /\ settled = [t \in Tasks |-> 0]

Submit(t) ==
    /\ st[t] = "absent"
    /\ st' = [st EXCEPT ![t] = "open"]
    /\ UNCHANGED <<epoch, commit, settled>>

Grant(t) ==
    /\ st[t] = "open"
    /\ epoch' = [epoch EXCEPT ![t] = @ + 1]
    /\ UNCHANGED <<st, commit, settled>>

Commit(t) ==
    /\ st[t] = "open"
    /\ settled[t] < epoch[t]
    /\ commit' = [commit EXCEPT ![t] = epoch[t]]
    /\ UNCHANGED <<st, epoch, settled>>

\* The latest epoch's result: the task settles, or stays open for another.
Accept(t) ==
    /\ st[t] = "open"
    /\ settled[t] < epoch[t]
    /\ settled' = [settled EXCEPT ![t] = epoch[t]]
    /\ st' \in {[st EXCEPT ![t] = s] : s \in {"open"} \cup Settlements}
    /\ UNCHANGED <<epoch, commit>>

\* A task is withdrawn outright only while no epoch is outstanding.
Withdraw(t) ==
    /\ st[t] = "open"
    /\ settled[t] = epoch[t]
    /\ st' = [st EXCEPT ![t] = "cancelled"]
    /\ UNCHANGED <<epoch, commit, settled>>

Reopen(t) ==
    /\ st[t] = "failed"
    /\ st' = [st EXCEPT ![t] = "open"]
    /\ UNCHANGED <<epoch, commit, settled>>

Next ==
    \E t \in Tasks :
        \/ Submit(t)
        \/ Grant(t)
        \/ Commit(t)
        \/ Accept(t)
        \/ Withdraw(t)
        \/ Reopen(t)

Spec == Init /\ [][Next]_vars
=============================================================================
