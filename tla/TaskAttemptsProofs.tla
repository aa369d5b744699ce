------------------------- MODULE TaskAttemptsProofs -------------------------
(***************************************************************************)
(* Lemmas about the task rows of TaskAttempts, for the proofs of the       *)
(* modules that are built on it.                                           *)
(***************************************************************************)
EXTENDS TaskAttempts, TLAPS

\* The updates of a task row, by the caller, a claim, an operator, the clock or
\* a result, keep its type.
LEMMA RowTypes ==
    ASSUME NEW row \in TaskRow
    PROVE  /\ Enqueued \in TaskRow
           /\ Claimed(row) \in TaskRow
           /\ CancelAsked(row) \in TaskRow
           /\ Requeued(row) \in TaskRow
           /\ [row EXCEPT !.leased = FALSE] \in TaskRow
           /\ \A o \in Outcomes : Written(row, o) \in TaskRow
  <1> USE DEF TaskRow, Waiting, Active, Terminal
  <1>1. Enqueued \in TaskRow
    BY DEF Enqueued, Absent
  <1>2. Claimed(row) \in TaskRow
    <2>1. row.n + 1 \in Nat
      OBVIOUS
    <2> QED
      BY <2>1 DEF Claimed
  <1>3. CancelAsked(row) \in TaskRow
    BY DEF CancelAsked
  <1>4. Requeued(row) \in TaskRow
    BY DEF Requeued
  <1>5. ASSUME NEW o \in Outcomes PROVE Written(row, o) \in TaskRow
    BY DEF Written, Outcomes
  <1> QED
    BY <1>1, <1>2, <1>3, <1>4, <1>5

\* What a result leaves of the row: the attempt's number, and "failed" only for
\* an attempt that failed or was the last one.
LEMMA WrittenRow ==
    ASSUME NEW row \in TaskRow, NEW o \in Outcomes
    PROVE  /\ Written(row, o).n = row.n
           /\ Written(row, o).status = "failed" => o = "fail" \/ row.n >= MaxAttempts
           /\ Written(row, o).status # "absent"
  <1>1. row.n \in Nat /\ MaxAttempts \in Nat
    BY MaxAttemptsAssumption DEF TaskRow
  <1> QED
    BY <1>1 DEF Written, Outcomes, TaskRow

\* What a claim, a cancel, a re-queue and an expiry leave of it.
LEMMA RowUpdates ==
    ASSUME NEW row \in TaskRow
    PROVE  /\ Enqueued.n = 0 /\ Enqueued.status = "queued"
           /\ Claimed(row).n = row.n + 1 /\ Claimed(row).status = "running"
           /\ CancelAsked(row).n = row.n
           /\ Requeued(row).n = row.n /\ Requeued(row).status = "queued"
           /\ [row EXCEPT !.leased = FALSE].n = row.n
           /\ [row EXCEPT !.leased = FALSE].status = row.status
           /\ row.status # "absent" => CancelAsked(row).status # "absent"
  BY DEF Enqueued, Absent, Claimed, CancelAsked, Requeued, TaskRow
=============================================================================
