---------------------------- MODULE MCMemoryRun ----------------------------
(* A small instance of MemoryRun: two runs of one Compile stage each. *)
EXTENDS MemoryRun, TLC

CONSTANTS r1, r2, w1, w2

MCNumStages == [r \in Runs |-> 1]

Symmetry == Permutations(Workers) \cup Permutations(Runs)
=============================================================================
