------------------------- MODULE MCSessionIngestion -------------------------
(* Small instances of SessionIngestion. *)
EXTENDS SessionIngestion, TLC

CONSTANTS whole, a, b, c, d, w1, w2

\* No split, and two ways to split in two.
MCPlans == {<<whole>>, <<a, b>>, <<c, d>>}

\* No split, and one way to split.
TwoPlans == {<<whole>>, <<a, b>>}

WorkerSymmetry == Permutations(Workers)

OneEach == [f \in FaultKinds |-> 1]

OneCrash == [f \in FaultKinds |-> IF f = "crash" THEN 1 ELSE 0]

CrashAndStore == [f \in FaultKinds |-> IF f \in {"crash", "store"} THEN 1 ELSE 0]
=============================================================================
