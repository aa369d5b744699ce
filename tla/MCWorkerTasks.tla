--------------------------- MODULE MCWorkerTasks ---------------------------
(* Small instances of WorkerTasks. *)
EXTENDS WorkerTasks, TLC

CONSTANTS t1, t2, w1, w2, k, o

\* Two tasks with one dedupe key; t1's handler reconciles cancellation.
MCDedupeKey == [t \in {t1, t2} |-> k]

\* Both processes are pid 1 of a container with the same host name.
MCOwnerId == [w \in {w1, w2} |-> o]

\* The two processes are interchangeable.
WorkerSymmetry == Permutations(Workers)

\* Tasks without a dedupe key: both may be live at once.
MCNoKeys == [t \in {t1, t2} |-> NoKey]

MCBackoff == <<1>>
=============================================================================
