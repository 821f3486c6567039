--------------------------- MODULE MCDurableQueue ---------------------------
\* Constant values for TLC's runs of DurableQueue.
EXTENDS DurableQueue, TLC

CONSTANTS p1, p2

\* Two goroutines of one pool, which share their worker id.
SharedPool == [w \in Workers |-> p1]

TaskSymmetry == Permutations(Tasks)
TaskWorkerSymmetry == Permutations(Tasks) \union Permutations(Workers)
=============================================================================
