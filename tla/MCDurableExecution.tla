------------------------- MODULE MCDurableExecution -------------------------
\* Constant values for TLC's runs of DurableExecution.
EXTENDS DurableExecution, TLC

CONSTANTS p1, t1, t2, t3, k1, bodyA, bodyB

SharedPool == [w \in Workers |-> p1]

\* Requests without idempotency keys.
NoKeys == [t \in Tasks |-> NoKey]
OneBody == [t \in Tasks |-> bodyA]

\* t1, its retry t2, and t3, which uses their key for another body.
OneKey == [t \in Tasks |-> k1]
RetryAndClash == [t \in Tasks |-> IF t = t3 THEN bodyB ELSE bodyA]

WorkerSymmetry == Permutations(Workers)
=============================================================================
