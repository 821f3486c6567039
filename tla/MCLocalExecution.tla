-------------------------- MODULE MCLocalExecution --------------------------
\* Constant values for TLC's runs of LocalExecution.
EXTENDS LocalExecution, TLC

CONSTANTS x1, x2, x3, k1, bodyA

\* Requests without idempotency keys.
NoKeys == [r \in Requests |-> NoKey]
OneBody == [r \in Requests |-> bodyA]

\* x3 retries x2, and x1 has nothing to do with them.
RetryOfSecond == [r \in Requests |-> IF r = x1 THEN NoKey ELSE k1]

RequestSymmetry == Permutations(Requests) \union Permutations(Workers)
=============================================================================
