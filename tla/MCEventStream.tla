----------------------------- MODULE MCEventStream -----------------------------
\* Constant values for TLC's runs of EventStream.
EXTENDS EventStream

CONSTANTS worker, other

\* One worker records two events of the watched execution, another worker one of
\* an execution nobody watches.
Counts == [r \in Recorders |-> IF r = worker THEN 2 ELSE 1]
=============================================================================
