------------------------------ MODULE MCWebhooks ------------------------------
\* Constant values for TLC's runs of Webhooks.
EXTENDS Webhooks

CONSTANTS e1, e2, h1, h2, t1, t2, a1

\* h1 wants every event, h2 only the first.
Filters == [h \in Endpoints |-> IF h = h1 THEN Events ELSE {e1}]
OneScopeHooks == [h \in Endpoints |-> t1]
OneScopeRuns == [e \in Events |-> t1]

\* e1 is an event of the default tenant's execution, e2 of another's.
TwoScopeHooks == [h \in Endpoints |-> IF h = h1 THEN t1 ELSE t2]
TwoScopeRuns == [e \in Events |-> IF e = e1 THEN t1 ELSE t2]

\* a1 administers the default tenant, others the second one.
Users == [a \in Admins |-> IF a = a1 THEN t1 ELSE t2]
AllEvents == [h \in Endpoints |-> Events]
=============================================================================
