----------------------------- MODULE LeasedWork -----------------------------
(***************************************************************************)
(* What internal/queue/durable.go promises of every durable queue, with no *)
(* clock, row, worker or retry policy: a task is handed out under a fresh  *)
(* lease, only the lease that owns the task can settle it, a settled task  *)
(* is never touched again, and whoever works under a lease that no longer  *)
(* owns the task can do nothing to it.  DurableQueue implements this.      *)
(***************************************************************************)
EXTENDS Naturals

CONSTANTS Tasks

VARIABLES state,    \* [Tasks -> {"none", "ready", "leased", "acked", "dlq"}]
          owner,    \* [Tasks -> Nat]: the lease that owns the task, 0 for none
          issued,   \* number of leases handed out; leases are 1..issued
          working   \* the leases somebody still works under

vars == <<state, owner, issued, working>>

Init ==
    /\ state = [t \in Tasks |-> "none"]
    /\ owner = [t \in Tasks |-> 0]
    /\ issued = 0
    /\ working = {}

Submit(t) ==
    /\ state[t] = "none"
    /\ state' = [state EXCEPT ![t] = "ready"]
    /\ UNCHANGED <<owner, issued, working>>

\* The lease is new; its grant may never reach anybody.
Grant(t) ==
    /\ state[t] = "ready"
    /\ issued' = issued + 1
    /\ state' = [state EXCEPT ![t] = "leased"]
    /\ owner' = [owner EXCEPT ![t] = issued + 1]
    /\ working' \in {working, working \union {issued + 1}}

\* The worker stops, and settles the task if its lease still owns it.
Settle(t, l) ==
    /\ l \in working
    /\ working' = working \ {l}
    /\ state[t] = "leased" /\ owner[t] = l
    /\ \/ /\ state' = [state EXCEPT ![t] = "acked"]
          /\ UNCHANGED owner
       \/ \E s \in {"ready", "dlq"} :
             /\ state' = [state EXCEPT ![t] = s]
             /\ owner' = [owner EXCEPT ![t] = 0]
    /\ UNCHANGED issued

Quit(l) ==
    /\ l \in working
    /\ working' = working \ {l}
    /\ UNCHANGED <<state, owner, issued>>

\* Leases are revoked without asking whoever works under them.
Revoke(S) ==
    /\ \A t \in S : state[t] = "leased"
    /\ state' = [t \in Tasks |-> IF t \in S THEN "ready" ELSE state[t]]
    /\ owner' = [t \in Tasks |-> IF t \in S THEN 0 ELSE owner[t]]
    /\ UNCHANGED <<issued, working>>

Next ==
    \/ \E t \in Tasks : Submit(t) \/ Grant(t)
    \/ \E t \in Tasks, l \in working : Settle(t, l)
    \/ \E l \in working : Quit(l)
    \/ \E S \in SUBSET Tasks : Revoke(S)

Spec == Init /\ [][Next]_vars
=============================================================================
