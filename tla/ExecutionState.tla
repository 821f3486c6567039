--------------------------- MODULE ExecutionState ---------------------------
(***************************************************************************)
(* Execution statuses, the transitions the state machine allows, and how   *)
(* the results of an execution's plugins decide its final status.          *)
(***************************************************************************)
EXTENDS Naturals, FiniteSets, Sequences

ExecutionStatus == {"Pending", "Queued", "Running", "Success", "PartialSuccess",
                    "Failed", "Timeout", "Canceled"}

IsFinal(s) == s \in {"Success", "PartialSuccess", "Failed", "Timeout", "Canceled"}

Transitions ==
    ({"Pending"} \X {"Queued", "Canceled", "Failed"})
      \union ({"Queued"} \X {"Running", "Canceled", "Failed"})
      \union ({"Running"} \X {"Success", "PartialSuccess", "Failed", "Timeout", "Canceled"})

CanTransit(from, to) == <<from, to>> \in Transitions

CanCancel(s) == s \in {"Pending", "Queued", "Running"}

\* What the runtime reports of a plugin; it never reports the Canceled that the model has.
PluginResultStatus == {"Success", "Failed", "Timeout", "RuntimeError", "InvalidOutput"}

Count(results, s) == Cardinality({i \in DOMAIN results : results[i] = s})

\* results: a sequence of plugin result statuses
AggregateExecutionStatus(results) ==
    LET n == Len(results)
        success == Count(results, "Success")
        timeout == Count(results, "Timeout")
    IN  CASE n = 0                       -> "Failed"
          [] n > 0 /\ success = n        -> "Success"
          [] success > 0 /\ success < n  -> "PartialSuccess"
          [] n > 0 /\ timeout = n        -> "Timeout"
          [] OTHER                       -> "Failed"
=============================================================================
