-------------------------- MODULE DurableExecution --------------------------
(***************************************************************************)
(* The production path of an execution: EnterpriseExecutionService creates *)
(* and cancels it, DurableQueue hands it to a worker, and                  *)
(* MetadataExecutionHandler runs it, every call of the metadata store      *)
(* being one committed transaction and one step here.  A request stands    *)
(* for the execution id it would create, so Tasks are requests, execution  *)
(* ids and queue rows at once.                                             *)
(***************************************************************************)
EXTENDS Naturals, FiniteSets, Sequences, ExecutionState

CONSTANTS Tasks, Workers, Pools, PoolOf, NoWorker, NoRef, MaxAttempts, LeaseDuration,
          MaxBackoff, Skew, ManualDLQ, MaxTime, MaxFaults, MaxBeats

CONSTANTS
    KeyOf,          \* the idempotency key a request carries, or NoKey
    PayloadOf,      \* the input and plugin hashes of a request
    NoKey,          \* the empty idempotency key
    MaxPlugins,     \* bound: plugins of one execution
    UpsertAttempts  \* FALSE: AppendAttempt inserts, as shipped; TRUE: it upserts
                    \* like the attempt repository (repository/postgres.go:398)

ASSUME ExecutionAssumption ==
    /\ {NoKey, "none", "conflict", "lost"} \cap Tasks = {}
    /\ MaxPlugins \in Nat \ {0}
    /\ UpsertAttempts \in BOOLEAN
    /\ ~ManualDLQ

VARIABLES now, row, lastLease, held, beat, faults, beats

VARIABLES
    status,      \* executions.status, "Absent" before the row exists
    attempts,    \* task_attempts of an execution
    results,     \* the attempts whose execution_results are stored
    events,      \* types of the task_events of an execution
    reply,       \* what the service answered a create request
    cancelSeen,  \* the status CancelExecution read, "none" when it is not running
    pc,          \* where a worker is in handleOne
    seen,        \* e.Status as the worker's handler read it
    outcome      \* the aggregated status of the handler's run

queueVars == <<now, row, lastLease, held, beat, faults, beats>>
storeVars == <<status, attempts, results, events>>
clientVars == <<reply, cancelSeen>>
workerVars == <<pc, seen, outcome>>
vars == <<queueVars, storeVars, clientVars, workerVars>>

Queue == INSTANCE DurableQueue

ASSUME QueueParameters ==
    Queue!QueueAssumption /\ Queue!PowerAssumption /\ Queue!NoRefAssumption

\* A failing call of the store, or the loss of its answer
Fault == Queue!OtherFault
-----------------------------------------------------------------------------
Task(w) == held[w].task
Goto(w, label) == pc' = [pc EXCEPT ![w] = label]
Return(w) ==
    /\ Goto(w, "idle")
    /\ seen' = [seen EXCEPT ![w] = "none"]
    /\ outcome' = [outcome EXCEPT ![w] = "none"]
Record(t, type) == events' = [events EXCEPT ![t] = @ \union {type}]

Existing(r) == {e \in Tasks : KeyOf[r] # NoKey /\ KeyOf[e] = KeyOf[r] /\ status[e] # "Absent"}

\* Mutants: CheckConflict is skipped; the queue row is not in the transaction.
CreateExecution_NoConflict(r) ==
    /\ reply[r] = "none"
    /\ \/ /\ Existing(r) = {}
          /\ status' = [status EXCEPT ![r] = "Queued"]
          /\ events' = [events EXCEPT ![r] = {"Created", "Queued"}]
          /\ \E c \in Queue!AppClock : Queue!Enqueue(r, c)
          /\ reply' = [reply EXCEPT ![r] = r]
       \/ \E e \in Existing(r) :
             /\ reply' = [reply EXCEPT ![r] = e]
             /\ UNCHANGED <<status, events, queueVars>>
    /\ UNCHANGED <<attempts, results, cancelSeen, workerVars>>
CreateExecution_NotQueued(r) ==
    /\ reply[r] = "none"
    /\ Existing(r) = {}
    /\ status' = [status EXCEPT ![r] = "Queued"]
    /\ reply' = [reply EXCEPT ![r] = r]
    /\ UNCHANGED <<queueVars, attempts, results, events, cancelSeen, workerVars>>

\* INSERT ... ON CONFLICT on the idempotency index: the row is new, or the row
\* that holds the key is returned and compared with the request.  The answer may
\* be lost after the commit.
CreateExecution(r) ==
    /\ reply[r] = "none"
    /\ \/ /\ Existing(r) = {}
          /\ status' = [status EXCEPT ![r] = "Queued"]
          /\ events' = [events EXCEPT ![r] = {"Created", "Queued"}]
          /\ \E c \in Queue!AppClock : Queue!Enqueue(r, c)
          /\ \E a \in {r, "lost"} : reply' = [reply EXCEPT ![r] = a]
       \/ \E e \in Existing(r) :
             /\ reply' = [reply EXCEPT ![r] = IF PayloadOf[e] = PayloadOf[r]
                                              THEN e ELSE "conflict"]
             /\ UNCHANGED <<status, events, queueVars>>
    /\ UNCHANGED <<attempts, results, cancelSeen, workerVars>>

\* Mutant: the status that was read is not compared again.
Transition_Unchecked(t, from, to, type) ==
    /\ status' = [status EXCEPT ![t] = to]
    /\ Record(t, type)

\* UPDATE executions SET status WHERE id AND status = from, with its event
Transition(t, from, to, type) ==
    /\ status[t] = from
    /\ status' = [status EXCEPT ![t] = to]
    /\ Record(t, type)

ReadForCancel(t) ==
    /\ cancelSeen[t] = "none"
    /\ CanCancel(status[t])
    /\ cancelSeen' = [cancelSeen EXCEPT ![t] = status[t]]
    /\ UNCHANGED <<queueVars, storeVars, reply, workerVars>>

\* The caller gets an error when the status is no longer the one that was read.
CommitCancel(t) ==
    /\ cancelSeen[t] # "none"
    /\ \/ Transition(t, cancelSeen[t], "Canceled", "Canceled")
       \/ status[t] # cancelSeen[t] /\ UNCHANGED <<status, events>>
    /\ cancelSeen' = [cancelSeen EXCEPT ![t] = "none"]
    /\ UNCHANGED <<queueVars, attempts, results, reply, workerVars>>
-----------------------------------------------------------------------------
LeaseNext(w, t) ==
    /\ Queue!LeaseNext(w, t)
    /\ Goto(w, "load")
    /\ UNCHANGED <<storeVars, clientVars, seen, outcome>>

LeaseReplyLost(w, t) ==
    /\ Queue!LeaseReplyLost(w, t)
    /\ UNCHANGED <<storeVars, clientVars, workerVars>>

\* A call of the store returns an error before it commits anything, or it has
\* committed and goes on to `next`, unless the answer is lost.
Fails(w, onError) == Fault /\ Goto(w, onError) /\ UNCHANGED storeVars
Committed(w, next, onError) ==
    \/ Goto(w, next) /\ UNCHANGED queueVars
    \/ Goto(w, onError) /\ Fault

\* h.execs.GetByID
Load(w) ==
    /\ pc[w] = "load"
    /\ \/ /\ seen' = [seen EXCEPT ![w] = status[Task(w)]]
          /\ Goto(w, "begin")
          /\ UNCHANGED <<queueVars, storeVars>>
       \/ Fails(w, "nack") /\ UNCHANGED seen
    /\ UNCHANGED <<clientVars, outcome>>

\* UNIQUE (execution_id, attempt_no) and the attempt's primary key refuse a
\* second row of one attempt, unless the store upserts.
Recorded(w) == \E a \in attempts[Task(w)] : a.no = held[w].attempt

AppendAttempt(w, s, type) ==
    /\ UpsertAttempts \/ ~Recorded(w)
    /\ attempts' = [attempts EXCEPT ![Task(w)] =
                      {a \in @ : a.no # held[w].attempt}
                         \union {[no |-> held[w].attempt, status |-> s]}]
    /\ Record(Task(w), type)

\* Mutant: the execution is run without being claimed.
BeginAttempt_NoClaim(w) ==
    /\ pc[w] = "begin"
    /\ AppendAttempt(w, "Running", "Started")
    /\ Goto(w, IF seen[w] = "Canceled" THEN "ack" ELSE "lookup")
    /\ UNCHANGED <<queueVars, status, results, clientVars, seen, outcome>>

\* AppendAttempt(Running); only a canceled execution is left alone.
BeginAttempt(w) ==
    /\ pc[w] = "begin"
    /\ \/ /\ AppendAttempt(w, "Running", "Started")
          /\ Committed(w, CASE seen[w] = "Canceled" -> "ack"
                            [] seen[w] = "Running"  -> "lookup"
                            [] OTHER                -> "claim", "nack")
          /\ UNCHANGED <<status, results>>
       \/ Fails(w, "nack")
    /\ UNCHANGED <<clientVars, seen, outcome>>

\* TransitionExecutionWithEvent(e.Status -> Running); sql.ErrNoRows otherwise
Claim(w) ==
    /\ pc[w] = "claim"
    /\ \/ /\ Transition(Task(w), seen[w], "Running", "Started")
          /\ Committed(w, "lookup", "nack")
          /\ UNCHANGED <<attempts, results>>
       \/ /\ status[Task(w)] # seen[w]
          /\ Goto(w, "nack")
          /\ UNCHANGED <<queueVars, storeVars>>
       \/ Fails(w, "nack")
    /\ UNCHANGED <<clientVars, seen, outcome>>

\* GetExecutablePluginsInScope: a plugin may have been disabled or removed.
LookupPlugins(w) ==
    /\ pc[w] = "lookup"
    /\ Goto(w, "run") \/ Goto(w, "fail")
    /\ UNCHANGED <<queueVars, storeVars, clientVars, seen, outcome>>

RunResults == UNION {[1..n -> PluginResultStatus] : n \in 1..MaxPlugins}

\* RunPlugins, which reports panics and errors of a plugin as its result
RunPlugins(w) ==
    /\ pc[w] = "run"
    /\ \E rs \in RunResults :
          outcome' = [outcome EXCEPT ![w] = AggregateExecutionStatus(rs)]
    /\ Goto(w, "finish")
    /\ UNCHANGED <<queueVars, storeVars, clientVars, seen>>

\* AppendAttempt(Success)
FinishAttempt(w) ==
    /\ pc[w] = "finish"
    /\ \/ /\ AppendAttempt(w, "Success", "Finished")
          /\ Committed(w, "finalize", "fail")
          /\ UNCHANGED <<status, results>>
       \/ /\ ~UpsertAttempts /\ Recorded(w)
          /\ Goto(w, "fail")
          /\ UNCHANGED <<queueVars, storeVars>>
       \/ Fails(w, "fail")
    /\ UNCHANGED <<clientVars, seen, outcome>>

\* AppendResultAndFinalize: UPDATE executions ... WHERE id, whatever the status
Finalize(w) ==
    /\ pc[w] = "finalize"
    /\ \/ /\ status' = [status EXCEPT ![Task(w)] = outcome[w]]
          /\ results' = [results EXCEPT ![Task(w)] = @ \union {held[w].attempt}]
          /\ Record(Task(w), "Finished")
          /\ Committed(w, "ack", "fail")
          /\ UNCHANGED attempts
       \/ Fails(w, "fail")
    /\ UNCHANGED <<clientVars, seen, outcome>>

\* The deferred AppendAttempt(Failed); its own error is dropped.
FailAttempt(w) ==
    /\ pc[w] = "fail"
    /\ Goto(w, "nack")
    /\ \/ AppendAttempt(w, "Failed", "Failed") /\ UNCHANGED queueVars
       \/ /\ ~UpsertAttempts /\ Recorded(w)
          /\ UNCHANGED <<queueVars, attempts, events>>
       \/ Fault /\ UNCHANGED <<attempts, events>>
    /\ UNCHANGED <<status, results, clientVars, seen, outcome>>

Ack(w) ==
    /\ pc[w] = "ack"
    /\ Queue!Ack(w)
    /\ Return(w)
    /\ UNCHANGED <<storeVars, clientVars>>

\* Mutant: handleOne acknowledges a task whose handler failed.
Nack_Acks(w) ==
    /\ pc[w] = "nack"
    /\ Queue!Ack(w)
    /\ Return(w)
    /\ UNCHANGED <<storeVars, clientVars>>

Nack(w) ==
    /\ pc[w] = "nack"
    /\ \E c \in Queue!AppClock : Queue!Nack(w, c)
    /\ Return(w)
    /\ UNCHANGED <<storeVars, clientVars>>

\* Mutant: a failed Ack or Nack is tried again although its lease is given up.
SettleFails_Retries(w) ==
    /\ pc[w] \in {"ack", "nack"}
    /\ Queue!SettleFails(w)
    /\ UNCHANGED <<storeVars, clientVars, workerVars>>

SettleFails(w) ==
    /\ pc[w] \in {"ack", "nack"}
    /\ Queue!SettleFails(w)
    /\ Return(w)
    /\ UNCHANGED <<storeVars, clientVars>>

Crash(w) ==
    /\ Queue!Crash(w)
    /\ Return(w)
    /\ UNCHANGED <<storeVars, clientVars>>

\* Steps of the queue alone: heartbeats, reclaimLoop and the clock.
QueueStep ==
    /\ \/ \E w \in Workers : Queue!Heartbeat(w)
       \/ Queue!ReclaimExpiredLeases
       \/ Queue!Tick
    /\ UNCHANGED <<storeVars, clientVars, workerVars>>
-----------------------------------------------------------------------------
Init ==
    /\ Queue!Init
    /\ status = [t \in Tasks |-> "Absent"]
    /\ attempts = [t \in Tasks |-> {}]
    /\ results = [t \in Tasks |-> {}]
    /\ events = [t \in Tasks |-> {}]
    /\ reply = [t \in Tasks |-> "none"]
    /\ cancelSeen = [t \in Tasks |-> "none"]
    /\ pc = [w \in Workers |-> "idle"]
    /\ seen = [w \in Workers |-> "none"]
    /\ outcome = [w \in Workers |-> "none"]

Client(t) == CreateExecution(t) \/ ReadForCancel(t) \/ CommitCancel(t)

Handler(w) ==
    \/ Load(w) \/ BeginAttempt(w) \/ Claim(w) \/ LookupPlugins(w) \/ RunPlugins(w)
    \/ FinishAttempt(w) \/ Finalize(w) \/ FailAttempt(w) \/ Ack(w) \/ Nack(w)

Next ==
    \/ \E t \in Tasks : Client(t)
    \/ \E w \in Workers, t \in Tasks : LeaseNext(w, t) \/ LeaseReplyLost(w, t)
    \/ \E w \in Workers : Handler(w) \/ SettleFails(w) \/ Crash(w)
    \/ QueueStep

Spec == Init /\ [][Next]_vars

\* Workers poll and their calls return (plugins run under a timeout),
\* reclaimLoop ticks and time passes.  Nobody has to create or cancel.
Reclaims ==
    /\ Queue!Reclaim(now, {t \in Queue!Expired(now) : ~Queue!Attended(t)})
    /\ UNCHANGED <<storeVars, clientVars, workerVars>>

Ticks == Queue!Tick /\ UNCHANGED <<storeVars, clientVars, workerVars>>

Fairness ==
    /\ \A w \in Workers : WF_vars(\E t \in Tasks : LeaseNext(w, t))
    /\ \A w \in Workers : WF_vars(Handler(w))
    /\ WF_vars(Reclaims)
    /\ WF_vars(Ticks)

FairSpec == Spec /\ Fairness
-----------------------------------------------------------------------------
TypeOK ==
    /\ Queue!TypeOK
    /\ status \in [Tasks -> ExecutionStatus \union {"Absent"}]
    /\ attempts \in [Tasks -> SUBSET [no : Nat, status : {"Running", "Success", "Failed"}]]
    /\ results \in [Tasks -> SUBSET Nat]
    /\ events \in [Tasks -> SUBSET {"Created", "Queued", "Started", "Finished",
                                    "Failed", "Canceled"}]
    /\ reply \in [Tasks -> Tasks \union {"none", "conflict", "lost"}]
    /\ cancelSeen \in [Tasks -> {"none", "Pending", "Queued", "Running"}]
    /\ pc \in [Workers -> {"idle", "load", "begin", "claim", "lookup", "run", "finish",
                           "finalize", "fail", "ack", "nack"}]
    /\ \A w \in Workers : pc[w] = "idle" <=> held[w] = NoRef
    /\ seen \in [Workers -> ExecutionStatus \union {"none"}]
    /\ outcome \in [Workers -> ExecutionStatus \union {"none"}]

Answered(r) == reply[r] \in Tasks

\* CreateExecution is idempotent: requests with one key are answered with one
\* execution, and a request never gets the execution of a different request body.
RetriesShareOneExecution ==
    \A r, s \in Tasks :
        Answered(r) /\ Answered(s) /\ KeyOf[r] = KeyOf[s] /\ KeyOf[r] # NoKey
            => reply[r] = reply[s] /\ PayloadOf[r] = PayloadOf[s]

\* Create and enqueue are one transaction and work is not dropped: the row of an
\* execution that waits to be run is never missing and never acknowledged,
\* whichever of its workers crashed, was fenced off or gave the lease back.
QueuedWorkIsNotLost ==
    \A t \in Tasks : status[t] = "Queued" => row[t].status \in {"ready", "leased", "dlq"}

\* Ack on success only: the attempt that acknowledged a task has stored its
\* results, unless it found the execution canceled.
AckedWasDecided ==
    \A t \in Tasks :
        row[t].status = "acked" => row[t].attempt \in results[t] \/ "Canceled" \in events[t]

\* A worker that read the status before a cancel, and one that gets the task
\* afterwards, both leave a canceled execution out of Running.
CanceledIsNotRestarted ==
    [][\A t \in Tasks : status[t] = "Canceled" => status'[t] # "Running"]_vars

\* While an execution is not final its status moves only along the state
\* machine, although the store's finalize checks neither status nor lease.
ActiveStepsFollowStateMachine ==
    [][\A t \in Tasks :
          status[t] \in {"Queued", "Running"} /\ status'[t] # status[t]
              => CanTransit(status[t], status'[t])]_vars

\* An accepted execution is not forgotten: it gets a final status or its task
\* is dead-lettered.
AcceptedIsDecided ==
    \A t \in Tasks : status[t] = "Queued" ~> IsFinal(status[t]) \/ row[t].status = "dlq"
-----------------------------------------------------------------------------
\* What the documents say and this code does not do.

\* "final state must not rerun" (execution_state_test.go)
FinalStateNeverReruns ==
    [][\A t \in Tasks : IsFinal(status[t]) => status'[t] # "Running"]_vars

\* Canceled has no outgoing transition in the state machine (README.md).
CanceledIsFinal ==
    [][\A t \in Tasks : status[t] = "Canceled" => status'[t] = "Canceled"]_vars

\* The handler "writes attempt records, state events, results, final status"
\* (RFC 0007): when its plugins have run and nothing fails, it stores the results.
CompletedRunIsStored ==
    \A w \in Workers, t \in Tasks, n \in 1..MaxAttempts :
        pc[w] = "finish" /\ held[w].task = t /\ held[w].attempt = n ~> n \in results[t]
=============================================================================
