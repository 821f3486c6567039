----------------------- MODULE DurableExecutionProofs -----------------------
(***************************************************************************)
(* Proofs about DurableExecution for any number of executions and workers, *)
(* with the shipped and with the upserting store: it uses the queue as     *)
(* DurableQueue allows, so what is proved of the queue holds in it, and    *)
(* its safety properties follow from that and from the handler's order of  *)
(* calls.                                                                  *)
(***************************************************************************)
EXTENDS DurableExecution, TLAPS

QueueProofs == INSTANCE DurableQueueProofs

\* The two instances of the queue are one queue.
LEMMA SameInit == Queue!Init <=> QueueProofs!Init
  BY DEF Queue!Init, QueueProofs!Init, Queue!NoRow, QueueProofs!NoRow

LEMMA SameNext == Queue!Next <=> QueueProofs!Next
  BY DEF Queue!Next, Queue!Worker, Queue!AppClock, Queue!Enqueue, Queue!NoRow, Queue!MoveToDLQ,
         Queue!LeaseNext, Queue!LeaseReplyLost, Queue!Lease, Queue!Visible, Queue!NotAfter,
         Queue!Heartbeat, Queue!Matches, Queue!Ack, Queue!Nack, Queue!NackedRow,
         Queue!Released, Queue!Backoff, Queue!SettleFails, Queue!Crash, Queue!Fault,
         Queue!ReclaimExpiredLeases, Queue!Reclaim, Queue!Expired, Queue!Attended,
         Queue!OtherFault, Queue!Tick, Queue!Waiting,
         QueueProofs!Next, QueueProofs!Worker, QueueProofs!AppClock, QueueProofs!Enqueue,
         QueueProofs!NoRow, QueueProofs!MoveToDLQ, QueueProofs!LeaseNext,
         QueueProofs!LeaseReplyLost, QueueProofs!Lease, QueueProofs!Visible,
         QueueProofs!NotAfter, QueueProofs!Heartbeat, QueueProofs!Matches, QueueProofs!Ack,
         QueueProofs!Nack, QueueProofs!NackedRow, QueueProofs!Released, QueueProofs!Backoff,
         QueueProofs!SettleFails, QueueProofs!Crash, QueueProofs!Fault,
         QueueProofs!ReclaimExpiredLeases, QueueProofs!Reclaim, QueueProofs!Expired,
         QueueProofs!Attended, QueueProofs!OtherFault, QueueProofs!Tick, QueueProofs!Waiting

\* Every step is a step of the queue or leaves it alone.
LEMMA QueueSteps == [Next]_vars => [Queue!Next]_queueVars
<1> SUFFICES ASSUME [Next]_vars PROVE Queue!Next \/ UNCHANGED queueVars
  OBVIOUS
<1>1. ASSUME NEW t \in Tasks, Client(t) PROVE Queue!Next \/ UNCHANGED queueVars
  BY <1>1 DEF Client, CreateExecution, ReadForCancel, CommitCancel, Queue!Next
<1>2. ASSUME NEW w \in Workers, NEW t \in Tasks, LeaseNext(w, t) \/ LeaseReplyLost(w, t)
      PROVE  Queue!Next
  BY <1>2 DEF LeaseNext, LeaseReplyLost, Queue!Next, Queue!Worker
<1>3. ASSUME NEW w \in Workers, Handler(w) PROVE Queue!Next \/ UNCHANGED queueVars
  BY <1>3 DEF Handler, Load, BeginAttempt, Claim, LookupPlugins, RunPlugins, FinishAttempt,
              Finalize, FailAttempt, Ack, Nack, Fails, Committed, Fault, Queue!Next, Queue!Worker
<1>4. ASSUME NEW w \in Workers, SettleFails(w) \/ Crash(w) PROVE Queue!Next
  BY <1>4 DEF SettleFails, Crash, Queue!Next, Queue!Worker
<1>5. CASE QueueStep
  BY <1>5 DEF QueueStep, Queue!Next, Queue!Worker
<1>6. CASE UNCHANGED vars
  BY <1>6 DEF vars
<1> QED
  BY <1>1, <1>2, <1>3, <1>4, <1>5, <1>6 DEF Next

\* The handler, the service and the store use the queue as DurableQueue describes
\* it: every behaviour of the whole system is one of the queue.
THEOREM UsesQueue == Spec => Queue!Spec
<1>1. Init => Queue!Init
  BY DEF Init
<1>2. [Next]_vars => [Queue!Next]_(Queue!vars)
  BY QueueSteps DEF queueVars, Queue!vars
<1> QED
  BY <1>1, <1>2, PTL DEF Spec, Queue!Spec

\* The invariant of the queue proofs holds in the whole system.
LEMMA QueueInvariance == Spec => []QueueProofs!Inv
<1>1. QueueProofs!Spec => []QueueProofs!Inv
  BY QueueProofs!Invariance, QueueParameters
     DEF Queue!QueueAssumption, Queue!PowerAssumption, Queue!NoRefAssumption,
         Queue!Ref, QueueProofs!Ref
<1>2. [Queue!Next]_(Queue!vars) => [QueueProofs!Next]_(QueueProofs!vars)
  BY SameNext DEF Queue!vars, QueueProofs!vars
<1>3. Queue!Spec => QueueProofs!Spec
  BY <1>2, SameInit, PTL DEF Queue!Spec, QueueProofs!Spec
<1> QED
  BY <1>1, <1>3, UsesQueue, PTL
-----------------------------------------------------------------------------
\* What the handler and the store need to know of the queue.
QueueOK ==
    /\ Queue!TypeOK
    /\ \A w \in Workers : held[w] # NoRef =>
          /\ row[Task(w)].status # "none"
          /\ row[Task(w)].leaseId = held[w].leaseId => row[Task(w)].attempt = held[w].attempt

LEMMA QueueFacts == Spec => []QueueOK
<1>1. QueueProofs!Inv => QueueOK
  <2> SUFFICES ASSUME QueueProofs!Inv PROVE QueueOK
    OBVIOUS
  <2>1. Queue!TypeOK
    BY DEF QueueProofs!Inv, QueueProofs!TypeOK, QueueProofs!Row, QueueProofs!RowStatus,
           QueueProofs!Ref, Queue!TypeOK, Queue!Row, Queue!RowStatus, Queue!Ref
  <2>2. ASSUME NEW w \in Workers, held[w] # NoRef
        PROVE  /\ row[Task(w)].status # "none"
               /\ row[Task(w)].leaseId = held[w].leaseId
                     => row[Task(w)].attempt = held[w].attempt
    <3>1. QueueProofs!RefOK(held[w]) /\ QueueProofs!RowsOK /\ held[w] \in Queue!Ref
      BY <2>1, <2>2 DEF QueueProofs!Inv, QueueProofs!HeldOK, Queue!TypeOK
    <3>2. held[w].task \in Tasks /\ row[held[w].task] \in Queue!Row /\ held[w].attempt \in Nat
      BY <2>1, <3>1 DEF Queue!TypeOK, Queue!Ref
    <3> QED
      BY <3>1, <3>2 DEF QueueProofs!RefOK, QueueProofs!RowsOK, Queue!Row, Task
  <2> QED
    BY <2>1, <2>2 DEF QueueOK
<1> QED
  BY <1>1, QueueInvariance, PTL

\* Rows neither appear nor vanish and none becomes acknowledged.
KeepsRows ==
    \A t \in Tasks :
        /\ row'[t].status = "none" <=> row[t].status = "none"
        /\ row'[t].status = "acked" => row'[t] = row[t]

LEMMA OwnLoss ==
  ASSUME NEW w \in Workers, SettleFails(w) \/ Crash(w)
  PROVE  KeepsRows
  BY DEF KeepsRows, SettleFails, Crash, Queue!SettleFails, Queue!Crash

LEMMA LeaseKeepsRows ==
  ASSUME QueueOK, NEW w \in Workers, NEW t \in Tasks, LeaseNext(w, t) \/ LeaseReplyLost(w, t)
  PROVE  KeepsRows
  BY DEF KeepsRows, QueueOK, LeaseNext, LeaseReplyLost, Queue!LeaseNext, Queue!LeaseReplyLost,
         Queue!Lease, Queue!Visible, Queue!TypeOK, Queue!Row

LEMMA NackKeepsRows ==
  ASSUME QueueOK, NEW w \in Workers, Nack(w)
  PROVE  KeepsRows
<1>1. PICK c \in Queue!AppClock : Queue!Nack(w, c)
  BY DEF Nack
<1>2. held[w] \in Queue!Ref /\ Task(w) \in Tasks /\ row[Task(w)] \in Queue!Row
      /\ row[Task(w)].status # "none"
  BY <1>1 DEF QueueOK, Queue!TypeOK, Queue!Nack, Queue!Ref, Task
<1>3. Queue!NackedRow(row[Task(w)], c, TRUE).status \in {"ready", "dlq"}
  BY <1>2 DEF Queue!NackedRow, Queue!Released, Queue!Row
<1> QED
  BY <1>1, <1>2, <1>3 DEF KeepsRows, QueueOK, Queue!TypeOK, Queue!Nack, Task

LEMMA QueueStepKeepsRows ==
  ASSUME QueueOK, QueueStep
  PROVE  KeepsRows
<1>1. ASSUME NEW w \in Workers, Queue!Heartbeat(w) PROVE KeepsRows
  BY <1>1 DEF KeepsRows, QueueOK, Queue!Heartbeat, Queue!TypeOK, Queue!Row, Queue!Ref
<1>2. ASSUME NEW c \in Queue!AppClock, NEW S \in SUBSET Tasks, Queue!Reclaim(c, S)
      PROVE  KeepsRows
  <2>1. ASSUME NEW t \in S
        PROVE  Queue!Released(row[t], "ready", now).status = "ready" /\ row[t].status = "leased"
    BY <1>2 DEF Queue!Released, Queue!Reclaim, Queue!Expired, QueueOK, Queue!TypeOK, Queue!Row
  <2> QED
    BY <1>2, <2>1 DEF KeepsRows, Queue!Reclaim
<1>3. ASSUME Queue!Tick PROVE KeepsRows
  BY <1>3 DEF KeepsRows, Queue!Tick
<1> QED
  BY <1>1, <1>2, <1>3 DEF QueueStep, Queue!ReclaimExpiredLeases

\* A matching Ack acknowledges the row under the attempt of the worker.
LEMMA AckedRow ==
  ASSUME QueueOK, NEW w \in Workers, Ack(w), NEW t \in Tasks
  PROVE  /\ row'[t].status = "none" <=> row[t].status = "none"
         /\ row'[t].status = "acked" =>
               \/ row'[t] = row[t]
               \/ t = Task(w) /\ row'[t].attempt = held[w].attempt
<1>1. held[w] \in Queue!Ref /\ Task(w) \in Tasks /\ row[Task(w)] \in Queue!Row
      /\ row[Task(w)].status # "none"
  BY DEF QueueOK, Queue!TypeOK, Ack, Queue!Ack, Queue!Ref, Task
<1> QED
  BY <1>1 DEF QueueOK, Queue!TypeOK, Ack, Queue!Ack, Queue!Matches, Queue!Row, Task

\* A new row is ready.
LEMMA EnqueuedRow ==
  ASSUME QueueOK, NEW r \in Tasks, NEW c \in Queue!AppClock, Queue!Enqueue(r, c), NEW t \in Tasks
  PROVE  /\ row[r].status = "none"
         /\ t = r => row'[t].status = "ready"
         /\ t # r => row'[t] = row[t]
  BY DEF QueueOK, Queue!TypeOK, Queue!Enqueue, Queue!NoRow, Queue!Row

\* Running plugins yields a final status other than Canceled.
Decided == {"Success", "PartialSuccess", "Failed", "Timeout"}

LEMMA AggregateDecides == ASSUME NEW rs PROVE AggregateExecutionStatus(rs) \in Decided
  BY DEF AggregateExecutionStatus, Decided
-----------------------------------------------------------------------------
\* An execution exists when its row does, a canceled one has its event, and an
\* acknowledged row belongs to an execution that is not waiting and was decided.
StoreOK ==
    \A t \in Tasks :
        /\ row[t].status = "none" <=> status[t] = "Absent"
        /\ status[t] = "Canceled" => "Canceled" \in events[t]
        /\ row[t].status = "acked" =>
              /\ status[t] # "Queued"
              /\ row[t].attempt \in results[t] \/ "Canceled" \in events[t]

\* What a handler has read or done shows in the store, whatever happened since:
\* after its claim the execution is not waiting any more, and before its Ack the
\* results are stored or a cancel was seen.
HandlerOK(w) ==
    /\ pc[w] \in {"idle", "load"} => seen[w] = "none"
    /\ pc[w] \in {"begin", "claim"} => seen[w] # "none"
    /\ pc[w] = "claim" => seen[w] \notin {"Canceled", "Running"}
    /\ pc[w] \in {"finish", "finalize"} => outcome[w] \in Decided
    /\ pc[w] # "idle" =>
          /\ seen[w] \notin {"none", "Queued"} => status[Task(w)] # "Queued"
          /\ seen[w] = "Canceled" => "Canceled" \in events[Task(w)]
          /\ pc[w] \in {"lookup", "run", "finish", "finalize", "ack"}
                => status[Task(w)] # "Queued"
          /\ pc[w] = "ack"
                => held[w].attempt \in results[Task(w)] \/ "Canceled" \in events[Task(w)]

HandlersOK == \A w \in Workers : HandlerOK(w)

\* At most one execution has a key, and answers name executions of that key.
KeysOK ==
    /\ \A r, s \in Tasks :
          KeyOf[r] = KeyOf[s] /\ KeyOf[r] # NoKey /\ status[r] # "Absent" /\ status[s] # "Absent"
            => r = s
    /\ \A r \in Tasks : reply[r] \in Tasks =>
          /\ status[reply[r]] # "Absent"
          /\ \/ reply[r] = r
             \/ KeyOf[reply[r]] = KeyOf[r] /\ PayloadOf[reply[r]] = PayloadOf[r]

Inv == TypeOK /\ StoreOK /\ HandlersOK /\ KeysOK

\* A worker that is not idle has a task, and the task's execution exists.
LEMMA Holding ==
  ASSUME QueueOK, Inv, NEW w \in Workers, held[w] # NoRef \/ pc[w] # "idle"
  PROVE  /\ held[w] # NoRef /\ held[w] \in Queue!Ref
         /\ Task(w) \in Tasks /\ held[w].attempt \in Nat
         /\ status[Task(w)] \in ExecutionStatus /\ row[Task(w)].status # "none"
  BY DEF QueueOK, Inv, TypeOK, StoreOK, Queue!TypeOK, Queue!Ref, Task

LEMMA InitInv == Init => Inv
<1> SUFFICES ASSUME Init PROVE Inv
  OBVIOUS
<1>1. Queue!TypeOK
  BY QueueParameters DEF Init, Queue!Init, Queue!TypeOK, Queue!NoRow, Queue!Row, Queue!RowStatus
<1>2. \A t \in Tasks : row[t].status = "none" /\ reply[t] \notin Tasks
  BY ExecutionAssumption DEF Init, Queue!Init, Queue!NoRow
<1> QED
  BY <1>1, <1>2 DEF Init, Inv, TypeOK, StoreOK, HandlersOK, HandlerOK, KeysOK, Queue!Init
-----------------------------------------------------------------------------
\* Executions do not vanish or go back to Queued, results and events accumulate.
Grows ==
    \A t \in Tasks : status[t] # "Absent" =>
        /\ status'[t] # "Absent"
        /\ status[t] # "Queued" => status'[t] # "Queued"
        /\ results[t] \subseteq results'[t]
        /\ events[t] \subseteq events'[t]

Untouched(v) ==
    pc'[v] = pc[v] /\ seen'[v] = seen[v] /\ outcome'[v] = outcome[v] /\ held'[v] = held[v]

\* So what a handler knows stays true while the others work.
LEMMA OthersKept ==
  ASSUME QueueOK, Inv, Grows, NEW v \in Workers, Untouched(v)
  PROVE  HandlerOK(v)'
<1>1. CASE pc[v] = "idle"
  BY <1>1 DEF Inv, HandlersOK, HandlerOK, Untouched
<1>2. CASE pc[v] # "idle"
  <2>1. Task(v) \in Tasks /\ status[Task(v)] # "Absent" /\ Task(v)' = Task(v)
    BY <1>2, Holding DEF Untouched, Task, ExecutionStatus
  <2> QED
    BY <1>2, <2>1 DEF Inv, HandlersOK, HandlerOK, Untouched, Grows
<1> QED
  BY <1>1, <1>2

\* Keys depend on which executions exist and on what was answered.
LEMMA KeysKept == ASSUME Inv, UNCHANGED reply,
                         \A t \in Tasks : status'[t] = "Absent" <=> status[t] = "Absent"
                  PROVE  KeysOK'
  BY DEF Inv, KeysOK

\* The store is unchanged and so is what it has to do with the rows.
LEMMA StoreKept == ASSUME Inv, KeepsRows, UNCHANGED storeVars
                   PROVE  StoreOK' /\ Grows
  BY DEF Inv, StoreOK, KeepsRows, Grows, storeVars

LEMMA CreateInv ==
  ASSUME QueueOK, QueueOK', Inv, NEW r \in Tasks, CreateExecution(r)
  PROVE  Inv'
<1>1. CASE Existing(r) = {}
  <2>1. PICK c \in Queue!AppClock : Queue!Enqueue(r, c)
    BY <1>1 DEF CreateExecution
  <2>2. /\ status' = [status EXCEPT ![r] = "Queued"]
        /\ events' = [events EXCEPT ![r] = {"Created", "Queued"}]
        /\ reply' = [reply EXCEPT ![r] = r] \/ reply' = [reply EXCEPT ![r] = "lost"]
        /\ UNCHANGED <<attempts, results, cancelSeen, workerVars, held>>
    BY <1>1, <2>1 DEF CreateExecution, Queue!Enqueue
  <2>3. /\ status[r] = "Absent"
        /\ \A t \in Tasks : t = r => row'[t].status = "ready"
        /\ \A t \in Tasks : t # r => row'[t] = row[t]
    BY <2>1, EnqueuedRow DEF Inv, StoreOK
  <2>4. TypeOK'
    BY <2>2 DEF QueueOK, Inv, TypeOK, ExecutionStatus, workerVars
  <2>5. StoreOK' /\ Grows
    BY <2>2, <2>3 DEF Inv, TypeOK, StoreOK, Grows
  <2>6. HandlersOK'
    BY <2>2, <2>5, OthersKept DEF HandlersOK, Untouched, workerVars
  <2>7. KeysOK'
    BY <1>1, <2>2, <2>3, ExecutionAssumption DEF Inv, TypeOK, KeysOK, Existing
  <2> QED
    BY <2>4, <2>5, <2>6, <2>7 DEF Inv
<1>2. ASSUME NEW e \in Existing(r),
             reply' = [reply EXCEPT ![r] = IF PayloadOf[e] = PayloadOf[r] THEN e ELSE "conflict"],
             UNCHANGED <<status, events, queueVars>>
      PROVE  Inv'
  <2>1. UNCHANGED <<attempts, results, cancelSeen, workerVars>>
    BY DEF CreateExecution
  <2>2. TypeOK'
    BY <1>2, <2>1 DEF Inv, TypeOK, Existing, workerVars, QueueOK, queueVars
  <2>3. StoreOK' /\ Grows
    BY <1>2, <2>1 DEF Inv, StoreOK, Grows, queueVars
  <2>4. HandlersOK'
    BY <1>2, <2>1, <2>3, OthersKept DEF HandlersOK, Untouched, workerVars, queueVars
  <2>5. KeysOK'
    BY <1>2, ExecutionAssumption DEF Inv, TypeOK, KeysOK, Existing
  <2> QED
    BY <2>2, <2>3, <2>4, <2>5 DEF Inv
<1> QED
  BY <1>1, <1>2 DEF CreateExecution

LEMMA CancelInv ==
  ASSUME QueueOK, QueueOK', Inv, NEW t \in Tasks, ReadForCancel(t) \/ CommitCancel(t)
  PROVE  Inv'
<1>1. /\ UNCHANGED <<attempts, results, reply, workerVars, queueVars>>
      /\ \/ UNCHANGED <<status, events>>
         \/ /\ status[t] = cancelSeen[t] /\ cancelSeen[t] # "none"
            /\ status' = [status EXCEPT ![t] = "Canceled"]
            /\ events' = [events EXCEPT ![t] = @ \union {"Canceled"}]
  BY DEF ReadForCancel, CommitCancel, Transition, Record, storeVars
<1>2. TypeOK'
  <2>1. cancelSeen' \in [Tasks -> {"none", "Pending", "Queued", "Running"}]
    BY DEF Inv, TypeOK, ReadForCancel, CommitCancel, CanCancel
  <2> QED
    BY <1>1, <2>1 DEF QueueOK, Inv, TypeOK, ExecutionStatus, workerVars, queueVars
<1>3. StoreOK' /\ Grows
  BY <1>1 DEF Inv, TypeOK, StoreOK, Grows, queueVars
<1>4. HandlersOK'
  BY <1>1, <1>3, OthersKept DEF HandlersOK, Untouched, workerVars, queueVars
<1>5. KeysOK'
  BY <1>1, KeysKept DEF Inv, TypeOK
<1> QED
  BY <1>2, <1>3, <1>4, <1>5 DEF Inv

\* A lease starts an idle handler; one whose answer is lost starts nothing.
LEMMA LeaseInv ==
  ASSUME QueueOK, QueueOK', Inv, NEW w \in Workers, NEW t \in Tasks,
         LeaseNext(w, t) \/ LeaseReplyLost(w, t)
  PROVE  Inv'
<1>1. StoreOK' /\ Grows
  BY LeaseKeepsRows, StoreKept DEF LeaseNext, LeaseReplyLost
<1>2. held[w] = NoRef /\ pc[w] = "idle"
  BY DEF Inv, TypeOK, LeaseNext, LeaseReplyLost, Queue!LeaseNext, Queue!LeaseReplyLost,
         Queue!Lease
<1>3. TypeOK'
  <2>1. CASE LeaseNext(w, t)
    <3>1. /\ pc' = [pc EXCEPT ![w] = "load"]
          /\ \A v \in Workers \ {w} : held'[v] = held[v]
          /\ held'[w] # NoRef
      <4> DEFINE ref == [task |-> t, leaseId |-> lastLease + 1,
                         attempt |-> row[t].attempt + 1, until |-> now + LeaseDuration]
      <4>1. ref \in Queue!Ref
        BY QueueParameters DEF QueueOK, Queue!TypeOK, Queue!Row, Queue!Ref,
           Queue!QueueAssumption
      <4>2. ref # NoRef
        BY <4>1, QueueParameters DEF Queue!NoRefAssumption
      <4> QED
        BY <2>1, <4>2 DEF LeaseNext, Goto, QueueOK, Queue!TypeOK, Queue!LeaseNext
    <3> QED
      BY <2>1, <3>1 DEF LeaseNext, QueueOK, Inv, TypeOK, storeVars, clientVars
  <2>2. CASE LeaseReplyLost(w, t)
    BY <2>2 DEF LeaseReplyLost, Queue!LeaseReplyLost, QueueOK, Inv, TypeOK, storeVars,
                clientVars, workerVars
  <2> QED
    BY <2>1, <2>2
<1>4. HandlersOK'
  <2>1. ASSUME NEW v \in Workers, v # w \/ LeaseReplyLost(w, t)
        PROVE  Untouched(v)
    BY <2>1 DEF LeaseNext, LeaseReplyLost, Queue!LeaseNext, Queue!LeaseReplyLost, Goto,
                workerVars, Untouched, QueueOK, Queue!TypeOK, Inv, TypeOK
  <2>2. ASSUME LeaseNext(w, t) PROVE HandlerOK(w)'
    BY <1>2, <2>2 DEF LeaseNext, Goto, Inv, TypeOK, HandlersOK, HandlerOK
  <2> QED
    BY <1>1, <2>1, <2>2, OthersKept DEF HandlersOK
<1>5. KeysOK'
  BY KeysKept DEF LeaseNext, LeaseReplyLost, storeVars, clientVars
<1> QED
  BY <1>1, <1>3, <1>4, <1>5 DEF Inv

\* A failing call of the store leaves the rows and the references alone.
LEMMA QuietQueue == ASSUME Fault \/ UNCHANGED queueVars PROVE UNCHANGED <<row, held>> /\ KeepsRows
  BY DEF Fault, Queue!OtherFault, queueVars, KeepsRows

\* The handler's steps that read, compute or give up.
LEMMA LocalStepInv ==
  ASSUME QueueOK, QueueOK', Inv, NEW w \in Workers,
         Load(w) \/ LookupPlugins(w) \/ RunPlugins(w)
  PROVE  Inv'
<1>1. pc[w] \in {"load", "lookup", "run"} /\ UNCHANGED <<row, held, storeVars, clientVars>>
  BY QuietQueue DEF Load, LookupPlugins, RunPlugins, Fails
<1>2. Task(w) \in Tasks /\ status[Task(w)] \in ExecutionStatus /\ Task(w)' = Task(w)
  BY <1>1, Holding DEF Task
<1>3. StoreOK' /\ Grows
  BY <1>1, StoreKept DEF KeepsRows
<1>4. \/ /\ Load(w) /\ pc' = [pc EXCEPT ![w] = "begin"]
         /\ seen' = [seen EXCEPT ![w] = status[Task(w)]] /\ UNCHANGED outcome
      \/ /\ Load(w) /\ pc' = [pc EXCEPT ![w] = "nack"] /\ UNCHANGED <<seen, outcome>>
      \/ /\ LookupPlugins(w) /\ UNCHANGED <<seen, outcome>>
         /\ pc' = [pc EXCEPT ![w] = "run"] \/ pc' = [pc EXCEPT ![w] = "fail"]
      \/ /\ RunPlugins(w) /\ pc' = [pc EXCEPT ![w] = "finish"] /\ UNCHANGED seen
         /\ \E o \in Decided : outcome' = [outcome EXCEPT ![w] = o]
  BY AggregateDecides DEF Load, LookupPlugins, RunPlugins, Fails, Goto
<1>5. TypeOK'
  BY <1>1, <1>2, <1>4 DEF QueueOK, Inv, TypeOK, ExecutionStatus, Decided, storeVars, clientVars
<1>6. HandlersOK'
  <2>1. ASSUME NEW v \in Workers \ {w} PROVE HandlerOK(v)'
    <3>1. Untouched(v)
      BY <1>1, <1>4 DEF Untouched, Inv, TypeOK
    <3> QED
      BY <1>3, <3>1, OthersKept
  <2>2. HandlerOK(w)'
    BY <1>1, <1>2, <1>4
       DEF Inv, TypeOK, StoreOK, HandlersOK, HandlerOK, Load, LookupPlugins, RunPlugins,
           ExecutionStatus, storeVars
  <2> QED
    BY <2>1, <2>2 DEF HandlersOK
<1>7. KeysOK'
  BY <1>1, KeysKept DEF storeVars, clientVars
<1> QED
  BY <1>3, <1>5, <1>6, <1>7 DEF Inv

\* An attempt row and its event: neither statuses nor results change.
LEMMA AppendedAttempt ==
  ASSUME QueueOK, Inv, NEW w \in Workers, pc[w] # "idle",
         NEW s \in {"Running", "Success", "Failed"},
         NEW type \in {"Started", "Finished", "Failed"}, AppendAttempt(w, s, type)
  PROVE  /\ attempts' \in [Tasks -> SUBSET [no : Nat, status : {"Running", "Success", "Failed"}]]
         /\ events' \in [Tasks -> SUBSET {"Created", "Queued", "Started", "Finished",
                                          "Failed", "Canceled"}]
         /\ \A t \in Tasks : events[t] \subseteq events'[t]
  BY Holding DEF Inv, TypeOK, AppendAttempt, Record

LEMMA AttemptInv ==
  ASSUME QueueOK, QueueOK', Inv, NEW w \in Workers,
         BeginAttempt(w) \/ FinishAttempt(w) \/ FailAttempt(w)
  PROVE  Inv'
<1>1. /\ pc[w] \in {"begin", "finish", "fail"}
      /\ UNCHANGED <<row, held, status, results, clientVars, seen, outcome>>
  BY QuietQueue DEF BeginAttempt, FinishAttempt, FailAttempt, Fails, Committed, storeVars
<1>2. /\ attempts' \in [Tasks -> SUBSET [no : Nat, status : {"Running", "Success", "Failed"}]]
      /\ events' \in [Tasks -> SUBSET {"Created", "Queued", "Started", "Finished",
                                       "Failed", "Canceled"}]
      /\ \A t \in Tasks : events[t] \subseteq events'[t]
  <2>1. CASE UNCHANGED <<attempts, events>>
    BY <2>1 DEF Inv, TypeOK
  <2>2. \/ UNCHANGED <<attempts, events>>
        \/ AppendAttempt(w, "Running", "Started")
        \/ AppendAttempt(w, "Success", "Finished")
        \/ AppendAttempt(w, "Failed", "Failed")
    BY DEF BeginAttempt, FinishAttempt, FailAttempt, Fails, storeVars
  <2> QED
    BY <1>1, <2>1, <2>2, AppendedAttempt
<1>3. \/ pc[w] = "begin" /\ pc' = [pc EXCEPT ![w] = "ack"] /\ seen[w] = "Canceled"
      \/ pc[w] = "begin" /\ pc' = [pc EXCEPT ![w] = "lookup"] /\ seen[w] = "Running"
      \/ /\ pc[w] = "begin" /\ pc' = [pc EXCEPT ![w] = "claim"]
         /\ seen[w] \notin {"Canceled", "Running"}
      \/ pc[w] = "finish" /\ pc' = [pc EXCEPT ![w] = "finalize"]
      \/ pc' = [pc EXCEPT ![w] = "fail"] \/ pc' = [pc EXCEPT ![w] = "nack"]
  <2>1. CASE BeginAttempt(w)
    BY <2>1 DEF BeginAttempt, Fails, Committed, Goto
  <2>2. CASE FinishAttempt(w)
    BY <2>2 DEF FinishAttempt, Fails, Committed, Goto
  <2>3. CASE FailAttempt(w)
    BY <2>3 DEF FailAttempt, Goto
  <2> QED
    BY <2>1, <2>2, <2>3
<1>4. Task(w) \in Tasks /\ Task(w)' = Task(w)
  BY <1>1, Holding DEF Task
<1>5. TypeOK'
  BY <1>1, <1>2, <1>3 DEF QueueOK, Inv, TypeOK, clientVars
<1>6. StoreOK' /\ Grows
  BY <1>1, <1>2 DEF Inv, StoreOK, Grows
<1>7. HandlersOK'
  <2>1. ASSUME NEW v \in Workers \ {w} PROVE HandlerOK(v)'
    <3>1. Untouched(v)
      BY <1>1, <1>3 DEF Untouched, Inv, TypeOK
    <3> QED
      BY <1>6, <3>1, OthersKept
  <2>2. HandlerOK(w)'
    BY <1>1, <1>2, <1>3, <1>4 DEF Inv, TypeOK, HandlersOK, HandlerOK
  <2> QED
    BY <2>1, <2>2 DEF HandlersOK
<1>8. KeysOK'
  BY <1>1, KeysKept DEF clientVars
<1> QED
  BY <1>5, <1>6, <1>7, <1>8 DEF Inv

\* What a claim or a finalization that takes effect does to the execution.
StatusSet(w, to) ==
    /\ status' = [status EXCEPT ![Task(w)] = to]
    /\ \E type \in {"Started", "Finished"} : Record(Task(w), type)

LEMMA StatusStepInv ==
  ASSUME QueueOK, QueueOK', Inv, NEW w \in Workers, Claim(w) \/ Finalize(w)
  PROVE  Inv'
<1>1. /\ pc[w] \in {"claim", "finalize"}
      /\ UNCHANGED <<row, held, attempts, clientVars, seen, outcome>>
  BY QuietQueue DEF Claim, Finalize, Fails, Committed, storeVars
<1>2. Task(w) \in Tasks /\ Task(w)' = Task(w) /\ held[w].attempt \in Nat
      /\ status[Task(w)] \in ExecutionStatus
  BY <1>1, Holding DEF Task
<1>3. \/ UNCHANGED <<status, results, events>>
      \/ StatusSet(w, "Running") /\ UNCHANGED results
      \/ /\ pc[w] = "finalize" /\ StatusSet(w, outcome[w])
         /\ results' = [results EXCEPT ![Task(w)] = @ \union {held[w].attempt}]
  BY DEF Claim, Finalize, Fails, Transition, StatusSet, storeVars
<1>4. \/ /\ pc[w] = "claim" /\ pc' = [pc EXCEPT ![w] = "lookup"]
         /\ StatusSet(w, "Running")
      \/ /\ pc[w] = "finalize" /\ pc' = [pc EXCEPT ![w] = "ack"]
         /\ StatusSet(w, outcome[w])
         /\ results' = [results EXCEPT ![Task(w)] = @ \union {held[w].attempt}]
      \/ pc' = [pc EXCEPT ![w] = "fail"] \/ pc' = [pc EXCEPT ![w] = "nack"]
  BY DEF Claim, Finalize, Fails, Committed, Transition, StatusSet, Goto
<1>5. outcome[w] \in Decided \/ pc[w] = "claim"
  BY <1>1 DEF Inv, HandlersOK, HandlerOK
<1>6. TypeOK'
  <2>1. status' \in [Tasks -> ExecutionStatus \union {"Absent"}]
    BY <1>2, <1>3, <1>5 DEF Inv, TypeOK, StatusSet, Decided, ExecutionStatus
  <2>2. events' \in [Tasks -> SUBSET {"Created", "Queued", "Started", "Finished",
                                     "Failed", "Canceled"}]
        /\ results' \in [Tasks -> SUBSET Nat]
    BY <1>2, <1>3 DEF Inv, TypeOK, StatusSet, Record
  <2>3. pc' \in [Workers -> {"idle", "load", "begin", "claim", "lookup", "run", "finish",
                            "finalize", "fail", "ack", "nack"}]
        /\ \A v \in Workers : pc'[v] = "idle" <=> held'[v] = NoRef
    BY <1>1, <1>4 DEF Inv, TypeOK
  <2> QED
    BY <1>1, <2>1, <2>2, <2>3 DEF QueueOK, Inv, TypeOK, clientVars
<1>7. /\ \A t \in Tasks : status'[t] = "Absent" <=> status[t] = "Absent"
      /\ \A t \in Tasks : status'[t] = status[t] \/ status'[t] \in Decided \union {"Running"}
      /\ \A t \in Tasks : results[t] \subseteq results'[t] /\ events[t] \subseteq events'[t]
  BY <1>2, <1>3, <1>5 DEF Inv, TypeOK, StatusSet, Record, Decided, ExecutionStatus
<1>8. StoreOK' /\ Grows
  BY <1>1, <1>7 DEF Inv, StoreOK, Grows, Decided
<1>9. HandlersOK'
  <2>1. ASSUME NEW v \in Workers \ {w} PROVE HandlerOK(v)'
    <3>1. Untouched(v)
      BY <1>1, <1>4 DEF Untouched, Inv, TypeOK
    <3> QED
      BY <1>8, <3>1, OthersKept
  <2>2. HandlerOK(w)'
    <3>1. HandlerOK(w) /\ pc[w] # "idle" /\ UNCHANGED <<seen, held>>
      BY <1>1 DEF Inv, HandlersOK
    <3>2. /\ seen[w] \notin {"none", "Queued"} => status'[Task(w)] # "Queued"
          /\ seen[w] = "Canceled" => "Canceled" \in events'[Task(w)]
      BY <1>2, <1>7, <3>1 DEF HandlerOK, Decided
    <3>3. /\ pc'[w] \in {"lookup", "ack", "fail", "nack"}
          /\ pc'[w] \in {"lookup", "ack"} => status'[Task(w)] # "Queued"
          /\ pc'[w] = "ack" => held[w].attempt \in results'[Task(w)]
      BY <1>2, <1>4, <1>5 DEF Inv, TypeOK, StatusSet, Decided
    <3> QED
      BY <1>2, <3>1, <3>2, <3>3 DEF HandlerOK
  <2> QED
    BY <2>1, <2>2 DEF HandlersOK
<1>10. KeysOK'
  BY <1>1, <1>7, KeysKept DEF clientVars
<1> QED
  BY <1>6, <1>8, <1>9, <1>10 DEF Inv

\* A handler that returns or dies: its reference is dropped with its locals.
LEMMA ReturnInv ==
  ASSUME QueueOK, QueueOK', Inv, NEW w \in Workers,
         Ack(w) \/ Nack(w) \/ SettleFails(w) \/ Crash(w)
  PROVE  Inv'
<1>1. /\ held[w] # NoRef /\ pc[w] # "idle"
      /\ held' = [held EXCEPT ![w] = NoRef] /\ Return(w)
      /\ UNCHANGED <<storeVars, clientVars>>
  BY DEF Ack, Nack, SettleFails, Crash, Queue!Ack, Queue!Nack, Queue!SettleFails,
         Queue!Crash, Inv, TypeOK
<1>2. StoreOK' /\ Grows
  <2>1. CASE Ack(w)
    <3>1. /\ Task(w) \in Tasks /\ status[Task(w)] # "Queued"
          /\ held[w].attempt \in results[Task(w)] \/ "Canceled" \in events[Task(w)]
      BY <1>1, <2>1, Holding DEF Ack, Inv, HandlersOK, HandlerOK
    <3>2. \A t \in Tasks :
            /\ row'[t].status = "none" <=> row[t].status = "none"
            /\ row'[t].status = "acked" =>
                  \/ row'[t] = row[t]
                  \/ t = Task(w) /\ row'[t].attempt = held[w].attempt
      BY <2>1, AckedRow
    <3> QED
      BY <1>1, <3>1, <3>2 DEF Inv, StoreOK, Grows, storeVars
  <2>2. CASE Nack(w)
    BY <1>1, <2>2, NackKeepsRows, StoreKept
  <2>3. CASE SettleFails(w) \/ Crash(w)
    BY <1>1, <2>3, OwnLoss, StoreKept
  <2> QED
    BY <2>1, <2>2, <2>3
<1>3. TypeOK'
  BY <1>1 DEF QueueOK, Queue!TypeOK, Inv, TypeOK, Return, Goto, storeVars, clientVars
<1>4. HandlersOK'
  <2>1. ASSUME NEW v \in Workers \ {w} PROVE HandlerOK(v)'
    <3>1. Untouched(v)
      BY <1>1 DEF Untouched, QueueOK, Queue!TypeOK, Inv, TypeOK, Return, Goto
    <3> QED
      BY <1>2, <3>1, OthersKept
  <2>2. HandlerOK(w)'
    BY <1>1 DEF Inv, TypeOK, Return, Goto, HandlerOK
  <2> QED
    BY <2>1, <2>2 DEF HandlersOK
<1>5. KeysOK'
  BY <1>1, KeysKept DEF storeVars, clientVars
<1> QED
  BY <1>2, <1>3, <1>4, <1>5 DEF Inv

LEMMA QueueStepInv == ASSUME QueueOK, QueueOK', Inv, QueueStep PROVE Inv'
<1>1. UNCHANGED <<held, storeVars, clientVars, workerVars>>
  BY DEF QueueStep, Queue!Heartbeat, Queue!ReclaimExpiredLeases, Queue!Reclaim, Queue!Tick
<1>2. StoreOK' /\ Grows
  BY <1>1, QueueStepKeepsRows, StoreKept
<1>3. TypeOK'
  BY <1>1 DEF QueueOK, Inv, TypeOK, storeVars, clientVars, workerVars
<1>4. HandlersOK'
  BY <1>1, <1>2, OthersKept DEF HandlersOK, Untouched, workerVars
<1>5. KeysOK'
  BY <1>1, KeysKept DEF storeVars, clientVars
<1> QED
  BY <1>2, <1>3, <1>4, <1>5 DEF Inv

LEMMA StutterInv == ASSUME Inv, UNCHANGED vars PROVE Inv'
<1>1. TypeOK'
  BY DEF Inv, TypeOK, Queue!TypeOK, vars, queueVars, storeVars, clientVars, workerVars
<1>2. StoreOK' /\ KeysOK'
  BY DEF Inv, StoreOK, KeysOK, vars, queueVars, storeVars, clientVars
<1>3. HandlersOK'
  BY DEF Inv, HandlersOK, HandlerOK, Task, vars, queueVars, storeVars, workerVars
<1> QED
  BY <1>1, <1>2, <1>3 DEF Inv

LEMMA NextInv == ASSUME QueueOK, QueueOK', Inv, [Next]_vars PROVE Inv'
<1>1. ASSUME NEW t \in Tasks, Client(t) PROVE Inv'
  BY <1>1, CreateInv, CancelInv DEF Client
<1>2. ASSUME NEW w \in Workers, NEW t \in Tasks, LeaseNext(w, t) \/ LeaseReplyLost(w, t)
      PROVE  Inv'
  BY <1>2, LeaseInv
<1>3. ASSUME NEW w \in Workers, Handler(w) \/ SettleFails(w) \/ Crash(w) PROVE Inv'
  BY <1>3, LocalStepInv, AttemptInv, StatusStepInv, ReturnInv DEF Handler
<1>4. CASE QueueStep
  BY <1>4, QueueStepInv
<1>5. CASE UNCHANGED vars
  BY <1>5, StutterInv
<1> QED
  BY <1>1, <1>2, <1>3, <1>4, <1>5 DEF Next

LEMMA Invariance == Spec => []Inv
<1>1. QueueOK /\ QueueOK' /\ Inv /\ [Next]_vars => Inv'
  BY NextInv
<1> QED
  BY <1>1, InitInv, QueueFacts, PTL DEF Spec
-----------------------------------------------------------------------------
\* The tables, the answers and the handlers' locals keep their types, and a
\* goroutine works on a task exactly while it runs handleOne.
THEOREM TypeCorrect == Spec => []TypeOK
<1>1. Inv => TypeOK
  BY DEF Inv
<1> QED
  BY <1>1, Invariance, PTL

\* Create and enqueue are one transaction, and no worker acknowledges an execution
\* that was not claimed: what waits to be run has a row that can be leased.
THEOREM WaitingIsQueued == Spec => []QueuedWorkIsNotLost
<1>1. Inv => QueuedWorkIsNotLost
  BY DEF Inv, TypeOK, StoreOK, QueuedWorkIsNotLost, Queue!TypeOK, Queue!Row, Queue!RowStatus
<1> QED
  BY <1>1, Invariance, PTL

\* handleOne acknowledges on success only: an acknowledged attempt has stored its
\* results, unless the execution was canceled.
THEOREM AckedIsDecided == Spec => []AckedWasDecided
<1>1. Inv => AckedWasDecided
  BY DEF Inv, StoreOK, AckedWasDecided
<1> QED
  BY <1>1, Invariance, PTL

\* The conflict check of create: retries of a request get one execution, and it is
\* never that of another request body.
THEOREM Idempotent == Spec => []RetriesShareOneExecution
<1>1. Inv => RetriesShareOneExecution
  BY DEF Inv, KeysOK, RetriesShareOneExecution, Answered
<1> QED
  BY <1>1, Invariance, PTL
-----------------------------------------------------------------------------
\* The steps that change a status: the handler's claim and finalization, a cancel
\* that finds the status it read, and the creation of the execution.
LEMMA StatusChange ==
  ASSUME QueueOK, Inv, [Next]_vars, NEW t \in Tasks, status'[t] # status[t]
  PROVE  \/ status[t] = "Absent" /\ status'[t] = "Queued"
         \/ status[t] \in {"Pending", "Queued", "Running"} /\ status'[t] = "Canceled"
         \/ status[t] \notin {"Canceled", "Running"} /\ status'[t] = "Running"
         \/ status[t] # "Queued" /\ status'[t] \in Decided
<1>1. ASSUME NEW u \in Tasks, CreateExecution(u)
      PROVE  status[t] = "Absent" /\ status'[t] = "Queued"
  <2>1. PICK c \in Queue!AppClock : Queue!Enqueue(u, c) /\ status' = [status EXCEPT ![u] = "Queued"]
    BY <1>1 DEF CreateExecution
  <2> QED
    BY <2>1, EnqueuedRow DEF Inv, TypeOK, StoreOK
<1>2. ASSUME NEW u \in Tasks, ReadForCancel(u) \/ CommitCancel(u)
      PROVE  status[t] \in {"Pending", "Queued", "Running"} /\ status'[t] = "Canceled"
  BY <1>2 DEF ReadForCancel, CommitCancel, Transition, storeVars, Inv, TypeOK
<1>3. ASSUME NEW w \in Workers, Claim(w)
      PROVE  status[t] \notin {"Canceled", "Running"} /\ status'[t] = "Running"
  BY <1>3, Holding DEF Claim, Fails, Transition, storeVars, Inv, TypeOK, HandlersOK, HandlerOK
<1>4. ASSUME NEW w \in Workers, Finalize(w)
      PROVE  status[t] # "Queued" /\ status'[t] \in Decided
  BY <1>4, Holding DEF Finalize, Fails, storeVars, Inv, TypeOK, HandlersOK, HandlerOK
<1>5. CASE UNCHANGED status
  BY <1>5
<1> QED
  BY <1>1, <1>2, <1>3, <1>4, <1>5
     DEF Next, Client, Handler, LeaseNext, LeaseReplyLost, Load, BeginAttempt, LookupPlugins,
         RunPlugins, FinishAttempt, FailAttempt, Ack, Nack, SettleFails, Crash, QueueStep,
         Fails, storeVars, vars

\* A worker that read the status before a cancel fails its claim, and one that comes
\* later does not claim: a canceled execution is never set to Running.
THEOREM CanceledStaysOut == Spec => CanceledIsNotRestarted
<1> DEFINE A == \A t \in Tasks : status[t] = "Canceled" => status'[t] # "Running"
<1>1. QueueOK /\ Inv /\ [Next]_vars => A
  BY StatusChange DEF Decided
<1>2. Spec => [][A]_vars
  BY <1>1, QueueFacts, Invariance, PTL DEF Spec
<1> QED
  BY <1>2 DEF CanceledIsNotRestarted

\* While an execution is waiting or running, whatever workers and clients do to it
\* is a transition of ExecutionStateMachine.
THEOREM FollowsStateMachine == Spec => ActiveStepsFollowStateMachine
<1> DEFINE A == \A t \in Tasks :
                  status[t] \in {"Queued", "Running"} /\ status'[t] # status[t]
                    => CanTransit(status[t], status'[t])
<1>1. QueueOK /\ Inv /\ [Next]_vars => A
  BY StatusChange DEF CanTransit, Transitions, Decided
<1>2. Spec => [][A]_vars
  BY <1>1, QueueFacts, Invariance, PTL DEF Spec
<1> QED
  BY <1>2 DEF ActiveStepsFollowStateMachine
=============================================================================
