---------------------------- MODULE DurableQueue ----------------------------
(***************************************************************************)
(* The Postgres task queue (internal/queue/postgres.go) and the part of a  *)
(* durable worker that talks to it (internal/worker/durable_pool.go).      *)
(*                                                                         *)
(* Every SQL statement is one atomic step.  A worker is one leaseLoop      *)
(* goroutine together with the heartbeat goroutine handleOne starts; what  *)
(* the handler does in between is in DurableExecution.  The clock `now` is *)
(* the database's; an application server's clock (time.Now() in Nack and   *)
(* in reclaimLoop) may differ from it by at most Skew.                     *)
(***************************************************************************)
EXTENDS Naturals, FiniteSets

CONSTANTS
    Tasks,          \* task ids (execution ids)
    Workers,        \* leaseLoop goroutines of all server processes
    Pools,          \* worker ids, one for each DurableWorkerPool
    PoolOf,         \* the pool of a goroutine: its goroutines share one worker id
    NoWorker,       \* worker_id = ''
    NoRef,          \* a goroutine that holds no TaskRef
    MaxAttempts,    \* DurableWorkerOptions.MaxAttempts
    LeaseDuration,  \* DurableWorkerOptions.LeaseDuration
    MaxBackoff,     \* DurableWorkerOptions.MaxBackoff
    Skew,           \* bound on |application clock - database clock|
    ManualDLQ,      \* whether somebody calls MoveToDLQ (nothing in the repository does)
    MaxTime,        \* bound: the clock stops here
    MaxFaults,      \* bound: crashes, lost replies, failed calls, missed heartbeats
    MaxBeats        \* bound: successful heartbeats

ASSUME QueueAssumption ==
    /\ PoolOf \in [Workers -> Pools]
    /\ NoWorker \notin Pools
    /\ MaxAttempts \in Nat \ {0}
    /\ LeaseDuration \in Nat \ {0}
    /\ MaxBackoff \in Nat \ {0}
    /\ Skew \in Nat
    /\ ManualDLQ \in BOOLEAN
    /\ {MaxTime, MaxFaults, MaxBeats} \subseteq Nat

\* Arithmetic the provers do not know: powers of two are natural numbers.
ASSUME PowerAssumption == \A n \in 0..MaxBackoff : 2^n \in Nat

VARIABLES
    now,        \* the database clock
    row,        \* task_queue, one row per task
    lastLease,  \* leases handed out so far: gen_random_uuid() never repeats
    held,       \* the TaskRef the goroutine's handler is working on
    beat,       \* the TaskRef its heartbeat goroutine extends
    faults,     \* faults so far
    beats       \* heartbeats so far

vars == <<now, row, lastLease, held, beat, faults, beats>>

RowStatus == {"none", "ready", "leased", "acked", "dlq"}

Row == [status : RowStatus, attempt : Nat, availableAt : Nat, createdAt : Nat,
        leaseId : Nat, leaseUntil : Nat, worker : Pools \union {NoWorker}]

\* A value of TaskRef; `until` is TaskRef.LeaseUntil.
Ref == [task : Tasks, leaseId : Nat, attempt : Nat, until : Nat]

ASSUME NoRefAssumption == NoRef \notin Ref

NoRow == [status |-> "none", attempt |-> 0, availableAt |-> 0, createdAt |-> 0,
          leaseId |-> 0, leaseUntil |-> 0, worker |-> NoWorker]

\* The readings an application server's time.Now() can give.
AppClock == (IF now > Skew THEN now - Skew ELSE 0)..(now + Skew)

\* min(2^(attempt-1), maxBackoff) seconds; 2^n > n, so large powers are not needed.
\* Attempts so many that the conversion to a Duration overflows are left out.
Backoff(attempt) ==
    LET n == IF attempt = 0 THEN 0 ELSE attempt - 1
    IN  IF n >= MaxBackoff THEN MaxBackoff
        ELSE IF 2^n > MaxBackoff THEN MaxBackoff ELSE 2^n

Fault == faults < MaxFaults /\ faults' = faults + 1
-----------------------------------------------------------------------------
\* ON CONFLICT DO NOTHING; available_at is the caller's clock, created_at is ours.
Enqueue(t, clock) ==
    /\ row[t].status = "none"
    /\ row' = [row EXCEPT ![t] = [NoRow EXCEPT !.status = "ready",
                                               !.availableAt = clock, !.createdAt = now]]
    /\ UNCHANGED <<now, lastLease, held, beat, faults, beats>>

Visible(t) == row[t].status = "ready" /\ row[t].availableAt <= now

\* ORDER BY available_at ASC, created_at ASC
NotAfter(t, u) ==
    \/ row[t].availableAt < row[u].availableAt
    \/ row[t].availableAt = row[u].availableAt /\ row[t].createdAt <= row[u].createdAt

\* Mutant: the row's attempt number is not incremented.
Lease_SameAttempt(w, t) ==
    /\ held[w] = NoRef
    /\ Visible(t)
    /\ \A u \in Tasks : Visible(u) => NotAfter(t, u)
    /\ lastLease' = lastLease + 1
    /\ row' = [row EXCEPT ![t].status = "leased", ![t].worker = PoolOf[w],
                          ![t].leaseId = lastLease + 1,
                          ![t].leaseUntil = now + LeaseDuration]

Lease(w, t) ==
    /\ held[w] = NoRef
    /\ Visible(t)
    /\ \A u \in Tasks : Visible(u) => NotAfter(t, u)
    /\ lastLease' = lastLease + 1
    /\ row' = [row EXCEPT ![t].status = "leased", ![t].worker = PoolOf[w],
                          ![t].leaseId = lastLease + 1,
                          ![t].leaseUntil = now + LeaseDuration,
                          ![t].attempt = @ + 1]

\* A tick of leaseLoop: LeaseNext hands a task out and handleOne starts on it.
LeaseNext(w, t) ==
    /\ Lease(w, t)
    /\ held' = [held EXCEPT ![w] = [task |-> t, leaseId |-> lastLease + 1,
                                    attempt |-> row[t].attempt + 1,
                                    until |-> now + LeaseDuration]]
    /\ beat' = [beat EXCEPT ![w] = held'[w]]
    /\ UNCHANGED <<now, faults, beats>>

\* LeaseNext commits but its caller gets an error: nobody works under the lease.
LeaseReplyLost(w, t) ==
    /\ Lease(w, t)
    /\ Fault
    /\ UNCHANGED <<now, held, beat, beats>>

\* Mutant: the lease id is left out of the WHERE clause.
Matches_AnyLease(r, w) == row[r.task].worker = PoolOf[w]

\* WHERE task_id=$1 AND lease_id=$2 AND worker_id=$3
Matches(r, w) == row[r.task].leaseId = r.leaseId /\ row[r.task].worker = PoolOf[w]

\* Mutant: the row may have any status.
Heartbeat_AnyStatus(w) ==
    /\ beat[w] # NoRef
    /\ Matches(beat[w], w)
    /\ beats < MaxBeats
    /\ beats' = beats + 1
    /\ row' = [row EXCEPT ![beat[w].task].leaseUntil = now + LeaseDuration]
    /\ UNCHANGED <<now, lastLease, held, beat, faults>>

\* A statement still in flight may land after handleOne has settled the task,
\* so the heartbeat's reference outlives `held`.  A refused heartbeat is ignored.
Heartbeat(w) ==
    /\ beat[w] # NoRef
    /\ Matches(beat[w], w)
    /\ row[beat[w].task].status = "leased"
    /\ beats < MaxBeats
    /\ beats' = beats + 1
    /\ row' = [row EXCEPT ![beat[w].task].leaseUntil = now + LeaseDuration]
    /\ UNCHANGED <<now, lastLease, held, beat, faults>>

\* Neither Ack nor Nack looks at the row's status or tells its caller that no
\* row matched; handleOne returns either way.
Ack(w) ==
    /\ held[w] # NoRef
    /\ row' = IF Matches(held[w], w)
              THEN [row EXCEPT ![held[w].task].status = "acked"]
              ELSE row
    /\ held' = [held EXCEPT ![w] = NoRef]
    /\ UNCHANGED <<now, lastLease, beat, faults, beats>>

\* The row as it is given back: nobody's, in status s from time `at` on.
Released(r, s, at) ==
    [r EXCEPT !.status = s, !.availableAt = at,
              !.leaseId = 0, !.leaseUntil = 0, !.worker = NoWorker]

NackedRow(r, clock, retryable) ==
    Released(r, IF r.attempt >= MaxAttempts \/ ~retryable THEN "dlq" ELSE "ready",
             clock + Backoff(r.attempt))

\* handleOne always passes Retryable and the pool's MaxAttempts.
Nack(w, clock) ==
    /\ held[w] # NoRef
    /\ row' = IF Matches(held[w], w)
              THEN [row EXCEPT ![held[w].task] = NackedRow(@, clock, TRUE)]
              ELSE row
    /\ held' = [held EXCEPT ![w] = NoRef]
    /\ UNCHANGED <<now, lastLease, beat, faults, beats>>

\* The Ack or Nack fails (Stop has canceled its context, the connection is
\* gone): the error is dropped and the row stays leased.
SettleFails(w) ==
    /\ held[w] # NoRef
    /\ Fault
    /\ held' = [held EXCEPT ![w] = NoRef]
    /\ UNCHANGED <<now, row, lastLease, beat, beats>>

\* The process dies; a new one starts with an idle goroutine.
Crash(w) ==
    /\ held[w] # NoRef
    /\ Fault
    /\ held' = [held EXCEPT ![w] = NoRef]
    /\ beat' = [beat EXCEPT ![w] = NoRef]
    /\ UNCHANGED <<now, row, lastLease, beats>>

\* Mutants: a lease still good at the instant it ends; the comparison reversed.
Expired_Inclusive(clock) ==
    {t \in Tasks : row[t].status = "leased" /\ row[t].leaseUntil <= clock}
Expired_Reversed(clock) ==
    {t \in Tasks : row[t].status = "leased" /\ row[t].leaseUntil > clock}

Expired(clock) == {t \in Tasks : row[t].status = "leased" /\ row[t].leaseUntil < clock}

\* The task's owner is alive and still extends its lease.
Attended(t) == \E w \in Workers :
    held[w] # NoRef /\ held[w].task = t /\ Matches(held[w], w)

\* Mutants: a status the table's CHECK refuses; the lease id left in the row.
Reclaim_Expires(clock, S) ==
    /\ S # {} /\ S \subseteq Expired(clock)
    /\ IF \E t \in S : Attended(t) THEN Fault ELSE UNCHANGED faults
    /\ row' = [t \in Tasks |-> IF t \in S THEN [row[t] EXCEPT !.status = "expired"]
                                          ELSE row[t]]
    /\ UNCHANGED <<now, lastLease, held, beat, beats>>
Reclaim_KeepsLease(clock, S) ==
    /\ S # {} /\ S \subseteq Expired(clock)
    /\ IF \E t \in S : Attended(t) THEN Fault ELSE UNCHANGED faults
    /\ row' = [t \in Tasks |-> IF t \in S THEN [row[t] EXCEPT !.status = "ready",
                                                             !.availableAt = now]
                                          ELSE row[t]]
    /\ UNCHANGED <<now, lastLease, held, beat, beats>>

\* One statement reclaims several rows; SKIP LOCKED and LIMIT may leave some out.
\* A live worker loses its lease only when its heartbeats fail, which is a fault.
Reclaim(clock, S) ==
    /\ S # {} /\ S \subseteq Expired(clock)
    /\ IF \E t \in S : Attended(t) THEN Fault ELSE UNCHANGED faults
    /\ row' = [t \in Tasks |-> IF t \in S THEN Released(row[t], "ready", now) ELSE row[t]]
    /\ UNCHANGED <<now, lastLease, held, beat, beats>>

ReclaimExpiredLeases == \E c \in AppClock, S \in SUBSET Tasks : Reclaim(c, S)

\* Mutant: the retry counter is reset with the move.
MoveToDLQ_ResetsAttempts(t) ==
    /\ ManualDLQ
    /\ row[t].status \notin {"none", "dlq"}
    /\ row' = [row EXCEPT ![t].status = "dlq", ![t].attempt = 0]
    /\ UNCHANGED <<now, lastLease, held, beat, faults, beats>>

MoveToDLQ(t) ==
    /\ ManualDLQ
    /\ row[t].status \notin {"none", "dlq"}
    /\ row' = [row EXCEPT ![t].status = "dlq"]
    /\ UNCHANGED <<now, lastLease, held, beat, faults, beats>>

\* A call of somebody else's fails; it counts against the same bound.
OtherFault == Fault /\ UNCHANGED <<now, row, lastLease, held, beat, beats>>

\* The clock is stopped while nothing in the queue waits for it.
Waiting(t) ==
    \/ row[t].status = "ready" /\ row[t].availableAt > now
    \/ row[t].status = "leased" /\ row[t].leaseUntil + Skew >= now

Tick ==
    /\ now < MaxTime
    /\ \E t \in Tasks : Waiting(t)
    /\ now' = now + 1
    /\ UNCHANGED <<row, lastLease, held, beat, faults, beats>>
-----------------------------------------------------------------------------
Init ==
    /\ now = 0
    /\ row = [t \in Tasks |-> NoRow]
    /\ lastLease = 0
    /\ held = [w \in Workers |-> NoRef]
    /\ beat = [w \in Workers |-> NoRef]
    /\ faults = 0
    /\ beats = 0

Worker(w) ==
    \/ \E t \in Tasks : LeaseNext(w, t) \/ LeaseReplyLost(w, t)
    \/ Heartbeat(w)
    \/ Ack(w)
    \/ \E c \in AppClock : Nack(w, c)
    \/ SettleFails(w)
    \/ Crash(w)

Next ==
    \/ \E t \in Tasks : \/ \E c \in AppClock : Enqueue(t, c)
                        \/ MoveToDLQ(t)
    \/ \E w \in Workers : Worker(w)
    \/ ReclaimExpiredLeases
    \/ OtherFault
    \/ Tick

Spec == Init /\ [][Next]_vars

\* leaseLoop polls, handlers return (every plugin run has a timeout) and their
\* result is delivered, reclaimLoop ticks, time passes.
Settles(w) == Ack(w) \/ \E c \in AppClock : Nack(w, c)

Fairness ==
    /\ \A w \in Workers : WF_vars(\E t \in Tasks : LeaseNext(w, t))
    /\ \A w \in Workers : WF_vars(Settles(w))
    /\ WF_vars(Reclaim(now, {t \in Expired(now) : ~Attended(t)}))
    /\ WF_vars(Tick)

FairSpec == Spec /\ Fairness
-----------------------------------------------------------------------------
TypeOK ==
    /\ now \in Nat
    /\ row \in [Tasks -> Row]
    /\ lastLease \in Nat
    /\ held \in [Workers -> Ref \union {NoRef}]
    /\ beat \in [Workers -> Ref \union {NoRef}]
    /\ faults \in Nat
    /\ beats \in Nat

\* A worker whose lease has not run out by the slowest clock still owns the
\* row: no other worker is given the task while its lease lasts, whatever
\* reclaimLoop, heartbeats and other workers' late Acks and Nacks do.
LiveLeaseIsExclusive ==
    \A w \in Workers :
        held[w] # NoRef /\ now + Skew <= held[w].until
            => row[held[w].task].leaseId = held[w].leaseId

\* The leases of a task are ordered by their attempt numbers, and a worker is
\* either the holder of the last one or fenced off: if the row carries its
\* lease then it carries its attempt number and no other worker has it.
LeasesAreFenced ==
    \A w \in Workers : held[w] # NoRef =>
        /\ held[w].attempt <= row[held[w].task].attempt
        /\ row[held[w].task].leaseId = held[w].leaseId
              => row[held[w].task].attempt = held[w].attempt
        /\ \A t \in Tasks \ {held[w].task} : row[t].leaseId # held[w].leaseId
        /\ \A v \in Workers \ {w} : held[v] # NoRef => held[v].leaseId # held[w].leaseId

\* Ack and Nack under an old lease leave the row alone: a task is acknowledged
\* or dead-lettered only by the worker the queue last gave it to.
OnlyOwnerSettles ==
    [][\A t \in Tasks :
          row[t].status = "leased" /\ row'[t].status \in {"acked", "dlq"}
              => \E w \in Workers : /\ held[w] # NoRef /\ held'[w] = NoRef
                                    /\ held[w].task = t
                                    /\ held[w].attempt = row[t].attempt]_vars

\* An acknowledged or dead-lettered row is never touched again: not by a
\* heartbeat that lands late, an Ack or Nack of an old lease, or a reclaim.
SettledIsFinal ==
    [][\A t \in Tasks : row[t].status \in {"acked", "dlq"} => row'[t] = row[t]]_vars

\* A task the queue holds is eventually acknowledged or dead-lettered although
\* workers die, replies get lost and leases are taken away.
EveryTaskSettles ==
    \A t \in Tasks : row[t].status = "ready" ~> row[t].status \in {"acked", "dlq"}

\* "DLQ after max attempts" (RFC 0005).
AttemptsAreLimited == \A t \in Tasks : row[t].attempt <= MaxAttempts

\* The queue keeps the contract of LeasedWork.
Abstract == INSTANCE LeasedWork WITH
    state <- [t \in Tasks |-> row[t].status],
    owner <- [t \in Tasks |-> row[t].leaseId],
    issued <- lastLease,
    working <- {held[w].leaseId : w \in {v \in Workers : held[v] # NoRef}}

KeepsContract == Abstract!Spec
=============================================================================
