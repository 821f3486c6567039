------------------------- MODULE DurableQueueProofs -------------------------
(***************************************************************************)
(* Proofs about DurableQueue for any number of tasks and workers and every *)
(* lease duration, retry limit and clock skew.                             *)
(***************************************************************************)
EXTENDS DurableQueue, TLAPS

\* Lease ids in rows are old ids, no two rows share one, and a row has one from
\* its lease until it is reclaimed or given back.
RowsOK ==
    /\ \A t \in Tasks :
          /\ row[t].leaseId <= lastLease
          /\ row[t].status \in {"none", "ready"} => row[t].leaseId = 0
          /\ row[t].status = "none" => row[t].attempt = 0
          /\ row[t].status = "leased" => row[t].leaseId # 0
          /\ ~ManualDLQ /\ row[t].status = "dlq" => row[t].leaseId = 0
    /\ \A t, u \in Tasks : row[t].leaseId = row[u].leaseId /\ t # u => row[t].leaseId = 0

\* What a worker's reference r has in common with the table: r was issued, and as
\* long as the row carries r's lease it carries r's attempt and r's promised time.
RefOK(r) ==
    /\ r.leaseId # 0 /\ r.leaseId <= lastLease
    /\ r.attempt # 0 /\ r.attempt <= row[r.task].attempt
    /\ r.until <= now + LeaseDuration
    /\ row[r.task].leaseId = r.leaseId =>
          /\ row[r.task].attempt = r.attempt
          /\ r.until <= row[r.task].leaseUntil
          /\ row[r.task].status # "acked"
    /\ \A t \in Tasks \ {r.task} : row[t].leaseId # r.leaseId
    /\ now + Skew <= r.until => row[r.task].leaseId = r.leaseId

HeldOK ==
    /\ \A w \in Workers : held[w] # NoRef => RefOK(held[w])
    /\ \A v, w \in Workers :
          held[v] # NoRef /\ held[w] # NoRef /\ held[v].leaseId = held[w].leaseId => v = w

\* The inductive invariant: LiveLeaseIsExclusive and LeasesAreFenced are not
\* inductive without the bookkeeping of lease ids and promised times.
Inv == TypeOK /\ RowsOK /\ HeldOK
-----------------------------------------------------------------------------
\* The delay a Nack adds is a number of seconds.
LEMMA BackoffType == ASSUME NEW n \in Nat PROVE Backoff(n) \in Nat
  BY QueueAssumption, PowerAssumption DEF Backoff

\* An application clock reads a time at most Skew away from the database's.
LEMMA ClockType == ASSUME now \in Nat, NEW c \in AppClock
                   PROVE  c \in Nat /\ c <= now + Skew
  BY QueueAssumption DEF AppClock

\* Giving a row back clears its lease and keeps its attempt number.
LEMMA ReleasedRow ==
  ASSUME NEW r \in Row, NEW s \in RowStatus, NEW at \in Nat
  PROVE  /\ Released(r, s, at) \in Row
         /\ Released(r, s, at).leaseId = 0
         /\ Released(r, s, at).status = s
         /\ Released(r, s, at).attempt = r.attempt
  BY DEF Released, Row

\* A statement that writes one row leaves the others alone.
LEMMA WrittenRow ==
  ASSUME row \in [Tasks -> Row], NEW t \in Tasks, NEW r \in Row, row' = [row EXCEPT ![t] = r]
  PROVE  /\ row' \in [Tasks -> Row]
         /\ row'[t] = r
         /\ \A u \in Tasks \ {t} : row'[u] = row[u]
  OBVIOUS

\* The row a lease and a heartbeat write.
LeasedRow(r, p, id, until, at) ==
    [r EXCEPT !.status = "leased", !.worker = p, !.leaseId = id,
              !.leaseUntil = until, !.attempt = at]

LEMMA ExtendedRow ==
  ASSUME NEW r \in Row, NEW until \in Nat
  PROVE  LET new == [r EXCEPT !.leaseUntil = until]
         IN  /\ new \in Row /\ new.status = r.status /\ new.leaseId = r.leaseId
             /\ new.attempt = r.attempt /\ new.leaseUntil = until
  BY DEF Row

\* What a move to another status writes.
LEMMA MovedRow ==
  ASSUME NEW r \in Row, NEW s \in RowStatus
  PROVE  LET new == [r EXCEPT !.status = s]
         IN  /\ new \in Row /\ new.status = s /\ new.leaseId = r.leaseId
             /\ new.attempt = r.attempt /\ new.leaseUntil = r.leaseUntil
  BY DEF Row

LEMMA InitInv == Init => Inv
  BY QueueAssumption DEF Init, Inv, TypeOK, RowsOK, HeldOK, NoRow, Row, RowStatus

LEMMA EnqueueInv ==
  ASSUME Inv, NEW t \in Tasks, NEW c \in AppClock, Enqueue(t, c) PROVE Inv'
<1> USE QueueAssumption DEF Inv
<1>1. c \in Nat
  BY ClockType DEF TypeOK
<1>2. TypeOK'
  BY <1>1 DEF TypeOK, Enqueue, Row, RowStatus, NoRow
<1>3. RowsOK'
  BY <1>1 DEF TypeOK, RowsOK, Enqueue, Row, RowStatus, NoRow
<1>4. HeldOK'
  BY <1>1 DEF TypeOK, RowsOK, HeldOK, RefOK, Enqueue, Row, RowStatus, NoRow, Ref
<1> QED
  BY <1>2, <1>3, <1>4

LEMMA LeaseInv ==
  ASSUME Inv, NEW w \in Workers, NEW t \in Tasks, LeaseNext(w, t) \/ LeaseReplyLost(w, t)
  PROVE  Inv'
<1> USE QueueAssumption, NoRefAssumption DEF Inv
<1> DEFINE ref == [task |-> t, leaseId |-> lastLease + 1, attempt |-> row[t].attempt + 1,
                   until |-> now + LeaseDuration]
           new == LeasedRow(row[t], PoolOf[w], lastLease + 1, now + LeaseDuration,
                            row[t].attempt + 1)
<1>1. /\ row[t].status = "ready" /\ row[t].leaseId = 0 /\ row[t] \in Row
      /\ lastLease \in Nat /\ lastLease' = lastLease + 1
      /\ now \in Nat /\ now' = now /\ PoolOf[w] \in Pools
  BY DEF LeaseNext, LeaseReplyLost, Lease, Visible, TypeOK, RowsOK
<1>2. /\ new \in Row /\ new.status = "leased" /\ new.leaseId = lastLease + 1
      /\ new.attempt = row[t].attempt + 1 /\ new.leaseUntil = now + LeaseDuration
      /\ ref \in Ref /\ new.attempt # 0 /\ new.leaseId # 0
  <2>1. row[t].attempt + 1 \in Nat /\ lastLease + 1 \in Nat /\ now + LeaseDuration \in Nat
    BY <1>1 DEF Row
  <2>2. row[t].attempt + 1 # 0 /\ lastLease + 1 # 0
    BY <1>1 DEF Row
  <2>3. ref \in Ref
    BY <2>1 DEF Ref
  <2> DEFINE id == lastLease + 1  until == now + LeaseDuration  at == row[t].attempt + 1
  <2>4. id \in Nat /\ until \in Nat /\ at \in Nat /\ id # 0 /\ at # 0
    BY <2>1, <2>2
  <2>5. new = LeasedRow(row[t], PoolOf[w], id, until, at)
    OBVIOUS
  <2> HIDE DEF new, id, until, at
  <2>6. /\ new \in Row /\ new.status = "leased" /\ new.leaseId = id
        /\ new.attempt = at /\ new.leaseUntil = until
    BY <1>1, <2>4, <2>5 DEF LeasedRow, Row, RowStatus
  <2>7. id = lastLease + 1 /\ until = now + LeaseDuration /\ at = row[t].attempt + 1
    BY DEF id, until, at
  <2> HIDE DEF ref
  <2> QED
    BY <2>3, <2>4, <2>6, <2>7
<1>3. row' = [row EXCEPT ![t] = new]
  BY DEF LeaseNext, LeaseReplyLost, Lease, TypeOK, LeasedRow
<1> HIDE DEF new
<1>4. /\ row' \in [Tasks -> Row] /\ row'[t] = new
      /\ \A u \in Tasks \ {t} : row'[u] = row[u]
  BY <1>2, <1>3, WrittenRow DEF TypeOK
<1>5. TypeOK'
  <2>1. held' \in [Workers -> Ref \union {NoRef}] /\ beat' \in [Workers -> Ref \union {NoRef}]
    BY <1>2 DEF TypeOK, LeaseNext, LeaseReplyLost
  <2>2. faults' \in Nat /\ beats' \in Nat
    BY DEF TypeOK, LeaseNext, LeaseReplyLost, Fault
  <2> QED
    BY <1>1, <1>4, <2>1, <2>2 DEF TypeOK
<1>6. RowsOK'
  <2>1. \A u \in Tasks \ {t} : row[u] \in Row /\ row[u].leaseId \in Nat
    BY DEF TypeOK, Row
  <2> QED
    BY <1>1, <1>2, <1>4, <2>1 DEF RowsOK
<1>7. ASSUME NEW v \in Workers, held[v] # NoRef
      PROVE  RefOK(held[v])'  \/ held'[v] # held[v]
  <2>1. held[v] \in Ref /\ RefOK(held[v]) /\ row[held[v].task] \in Row
    BY <1>7 DEF TypeOK, HeldOK, Ref
  <2>2. held[v].leaseId # row'[t].leaseId /\ held[v].leaseId # row[t].leaseId
    BY <1>1, <1>2, <1>4, <2>1 DEF RefOK, Ref
  <2>3. held[v].task # t => row'[held[v].task] = row[held[v].task]
    BY <1>4, <2>1 DEF Ref
  <2>4. held[v].leaseId \in Nat /\ held[v].attempt \in Nat /\ row[t].attempt \in Nat
    BY <1>1, <2>1 DEF Ref, Row
  <2>5. ~(now + Skew <= held[v].until /\ held[v].task = t)
    BY <1>1, <2>1, <2>2 DEF RefOK
  <2>6. held[v].attempt <= row'[held[v].task].attempt
    BY <1>2, <1>4, <2>1, <2>3, <2>4 DEF RefOK
  <2> QED
    BY <1>1, <1>4, <2>1, <2>2, <2>3, <2>4, <2>5, <2>6 DEF RefOK
<1>8. ASSUME LeaseNext(w, t) PROVE RefOK(held[w])'
  <2>1. \A u \in Tasks \ {t} : row'[u].leaseId # lastLease + 1
    BY <1>1, <1>4 DEF RowsOK, TypeOK, Row
  <2>2. /\ held'[w].task = t /\ held'[w].leaseId = lastLease + 1
        /\ held'[w].attempt = row[t].attempt + 1 /\ held'[w].until = now + LeaseDuration
    BY <1>8 DEF TypeOK, LeaseNext
  <2>3. row[t].attempt + 1 \in Nat /\ now + LeaseDuration \in Nat
    BY <1>1 DEF Row
  <2> QED
    BY <1>1, <1>2, <1>4, <2>1, <2>2, <2>3 DEF RefOK
<1>9. HeldOK'
  <2>1. CASE LeaseReplyLost(w, t)
    BY <1>7, <2>1 DEF TypeOK, HeldOK, LeaseReplyLost
  <2>2. CASE LeaseNext(w, t)
    <3>1. \A v \in Workers \ {w} : held'[v] = held[v]
      BY <2>2 DEF TypeOK, LeaseNext
    <3>2. \A v \in Workers : held[v] # NoRef => held[v].leaseId # lastLease + 1
      BY <1>1 DEF TypeOK, HeldOK, RefOK, Ref
    <3>3. held'[w].leaseId = lastLease + 1
      BY <2>2 DEF TypeOK, LeaseNext
    <3> QED
      BY <1>7, <1>8, <2>2, <3>1, <3>2, <3>3 DEF HeldOK
  <2> QED
    BY <2>1, <2>2
<1> QED
  BY <1>5, <1>6, <1>9

LEMMA HeartbeatInv == ASSUME Inv, NEW w \in Workers, Heartbeat(w) PROVE Inv'
<1> USE QueueAssumption DEF Inv
<1> DEFINE t   == beat[w].task
           new == [row[t] EXCEPT !.leaseUntil = now + LeaseDuration]
<1>1. /\ t \in Tasks /\ row[t] \in Row /\ now + LeaseDuration \in Nat
      /\ row' = [row EXCEPT ![t] = new]
  BY DEF Heartbeat, TypeOK, Ref
<1>2. /\ new \in Row /\ new.status = row[t].status /\ new.leaseId = row[t].leaseId
      /\ new.attempt = row[t].attempt /\ new.leaseUntil = now + LeaseDuration
  BY <1>1, ExtendedRow
<1> HIDE DEF new, t
<1>3. /\ row' \in [Tasks -> Row] /\ row'[t] = new
      /\ \A u \in Tasks \ {t} : row'[u] = row[u]
  BY <1>1, <1>2, WrittenRow DEF TypeOK
<1>4. TypeOK'
  BY <1>3 DEF TypeOK, Heartbeat
<1>5. \A u \in Tasks : /\ row'[u].status = row[u].status
                       /\ row'[u].leaseId = row[u].leaseId
                       /\ row'[u].attempt = row[u].attempt
  BY <1>2, <1>3
<1>6. now' = now /\ lastLease' = lastLease /\ held' = held
  BY DEF Heartbeat
<1>7. RowsOK'
  BY <1>5, <1>6 DEF RowsOK
<1>8. ASSUME NEW v \in Workers, held[v] # NoRef PROVE RefOK(held[v])'
  <2>1. held[v].task \in Tasks /\ RefOK(held[v])
    BY <1>8 DEF TypeOK, HeldOK, Ref
  <2>2. row[held[v].task].leaseId = held[v].leaseId
          => held[v].until <= row'[held[v].task].leaseUntil
    BY <1>2, <1>3, <2>1 DEF RefOK
  <2> QED
    BY <1>5, <1>6, <2>1, <2>2 DEF RefOK
<1>9. HeldOK'
  BY <1>6, <1>8 DEF HeldOK
<1> QED
  BY <1>4, <1>7, <1>9

LEMMA AckInv == ASSUME Inv, NEW w \in Workers, Ack(w) PROVE Inv'
<1> USE QueueAssumption DEF Inv
<1> DEFINE r   == row[held[w].task]
           new == [r EXCEPT !.status = "acked"]
           hit == {t \in {held[w].task} : Matches(held[w], w)}
<1>1. held[w] \in Ref /\ RefOK(held[w]) /\ held[w].task \in Tasks /\ r \in Row
  BY DEF Ack, TypeOK, HeldOK, Ref
<1>2. /\ new \in Row /\ new.status = "acked"
      /\ new.leaseId = r.leaseId /\ new.attempt = r.attempt /\ new.leaseUntil = r.leaseUntil
  BY <1>1, MovedRow DEF RowStatus
<1>3. row' = IF Matches(held[w], w) THEN [row EXCEPT ![held[w].task] = new] ELSE row
  BY <1>1 DEF Ack, TypeOK
<1> HIDE DEF new
<1>4. /\ row' \in [Tasks -> Row]
      /\ \A t \in Tasks \ hit : row'[t] = row[t]
      /\ \A t \in hit : row'[t] = new /\ t = held[w].task /\ row[t].leaseId = held[w].leaseId
  BY <1>1, <1>2, <1>3, WrittenRow DEF TypeOK, Matches
<1> HIDE DEF hit
<1>5. TypeOK'
  BY <1>4 DEF TypeOK, Ack
<1>6. \A t \in Tasks : row'[t].leaseId = row[t].leaseId
  BY <1>2, <1>4
<1>7. RowsOK'
  <2>1. lastLease' = lastLease /\ held[w].leaseId # 0
    BY <1>1 DEF Ack, RefOK
  <2>2. \A t \in Tasks : row'[t] = row[t] \/ row'[t].status = "acked"
    BY <1>2, <1>4
  <2> QED
    BY <1>6, <2>1, <2>2 DEF RowsOK
<1>8. ASSUME NEW v \in Workers, held'[v] # NoRef
      PROVE  RefOK(held[v])' /\ held'[v] = held[v]
  <2>1. /\ v # w /\ held'[v] = held[v] /\ held[v] # NoRef
        /\ RefOK(held[v]) /\ held[v].task \in Tasks
    BY <1>8 DEF TypeOK, HeldOK, Ack, Ref
  <2>2. held[v].leaseId # held[w].leaseId
    BY <1>1, <2>1 DEF HeldOK, Ack
  <2>3. held[v].task \in hit => row[held[v].task].leaseId # held[v].leaseId
    BY <1>4, <2>2
  <2>4. row'[held[v].task].attempt = row[held[v].task].attempt
    BY <1>2, <1>4, <2>1
  <2>5. held[v].task \notin hit => row'[held[v].task] = row[held[v].task]
    BY <1>4, <2>1
  <2>6. now' = now /\ lastLease' = lastLease
    BY DEF Ack
  <2> QED
    BY <1>6, <2>1, <2>3, <2>4, <2>5, <2>6 DEF RefOK
<1>9. HeldOK'
  BY <1>8 DEF HeldOK, TypeOK
<1> QED
  BY <1>5, <1>7, <1>9

LEMMA NackInv == ASSUME Inv, NEW w \in Workers, NEW c \in AppClock, Nack(w, c) PROVE Inv'
<1> USE QueueAssumption DEF Inv
<1> DEFINE new == NackedRow(row[held[w].task], c, TRUE)
<1>1. held[w] \in Ref /\ RefOK(held[w]) /\ row[held[w].task] \in Row
  BY DEF Nack, TypeOK, HeldOK, Ref
<1>2. /\ new \in Row
      /\ new.leaseId = 0 /\ new.status \in {"ready", "dlq"}
      /\ new.attempt = row[held[w].task].attempt
  <2>1. c \in Nat /\ Backoff(row[held[w].task].attempt) \in Nat
    BY <1>1, ClockType, BackoffType DEF TypeOK, Row
  <2> DEFINE r == row[held[w].task]
             to == IF r.attempt >= MaxAttempts \/ ~TRUE THEN "dlq" ELSE "ready"
             at == c + Backoff(r.attempt)
  <2>2. at \in Nat /\ to \in {"ready", "dlq"} /\ to \in RowStatus /\ r \in Row
    BY <1>1, <2>1 DEF RowStatus
  <2>3. new = Released(r, to, at)
    BY DEF NackedRow
  <2> HIDE DEF r, to, at, new
  <2>4. new \in Row /\ new.leaseId = 0 /\ new.status = to /\ new.attempt = r.attempt
    BY <2>2, <2>3, ReleasedRow
  <2> QED
    BY <2>2, <2>4 DEF r
<1> HIDE DEF new
<1> DEFINE hit == {t \in {held[w].task} : Matches(held[w], w)}
<1>3. /\ \A t \in Tasks \ hit : row'[t] = row[t]
      /\ \A t \in hit : row'[t] = new /\ t = held[w].task /\ row[t].leaseId = held[w].leaseId
      /\ hit \subseteq Tasks
      /\ row' \in [Tasks -> Row]
  BY <1>1, <1>2 DEF Nack, new, TypeOK, Ref, Matches
<1> HIDE DEF hit
<1>4. TypeOK'
  BY <1>3 DEF TypeOK, Nack
<1>5. RowsOK'
  <2>1. lastLease' = lastLease /\ lastLease \in Nat
    BY DEF Nack, TypeOK
  <2>2. ASSUME NEW t \in Tasks
        PROVE  /\ row'[t] = row[t] \/ row'[t] = new
               /\ row[t] \in Row
    BY <1>3 DEF TypeOK
  <2>3. new.leaseId = 0 /\ new.status \notin {"none", "leased"} /\ 0 <= lastLease
    BY <1>2, <2>1
  <2> QED
    BY <2>1, <2>2, <2>3 DEF RowsOK
<1>6. ASSUME NEW v \in Workers, held'[v] # NoRef
      PROVE  RefOK(held[v])' /\ held'[v] = held[v]
  <2>1. v # w /\ held'[v] = held[v] /\ held[v] # NoRef /\ RefOK(held[v]) /\ held[v] \in Ref
    BY <1>6 DEF TypeOK, HeldOK, Nack
  <2>2. held[v].leaseId # held[w].leaseId
    BY <1>1, <2>1 DEF HeldOK, Nack
  <2>3. held[v].task \in hit => row[held[v].task].leaseId # held[v].leaseId
    BY <1>3, <2>2
  <2>4. held[v].task \notin hit => row'[held[v].task] = row[held[v].task]
    BY <1>3, <2>1 DEF Ref
  <2>5. held[v].task \in hit => row'[held[v].task].attempt = row[held[v].task].attempt
    BY <1>2, <1>3
  <2>6. \A t \in Tasks : row'[t].leaseId = row[t].leaseId \/ row'[t].leaseId = 0
    BY <1>2, <1>3
  <2>7. /\ now' = now /\ lastLease' = lastLease /\ held[v].leaseId # 0
        /\ held[v].task \in Tasks
    BY <2>1 DEF Nack, RefOK, Ref
  <2>8. held[v].task \in hit => row'[held[v].task].leaseId = 0
    BY <1>2, <1>3
  <2> QED
    BY <2>1, <2>3, <2>4, <2>5, <2>6, <2>7, <2>8 DEF RefOK
<1>7. HeldOK'
  BY <1>6 DEF HeldOK, TypeOK
<1> QED
  BY <1>4, <1>5, <1>7

LEMMA LossInv == ASSUME Inv, NEW w \in Workers, SettleFails(w) \/ Crash(w) PROVE Inv'
<1> USE QueueAssumption DEF Inv
<1>1. TypeOK'
  BY DEF TypeOK, SettleFails, Crash, Fault
<1>2. RowsOK'
  BY DEF RowsOK, SettleFails, Crash
<1>3. HeldOK'
  BY DEF TypeOK, HeldOK, RefOK, SettleFails, Crash
<1> QED
  BY <1>1, <1>2, <1>3

LEMMA ReclaimInv ==
  ASSUME Inv, NEW c \in AppClock, NEW S \in SUBSET Tasks, Reclaim(c, S) PROVE Inv'
<1> USE QueueAssumption DEF Inv
<1>1. /\ \A t \in S : row[t].leaseUntil < c
      /\ c \in Nat /\ c <= now + Skew
  BY ClockType DEF Reclaim, Expired, TypeOK
<1>2. /\ \A t \in Tasks \ S : row'[t] = row[t]
      /\ \A t \in S : /\ row'[t] \in Row
                      /\ row'[t].leaseId = 0 /\ row'[t].status = "ready"
                      /\ row'[t].attempt = row[t].attempt
      /\ row' \in [Tasks -> Row]
  <2>1. \A t \in Tasks :
           row'[t] = IF t \in S THEN Released(row[t], "ready", now) ELSE row[t]
    BY DEF Reclaim
  <2>2. ASSUME NEW r \in Row
        PROVE  /\ Released(r, "ready", now) \in Row
               /\ Released(r, "ready", now).leaseId = 0
               /\ Released(r, "ready", now).status = "ready"
               /\ Released(r, "ready", now).attempt = r.attempt
    <3>1. "ready" \in RowStatus /\ now \in Nat
      BY DEF TypeOK, RowStatus
    <3> QED
      BY <3>1, ReleasedRow
  <2>3. row' = [t \in Tasks |-> row'[t]]
    BY DEF Reclaim
  <2>4. ASSUME NEW t \in Tasks
        PROVE  /\ row'[t] \in Row
               /\ t \notin S => row'[t] = row[t]
               /\ t \in S => /\ row'[t].leaseId = 0 /\ row'[t].status = "ready"
                            /\ row'[t].attempt = row[t].attempt
    <3>1. row[t] \in Row
      BY DEF TypeOK
    <3> QED
      BY <2>1, <2>2, <3>1
  <2>5. row' \in [Tasks -> Row]
    BY <2>3, <2>4
  <2> QED
    BY <2>4, <2>5
<1>3. TypeOK'
  BY <1>2 DEF TypeOK, Reclaim, Fault
<1>4. RowsOK'
  <2>1. lastLease' = lastLease /\ lastLease \in Nat
    BY DEF Reclaim, TypeOK
  <2>2. ASSUME NEW t \in Tasks
        PROVE  \/ row'[t] = row[t]
               \/ row'[t].leaseId = 0 /\ row'[t].status = "ready"
    BY <1>2
  <2>3. ASSUME NEW t \in Tasks
        PROVE  /\ row'[t].leaseId <= lastLease'
               /\ row'[t].status \in {"none", "ready"} => row'[t].leaseId = 0
               /\ row'[t].status = "none" => row'[t].attempt = 0
               /\ row'[t].status = "leased" => row'[t].leaseId # 0
               /\ ~ManualDLQ /\ row'[t].status = "dlq" => row'[t].leaseId = 0
    BY <2>1, <2>2 DEF RowsOK
  <2>4. \A t, u \in Tasks :
           row'[t].leaseId = row'[u].leaseId /\ t # u => row'[t].leaseId = 0
    BY <2>2 DEF RowsOK
  <2> QED
    BY <2>3, <2>4 DEF RowsOK
<1>5. ASSUME NEW w \in Workers, held[w] # NoRef
      PROVE  RefOK(held[w])'
  <2>1. held[w] \in Ref /\ RefOK(held[w]) /\ row[held[w].task] \in Row
    BY <1>5 DEF TypeOK, HeldOK, Ref
  <2>2. ~(now + Skew <= held[w].until /\ held[w].task \in S)
    BY <1>1, <2>1 DEF RefOK, Ref, Row, TypeOK
  <2> QED
    BY <1>2, <2>1, <2>2 DEF RefOK, Reclaim, Row, Ref, TypeOK
<1>6. HeldOK'
  BY <1>5 DEF HeldOK, Reclaim
<1> QED
  BY <1>3, <1>4, <1>6

LEMMA MoveInv == ASSUME Inv, NEW t \in Tasks, MoveToDLQ(t) PROVE Inv'
<1> USE QueueAssumption DEF Inv
<1> DEFINE new == [row[t] EXCEPT !.status = "dlq"]
<1>1. row[t] \in Row /\ row' = [row EXCEPT ![t] = new] /\ ManualDLQ
  BY DEF MoveToDLQ, TypeOK
<1>2. /\ new \in Row /\ new.status = "dlq" /\ new.leaseId = row[t].leaseId
      /\ new.attempt = row[t].attempt /\ new.leaseUntil = row[t].leaseUntil
  BY <1>1, MovedRow DEF RowStatus
<1> HIDE DEF new
<1>3. /\ row' \in [Tasks -> Row] /\ row'[t] = new
      /\ \A u \in Tasks \ {t} : row'[u] = row[u]
  BY <1>1, <1>2, WrittenRow DEF TypeOK
<1>4. TypeOK'
  BY <1>3 DEF TypeOK, MoveToDLQ
<1>5. \A u \in Tasks : /\ row'[u] = row[u] \/ row'[u].status = "dlq"
                       /\ row'[u].leaseId = row[u].leaseId
                       /\ row'[u].attempt = row[u].attempt
                       /\ row'[u].leaseUntil = row[u].leaseUntil
  BY <1>2, <1>3
<1>6. now' = now /\ lastLease' = lastLease /\ held' = held
  BY DEF MoveToDLQ
<1>7. RowsOK'
  BY <1>1, <1>5, <1>6 DEF RowsOK
<1>8. ASSUME NEW v \in Workers, held[v] # NoRef PROVE RefOK(held[v])'
  <2>1. held[v].task \in Tasks /\ RefOK(held[v])
    BY <1>8 DEF TypeOK, HeldOK, Ref
  <2> QED
    BY <1>5, <1>6, <2>1 DEF RefOK
<1>9. HeldOK'
  BY <1>6, <1>8 DEF HeldOK
<1> QED
  BY <1>4, <1>7, <1>9

LEMMA TickInv == ASSUME Inv, Tick \/ OtherFault PROVE Inv'
<1> USE QueueAssumption DEF Inv
<1>1. TypeOK' /\ RowsOK'
  BY DEF TypeOK, RowsOK, Tick, OtherFault, Fault
<1>2. HeldOK'
  BY DEF TypeOK, HeldOK, RefOK, Tick, OtherFault, Row, Ref
<1> QED
  BY <1>1, <1>2

-----------------------------------------------------------------------------
LEMMA NextInv == Inv /\ [Next]_vars => Inv'
<1> SUFFICES ASSUME Inv, [Next]_vars PROVE Inv'
  OBVIOUS
<1>1. CASE \E t \in Tasks, c \in AppClock : Enqueue(t, c)
  BY <1>1, EnqueueInv
<1>2. CASE \E t \in Tasks : MoveToDLQ(t)
  BY <1>2, MoveInv
<1>3. CASE \E w \in Workers : Worker(w)
  BY <1>3, LeaseInv, HeartbeatInv, AckInv, NackInv, LossInv DEF Worker
<1>4. CASE ReclaimExpiredLeases
  BY <1>4, ReclaimInv DEF ReclaimExpiredLeases
<1>5. CASE Tick \/ OtherFault
  BY <1>5, TickInv
<1>6. CASE UNCHANGED vars
  BY <1>6 DEF vars, Inv, TypeOK, RowsOK, HeldOK, RefOK
<1> QED
  BY <1>1, <1>2, <1>3, <1>4, <1>5, <1>6 DEF Next

\* Inv holds in every state: the columns of the queue table, the references of
\* the workers and the lease ids always fit together.
THEOREM Invariance == Spec => []Inv
<1> QED
  BY InitInv, NextInv, PTL DEF Spec

\* The queue's rows and the workers' references have the types the schema and
\* TaskRef give them.
THEOREM TypeCorrect == Spec => []TypeOK
<1>1. Inv => TypeOK
  BY DEF Inv
<1> QED
  BY <1>1, Invariance, PTL

\* While a lease lasts by the slowest clock the task stays with its worker:
\* reclaimLoop never takes a live lease and LeaseNext never doubles one.
THEOREM Exclusive == Spec => []LiveLeaseIsExclusive
<1>1. Inv => LiveLeaseIsExclusive
  BY DEF Inv, HeldOK, RefOK, LiveLeaseIsExclusive
<1> QED
  BY <1>1, Invariance, PTL

\* A reference of an older lease can never match the row again.
THEOREM Fenced == Spec => []LeasesAreFenced
<1>1. Inv => LeasesAreFenced
  BY DEF Inv, TypeOK, HeldOK, RefOK, Ref, LeasesAreFenced
<1> QED
  BY <1>1, Invariance, PTL

\* Only the worker the queue last gave a task to acknowledges or dead-letters it.
THEOREM OwnerSettles == ASSUME ~ManualDLQ PROVE Spec => OnlyOwnerSettles
<1> DEFINE A == \A t \in Tasks :
       row[t].status = "leased" /\ row'[t].status \in {"acked", "dlq"}
         => \E w \in Workers : /\ held[w] # NoRef /\ held'[w] = NoRef
                               /\ held[w].task = t
                               /\ held[w].attempt = row[t].attempt
<1>1. ASSUME Inv, [Next]_vars PROVE A
  <2> SUFFICES ASSUME NEW t \in Tasks, row[t].status = "leased",
                      row'[t].status \in {"acked", "dlq"}
               PROVE  \E w \in Workers : /\ held[w] # NoRef /\ held'[w] = NoRef
                                         /\ held[w].task = t
                                         /\ held[w].attempt = row[t].attempt
    OBVIOUS
  <2>1. ASSUME NEW w \in Workers, Ack(w) \/ \E c \in AppClock : Nack(w, c)
        PROVE  /\ held[w] # NoRef /\ held'[w] = NoRef
               /\ held[w].task = t /\ held[w].attempt = row[t].attempt
    BY <1>1, <2>1 DEF Inv, TypeOK, HeldOK, RefOK, Ack, Nack, Matches, Ref
  <2>2. ASSUME NEW w \in Workers, NEW u \in Tasks,
               LeaseNext(w, u) \/ LeaseReplyLost(w, u) \/ Heartbeat(w)
                 \/ SettleFails(w) \/ Crash(w)
        PROVE  FALSE
    BY <1>1, <2>2 DEF Inv, TypeOK, Row, LeaseNext, LeaseReplyLost, Lease, Visible,
                      Heartbeat, SettleFails, Crash
  <2>3. ASSUME NEW u \in Tasks, NEW c \in AppClock, Enqueue(u, c) PROVE FALSE
    BY <1>1, <2>3 DEF Inv, TypeOK, Enqueue
  <2>4. ASSUME NEW S \in SUBSET Tasks, NEW c \in AppClock, Reclaim(c, S) PROVE FALSE
    <3>1. row[t] \in Row /\ "ready" \in RowStatus /\ now \in Nat
      BY <1>1 DEF Inv, TypeOK, RowStatus
    <3>2. row'[t] = row[t] \/ row'[t] = Released(row[t], "ready", now)
      BY <2>4 DEF Reclaim
    <3> QED
      BY <3>1, <3>2, ReleasedRow
  <2>5. CASE UNCHANGED row
    BY <2>5
  <2> QED
    BY <1>1, <2>1, <2>2, <2>3, <2>4, <2>5
       DEF Next, Worker, ReclaimExpiredLeases, OtherFault, Tick, MoveToDLQ, vars
<1>2. Spec => [][A]_vars
  BY <1>1, Invariance, PTL DEF Spec
<1> QED
  BY <1>2 DEF OnlyOwnerSettles

\* A row that carries the lease of a working worker is leased: it is not waiting,
\* not acknowledged, and not dead-lettered unless somebody moved it by hand.
LEMMA MatchedIsLeased ==
  ASSUME ~ManualDLQ, Inv, NEW w \in Workers, held[w] # NoRef, Matches(held[w], w)
  PROVE  /\ held[w].task \in Tasks /\ held[w].leaseId \in Nat
         /\ row[held[w].task].status = "leased"
         /\ row[held[w].task].leaseId = held[w].leaseId
  BY DEF Inv, TypeOK, RowsOK, HeldOK, RefOK, Matches, Ref, Row, RowStatus

\* Once acknowledged or dead-lettered a row is never written again, by late
\* heartbeats, stale Acks and Nacks or reclaims.
THEOREM SettledStays == ASSUME ~ManualDLQ PROVE Spec => SettledIsFinal
<1> DEFINE A == \A t \in Tasks : row[t].status \in {"acked", "dlq"} => row'[t] = row[t]
<1>1. ASSUME Inv, [Next]_vars PROVE A
  <2> SUFFICES ASSUME NEW t \in Tasks, row[t].status \in {"acked", "dlq"}
               PROVE  row'[t] = row[t]
    OBVIOUS
  <2>1. ASSUME NEW w \in Workers, Ack(w) \/ \E c \in AppClock : Nack(w, c)
        PROVE  row'[t] = row[t]
    <3>1. held[w] # NoRef
      BY <2>1 DEF Ack, Nack
    <3>2. Matches(held[w], w) => held[w].task # t
      BY <1>1, <3>1, MatchedIsLeased
    <3> QED
      BY <1>1, <2>1, <3>2 DEF Inv, TypeOK, Ack, Nack
  <2>2. ASSUME NEW w \in Workers, NEW u \in Tasks,
               LeaseNext(w, u) \/ LeaseReplyLost(w, u) \/ Heartbeat(w)
                 \/ SettleFails(w) \/ Crash(w)
        PROVE  row'[t] = row[t]
    BY <1>1, <2>2 DEF Inv, TypeOK, LeaseNext, LeaseReplyLost, Lease, Visible,
                      Heartbeat, SettleFails, Crash
  <2>3. ASSUME NEW u \in Tasks, NEW c \in AppClock, Enqueue(u, c)
        PROVE  row'[t] = row[t]
    BY <1>1, <2>3 DEF Inv, TypeOK, Enqueue
  <2>4. ASSUME NEW S \in SUBSET Tasks, NEW c \in AppClock, Reclaim(c, S)
        PROVE  row'[t] = row[t]
    BY <2>4 DEF Reclaim, Expired
  <2>5. CASE UNCHANGED row
    BY <2>5
  <2> QED
    BY <1>1, <2>1, <2>2, <2>3, <2>4, <2>5
       DEF Next, Worker, ReclaimExpiredLeases, OtherFault, Tick, MoveToDLQ, vars
<1>2. Spec => [][A]_vars
  BY <1>1, Invariance, PTL DEF Spec
<1> QED
  BY <1>2 DEF SettledIsFinal
-----------------------------------------------------------------------------
\* The variables of LeasedWork as the queue's state gives them.
aState == [t \in Tasks |-> row[t].status]
aOwner == [t \in Tasks |-> row[t].leaseId]
aWorking == {held[w].leaseId : w \in {v \in Workers : held[v] # NoRef}}


LEMMA WorkingShrinks ==
  ASSUME Inv, NEW w \in Workers, held[w] # NoRef, held' = [held EXCEPT ![w] = NoRef]
  PROVE  held[w].leaseId \in aWorking /\ aWorking' = aWorking \ {held[w].leaseId}
<1>1. held[w].leaseId \in aWorking
  BY DEF aWorking
<1>2. \A v \in Workers : held'[v] = IF v = w THEN NoRef ELSE held[v]
  BY DEF Inv, TypeOK
<1>3. \A v \in Workers : held[v] # NoRef /\ v # w => held[v].leaseId # held[w].leaseId
  BY DEF Inv, HeldOK
<1>4. aWorking' = {held'[v].leaseId : v \in {u \in Workers : held'[u] # NoRef}}
  BY DEF aWorking
<1>5. ASSUME NEW l, l \in aWorking' PROVE l \in aWorking \ {held[w].leaseId}
  <2>1. PICK v \in Workers : held'[v] # NoRef /\ l = held'[v].leaseId
    BY <1>4, <1>5
  <2>2. v # w /\ held[v] # NoRef /\ l = held[v].leaseId
    BY <1>2, <2>1
  <2> QED
    BY <1>3, <2>2 DEF aWorking
<1>6. ASSUME NEW l, l \in aWorking \ {held[w].leaseId} PROVE l \in aWorking'
  <2>1. PICK v \in Workers : held[v] # NoRef /\ l = held[v].leaseId
    BY <1>6 DEF aWorking
  <2>2. v # w /\ held'[v] # NoRef /\ l = held'[v].leaseId
    BY <1>2, <1>6, <2>1
  <2> QED
    BY <1>4, <2>2
<1> QED
  BY <1>1, <1>5, <1>6

\* The abstract step relation, written with the names above.
LEMMA AbstractVars ==
  /\ Abstract!Init <=> /\ aState = [t \in Tasks |-> "none"]
                       /\ aOwner = [t \in Tasks |-> 0]
                       /\ lastLease = 0
                       /\ aWorking = {}
  /\ UNCHANGED Abstract!vars <=> UNCHANGED <<aState, aOwner, lastLease, aWorking>>
  BY DEF Abstract!Init, Abstract!vars, aState, aOwner, aWorking

\* Each kind of abstract step is a step of LeasedWork.
LEMMA AbstractNext ==
  /\ \A t \in Tasks : Abstract!Submit(t) \/ Abstract!Grant(t) => Abstract!Next
  /\ \A t \in Tasks, l \in aWorking : Abstract!Settle(t, l) => Abstract!Next
  /\ \A l \in aWorking : Abstract!Quit(l) => Abstract!Next
  /\ \A S \in SUBSET Tasks : Abstract!Revoke(S) => Abstract!Next
<1>1. /\ \A t \in Tasks : Abstract!Submit(t) \/ Abstract!Grant(t) => Abstract!Next
      /\ \A S \in SUBSET Tasks : Abstract!Revoke(S) => Abstract!Next
  BY Zenon DEF Abstract!Next
<1>2. \A l \in aWorking : Abstract!Quit(l) => Abstract!Next
  BY Zenon DEF Abstract!Next, aWorking
<1>3. \A t \in Tasks, l \in aWorking : Abstract!Settle(t, l) => Abstract!Next
  BY Zenon DEF Abstract!Next, aWorking
<1> QED
  BY <1>1, <1>2, <1>3

\* A worker that returns without a matching row only stops working.
LEMMA QuitStep ==
  ASSUME Inv, NEW w \in Workers, held[w] # NoRef, held' = [held EXCEPT ![w] = NoRef],
         row' = row, lastLease' = lastLease
  PROVE  Abstract!Next
<1>1. PICK l : l = held[w].leaseId
  OBVIOUS
<1>2. l \in aWorking /\ aWorking' = aWorking \ {l}
  BY <1>1, WorkingShrinks
<1>3. Abstract!Quit(l)
  BY <1>2 DEF Abstract!Quit, aWorking
<1> QED
  BY <1>2, <1>3, AbstractNext

\* A worker that returns while it owns the task settles it.
LEMMA SettleStep ==
  ASSUME ~ManualDLQ, Inv, NEW w \in Workers, held[w] # NoRef, Matches(held[w], w),
         Ack(w) \/ \E c \in AppClock : Nack(w, c)
  PROVE  Abstract!Next
<1>0. PICK t, l : t = held[w].task /\ l = held[w].leaseId
  OBVIOUS
<1>1. /\ t \in Tasks /\ row[t].status = "leased" /\ row[t].leaseId = l
      /\ l \in aWorking /\ aWorking' = aWorking \ {l} /\ lastLease' = lastLease
  BY <1>0, MatchedIsLeased, WorkingShrinks DEF Ack, Nack
<1>2. ASSUME Ack(w)
      PROVE  aState' = [aState EXCEPT ![t] = "acked"] /\ aOwner' = aOwner
  BY <1>0, <1>1, <1>2 DEF Ack, Inv, TypeOK, Row, aState, aOwner
<1>3. ASSUME NEW c \in AppClock, Nack(w, c)
      PROVE  \E s \in {"ready", "dlq"} : /\ aState' = [aState EXCEPT ![t] = s]
                                         /\ aOwner' = [aOwner EXCEPT ![t] = 0]
  <2> DEFINE s == IF row[t].attempt >= MaxAttempts THEN "dlq" ELSE "ready"
             new == Released(row[t], s, c + Backoff(row[t].attempt))
  <2>1. row[t] \in Row /\ s \in RowStatus /\ s \in {"ready", "dlq"}
    BY <1>1 DEF Inv, TypeOK, RowStatus
  <2>2. c + Backoff(row[t].attempt) \in Nat
    BY <2>1, ClockType, BackoffType DEF Inv, TypeOK, Row
  <2>3. row' = [row EXCEPT ![t] = new]
    BY <1>0, <1>3 DEF Nack, NackedRow
  <2>4. new.leaseId = 0 /\ new.status = s
    BY <2>1, <2>2, ReleasedRow
  <2> HIDE DEF new
  <2>5. aState' = [aState EXCEPT ![t] = s] /\ aOwner' = [aOwner EXCEPT ![t] = 0]
    BY <1>1, <2>3, <2>4 DEF Inv, TypeOK, aState, aOwner
  <2> QED
    BY <2>1, <2>5
<1>4. aState[t] = "leased" /\ aOwner[t] = l
  BY <1>1 DEF aState, aOwner
<1>5. \/ aState' = [aState EXCEPT ![t] = "acked"] /\ aOwner' = aOwner
      \/ \E s \in {"ready", "dlq"} : /\ aState' = [aState EXCEPT ![t] = s]
                                     /\ aOwner' = [aOwner EXCEPT ![t] = 0]
  BY <1>2, <1>3
<1>6. Abstract!Settle(t, l)
  BY <1>1, <1>4, <1>5 DEF Abstract!Settle, aState, aOwner, aWorking
<1> QED
  BY <1>1, <1>6, AbstractNext

\* Enqueue submits a task.
LEMMA SubmitStep ==
  ASSUME Inv, NEW t \in Tasks, NEW c \in AppClock, Enqueue(t, c)
  PROVE  Abstract!Next
<1>1. aState[t] = "none" /\ aState' = [aState EXCEPT ![t] = "ready"]
  <2>1. \A u \in Tasks : row'[u].status = IF u = t THEN "ready" ELSE row[u].status
    BY DEF Enqueue, NoRow, Inv, TypeOK
  <2> QED
    BY <2>1 DEF Enqueue, aState
<1>2. aOwner' = aOwner
  <2>1. \A u \in Tasks : row'[u].leaseId = row[u].leaseId
    BY DEF Enqueue, NoRow, Inv, TypeOK, RowsOK
  <2> QED
    BY <2>1 DEF aOwner
<1>3. aWorking' = aWorking /\ lastLease' = lastLease
  BY DEF Enqueue, aWorking
<1>4. Abstract!Submit(t)
  BY <1>1, <1>2, <1>3 DEF Abstract!Submit, aState, aOwner, aWorking
<1> QED
  BY <1>4, AbstractNext

\* LeaseNext grants a lease, whether or not the worker hears of it.
LEMMA GrantStep ==
  ASSUME Inv, NEW w \in Workers, NEW t \in Tasks, LeaseNext(w, t) \/ LeaseReplyLost(w, t)
  PROVE  Abstract!Next
<1> USE QueueAssumption DEF Inv
<1>1. Lease(w, t)
  BY DEF LeaseNext, LeaseReplyLost
<1>2. aState[t] = "ready" /\ aState' = [aState EXCEPT ![t] = "leased"]
  <2>1. \A u \in Tasks : row'[u].status = IF u = t THEN "leased" ELSE row[u].status
    BY <1>1 DEF Lease, TypeOK, Row
  <2> QED
    BY <1>1, <2>1 DEF Lease, Visible, aState
<1>3. aOwner' = [aOwner EXCEPT ![t] = lastLease + 1]
  <2>1. \A u \in Tasks : row'[u].leaseId = IF u = t THEN lastLease + 1 ELSE row[u].leaseId
    BY <1>1 DEF Lease, TypeOK, Row
  <2> QED
    BY <2>1 DEF aOwner
<1>4. lastLease' = lastLease + 1
  BY <1>1 DEF Lease
<1>5. aWorking' \in {aWorking, aWorking \union {lastLease + 1}}
  <2>1. CASE LeaseReplyLost(w, t)
    BY <2>1 DEF LeaseReplyLost, aWorking
  <2>2. CASE LeaseNext(w, t)
    <3> DEFINE r == [task |-> t, leaseId |-> lastLease + 1, attempt |-> row[t].attempt + 1,
                     until |-> now + LeaseDuration]
    <3>0. r \in Ref
      BY DEF TypeOK, Row, Ref
    <3>1. r.leaseId = lastLease + 1 /\ r # NoRef /\ held' = [held EXCEPT ![w] = r]
      BY <2>2, <3>0, NoRefAssumption DEF LeaseNext
    <3> HIDE DEF r
    <3>2. held[w] = NoRef
      BY <1>1 DEF Lease
    <3>3. \A v \in Workers : held'[v] = IF v = w THEN r ELSE held[v]
      BY <3>1 DEF TypeOK
    <3>4. aWorking' = {held'[v].leaseId : v \in {u \in Workers : held'[u] # NoRef}}
      BY DEF aWorking
    <3>5. ASSUME NEW l, l \in aWorking' PROVE l \in aWorking \union {lastLease + 1}
      <4>1. PICK v \in Workers : held'[v] # NoRef /\ l = held'[v].leaseId
        BY <3>4, <3>5
      <4> QED
        BY <3>1, <3>3, <4>1 DEF aWorking
    <3>6. ASSUME NEW l, l \in aWorking \union {lastLease + 1} PROVE l \in aWorking'
      <4>1. CASE l = lastLease + 1
        BY <3>1, <3>3, <3>4, <4>1
      <4>2. CASE l \in aWorking
        <5>1. PICK v \in Workers : held[v] # NoRef /\ l = held[v].leaseId
          BY <4>2 DEF aWorking
        <5> QED
          BY <3>2, <3>3, <3>4, <5>1
      <4> QED
        BY <3>6, <4>1, <4>2
    <3> QED
      BY <3>5, <3>6
  <2> QED
    BY <2>1, <2>2
<1>6. Abstract!Grant(t)
  BY <1>2, <1>3, <1>4, <1>5 DEF Abstract!Grant, aState, aOwner, aWorking
<1> QED
  BY <1>6, AbstractNext

\* Reclaiming revokes leases behind their holders' backs.
LEMMA RevokeStep ==
  ASSUME Inv, NEW S \in SUBSET Tasks, NEW c \in AppClock, Reclaim(c, S)
  PROVE  Abstract!Next
<1>1. \A t \in S : aState[t] = "leased"
  BY DEF Reclaim, Expired, aState
<1>2. \A t \in Tasks : /\ row'[t] = IF t \in S THEN Released(row[t], "ready", now) ELSE row[t]
                       /\ Released(row[t], "ready", now).status = "ready"
                       /\ Released(row[t], "ready", now).leaseId = 0
  BY ReleasedRow DEF Reclaim, Inv, TypeOK, RowStatus
<1>3. aState' = [t \in Tasks |-> IF t \in S THEN "ready" ELSE aState[t]]
  BY <1>2 DEF aState
<1>4. aOwner' = [t \in Tasks |-> IF t \in S THEN 0 ELSE aOwner[t]]
  BY <1>2 DEF aOwner
<1>5. aWorking' = aWorking /\ lastLease' = lastLease
  BY DEF Reclaim, aWorking
<1>6. Abstract!Revoke(S)
  BY <1>1, <1>3, <1>4, <1>5 DEF Abstract!Revoke, aState, aOwner, aWorking
<1> QED
  BY <1>6, AbstractNext

\* Heartbeats, the clock and other people's faults are not seen by the contract.
LEMMA HiddenStep ==
  ASSUME Inv, (\E w \in Workers : Heartbeat(w)) \/ Tick \/ OtherFault
  PROVE  UNCHANGED <<aState, aOwner, lastLease, aWorking>>
<1>1. CASE Tick \/ OtherFault
  BY <1>1 DEF Tick, OtherFault, aState, aOwner, aWorking
<1>2. ASSUME NEW w \in Workers, Heartbeat(w)
      PROVE  UNCHANGED <<aState, aOwner, lastLease, aWorking>>
  <2>1. \A t \in Tasks : row'[t].status = row[t].status /\ row'[t].leaseId = row[t].leaseId
    BY <1>2 DEF Heartbeat, Inv, TypeOK, Ref
  <2> QED
    BY <1>2, <2>1 DEF Heartbeat, aState, aOwner, aWorking
<1> QED
  BY <1>1, <1>2

\* A worker that loses its task, or settles it under an old lease, quits.
LEMMA ReturnStep ==
  ASSUME ~ManualDLQ, Inv, NEW w \in Workers,
         Ack(w) \/ (\E c \in AppClock : Nack(w, c)) \/ SettleFails(w) \/ Crash(w)
  PROVE  Abstract!Next
<1>1. held[w] # NoRef /\ held' = [held EXCEPT ![w] = NoRef] /\ lastLease' = lastLease
  BY DEF Ack, Nack, SettleFails, Crash
<1>2. CASE row' = row
  BY <1>1, <1>2, QuitStep
<1>3. CASE row' # row
  <2>1. Matches(held[w], w) /\ (Ack(w) \/ \E c \in AppClock : Nack(w, c))
    BY <1>3 DEF Ack, Nack, SettleFails, Crash
  <2> QED
    BY <1>1, <2>1, SettleStep
<1> QED
  BY <1>2, <1>3

\* The queue does what durable.go promises, for every number of tasks and workers:
\* whatever happens to clocks, workers and leases, it is a LeasedWork.
THEOREM Refines == ASSUME ~ManualDLQ PROVE Spec => KeepsContract
<1>1. Init => Abstract!Init
  <2>1. ASSUME Init
        PROVE  /\ aState = [t \in Tasks |-> "none"] /\ aOwner = [t \in Tasks |-> 0]
               /\ lastLease = 0 /\ aWorking = {}
    BY <2>1 DEF Init, NoRow, aState, aOwner, aWorking
  <2> QED
    BY <2>1, AbstractVars
<1>2. Inv /\ [Next]_vars => [Abstract!Next]_(Abstract!vars)
  <2> SUFFICES ASSUME Inv, [Next]_vars
               PROVE  Abstract!Next \/ UNCHANGED <<aState, aOwner, lastLease, aWorking>>
    BY AbstractVars
  <2>1. CASE UNCHANGED vars
    BY <2>1 DEF vars, aState, aOwner, aWorking
  <2>2. ASSUME NEW t \in Tasks, NEW c \in AppClock, Enqueue(t, c) PROVE Abstract!Next
    BY <2>2, SubmitStep
  <2>3. ASSUME NEW w \in Workers, NEW t \in Tasks,
               LeaseNext(w, t) \/ LeaseReplyLost(w, t)
        PROVE  Abstract!Next
    BY <2>3, GrantStep
  <2>4. ASSUME NEW w \in Workers,
               Ack(w) \/ (\E c \in AppClock : Nack(w, c)) \/ SettleFails(w) \/ Crash(w)
        PROVE  Abstract!Next
    BY <2>4, ReturnStep
  <2>5. ASSUME NEW S \in SUBSET Tasks, NEW c \in AppClock, Reclaim(c, S)
        PROVE  Abstract!Next
    BY <2>5, RevokeStep
  <2>6. ASSUME (\E w \in Workers : Heartbeat(w)) \/ Tick \/ OtherFault
        PROVE  UNCHANGED <<aState, aOwner, lastLease, aWorking>>
    BY <2>6, HiddenStep
  <2> QED
    BY <2>1, <2>2, <2>3, <2>4, <2>5, <2>6
       DEF Next, Worker, ReclaimExpiredLeases, MoveToDLQ
<1> QED
  BY <1>1, <1>2, Invariance, PTL DEF Spec, KeepsContract, Abstract!Spec
=============================================================================
