---------------------------- MODULE WebhooksProofs ----------------------------
(***************************************************************************)
(* Proofs about Webhooks for any events, endpoints, scopes and             *)
(* administrators, every retry limit and batch size, and any number of     *)
(* failing file accesses and stops of the process.                         *)
(***************************************************************************)
EXTENDS Webhooks, TLAPS

Statuses == {"absent", "enabled", "disabled"}
DeliveryFile == [Deliveries -> Row \union {NoRow}]
EndpointFile == [Endpoints -> Statuses]

\* The locals of the goroutines and the history variables, which TypeOK leaves out.
LocalsOK ==
    /\ pc \in [Threads -> {"none", "list", "next", "load", "save", "idle", "send"}]
    /\ todo \in [Posters -> SUBSET (Deliveries \X (0..MaxAttempts))]
    /\ on \in [Threads -> Deliveries \union (Endpoints \X Statuses) \union {NoRow}]
    /\ copy \in [Threads -> DeliveryFile \union EndpointFile \union {NoRow}]
    /\ born \subseteq Endpoints /\ wasOff \subseteq Endpoints /\ accepted \subseteq Deliveries
    /\ failures \in Nat

\* An endpoint that was enabled at some time, and is so or was switched off since.
Known(h) == h \in born /\ (hooks[h] = "enabled" \/ h \in wasOff)

\* What a row r of delivery d says has happened.
Earned(d, r) ==
    /\ r.attempt <= tries[d]
    /\ r.status = "delivered" => d \in accepted
    /\ r.status = "failed" => r.attempt < MaxAttempts
    /\ r.status = "dlq" => tries[d] >= MaxAttempts \/ d[2] \in wasOff
    /\ Known(d[2])

FileEarned(file) == \A d \in Deliveries : file[d] # NoRow => Earned(d, file[d])

\* What a goroutine that posts has still to visit, has in hand, and has loaded.  A
\* loaded file is the stored one unless another goroutine has saved in between.
PosterOK(p) ==
    /\ \A t \in todo[p] :
          /\ t[2] <= tries[t[1]] /\ t[2] < MaxAttempts /\ Known(t[1][2])
          /\ p = Scheduler => t[2] # 0
    /\ pc[p] \in {"send", "load", "save"} =>
          on[p] \in Deliveries /\ row[p] \in Row /\ Earned(on[p], row[p])
    /\ pc[p] = "send" => row[p].status = "failed"
    /\ pc[p] = "save" =>
          /\ copy[p] \in DeliveryFile /\ FileEarned(copy[p])
          /\ p \in stale \/ copy[p] = rows

\* Endpoints in the file, and in the copies of administrators, have been created.
Created(file) == \A h \in Endpoints : file[h] # "absent" => h \in born

AdminOK(a) ==
    /\ pc[a] \in {"load", "save"} => on[a] \in Endpoints \X Statuses /\ on[a][1] \in born
    /\ pc[a] = "save" => copy[a] \in EndpointFile /\ Created(copy[a])

\* The inductive invariant: a row is right because every copy it went through was.
Inv ==
    /\ TypeOK /\ LocalsOK
    /\ FileEarned(rows) /\ Created(hooks)
    /\ \A p \in Posters : PosterOK(p)
    /\ \A a \in Admins : AdminOK(a)
    /\ SentIsRecorded
-----------------------------------------------------------------------------
LEMMA InitInv == Init => Inv
<1> SUFFICES ASSUME Init PROVE Inv
  OBVIOUS
<1> USE WebhookAssumption DEF Init
<1>1. TypeOK
  BY DEF TypeOK, Row, Deliveries
<1>2. LocalsOK
  BY DEF LocalsOK, Threads, Posters
<1>3. FileEarned(rows) /\ Created(hooks)
  BY DEF FileEarned, Created
<1>4. \A p \in Posters : PosterOK(p)
  BY DEF PosterOK, Threads, Posters
<1>5. \A a \in Admins : AdminOK(a)
  BY DEF AdminOK, Threads
<1>6. SentIsRecorded
  BY DEF SentIsRecorded
<1> QED
  BY <1>1, <1>2, <1>3, <1>4, <1>5, <1>6 DEF Inv

\* What a row may claim is never taken back: requests are counted, endpoints are
\* remembered.
Grows ==
    /\ \A d \in Deliveries : tries[d] <= tries'[d]
    /\ accepted \subseteq accepted' /\ wasOff \subseteq wasOff'
    /\ born \subseteq born'
    /\ \A h \in Endpoints : Known(h) => Known(h)'

LEMMA EarnedStays ==
  ASSUME TypeOK, TypeOK', Grows, NEW d \in Deliveries, NEW r \in Row, Earned(d, r)
  PROVE  Earned(d, r)'
<1>1. tries[d] \in Nat /\ tries'[d] \in Nat /\ tries[d] <= tries'[d]
  BY DEF TypeOK, Grows
<1>2. d[2] \in Endpoints /\ r.attempt \in Nat /\ MaxAttempts \in Nat
  BY WebhookAssumption DEF Deliveries, Row
<1> QED
  BY <1>1, <1>2 DEF Grows, Earned

\* A file a goroutine has loaded stays right.
LEMMA FileStays ==
  ASSUME TypeOK, TypeOK', Grows, NEW file \in DeliveryFile, FileEarned(file)
  PROVE  FileEarned(file)'
  BY EarnedStays DEF FileEarned, DeliveryFile

\* Nothing another goroutine does can harm one that posts, if it marks the copies
\* that its save makes stale.
LEMMA PosterStays ==
  ASSUME Inv, TypeOK', Grows, NEW p \in Posters,
         pc'[p] = pc[p], todo'[p] = todo[p], on'[p] = on[p], row'[p] = row[p],
         copy'[p] = copy[p],
         pc[p] = "save" => p \in stale' \/ (rows' = rows /\ p \notin stale)
  PROVE  PosterOK(p)'
<1> USE DEF Inv
<1>1. TypeOK /\ LocalsOK /\ PosterOK(p)
  OBVIOUS
<1>2. ASSUME NEW t \in todo[p]
      PROVE  /\ t[2] <= tries'[t[1]] /\ t[2] < MaxAttempts /\ Known(t[1][2])'
             /\ p = Scheduler => t[2] # 0
  <2>1. t \in Deliveries \X (0..MaxAttempts)
    BY <1>1, <1>2 DEF LocalsOK
  <2>2. /\ t[1] \in Deliveries /\ t[2] \in Nat /\ t[1][2] \in Endpoints
        /\ tries[t[1]] \in Nat /\ tries'[t[1]] \in Nat
    BY <1>1, <2>1 DEF Deliveries, TypeOK
  <2> QED
    BY <1>1, <1>2, <2>2 DEF PosterOK, Grows
<1>3. pc[p] \in {"send", "load", "save"} => Earned(on[p], row[p])'
  BY <1>1, EarnedStays DEF PosterOK
<1>4. pc[p] = "save" => FileEarned(copy[p])'
  BY <1>1, FileStays DEF PosterOK
<1> QED
  BY <1>1, <1>2, <1>3, <1>4 DEF PosterOK

LEMMA AdminStays ==
  ASSUME Inv, NEW a \in Admins, born \subseteq born',
         pc'[a] = pc[a], on'[a] = on[a], copy'[a] = copy[a]
  PROVE  AdminOK(a)'
  BY DEF Inv, AdminOK, Created

\* An endpoint that is known stays so while no administrator saves a change.
LEMMA GrowsAlone ==
  ASSUME UNCHANGED <<hooks, born, wasOff>>, accepted \subseteq accepted',
         \A d \in Deliveries : tries[d] <= tries'[d]
  PROVE  Grows
  BY DEF Grows, Known

\* A step after which every delivery that was recorded or in hand is so still.
LEMMA StillRecorded ==
  ASSUME SentIsRecorded, failures \in Nat, failures' \in Nat, failures <= failures',
         raced => raced',
         \A d \in Deliveries : \/ tries'[d] = tries[d]
                               \/ \E p \in Posters : on'[p] = d /\ pc'[p] \in {"load", "save"},
         failures' > 0 \/ \A d \in Deliveries : rows[d] # NoRow => rows'[d] # NoRow,
         failures' > 0 \/ \A p \in Posters : pc[p] \in {"load", "save"} =>
            \/ on'[p] = on[p] /\ pc'[p] \in {"load", "save"}
            \/ \E d \in Deliveries : on[p] = d /\ rows'[d] # NoRow
  PROVE  SentIsRecorded'
<1>1. failures > 0 => failures' > 0
  OBVIOUS
<1> QED
  BY <1>1 DEF SentIsRecorded

\* The row a request leaves in hand tells what its receiver and its count say.
LEMMA PostedRow ==
  ASSUME Inv, NEW th \in Posters, NEW d \in Deliveries, NEW n \in 1..MaxAttempts,
         n <= tries[d] + 1, Known(d[2]), Post(th, d, n), UNCHANGED <<hooks, born, wasOff>>
  PROVE  /\ tries' \in [Deliveries -> Nat] /\ accepted' \subseteq Deliveries
         /\ tries' = [tries EXCEPT ![d] = tries[d] + 1]
         /\ row' \in [Posters -> Row \union {NoRow}]
         /\ \A p \in Posters \ {th} : row'[p] = row[p]
         /\ row'[th] \in Row /\ Earned(d, row[th])'
         /\ ripe' \subseteq Deliveries \X (1..MaxAttempts)
         /\ Grows
<1> USE WebhookAssumption DEF Inv
<1>1. PICK taken \in BOOLEAN, answer \in {"2xx", "other", "none"} :
        /\ answer = "2xx" => taken
        /\ tries' = [tries EXCEPT ![d] = @ + 1]
        /\ accepted' = IF taken THEN accepted \union {d} ELSE accepted
        /\ row' = [row EXCEPT ![th] = IF Delivered(answer)
                                      THEN [status |-> "delivered", attempt |-> n]
                                      ELSE MarkDeliveryFailed(n)]
        /\ ripe' = ripe \ {<<d, n>>}
  BY DEF Post
<1>2. /\ tries \in [Deliveries -> Nat] /\ accepted \subseteq Deliveries
      /\ row \in [Posters -> Row \union {NoRow}]
      /\ ripe \subseteq Deliveries \X (1..MaxAttempts)
  BY DEF TypeOK, LocalsOK
<1>3. tries[d] \in Nat /\ n \in Nat /\ MaxAttempts \in Nat
  BY <1>2
<1>4. tries' \in [Deliveries -> Nat] /\ tries'[d] = tries[d] + 1 /\ n <= tries'[d]
  BY <1>1, <1>2, <1>3
<1>5. PICK new \in Row :
        /\ row' = [row EXCEPT ![th] = new] /\ new.attempt = n
        /\ new.status = "delivered" => answer = "2xx"
        /\ new.status = "failed" => n < MaxAttempts
        /\ new.status = "dlq" => n >= MaxAttempts
  <2>1. CASE Delivered(answer)
    <3>1. [status |-> "delivered", attempt |-> n] \in Row
      BY DEF Row
    <3> QED
      BY <1>1, <2>1, <3>1 DEF Delivered
  <2>2. CASE ~Delivered(answer)
    <3> DEFINE m == MarkDeliveryFailed(n)
    <3>1. m \in Row /\ m.attempt = n
      BY <1>3 DEF Row, MarkDeliveryFailed
    <3>2. m.status = IF n >= MaxAttempts THEN "dlq" ELSE "failed"
      BY DEF MarkDeliveryFailed
    <3>3. row' = [row EXCEPT ![th] = m]
      BY <1>1, <2>2
    <3> HIDE DEF m
    <3>4. /\ m.status = "delivered" => answer = "2xx"
          /\ m.status = "failed" => n < MaxAttempts
          /\ m.status = "dlq" => n >= MaxAttempts
      BY <1>3, <3>2
    <3> m \in Row
      BY <3>1
    <3> WITNESS m \in Row
    <3> QED
      BY <3>1, <3>3, <3>4
  <2> QED
    BY <2>1, <2>2
<1>7. /\ row' \in [Posters -> Row \union {NoRow}] /\ row'[th] = new
      /\ \A p \in Posters \ {th} : row'[p] = row[p]
  BY <1>2, <1>5
<1>8. Known(d[2])'
  BY DEF Known
<1>9. tries'[d] \in Nat
  BY <1>4
<1>10. n >= MaxAttempts => tries'[d] >= MaxAttempts
  BY <1>3, <1>4, <1>9
<1>11. answer = "2xx" => d \in accepted'
  BY <1>1
<1>12. Earned(d, new)'
  BY <1>4, <1>5, <1>8, <1>10, <1>11 DEF Earned
<1>13. Grows
  <2>1. \A x \in Deliveries : tries[x] <= tries'[x]
    BY <1>1, <1>2
  <2> QED
    BY <1>1, <2>1, GrowsAlone
<1>14. accepted' \subseteq Deliveries /\ ripe' \subseteq Deliveries \X (1..MaxAttempts)
  BY <1>1, <1>2
<1> QED
  BY <1>1, <1>4, <1>7, <1>12, <1>13, <1>14
-----------------------------------------------------------------------------
\* A step that neither posts nor saves a file changes only the locals of its own
\* goroutine.
LEMMA LocalStep ==
  ASSUME Inv, NEW th \in Threads, TypeOK', LocalsOK',
         UNCHANGED <<files, tries, accepted, wasOff, stale, raced>>, born \subseteq born',
         \A p \in Threads \ {th} : pc'[p] = pc[p] /\ on'[p] = on[p] /\ copy'[p] = copy[p],
         \A p \in Posters \ {th} : todo'[p] = todo[p] /\ row'[p] = row[p],
         th \in Posters => PosterOK(th)',
         th \in Admins => AdminOK(th)',
         failures <= failures',
         \/ failures' > 0
         \/ th \in Admins
         \/ pc[th] \notin {"load", "save"}
         \/ pc'[th] \in {"load", "save"} /\ on'[th] = on[th]
  PROVE  Inv'
<1> USE DEF Inv, files
<1>1. Grows
  BY DEF Grows, Known, TypeOK
<1>2. FileEarned(rows)' /\ Created(hooks)'
  BY DEF FileEarned, Created, Earned, Known
<1>3. \A p \in Posters \ {th} : PosterOK(p)'
  BY <1>1, PosterStays DEF Posters, Threads, PosterOK
<1>4. \A a \in Admins \ {th} : AdminOK(a)'
  BY AdminStays DEF Threads
<1>5. SentIsRecorded'
  <2>1. failures \in Nat /\ failures' \in Nat
    BY DEF LocalsOK
  <2>2. \A p \in Posters : p \notin Admins /\ p \in Threads
    BY WebhookAssumption DEF Posters, Threads
  <2>3. failures' > 0 \/ \A p \in Posters : pc[p] \in {"load", "save"} =>
            on'[p] = on[p] /\ pc'[p] \in {"load", "save"}
    BY <2>2
  <2> QED
    BY <2>1, <2>3, StillRecorded
<1> QED
  BY <1>2, <1>3, <1>4, <1>5

LEMMA HandleInv == ASSUME Inv, NEW e \in Events, HandleExecutionEvent(e) PROVE Inv'
<1> USE DEF Inv, HandleExecutionEvent, Goto, files, history
<1>1. e \in Posters /\ e \in Threads /\ e \notin Admins
  BY WebhookAssumption DEF Posters, Threads
<1>2. pc'[e] = "list" /\ \A th \in Threads \ {e} : pc'[th] = pc[th]
  BY <1>1 DEF LocalsOK
<1>3. TypeOK' /\ LocalsOK'
  BY <1>1 DEF TypeOK, LocalsOK
<1>4. PosterOK(e)'
  BY <1>1, <1>2 DEF PosterOK, Known
<1> QED
  BY <1>1, <1>2, <1>3, <1>4, LocalStep DEF LocalsOK

\* The endpoints a dispatch visits are enabled when it lists them.
LEMMA DispatchInv == ASSUME Inv, NEW e \in Events, DispatchExecutionEvent(e) PROVE Inv'
<1> USE DEF Inv, DispatchExecutionEvent, Goto, Fault, files, history
<1>1. e \in Posters /\ e \in Threads /\ e \notin Admins /\ e # Scheduler
  BY WebhookAssumption DEF Posters, Threads
<1>2. pc'[e] = "next" /\ \A th \in Threads \ {e} : pc'[th] = pc[th]
  BY <1>1 DEF LocalsOK
<1>3. PICK visit \in SUBSET (Deliveries \X (0..MaxAttempts)) :
         /\ todo' = [todo EXCEPT ![e] = visit]
         /\ \A t \in visit \ todo[e] : t[2] = 0 /\ t[1] \in Deliveries /\ hooks[t[1][2]] = "enabled"
  <2>1. CASE todo' = [todo EXCEPT ![e] = {<<<<e, h>>, 0>> : h \in Targets(e)}]
    <3> DEFINE visit == {<<<<e, h>>, 0>> : h \in Targets(e)}
    <3>1. \A t \in visit : /\ t \in Deliveries \X (0..MaxAttempts)
                           /\ t[2] = 0 /\ t[1] \in Deliveries /\ hooks[t[1][2]] = "enabled"
      BY WebhookAssumption DEF Targets, Deliveries
    <3>2. visit \in SUBSET (Deliveries \X (0..MaxAttempts))
      BY <3>1
    <3>3. todo' = [todo EXCEPT ![e] = visit]
      BY <2>1
    <3> HIDE DEF visit
    <3> QED
      BY <3>1, <3>2, <3>3
  <2>2. CASE UNCHANGED todo
    BY <1>1, <2>2 DEF LocalsOK
  <2> QED
    BY <2>1, <2>2
<1>4. todo'[e] = visit /\ \A p \in Posters \ {e} : todo'[p] = todo[p]
  BY <1>1, <1>3 DEF LocalsOK
<1>5. failures' \in Nat /\ failures <= failures'
  BY DEF LocalsOK
<1>6. TypeOK' /\ LocalsOK'
  BY <1>1, <1>3, <1>5 DEF TypeOK, LocalsOK
<1>7. PosterOK(e)'
  <2>1. ASSUME NEW t \in visit
        PROVE  t[2] <= tries[t[1]] /\ t[2] < MaxAttempts /\ Known(t[1][2])
    <3>1. CASE t \in todo[e]
      BY <1>1, <3>1 DEF PosterOK
    <3>2. CASE t \notin todo[e]
      <4>1. t[2] = 0 /\ t[1] \in Deliveries /\ hooks[t[1][2]] = "enabled"
        BY <1>3, <3>2
      <4>2. t[1][2] \in Endpoints /\ tries[t[1]] \in Nat
        BY <4>1 DEF Deliveries, TypeOK
      <4> QED
        BY <4>1, <4>2, WebhookAssumption DEF Known, Created
    <3> QED
      BY <3>1, <3>2
  <2> QED
    BY <1>1, <1>2, <1>4, <2>1 DEF PosterOK, Known
<1> QED
  BY <1>1, <1>2, <1>4, <1>5, <1>6, <1>7, LocalStep

\* A goroutine posts the delivery it has come to, and has its row in hand then.
LEMMA PostStep ==
  ASSUME Inv, NEW th \in Posters, NEW d \in Deliveries, NEW n \in 1..MaxAttempts,
         pc[th] \in {"next", "send"}, n <= tries[d] + 1, Known(d[2]), Post(th, d, n),
         on' = [on EXCEPT ![th] = d], pc' = [pc EXCEPT ![th] = "load"],
         todo' \in [Posters -> SUBSET (Deliveries \X (0..MaxAttempts))],
         todo'[th] \subseteq todo[th], \A p \in Posters \ {th} : todo'[p] = todo[p],
         UNCHANGED <<files, copy, born, wasOff, stale, raced, changes, failures>>
  PROVE  Inv'
<1> USE DEF Inv, files
<1>1. th \in Threads /\ th \notin Admins
  BY WebhookAssumption DEF Posters, Threads
<1>2. /\ pc'[th] = "load" /\ on'[th] = d
      /\ \A p \in Threads \ {th} : pc'[p] = pc[p] /\ on'[p] = on[p]
  BY <1>1 DEF LocalsOK
<1>3. /\ tries' \in [Deliveries -> Nat] /\ accepted' \subseteq Deliveries
      /\ tries' = [tries EXCEPT ![d] = tries[d] + 1]
      /\ row' \in [Posters -> Row \union {NoRow}]
      /\ \A p \in Posters \ {th} : row'[p] = row[p]
      /\ row'[th] \in Row /\ Earned(d, row[th])'
      /\ ripe' \subseteq Deliveries \X (1..MaxAttempts)
      /\ Grows
  BY PostedRow
<1>4. TypeOK' /\ LocalsOK'
  BY <1>1, <1>3 DEF TypeOK, LocalsOK
<1>5. FileEarned(rows)' /\ Created(hooks)'
  <2>1. rows \in DeliveryFile
    BY DEF TypeOK, DeliveryFile
  <2> QED
    BY <1>3, <1>4, <2>1, FileStays DEF Created, FileEarned
<1>6. \A p \in Posters \ {th} : PosterOK(p)'
  BY <1>2, <1>3, <1>4, PosterStays DEF Posters, Threads, PosterOK
<1>7. PosterOK(th)'
  <2>1. ASSUME NEW t \in todo[th] PROVE t[2] <= tries'[t[1]] /\ Known(t[1][2])'
    <3>1. t[1] \in Deliveries /\ t[2] \in Nat /\ t[1][2] \in Endpoints
      BY <2>1, WebhookAssumption DEF LocalsOK, Deliveries
    <3> QED
      BY <1>3, <2>1, <3>1 DEF TypeOK, PosterOK, Grows
  <2> QED
    BY <1>2, <1>3, <2>1 DEF PosterOK
<1>8. \A a \in Admins : AdminOK(a)'
  BY <1>1, <1>2, AdminStays DEF Threads
<1>9. SentIsRecorded'
  <2>1. \A x \in Deliveries : tries'[x] = tries[x] \/ x = d
    BY <1>3 DEF TypeOK
  <2>2. \A x \in Deliveries : \/ tries'[x] = tries[x]
                              \/ \E p \in Posters : on'[p] = x /\ pc'[p] \in {"load", "save"}
    BY <1>2, <2>1
  <2>3. \A p \in Posters : pc[p] \in {"load", "save"} =>
            on'[p] = on[p] /\ pc'[p] \in {"load", "save"}
    BY <1>2 DEF Posters, Threads
  <2>4. failures \in Nat /\ failures' = failures /\ raced' = raced
    BY DEF LocalsOK
  <2>5. failures <= failures'
    BY <2>4
  <2> QED
    BY <2>2, <2>3, <2>4, <2>5, StillRecorded
<1> QED
  BY <1>4, <1>5, <1>6, <1>7, <1>8, <1>9

LEMMA DeliverInv == ASSUME Inv, NEW e \in Events, Deliver(e) PROVE Inv'
<1> USE WebhookAssumption DEF Inv
<1>1. e \in Posters
  BY DEF Posters
<1>2. PICK t \in todo[e] :
         /\ Post(e, t[1], 1) /\ on' = [on EXCEPT ![e] = t[1]]
         /\ todo' = [todo EXCEPT ![e] = @ \ {t}]
  BY DEF Deliver
<1>3. t \in Deliveries \X (0..MaxAttempts)
  BY <1>1 DEF LocalsOK
<1>4. /\ t[1] \in Deliveries /\ tries[t[1]] \in Nat /\ Known(t[1][2])
      /\ 1 <= tries[t[1]] + 1 /\ 1 \in 1..MaxAttempts
  BY <1>1, <1>3 DEF TypeOK, PosterOK
<1>5. /\ todo' \in [Posters -> SUBSET (Deliveries \X (0..MaxAttempts))]
      /\ todo'[e] \subseteq todo[e] /\ \A p \in Posters \ {e} : todo'[p] = todo[p]
  BY <1>1, <1>2 DEF LocalsOK
<1> QED
  BY <1>1, <1>2, <1>4, <1>5, PostStep DEF Deliver, Goto

LEMMA RetryDeliveryInv == ASSUME Inv, RetryDelivery PROVE Inv'
<1> USE WebhookAssumption DEF Inv
<1> DEFINE d == on[Scheduler]
           n == row[Scheduler].attempt + 1
<1>1. Scheduler \in Posters /\ Scheduler \in Threads
  BY DEF Posters, Threads
<1>2. /\ d \in Deliveries /\ row[Scheduler] \in Row /\ Earned(d, row[Scheduler])
      /\ row[Scheduler].status = "failed"
  BY <1>1 DEF RetryDelivery, PosterOK
<1>3. n \in 1..MaxAttempts /\ n <= tries[d] + 1 /\ Known(d[2])
  BY <1>2 DEF Row, Earned, TypeOK
<1>4. on' = [on EXCEPT ![Scheduler] = d]
  BY <1>1 DEF RetryDelivery, LocalsOK
<1>5. Post(Scheduler, d, n) /\ pc[Scheduler] = "send"
  BY DEF RetryDelivery
<1> HIDE DEF d, n
<1> QED
  BY <1>1, <1>2, <1>3, <1>4, <1>5, PostStep DEF RetryDelivery, Goto, LocalsOK
-----------------------------------------------------------------------------
\* A retry round takes up failed rows, which have attempts left.
LEMMA RetryRoundInv == ASSUME Inv, RetryFailedDeliveries PROVE Inv'
<1> USE WebhookAssumption DEF Inv, RetryFailedDeliveries, Goto, Fault, files, history
<1>1. Scheduler \in Posters /\ Scheduler \in Threads /\ Scheduler \notin Admins
  BY DEF Posters, Threads
<1>2. ASSUME NEW t \in Due
      PROVE  /\ t \in Deliveries \X (0..MaxAttempts) /\ t[2] # 0
             /\ t[2] <= tries[t[1]] /\ t[2] < MaxAttempts /\ Known(t[1][2])
  <2>1. PICK d \in Deliveries : /\ t = <<d, rows[d].attempt>> /\ rows[d] # NoRow
                                /\ rows[d].status = "failed"
    BY <1>2 DEF Due
  <2>2. rows[d] \in Row /\ Earned(d, rows[d])
    BY <2>1 DEF TypeOK, FileEarned
  <2> QED
    BY <2>1, <2>2 DEF Row, Earned
<1>3. PICK visit \in SUBSET (Deliveries \X (0..MaxAttempts)) :
         todo' = [todo EXCEPT ![Scheduler] = visit] /\ \A t \in visit : t \in Due \union todo[Scheduler]
  <2>1. CASE UNCHANGED todo
    BY <1>1, <2>1 DEF LocalsOK
  <2>2. CASE \E items \in SUBSET Due : todo' = [todo EXCEPT ![Scheduler] = items]
    BY <1>2, <2>2
  <2> QED
    BY <2>1, <2>2
<1>4. todo'[Scheduler] = visit /\ \A p \in Posters \ {Scheduler} : todo'[p] = todo[p]
  BY <1>1, <1>3 DEF LocalsOK
<1>5. pc'[Scheduler] \in {"next", "idle"} /\ \A th \in Threads \ {Scheduler} : pc'[th] = pc[th]
  BY <1>1 DEF LocalsOK
<1>6. failures' \in Nat /\ failures <= failures'
  BY DEF LocalsOK
<1>7. pc' \in [Threads -> {"none", "list", "next", "load", "save", "idle", "send"}]
  BY <1>1 DEF LocalsOK
<1>8. TypeOK' /\ LocalsOK'
  BY <1>1, <1>3, <1>6, <1>7 DEF TypeOK, LocalsOK
<1>9. PosterOK(Scheduler)'
  BY <1>1, <1>2, <1>3, <1>4, <1>5 DEF PosterOK, Known
<1> QED
  BY <1>1, <1>4, <1>5, <1>6, <1>8, <1>9, LocalStep

\* A delivery is given up without a request only when its endpoint is off or gone.
LEMMA LookUpInv == ASSUME Inv, LookUpEndpoint PROVE Inv'
<1> USE WebhookAssumption DEF Inv, files, history
<1>1. Scheduler \in Posters /\ Scheduler \in Threads /\ Scheduler \notin Admins
  BY DEF Posters, Threads
<1>2. CASE failures' > failures
  <2>1. /\ todo' = [todo EXCEPT ![Scheduler] = {}] /\ pc' = [pc EXCEPT ![Scheduler] = "idle"]
        /\ failures' = failures + 1 /\ UNCHANGED <<on, row>>
    BY <1>2 DEF LookUpEndpoint, Fault, Goto, LocalsOK
  <2>2. /\ todo'[Scheduler] = {} /\ \A p \in Posters \ {Scheduler} : todo'[p] = todo[p]
        /\ pc'[Scheduler] = "idle" /\ \A th \in Threads \ {Scheduler} : pc'[th] = pc[th]
        /\ failures' \in Nat /\ failures <= failures'
    BY <1>1, <2>1 DEF LocalsOK
  <2>3. TypeOK' /\ LocalsOK'
    BY <1>1, <2>1, <2>2 DEF TypeOK, LocalsOK, LookUpEndpoint
  <2>4. PosterOK(Scheduler)'
    BY <2>2 DEF PosterOK
  <2> QED
    BY <1>1, <2>1, <2>2, <2>3, <2>4, LocalStep DEF LookUpEndpoint
<1>3. CASE failures' = failures
  <2>1. PICK t \in todo[Scheduler] :
          /\ todo' = [todo EXCEPT ![Scheduler] = @ \ {t}]
          /\ on' = [on EXCEPT ![Scheduler] = t[1]]
          /\ row' = [row EXCEPT ![Scheduler] =
                      [status |-> IF hooks[t[1][2]] = "enabled" THEN "failed" ELSE "dlq",
                       attempt |-> t[2]]]
          /\ Goto(Scheduler, IF hooks[t[1][2]] = "enabled" THEN "send" ELSE "load")
    BY <1>3 DEF LookUpEndpoint, Fault, LocalsOK
  <2> DEFINE d == t[1]
             r == [status |-> IF hooks[t[1][2]] = "enabled" THEN "failed" ELSE "dlq",
                   attempt |-> t[2]]
  <2>2. t \in Deliveries \X (0..MaxAttempts)
    BY <1>1, <2>1 DEF LocalsOK
  <2>3. /\ d \in Deliveries /\ t[2] \in 1..MaxAttempts /\ t[2] < MaxAttempts
        /\ t[2] <= tries[d] /\ Known(d[2]) /\ d[2] \in Endpoints
    BY <1>1, <2>2 DEF PosterOK, Deliveries
  <2>4. /\ r \in Row /\ r.attempt = t[2]
        /\ r.status = IF hooks[d[2]] = "enabled" THEN "failed" ELSE "dlq"
    BY <2>3 DEF Row
  <2>5. Earned(d, r)
    BY <2>3, <2>4 DEF Earned, Known
  <2>6. /\ todo'[Scheduler] \subseteq todo[Scheduler]
        /\ \A p \in Posters \ {Scheduler} : todo'[p] = todo[p] /\ row'[p] = row[p]
        /\ on'[Scheduler] = d /\ row'[Scheduler] = r
        /\ pc'[Scheduler] = IF r.status = "failed" THEN "send" ELSE "load"
        /\ \A th \in Threads \ {Scheduler} : pc'[th] = pc[th] /\ on'[th] = on[th]
    BY <1>1, <2>1, <2>4 DEF LocalsOK, TypeOK, Goto
  <2>7. row' \in [Posters -> Row \union {NoRow}] /\ on' \in [Threads ->
            Deliveries \union (Endpoints \X Statuses) \union {NoRow}]
    <3> HIDE DEF r, d
    <3>1. row' = [row EXCEPT ![Scheduler] = r] /\ on' = [on EXCEPT ![Scheduler] = d]
      BY <2>1 DEF r, d
    <3> QED
      BY <1>1, <2>3, <2>4, <3>1 DEF TypeOK, LocalsOK
  <2>8. todo' \in [Posters -> SUBSET (Deliveries \X (0..MaxAttempts))]
    BY <1>1, <2>1 DEF LocalsOK
  <2>9. pc' \in [Threads -> {"none", "list", "next", "load", "save", "idle", "send"}]
    BY <1>1, <2>1 DEF LocalsOK, Goto
  <2>10. TypeOK' /\ LocalsOK'
    BY <1>3, <2>7, <2>8, <2>9 DEF TypeOK, LocalsOK, LookUpEndpoint
  <2>11. UNCHANGED <<hooks, tries, accepted, born, wasOff>> /\ pc[Scheduler] = "next"
    BY DEF LookUpEndpoint
  <2>12. failures <= failures'
    BY <1>3 DEF LocalsOK
  <2>13. Earned(on[Scheduler], row[Scheduler])'
    BY <2>5, <2>6, <2>11 DEF Earned, Known
  <2> HIDE DEF r, d
  <2>14. PosterOK(Scheduler)'
    BY <1>1, <2>3, <2>4, <2>6, <2>11, <2>13 DEF PosterOK, Known
  <2> QED
    BY <1>1, <1>3, <2>6, <2>10, <2>11, <2>12, <2>14, LocalStep DEF LookUpEndpoint
<1> QED
  BY <1>2, <1>3 DEF LookUpEndpoint, Fault, LocalsOK

\* A retry time passes.
LEMMA ElapseInv == ASSUME Inv, NEW d \in Deliveries, Elapse(d) PROVE Inv'
<1> USE DEF Inv, Elapse, files, locals, history
<1>1. rows[d] \in Row
  BY DEF TypeOK
<1>2. TypeOK' /\ LocalsOK'
  BY <1>1 DEF TypeOK, LocalsOK, Row
<1>3. Scheduler \in Posters /\ Scheduler \in Threads /\ Scheduler \notin Admins
  BY WebhookAssumption DEF Posters, Threads
<1>4. PosterOK(Scheduler)'
  BY <1>3 DEF PosterOK, Known, FileEarned, Earned
<1>5. failures <= failures'
  BY DEF LocalsOK
<1> QED
  BY <1>2, <1>3, <1>4, <1>5, LocalStep
-----------------------------------------------------------------------------
\* A goroutine drops what it had in hand.
LEMMA AfterStoreLocals ==
  ASSUME Inv, NEW th \in Posters, AfterStore(th)
  PROVE  /\ pc' \in [Threads -> {"none", "list", "next", "load", "save", "idle", "send"}]
         /\ on' \in [Threads -> Deliveries \union (Endpoints \X Statuses) \union {NoRow}]
         /\ copy' \in [Threads -> DeliveryFile \union EndpointFile \union {NoRow}]
         /\ row' \in [Posters -> Row \union {NoRow}]
         /\ pc'[th] \in {"idle", "next"} /\ th \in Threads
         /\ \A p \in Threads \ {th} : pc'[p] = pc[p] /\ on'[p] = on[p] /\ copy'[p] = copy[p]
         /\ \A p \in Posters \ {th} : row'[p] = row[p]
<1>1. th \in Threads
  BY DEF Posters, Threads
<1> QED
  BY <1>1 DEF Inv, TypeOK, LocalsOK, AfterStore, Goto

\* Between the load and the save a goroutine's copy is the file.
LEMMA LoadDeliveriesInv == ASSUME Inv, NEW th \in Posters, LoadDeliveries(th) PROVE Inv'
<1> USE DEF Inv, files, history
<1>1. th \in Threads /\ th \notin Admins
  BY WebhookAssumption DEF Posters, Threads
<1>2. rows \in DeliveryFile
  BY DEF TypeOK, DeliveryFile
<1>3. CASE copy' = [copy EXCEPT ![th] = rows] /\ Goto(th, "save") /\ UNCHANGED <<on, row, failures>>
  <2>1. /\ pc'[th] = "save" /\ copy'[th] = rows
        /\ \A p \in Threads \ {th} : pc'[p] = pc[p] /\ copy'[p] = copy[p]
    BY <1>1, <1>3 DEF LocalsOK, Goto
  <2>2. TypeOK' /\ LocalsOK'
    BY <1>1, <1>2, <1>3 DEF TypeOK, LocalsOK, Goto, LoadDeliveries
  <2>3. PosterOK(th)'
    BY <1>2, <1>3, <2>1 DEF PosterOK, LoadDeliveries, FileEarned, Earned, Known
  <2>4. failures <= failures'
    BY <1>3 DEF LocalsOK
  <2> QED
    BY <1>1, <1>3, <2>1, <2>2, <2>3, <2>4, LocalStep DEF LoadDeliveries
<1>4. CASE Fault /\ AfterStore(th)
  <2>1. failures' \in Nat /\ failures' > 0 /\ failures <= failures'
    BY <1>4 DEF Fault, LocalsOK
  <2>2. TypeOK' /\ LocalsOK'
    BY <1>4, <2>1, AfterStoreLocals DEF TypeOK, LocalsOK, LoadDeliveries
  <2>3. PosterOK(th)'
    BY <1>4, AfterStoreLocals DEF PosterOK, LoadDeliveries, Known
  <2> QED
    BY <1>1, <1>4, <2>1, <2>2, <2>3, AfterStoreLocals, LocalStep DEF LoadDeliveries
<1> QED
  BY <1>3, <1>4 DEF LoadDeliveries

\* A save stores the row in hand and what the copy held; it marks the copies of
\* others, and is told apart when its own was marked.
LEMMA SaveDeliveriesInv == ASSUME Inv, NEW th \in Posters, SaveDeliveries(th) PROVE Inv'
<1> USE DEF Inv
<1>1. th \in Threads /\ th \notin Admins
  BY WebhookAssumption DEF Posters, Threads
<1>2. /\ pc[th] = "save" /\ AfterStore(th)
      /\ UNCHANGED <<hooks, ripe, todo, born, tries, accepted, wasOff, changes>>
  BY DEF SaveDeliveries
<1>3. /\ on[th] \in Deliveries /\ row[th] \in Row /\ Earned(on[th], row[th])
      /\ copy[th] \in DeliveryFile /\ FileEarned(copy[th])
  BY <1>2 DEF PosterOK
<1>4. PICK file \in DeliveryFile :
        /\ rows' = file /\ FileEarned(file)
        /\ raced => raced'
        /\ \/ rows' = rows /\ stale' = stale \ {th} /\ Fault
           \/ /\ stale' = (stale \union {p \in Posters : pc[p] = "save"}) \ {th}
              /\ th \in stale => raced'
              /\ th \notin stale => \A d \in Deliveries : rows[d] # NoRow => rows'[d] # NoRow
              /\ rows'[on[th]] # NoRow
              /\ failures' = failures
  <2>1. CASE Fault /\ stale' = stale \ {th} /\ UNCHANGED <<rows, raced>>
    <3>1. rows \in DeliveryFile
      BY DEF TypeOK, DeliveryFile
    <3>2. raced => raced'
      BY <2>1
    <3> QED
      BY <2>1, <3>1, <3>2
  <2>2. CASE /\ rows' = [copy[th] EXCEPT ![on[th]] = row[th]]
             /\ stale' = (stale \union {p \in Posters : pc[p] = "save"}) \ {th}
             /\ raced' = (raced \/ th \in stale)
             /\ UNCHANGED failures
    <3>1. rows' \in DeliveryFile
      BY <1>3, <2>2 DEF DeliveryFile
    <3>2. PICK file \in DeliveryFile : file = rows'
      BY <3>1
    <3>3. FileEarned(file)
      BY <1>3, <2>2, <3>2 DEF FileEarned, DeliveryFile
    <3>4. th \notin stale => copy[th] = rows
      BY <1>2 DEF PosterOK
    <3>5. rows'[on[th]] = row[th] /\ row[th] # NoRow
      BY <1>3, <2>2, NoRowAssumption DEF DeliveryFile
    <3>6. \A d \in Deliveries : rows'[d] = IF d = on[th] THEN row[th] ELSE copy[th][d]
      BY <1>3, <2>2 DEF DeliveryFile
    <3>7. (raced => raced') /\ (th \in stale => raced')
      BY <2>2, Zenon
    <3> QED
      BY <2>2, <3>2, <3>3, <3>4, <3>5, <3>6, <3>7
  <2> QED
    BY <2>1, <2>2 DEF SaveDeliveries
<1>5. failures' \in Nat /\ failures <= failures' /\ (raced => raced')
  BY <1>4 DEF Fault, LocalsOK
<1>6. TypeOK' /\ LocalsOK'
  BY <1>2, <1>4, <1>5, AfterStoreLocals DEF TypeOK, LocalsOK, DeliveryFile
<1>7. Grows
  <2>1. \A d \in Deliveries : tries[d] <= tries'[d]
    BY <1>2 DEF TypeOK
  <2> QED
    BY <1>2, <2>1, GrowsAlone
<1>8. FileEarned(rows)' /\ Created(hooks)'
  <2>1. FileEarned(file)'
    BY <1>4, <1>6, <1>7, FileStays
  <2> QED
    BY <1>2, <1>4, <2>1 DEF Created, FileEarned
<1>9. \A p \in Posters \ {th} : PosterOK(p)'
  <2> SUFFICES ASSUME NEW p \in Posters, p # th PROVE PosterOK(p)'
    OBVIOUS
  <2>1. p \in Threads
    BY DEF Posters, Threads
  <2>2. /\ pc'[p] = pc[p] /\ todo'[p] = todo[p] /\ on'[p] = on[p] /\ row'[p] = row[p]
        /\ copy'[p] = copy[p]
    BY <1>2, <2>1, AfterStoreLocals
  <2>3. pc[p] = "save" => p \in stale' \/ (rows' = rows /\ p \notin stale)
    BY <1>4
  <2> QED
    BY <1>6, <1>7, <2>2, <2>3, PosterStays
<1>10. PosterOK(th)'
  BY <1>2, AfterStoreLocals DEF PosterOK, Known
<1>11. \A a \in Admins : AdminOK(a)'
  <2>1. \A a \in Admins : a \in Threads /\ a # th
    BY <1>1 DEF Threads
  <2> QED
    BY <1>2, <2>1, AfterStoreLocals, AdminStays
<1>12. SentIsRecorded'
  <2>1. CASE failures' > 0 \/ raced'
    BY <2>1 DEF SentIsRecorded
  <2>2. CASE ~(failures' > 0) /\ ~raced'
    <3>1. /\ th \notin stale /\ failures' = failures /\ rows'[on[th]] # NoRow
          /\ \A d \in Deliveries : rows[d] # NoRow => rows'[d] # NoRow
      BY <1>4, <1>5, <2>2 DEF Fault, LocalsOK
    <3>2. \A p \in Posters : pc[p] \in {"load", "save"} =>
            \/ on'[p] = on[p] /\ pc'[p] \in {"load", "save"}
            \/ \E d \in Deliveries : on[p] = d /\ rows'[d] # NoRow
      BY <1>2, <1>3, <3>1, AfterStoreLocals DEF Posters, Threads
    <3> QED
      BY <1>2, <1>5, <3>1, <3>2, StillRecorded DEF LocalsOK
  <2> QED
    BY <2>1, <2>2
<1> QED
  BY <1>6, <1>8, <1>9, <1>10, <1>11, <1>12
-----------------------------------------------------------------------------
\* What an administrator does before the save changes its own locals and, for a
\* create, the set of endpoints that have been created.
LEMMA AdminStep ==
  ASSUME Inv, NEW a \in Admins,
         UNCHANGED <<files, ripe, todo, row, tries, accepted, wasOff, stale, raced>>,
         born \subseteq born', born' \subseteq Endpoints,
         pc' \in [Threads -> {"none", "list", "next", "load", "save", "idle", "send"}],
         on' \in [Threads -> Deliveries \union (Endpoints \X Statuses) \union {NoRow}],
         copy' \in [Threads -> DeliveryFile \union EndpointFile \union {NoRow}],
         \A p \in Threads \ {a} : pc'[p] = pc[p] /\ on'[p] = on[p] /\ copy'[p] = copy[p],
         failures' \in Nat, failures <= failures', AdminOK(a)'
  PROVE  Inv'
<1>1. a \in Threads /\ a \notin Posters
  BY WebhookAssumption DEF Posters, Threads
<1>2. TypeOK' /\ LocalsOK'
  BY DEF Inv, TypeOK, LocalsOK, files
<1> QED
  BY <1>1, <1>2, LocalStep DEF files

LEMMA CreateEndpointInv == ASSUME Inv, NEW a \in Admins, CreateEndpoint(a) PROVE Inv'
<1> USE DEF Inv, CreateEndpoint, Goto, files
<1>1. a \in Threads
  BY DEF Threads
<1>2. PICK h \in Endpoints : born' = born \union {h} /\ on' = [on EXCEPT ![a] = <<h, "enabled">>]
  OBVIOUS
<1>3. /\ pc'[a] = "load" /\ on'[a] = <<h, "enabled">> /\ <<h, "enabled">> \in Endpoints \X Statuses
      /\ \A p \in Threads \ {a} : pc'[p] = pc[p] /\ on'[p] = on[p]
  BY <1>1, <1>2 DEF LocalsOK, Statuses
<1>4. /\ pc' \in [Threads -> {"none", "list", "next", "load", "save", "idle", "send"}]
      /\ on' \in [Threads -> Deliveries \union (Endpoints \X Statuses) \union {NoRow}]
      /\ copy' \in [Threads -> DeliveryFile \union EndpointFile \union {NoRow}]
      /\ born' \subseteq Endpoints /\ failures' \in Nat /\ failures <= failures'
  BY <1>1, <1>2, <1>3 DEF LocalsOK
<1>5. AdminOK(a)'
  BY <1>2, <1>3 DEF AdminOK
<1> QED
  BY <1>2, <1>3, <1>4, <1>5, AdminStep

LEMMA FindEndpointInv == ASSUME Inv, NEW a \in Admins, FindEndpoint(a) PROVE Inv'
<1> USE DEF Inv, FindEndpoint, Goto, files, history
<1>1. a \in Threads
  BY DEF Threads
<1>2. PICK h \in Endpoints, change \in Statuses :
         hooks[h] # "absent" /\ on' = [on EXCEPT ![a] = <<h, change>>]
  BY DEF Statuses
<1>3. /\ pc'[a] = "load" /\ on'[a] = <<h, change>> /\ <<h, change>> \in Endpoints \X Statuses
      /\ \A p \in Threads \ {a} : pc'[p] = pc[p] /\ on'[p] = on[p]
  BY <1>1, <1>2 DEF LocalsOK
<1>4. /\ pc' \in [Threads -> {"none", "list", "next", "load", "save", "idle", "send"}]
      /\ on' \in [Threads -> Deliveries \union (Endpoints \X Statuses) \union {NoRow}]
      /\ copy' \in [Threads -> DeliveryFile \union EndpointFile \union {NoRow}]
      /\ born' \subseteq Endpoints /\ failures' \in Nat /\ failures <= failures'
  BY <1>1, <1>2, <1>3 DEF LocalsOK
<1>5. AdminOK(a)'
  BY <1>2, <1>3 DEF AdminOK, Created
<1> QED
  BY <1>3, <1>4, <1>5, AdminStep

LEMMA LoadEndpointsInv == ASSUME Inv, NEW a \in Admins, LoadEndpoints(a) PROVE Inv'
<1> USE DEF Inv, LoadEndpoints, Goto, Fault, files, history
<1>1. a \in Threads
  BY DEF Threads
<1>2. hooks \in EndpointFile
  BY DEF TypeOK, EndpointFile, Statuses
<1>3. /\ pc' \in [Threads -> {"none", "list", "next", "load", "save", "idle", "send"}]
      /\ on' \in [Threads -> Deliveries \union (Endpoints \X Statuses) \union {NoRow}]
      /\ copy' \in [Threads -> DeliveryFile \union EndpointFile \union {NoRow}]
      /\ \A p \in Threads \ {a} : pc'[p] = pc[p] /\ on'[p] = on[p] /\ copy'[p] = copy[p]
  BY <1>1, <1>2 DEF LocalsOK
<1>4. born' \subseteq Endpoints /\ failures' \in Nat /\ failures <= failures'
  BY DEF LocalsOK
<1>5. AdminOK(a)'
  BY <1>1, <1>2 DEF AdminOK, Created, LocalsOK
<1> QED
  BY <1>3, <1>4, <1>5, AdminStep

\* A save of webhooks.json may undo other changes, but an endpoint that leaves the
\* enabled state by it is one that was off.
LEMMA SaveEndpointsInv == ASSUME Inv, NEW a \in Admins, SaveEndpoints(a) PROVE Inv'
<1> USE DEF Inv
<1>1. a \in Threads /\ a \notin Posters
  BY WebhookAssumption DEF Posters, Threads
<1>2. /\ on[a] \in Endpoints \X Statuses /\ on[a][1] \in born
      /\ copy[a] \in EndpointFile /\ Created(copy[a])
  BY DEF SaveEndpoints, AdminOK
<1>3. /\ pc' = [pc EXCEPT ![a] = "idle"] /\ on' = [on EXCEPT ![a] = NoRow]
      /\ copy' = [copy EXCEPT ![a] = NoRow]
      /\ UNCHANGED <<rows, ripe, todo, row, born, tries, accepted, stale, raced, changes>>
  BY DEF SaveEndpoints, Goto
<1>4. /\ hooks' \in EndpointFile /\ Created(hooks') /\ failures' \in Nat /\ failures <= failures'
      /\ wasOff \subseteq wasOff' /\ wasOff' \subseteq Endpoints
      /\ \A h \in born : Known(h) => hooks'[h] = "enabled" \/ h \in wasOff'
  <2>1. CASE /\ hooks' = [copy[a] EXCEPT ![on[a][1]] = on[a][2]]
             /\ wasOff' = wasOff \union {h \in born : hooks'[h] # "enabled"}
             /\ UNCHANGED failures
    <3>1. PICK h \in born, s \in Statuses : h \in Endpoints /\ hooks' = [copy[a] EXCEPT ![h] = s]
      BY <1>2, <2>1
    <3>2. hooks' \in EndpointFile /\ Created(hooks')
      BY <1>2, <3>1 DEF EndpointFile, Created
    <3> QED
      BY <2>1, <3>2 DEF LocalsOK
  <2>2. CASE Fault /\ UNCHANGED <<hooks, wasOff>>
    BY <2>2 DEF Fault, LocalsOK, TypeOK, EndpointFile, Statuses, Known
  <2> QED
    BY <2>1, <2>2 DEF SaveEndpoints
<1>5. TypeOK' /\ LocalsOK'
  BY <1>1, <1>3, <1>4 DEF TypeOK, LocalsOK, EndpointFile, Statuses
<1>6. Grows
  BY <1>3, <1>4 DEF Grows, Known, TypeOK
<1>7. FileEarned(rows)' /\ Created(hooks)'
  <2>1. PICK file \in DeliveryFile : file = rows
    BY DEF TypeOK, DeliveryFile
  <2>2. FileEarned(file)'
    BY <1>5, <1>6, <2>1, FileStays
  <2> QED
    BY <1>3, <1>4, <2>1, <2>2 DEF Created, FileEarned
<1>8. /\ \A p \in Threads \ {a} : pc'[p] = pc[p] /\ on'[p] = on[p] /\ copy'[p] = copy[p]
      /\ pc'[a] = "idle"
  BY <1>1, <1>3 DEF LocalsOK
<1>9. \A p \in Posters : PosterOK(p)'
  BY <1>1, <1>3, <1>5, <1>6, <1>8, PosterStays DEF Posters, Threads, PosterOK
<1>10. \A b \in Admins : AdminOK(b)'
  <2>1. AdminOK(a)'
    BY <1>8 DEF AdminOK
  <2>2. \A b \in Admins \ {a} : AdminOK(b)'
    BY <1>3, <1>8, AdminStays DEF Threads
  <2> QED
    BY <2>1, <2>2
<1>11. SentIsRecorded'
  <2>1. \A p \in Posters : pc'[p] = pc[p] /\ on'[p] = on[p]
    BY <1>1, <1>8 DEF Posters, Threads
  <2> QED
    BY <1>3, <1>4, <2>1, StillRecorded DEF LocalsOK
<1> QED
  BY <1>5, <1>7, <1>9, <1>10, <1>11

\* A stop of the process loses what goroutines have in hand, and is counted.
LEMMA CrashInv == ASSUME Inv, Crash PROVE Inv'
<1> USE WebhookAssumption DEF Inv, Crash, Fault, files
<1>1. failures' \in Nat /\ failures' > 0
  BY DEF LocalsOK
<1>2. pc' \in [Threads -> {"none", "next", "idle"}]
  OBVIOUS
<1>3. TypeOK' /\ LocalsOK'
  <2>1. todo' \in [Posters -> SUBSET (Deliveries \X (0..MaxAttempts))]
    OBVIOUS
  <2>2. pc' \in [Threads -> {"none", "list", "next", "load", "save", "idle", "send"}]
    BY <1>2
  <2> QED
    BY <1>1, <2>1, <2>2 DEF TypeOK, LocalsOK
<1>4. FileEarned(rows)' /\ Created(hooks)'
  BY DEF FileEarned, Created, Earned, Known
<1>5. \A p \in Posters : PosterOK(p)'
  BY <1>2 DEF PosterOK, Posters, Threads
<1>6. \A a \in Admins : AdminOK(a)'
  BY <1>2 DEF AdminOK, Threads
<1>7. SentIsRecorded'
  BY <1>1 DEF SentIsRecorded
<1> QED
  BY <1>3, <1>4, <1>5, <1>6, <1>7
-----------------------------------------------------------------------------
LEMMA NextInv == ASSUME Inv, [Next]_vars PROVE Inv'
<1>1. CASE \E e \in Events : Dispatch(e)
  BY <1>1, HandleInv, DispatchInv, DeliverInv DEF Dispatch
<1>2. CASE Retry
  BY <1>2, RetryRoundInv, LookUpInv, RetryDeliveryInv DEF Retry
<1>3. CASE \E th \in Posters : Store(th)
  BY <1>3, LoadDeliveriesInv, SaveDeliveriesInv DEF Store
<1>4. CASE \E d \in Deliveries : Elapse(d)
  BY <1>4, ElapseInv
<1>5. CASE \E a \in Admins : Change(a)
  BY <1>5, CreateEndpointInv, FindEndpointInv, LoadEndpointsInv, SaveEndpointsInv DEF Change
<1>6. CASE Crash
  BY <1>6, CrashInv
<1>7. CASE UNCHANGED vars
  BY <1>7 DEF Inv, TypeOK, LocalsOK, FileEarned, Created, PosterOK, AdminOK, SentIsRecorded,
              Earned, Known, vars, files, locals, history
<1> QED
  BY <1>1, <1>2, <1>3, <1>4, <1>5, <1>6, <1>7 DEF Next

LEMMA Invariance == Spec => []Inv
<1> QED
  BY InitInv, NextInv, PTL DEF Spec

\* The files, the retry times and the rows in hand keep their types: no attempt is
\* stored beyond MaxAttempts (service/webhook.go, markDeliveryFailed and the
\* attempt + 1 of retryDelivery).
THEOREM TypeCorrect == Spec => []TypeOK
<1>1. Inv => TypeOK
  BY DEF Inv
<1> QED
  BY <1>1, Invariance, PTL

\* What webhook_deliveries.json holds as delivered was accepted by its receiver,
\* with any number of goroutines writing the file over one another (deliver,
\* retryDelivery, CreateDelivery and UpdateDelivery).
THEOREM DeliveredIsAccepted == Spec => []DeliveredWasAccepted
<1>1. Inv => DeliveredWasAccepted
  BY DEF Inv, FileEarned, Earned, DeliveredWasAccepted
<1> QED
  BY <1>1, Invariance, PTL

\* A row never counts an attempt that was not made, and a delivery in the
\* dead-letter state was posted MaxAttempts times or its endpoint was off
\* (markDeliveryFailed, RetryFailedDeliveries).
THEOREM GivenUpHasCause == Spec => []GivenUpForCause
<1>1. Inv => GivenUpForCause
  BY DEF Inv, FileEarned, Earned, GivenUpForCause
<1> QED
  BY <1>1, Invariance, PTL

\* A request of which no row remains is owed to a failing file access, a stop of
\* the process, or two overlapping changes of webhook_deliveries.json.
THEOREM SentLeavesRecord == Spec => []SentIsRecorded
<1>1. Inv => SentIsRecorded
  BY DEF Inv
<1> QED
  BY <1>1, Invariance, PTL
=============================================================================
