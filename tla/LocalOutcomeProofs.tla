-------------------------- MODULE LocalOutcomeProofs --------------------------
(***************************************************************************)
(* Proofs about what becomes of an execution in LocalExecution, for any    *)
(* number of executions, keys, cancels, workers, failing file accesses and *)
(* stops of the process.  The invariant is about one execution x: what the *)
(* threads on x rely on as long as no update of another execution has      *)
(* changed the row of x in this life of the process, and what is left when *)
(* one has.                                                                *)
(***************************************************************************)
EXTENDS LocalExecutionProofs

\* No update of another execution has changed the row in this life of the process.
Kept(x) == Life \notin overwritten[x]

\* The earlier lives in which one has
PastLosses(x) == Cardinality(overwritten[x] \ {Life})

InChannel(x) == \E i \in DOMAIN channel : channel[i] = x

\* The status a thread that handles an execution expects, unless it was canceled
Expected(th) ==
    CASE pc[th] = "mark" -> {"Pending"}
      [] pc[th] \in {"submit", "read", "start"} -> {"Queued"}
      [] pc[th] \in {"run", "loadResults", "saveResults", "finish"} -> {"Running"}
      [] pc[th] = "fail" -> {"Queued", "Running"}
      [] pc[th] \in Updating ->
            (CASE write[th].next = "submit" -> {"Pending"}
               [] write[th].next \in {"run", "refused"} -> {"Queued"}
               [] write[th].next = "recover" -> {"Running"}
               [] write[th].fail = "fail" -> {"Running"}
               [] OTHER -> {"Queued", "Running"})
      [] OTHER -> ExecutionStatus \union {"Absent"}

ExpectedBy(th, x) == executions[x] \in Expected(th) \union {"Canceled"}

\* What the main goroutine, the channel and every thread on x rely on
StatusOK(x) ==
    Kept(x) =>
       /\ \A th \in Threads \ Cancels : on[th] = x => ExpectedBy(th, x)
       /\ \A c \in Cancels : on[c] = x => executions[x] # "Absent"
       /\ InChannel(x) => executions[x] \in {"Queued", "Canceled"}
       /\ pc[Main] \in Recoverable =>
             \A item \in todo : item.id = x => executions[x] \in {item.status, "Canceled"}

\* Who may still start the plugins of the execution it has
Starter(th) ==
    \/ th \in Requests /\ pc[th] \in CreateBusy
    \/ /\ th \in Workers
       /\ pc[th] \in {"read", "start", "run"} \/ (pc[th] \in Updating /\ write[th].next = "run")
    \/ /\ th = Main
       /\ pc[th] \in {"mark", "submit"} \/ (pc[th] \in Updating /\ write[th].next = "submit")

\* This life of the process may still start the plugins.
Potential(x) ==
    \/ InChannel(x)
    \/ \E th \in Threads : on[th] = x /\ Starter(th)
    \/ pc[Main] \in Recoverable /\ \E item \in todo : item.id = x /\ item.status # "Running"

NotStarted == {"Absent", "Pending", "Queued"}

\* A run is used up by the row that says so, or by the life that may still start one.
RunsOK(x) ==
    /\ runs[x] <= 1 + PastLosses(x)
    /\ Potential(x) => runs[x] <= PastLosses(x)
    /\ Kept(x) /\ executions[x] \in NotStarted => runs[x] <= PastLosses(x)

\* Who has stored the results and is about to say so
Deciding(th) ==
    /\ th \in Workers
    /\ \/ pc[th] = "finish"
       \/ pc[th] \in Updating /\ write[th].next = "return" /\ write[th].fail = "fail"

RanWell == {"Success", "PartialSuccess", "Timeout"}
Saving == {"save", "insert"}

\* Results were stored before a row, or a copy of the rows, or a worker tells of them.
ResultsOK(x) ==
    \/ x \in results \union dropped
    \/ /\ executions[x] \notin RanWell
       /\ \A th \in Threads : pc[th] \in Saving => copy[th][x] \notin RanWell
       /\ \A th \in Threads : on[th] = x => ~Deciding(th)

\* Who has an execution that is not decided yet
Carries(th) ==
    \/ th \in Requests /\ pc[th] \in CreateBusy \ {"new"}
    \/ th \in Workers /\ pc[th] \notin {"idle", "return"}
    \/ th = Main /\ pc[th] \in RecoveryBusy

Scheduled(x) ==
    \/ InChannel(x)
    \/ \E th \in Threads : on[th] = x /\ Carries(th)
    \/ pc[Main] \in Recoverable /\ \E item \in todo : item.id = x
    \/ pc[Main] \in {"down", "list"}

ScheduledOK(x) == Unfinished(x) => Scheduled(x) \/ SetBack(x)

\* An earlier life could not write the row, or lost it.
SpoiledBefore(x) == \E l \in overwritten[x] \union failed[x] : l < Life

\* A refused execution has not run, nobody will take it up, and its row says so, unless
\* this life could not write it.
RefusedOK(x) ==
    /\ reply[x] = "refused" => pc[x] = "done"
    /\ (pc[x] = "refused" \/ reply[x] = "refused") /\ ~SpoiledBefore(x) =>
          /\ runs[x] = 0 /\ ~Potential(x)
          /\ IsFinal(executions[x]) \/ Life \in overwritten[x] \union failed[x]

Good(x) == StatusOK(x) /\ RunsOK(x) /\ ResultsOK(x) /\ ScheduledOK(x) /\ RefusedOK(x)

\* Until the file has been listed nobody writes it.
Quiet ==
    pc[Main] \in {"down", "list"} =>
       /\ on[Main] = NoOne
       /\ \A c \in Cancels : pc[c] \notin Updating
       /\ \A x \in Requests : Life \notin overwritten[x] \union failed[x]

OutcomeInv == Inv /\ HistoryTypes /\ Quiet /\ \A x \in Requests : Good(x)

\* What a step of one life may do to the histories of x
Grows(x) ==
    /\ crashes' = crashes
    /\ overwritten'[x] \in {overwritten[x], overwritten[x] \union {Life}}
    /\ failed'[x] \in {failed[x], failed[x] \union {Life}}
    /\ results \union dropped \subseteq results' \union dropped'

LEMMA NextGrows ==
  ASSUME Inv, HistoryTypes, Next, crashes' = crashes, NEW x \in Requests PROVE Grows(x)
<1>1. HistoryStep
  BY ActionHistory
<1>2. overwritten'[x] \in {overwritten[x], overwritten[x] \union {Life}}
  BY <1>1 DEF HistoryStep, SaveFor
<1>3. failed'[x] \in {failed[x], failed[x] \union {Life}}
  BY <1>1 DEF HistoryStep, Fault
<1>4. results \union dropped \subseteq results' \union dropped'
  BY <1>1 DEF HistoryStep
<1> QED
  BY <1>2, <1>3, <1>4 DEF Grows

\* Earlier lives are not added to.
LEMMA Losses ==
  ASSUME Inv, HistoryTypes, NEW x \in Requests
  PROVE  /\ PastLosses(x) \in Nat
         /\ ~SpoiledBefore(x) => PastLosses(x) = 0
         /\ Grows(x) => PastLosses(x)' = PastLosses(x) /\ (SpoiledBefore(x)' <=> SpoiledBefore(x))
                        /\ (Kept(x)' => Kept(x)) /\ Life' = Life
<1>1. /\ crashes \in Nat /\ Life = crashes + 1 /\ overwritten[x] \subseteq 1..Life
      /\ failed[x] \subseteq 1..Life
  BY DEF Inv, LocalsOK, HistoryTypes, Life
<1>2. IsFiniteSet(overwritten[x] \ {Life})
  <2>1. IsFiniteSet(1..Life)
    <3>1. \A n \in Nat : IsFiniteSet(1..n)
      BY FS_Interval
    <3> QED
      BY <1>1, <3>1
  <2> QED
    BY <1>1, <2>1, FS_Subset
<1>3. PastLosses(x) \in Nat
  BY <1>2, FS_CardinalityType DEF PastLosses
<1>4. ~SpoiledBefore(x) => PastLosses(x) = 0
  <2>1. SUFFICES ASSUME ~SpoiledBefore(x) PROVE overwritten[x] \ {Life} = {}
    BY FS_EmptySet DEF PastLosses
  <2>2. \A l \in 1..Life : l < Life \/ l = Life
    BY <1>1
  <2> QED
    BY <1>1, <2>1, <2>2 DEF SpoiledBefore
<1>5. ASSUME Grows(x)
      PROVE  /\ PastLosses(x)' = PastLosses(x) /\ (SpoiledBefore(x)' <=> SpoiledBefore(x))
             /\ (Kept(x)' => Kept(x)) /\ Life' = Life
  <2>1. Life' = Life
    BY <1>5 DEF Grows, Life
  <2>2. overwritten'[x] \ {Life} = overwritten[x] \ {Life}
    BY <1>5 DEF Grows
  <2>3. ~(Life < Life)
    BY <1>1
  <2>4. SpoiledBefore(x)' <=> SpoiledBefore(x)
    BY <1>5, <2>1, <2>3 DEF Grows, SpoiledBefore
  <2> QED
    BY <1>5, <2>1, <2>2, <2>4 DEF PastLosses, Kept, Grows
<1> QED
  BY <1>3, <1>4, <1>5

LEMMA InitGood == Init => \A x \in Requests : Good(x)
<1> SUFFICES ASSUME Init, NEW x \in Requests PROVE Good(x)
  OBVIOUS
<1> USE LocalAssumption DEF Init, Threads
<1>1. /\ \A th \in Threads : pc[th] \in {"down", "idle", "new"} /\ (on[th] = x => th = x)
      /\ pc[Main] = "down" /\ pc[x] = "new" /\ x \notin Workers
  OBVIOUS
<1>2. ~InChannel(x) /\ executions[x] = "Absent" /\ runs[x] = 0 /\ reply[x] = "none"
  BY DEF InChannel
<1>3. StatusOK(x)
  <2>1. \A th \in Threads : on[th] = x => Expected(th) = ExecutionStatus \union {"Absent"}
    BY <1>1 DEF Expected, Updating
  <2>2. \A c \in Cancels : on[c] # x
    BY <1>1
  <2> QED
    BY <1>1, <1>2, <2>1, <2>2 DEF StatusOK, ExpectedBy, Recoverable, RecoveryBusy, Updating
<1>4. RunsOK(x)
  <2>1. PastLosses(x) = 0
    BY FS_EmptySet DEF PastLosses
  <2> QED
    BY <1>2, <2>1 DEF RunsOK
<1>5. ResultsOK(x) /\ ScheduledOK(x) /\ RefusedOK(x)
  BY <1>1, <1>2 DEF ResultsOK, RanWell, Saving, Deciding, ScheduledOK, Unfinished, RefusedOK
<1> QED
  BY <1>3, <1>4, <1>5 DEF Good
-----------------------------------------------------------------------------
\* Who has an execution to hand over or to handle
Handling(th) ==
    \/ th \in Requests /\ pc[th] \in CreateBusy
    \/ th \in Workers /\ pc[th] # "idle"
    \/ th = Main /\ pc[th] \in RecoveryBusy

LEMMA StarterHandles == \A th : Starter(th) => Handling(th)
  BY DEF Starter, Handling, Updating, RecoveryBusy

\* One that does not handle an execution expects nothing of it.
LEMMA OthersExpectNothing ==
  ASSUME Inv, NEW th \in Threads \ Cancels, ~Handling(th)
  PROVE  Expected(th) = ExecutionStatus \union {"Absent"}
<1>1. ThreadOK(th)
  BY DEF Inv
<1>2. CASE th \in Requests
  <2>1. pc[th] \in {"answer", "error", "refused", "done"}
    BY <1>1, <1>2 DEF ThreadOK, RequestOK, Handling, CreateBusy, Updating
  <2> QED
    BY <2>1 DEF Expected, Updating
<1>3. CASE th \in Workers
  BY <1>3 DEF Expected, Updating, Handling
<1>4. CASE th = Main
  <2>1. pc[th] \in {"down", "list", "recover", "serving"}
    BY <1>1, <1>4 DEF ThreadOK, MainOK, Handling
  <2> QED
    BY <2>1 DEF Expected, Updating
<1> QED
  BY <1>2, <1>3, <1>4 DEF Threads

\* What one thread handles no other does, and it is neither in the channel nor listed.
LEMMA Alone ==
  ASSUME Inv, NEW th \in Threads \ Cancels, Handling(th)
  PROVE  /\ on[th] \in Requests
         /\ \A t \in Threads \ Cancels : t # th /\ on[t] = on[th] => ~Handling(t)
         /\ \A i \in DOMAIN channel : channel[i] # on[th]
         /\ pc[Main] \in Recoverable => \A item \in todo : item.id # on[th]
<1> USE LocalAssumption DEF Inv
<1>1. ThreadOK(th) /\ Main \in Threads /\ \A t \in Threads : on[t] \in Requests \union {NoOne}
  BY DEF LocalsOK, Threads
<1>2. \A r \in Requests : r \in Threads /\ on[r] = r
  BY DEF ThreadOK, RequestOK, Threads
<1>3. \A r \in Requests : pc[r] \in CreateBusy /\ pc[Main] \in Recoverable =>
         pc[r] = "new" /\ ~Named(r)
  <2> SUFFICES ASSUME NEW r \in Requests, pc[r] \in CreateBusy, pc[Main] \in Recoverable
               PROVE  pc[r] = "new" /\ ~Named(r)
    OBVIOUS
  <2>1. pc[r] = "new"
    BY DEF OneHolder, CreateBusy, Recoverable, RecoveryBusy, Updating
  <2> QED
    BY <2>1 DEF Begun
<1>4. ASSUME NEW r \in Requests, pc[r] \in CreateBusy
      PROVE  /\ ~InHand(r)
             /\ pc[Main] \in Recoverable => (\A item \in todo : item.id # r) /\ on[Main] # r
  BY <1>1, <1>2, <1>3, <1>4 DEF OneHolder, Named
<1>5. ASSUME NEW w \in Workers, pc[w] # "idle"
      PROVE  on[w] \in Requests /\ InHand(on[w])
  <2>1. w \in Threads /\ ThreadOK(w)
    BY DEF Threads
  <2> QED
    BY <1>1, <1>5, <2>1 DEF ThreadOK, WorkerOK, InHand
<1>6. CASE th \in Requests
  <2>1. pc[th] \in CreateBusy /\ on[th] = th
    BY <1>2, <1>6 DEF Handling
  <2>2. ~InHand(th) /\ (pc[Main] \in Recoverable => (\A item \in todo : item.id # th) /\ on[Main] # th)
    BY <1>4, <1>6, <2>1
  <2>3. \A t \in Threads \ Cancels : t # th /\ on[t] = th => ~Handling(t)
    BY <1>2, <1>5, <2>2 DEF Handling, Recoverable
  <2> QED
    BY <1>6, <2>1, <2>2, <2>3 DEF InHand
<1>7. CASE th \in Workers
  <2>1. on[th] \in Requests /\ InHand(on[th])
    BY <1>5, <1>7 DEF Handling
  <2>2. \A t \in Threads \ Cancels : t # th /\ on[t] = on[th] => ~Handling(t)
    BY <1>2, <1>4, <1>7, <2>1 DEF Handling, OneHolder
  <2> QED
    BY <1>7, <2>1, <2>2 DEF OneHolder
<1>8. CASE th = Main
  <2>1. on[Main] \in Requests /\ ~InHand(on[Main]) /\ pc[Main] \in RecoveryBusy
    BY <1>1, <1>8 DEF Handling, ThreadOK, MainOK, OneHolder
  <2>2. \A t \in Threads \ Cancels : t # th /\ on[t] = on[th] => ~Handling(t)
    BY <1>2, <1>4, <1>5, <1>8, <2>1 DEF Handling, Recoverable
  <2> QED
    BY <1>8, <2>1, <2>2 DEF OneHolder, InHand
<1> QED
  BY <1>6, <1>7, <1>8 DEF Threads
-----------------------------------------------------------------------------
\* The other threads are where they were.
LEMMA OthersStay ==
  ASSUME NEW th \in Threads, OwnStep(th), NEW t \in Threads \ {th}
  PROVE  /\ Expected(t)' = Expected(t) /\ (Starter(t)' <=> Starter(t))
         /\ (Deciding(t)' <=> Deciding(t)) /\ (Carries(t)' <=> Carries(t))
  BY DEF OwnStep, Expected, Starter, Deciding, Carries

\* What may still be started is with one starter: when it is none any more, nobody is.
LEMMA LastStarter ==
  ASSUME Inv, NEW x \in Requests, NEW th \in Threads, OwnStep(th), Starter(th), on[th] = x,
         pc'[Main] \in Recoverable => pc[Main] \in Recoverable
  PROVE  Potential(x) /\ (~Starter(th)' => ~Potential(x)')
<1>1. th \notin Cancels /\ Handling(th)
  BY StarterHandles, LocalAssumption DEF Starter
<1>2. /\ \A t \in Threads \ Cancels : t # th /\ on[t] = x => ~Handling(t)
      /\ ~InChannel(x)
      /\ pc[Main] \in Recoverable => \A item \in todo : item.id # x
  BY <1>1, Alone DEF InChannel
<1>3. \A t \in Threads : t # th /\ on[t] = x => ~Starter(t)'
  BY <1>2, StarterHandles, OthersStay, LocalAssumption DEF Starter
<1> QED
  BY <1>2, <1>3 DEF Potential, InChannel, OwnStep

\* A step of one thread that leaves the channel and the list alone, as x sees it: if the
\* row of x changes, another execution's row is saved.
LEMMA StepGood ==
  ASSUME Inv, HistoryTypes, NEW x \in Requests, Good(x), Grows(x), NEW th \in Threads, OwnStep(th),
         \/ executions'[x] = executions[x] /\ overwritten'[x] = overwritten[x]
         \/ /\ ~Kept(x)' /\ on[th] # x
            /\ pc[th] \in Saving /\ executions'[x] = copy[th][x],
         pc'[th] \in Saving => copy'[th][x] = executions[x],
         th = Main => /\ pc[Main] \in RecoveryBusy
                      /\ pc'[Main] \in RecoveryBusy \union {"recover", "serving"},
         on[th] = x =>
            /\ th \notin Cancels /\ Kept(x)' => ExpectedBy(th, x)'
            /\ Starter(th)' => Starter(th)
            /\ Deciding(th)' => x \in results' \union dropped' \/ Deciding(th)
            /\ Carries(th) => Carries(th)' \/ SetBack(x)' \/ ~Unfinished(x),
         runs'[x] # runs[x] =>
            /\ th \in Workers /\ on[th] = x /\ Starter(th) /\ ~Starter(th)' /\ runs'[x] = runs[x] + 1
            /\ Kept(x) => executions[x] \notin NotStarted,
         reply'[x] # reply[x] =>
            th = x /\ pc'[x] = "done" /\ (reply'[x] = "refused" => pc[x] = "refused"),
         th = x =>
            /\ pc[x] # "done"
            /\ pc'[x] = "refused" =>
                  Starter(x) /\ ~Starter(x)'
                     /\ (IsFinal(executions[x]) \/ Life \in overwritten[x] \union failed'[x])
  PROVE  Good(x)'
<1> USE LocalAssumption
<1>1. /\ UNCHANGED <<channel, todo, on>>
      /\ \A t \in Threads \ {th} : pc'[t] = pc[t] /\ write'[t] = write[t] /\ copy'[t] = copy[t]
  BY DEF OwnStep
<1>2. ASSUME NEW t \in Threads \ {th}
      PROVE  /\ Expected(t)' = Expected(t) /\ (Starter(t)' <=> Starter(t))
             /\ (Deciding(t)' <=> Deciding(t)) /\ (Carries(t)' <=> Carries(t))
  BY OthersStay
<1>3. /\ Main \in Threads /\ x \in Threads /\ x # Main /\ on[x] = x
      /\ InChannel(x)' <=> InChannel(x)
  BY <1>1 DEF Threads, Inv, ThreadOK, RequestOK, InChannel
<1>4. /\ PastLosses(x) \in Nat /\ PastLosses(x)' = PastLosses(x) /\ Life' = Life
      /\ SpoiledBefore(x)' <=> SpoiledBefore(x)
      /\ ~SpoiledBefore(x) => PastLosses(x) = 0
      /\ Kept(x)' => Kept(x)
  BY Losses
<1>5. Kept(x)' => executions'[x] = executions[x]
  OBVIOUS
<1>6. pc'[Main] \in Recoverable => pc[Main] \in Recoverable
  BY <1>1, <1>3 DEF Recoverable
<1>7. StatusOK(x)'
  <2> SUFFICES ASSUME Kept(x)' PROVE StatusOK(x)'
    BY DEF StatusOK
  <2>1. StatusOK(x) /\ Kept(x) /\ executions'[x] = executions[x]
    BY <1>4, <1>5 DEF Good
  <2>2. ASSUME NEW t \in Threads \ Cancels, on[t] = x PROVE ExpectedBy(t, x)'
    <3>1. CASE t = th
      BY <2>2, <3>1
    <3>2. CASE t # th
      BY <1>2, <2>1, <2>2, <3>2 DEF StatusOK, ExpectedBy
    <3> QED
      BY <3>1, <3>2
  <2> QED
    BY <1>1, <1>3, <1>6, <2>1, <2>2 DEF StatusOK
<1>8. Potential(x)' => Potential(x)
  <2>1. \A t \in Threads : on[t] = x /\ Starter(t)' => Starter(t)
    BY <1>2
  <2> QED
    BY <1>1, <1>3, <1>6, <2>1 DEF Potential
<1>9. Starter(th) /\ on[th] = x => Potential(x) /\ (~Starter(th)' => ~Potential(x)')
  BY <1>6, LastStarter
<1>10. RunsOK(x)'
  <2>1. RunsOK(x) /\ runs[x] \in Nat
    BY DEF Good, Inv, ProgramTypes
  <2>2. CASE runs'[x] = runs[x]
    BY <1>4, <1>5, <1>8, <2>1, <2>2 DEF RunsOK
  <2>3. CASE runs'[x] # runs[x]
    <3>1. /\ runs[x] <= PastLosses(x) /\ runs'[x] = runs[x] + 1 /\ ~Potential(x)'
          /\ Kept(x) => executions[x] \notin NotStarted
      BY <1>9, <2>1, <2>3 DEF RunsOK
    <3>2. runs'[x] <= 1 + PastLosses(x)
      BY <1>4, <2>1, <3>1
    <3> QED
      BY <1>4, <1>5, <3>1, <3>2 DEF RunsOK
  <2> QED
    BY <2>2, <2>3
<1>11. ResultsOK(x)'
  <2> SUFFICES ASSUME x \notin results' \union dropped'
               PROVE  /\ executions'[x] \notin RanWell
                      /\ \A t \in Threads : pc'[t] \in Saving => copy'[t][x] \notin RanWell
                      /\ \A t \in Threads : on'[t] = x => ~Deciding(t)'
    BY DEF ResultsOK
  <2>1. /\ executions[x] \notin RanWell
        /\ \A t \in Threads : pc[t] \in Saving => copy[t][x] \notin RanWell
        /\ \A t \in Threads : on[t] = x => ~Deciding(t)
    BY DEF Good, ResultsOK, Grows
  <2> QED
    BY <1>1, <1>2, <2>1
<1>12. ScheduledOK(x)'
  <2> SUFFICES ASSUME Unfinished(x)', ~SetBack(x)' PROVE Scheduled(x)'
    BY DEF ScheduledOK
  <2>1. /\ Life \notin overwritten'[x] \union failed'[x] /\ ~LeftOut(x)' /\ Kept(x)'
    BY <1>4 DEF SetBack, Kept
  <2>2. Unfinished(x) /\ Life \notin overwritten[x] \union failed[x]
    BY <1>5, <2>1 DEF Unfinished, Grows
  <2>3. ~LeftOut(x)
    <3> SUFFICES ASSUME LeftOut(x) PROVE LeftOut(x)'
      BY <2>1
    <3>1. th # Main
      BY DEF LeftOut, RecoveryBusy, Updating
    <3> QED
      BY <1>1, <1>3, <3>1 DEF LeftOut
  <2>4. Scheduled(x)
    BY <2>2, <2>3 DEF Good, ScheduledOK, SetBack
  <2>5. CASE InChannel(x)
    BY <1>3, <2>5 DEF Scheduled
  <2>6. CASE \E t \in Threads : on[t] = x /\ Carries(t)
    <3>1. PICK t \in Threads : on[t] = x /\ Carries(t)
      BY <2>6
    <3>2. Carries(t)'
      BY <1>2, <2>2, <3>1
    <3> QED
      BY <1>1, <3>1, <3>2 DEF Scheduled
  <2>7. CASE pc[Main] \in Recoverable /\ \E item \in todo : item.id = x
    <3>1. pc'[Main] \in Recoverable \union {"serving"}
      BY <1>1, <1>3, <2>7 DEF Recoverable
    <3> QED
      BY <1>1, <2>1, <2>7, <3>1 DEF Scheduled, LeftOut
  <2>8. CASE pc[Main] \in {"down", "list"}
    <3>1. th # Main
      BY <2>8 DEF RecoveryBusy, Updating
    <3> QED
      BY <1>1, <1>3, <2>8, <3>1 DEF Scheduled
  <2> QED
    BY <2>4, <2>5, <2>6, <2>7, <2>8 DEF Scheduled
<1>13. RefusedOK(x)'
  <2>1. RefusedOK(x) /\ (pc'[x] # pc[x] => th = x)
    BY <1>1, <1>3 DEF Good
  <2>2. reply'[x] = "refused" => pc'[x] = "done"
    BY <2>1 DEF RefusedOK
  <2>3. ASSUME pc'[x] = "refused" \/ reply'[x] = "refused", ~SpoiledBefore(x)'
        PROVE  /\ runs'[x] = 0 /\ ~Potential(x)'
               /\ IsFinal(executions'[x]) \/ Life \in overwritten'[x] \union failed'[x]
    <3>1. CASE pc[x] = "refused" \/ reply[x] = "refused"
      <4>1. /\ runs[x] = 0 /\ ~Potential(x)
            /\ IsFinal(executions[x]) \/ Life \in overwritten[x] \union failed[x]
        BY <1>4, <2>1, <2>3, <3>1 DEF RefusedOK
      <4>2. runs'[x] = runs[x]
        BY <1>9, <4>1
      <4> QED
        BY <1>4, <1>5, <1>8, <4>1, <4>2 DEF Grows, Kept
    <3>2. CASE ~(pc[x] = "refused" \/ reply[x] = "refused")
      <4>1. th = x /\ pc'[x] = "refused"
        BY <2>1, <2>3, <3>2
      <4>2. /\ Potential(x) /\ ~Potential(x)'
            /\ IsFinal(executions[x]) \/ Life \in overwritten[x] \union failed'[x]
        BY <1>3, <1>9, <4>1
      <4>3. runs[x] <= 0 /\ runs[x] \in Nat
        BY <1>4, <2>3, <4>2 DEF Good, RunsOK, Inv, ProgramTypes
      <4>4. runs'[x] = 0
        BY <4>1, <4>3
      <4> QED
        BY <1>3, <4>1, <4>2, <4>4
    <3> QED
      BY <3>1, <3>2
  <2> QED
    BY <1>4, <2>2, <2>3 DEF RefusedOK
<1> QED
  BY <1>7, <1>10, <1>11, <1>12, <1>13 DEF Good

\* A thread saves the row of the execution it works on.
LEMMA WriteGood ==
  ASSUME Inv, HistoryTypes, NEW x \in Requests, Good(x), Grows(x), NEW th \in Threads, OwnStep(th),
         on[th] = x, executions'[x] \in ExecutionStatus, overwritten'[x] = overwritten[x],
         UNCHANGED <<runs, reply>>, pc'[th] \notin Saving,
         th \in Cancels => executions'[x] = "Canceled",
         th \notin Cancels => Handling(th) /\ executions'[x] \in Expected(th)',
         th = Main => /\ pc[Main] \in RecoveryBusy
                      /\ pc'[Main] \in RecoveryBusy \union {"recover", "serving"},
         Starter(th)' => Starter(th), ~Deciding(th)',
         executions'[x] \in NotStarted => Starter(th),
         executions'[x] \in RanWell => Deciding(th),
         IsFinal(executions'[x]) \/ (Starter(th) /\ Carries(th)'),
         th = x => /\ pc[x] # "done"
                   /\ pc'[x] = "refused" =>
                         Starter(x) /\ ~Starter(x)' /\ IsFinal(executions'[x])
  PROVE  Good(x)'
<1> USE LocalAssumption
<1>1. /\ UNCHANGED <<channel, todo, on>>
      /\ \A t \in Threads \ {th} : pc'[t] = pc[t] /\ write'[t] = write[t] /\ copy'[t] = copy[t]
  BY DEF OwnStep
<1>2. ASSUME NEW t \in Threads \ {th}
      PROVE  /\ Expected(t)' = Expected(t) /\ (Starter(t)' <=> Starter(t))
             /\ (Deciding(t)' <=> Deciding(t)) /\ (Carries(t)' <=> Carries(t))
  BY OthersStay
<1>3. /\ Main \in Threads /\ x \in Threads /\ x # Main /\ on[x] = x
      /\ InChannel(x)' <=> InChannel(x)
  BY <1>1 DEF Threads, Inv, ThreadOK, RequestOK, InChannel
<1>4. /\ PastLosses(x) \in Nat /\ PastLosses(x)' = PastLosses(x) /\ Life' = Life
      /\ SpoiledBefore(x)' <=> SpoiledBefore(x)
      /\ ~SpoiledBefore(x) => PastLosses(x) = 0
      /\ Kept(x)' => Kept(x)
  BY Losses
<1>5. pc'[Main] \in Recoverable => pc[Main] \in Recoverable
  BY <1>1, <1>3 DEF Recoverable
<1>6. StatusOK(x)'
  <2>1. CASE th \in Cancels
    BY <1>1, <2>1 DEF StatusOK, ExpectedBy
  <2>2. CASE th \notin Cancels
    <3>1. /\ \A t \in Threads \ Cancels : t # th /\ on[t] = x => ~Handling(t)
          /\ ~InChannel(x)
          /\ pc[Main] \in Recoverable => \A item \in todo : item.id # x
      BY <2>2, Alone DEF InChannel
    <3>2. ASSUME NEW t \in Threads \ Cancels, on[t] = x PROVE ExpectedBy(t, x)'
      <4>1. CASE t = th
        BY <2>2, <4>1 DEF ExpectedBy
      <4>2. CASE t # th
        BY <1>2, <3>1, <3>2, <4>2, OthersExpectNothing DEF ExpectedBy
      <4> QED
        BY <4>1, <4>2
    <3> QED
      BY <1>1, <1>3, <1>5, <3>1, <3>2 DEF StatusOK, ExecutionStatus
  <2> QED
    BY <2>1, <2>2
<1>7. Potential(x)' => Potential(x)
  <2>1. \A t \in Threads : on[t] = x /\ Starter(t)' => Starter(t)
    BY <1>2
  <2> QED
    BY <1>1, <1>3, <1>5, <2>1 DEF Potential
<1>8. Starter(th) => Potential(x) /\ (~Starter(th)' => ~Potential(x)')
  BY <1>5, LastStarter
<1>9. RunsOK(x)'
  BY <1>4, <1>7, <1>8 DEF Good, RunsOK
<1>10. ResultsOK(x)'
  <2> SUFFICES ASSUME x \notin results' \union dropped'
               PROVE  /\ executions'[x] \notin RanWell
                      /\ \A t \in Threads : pc'[t] \in Saving => copy'[t][x] \notin RanWell
                      /\ \A t \in Threads : on'[t] = x => ~Deciding(t)'
    BY DEF ResultsOK
  <2>1. /\ \A t \in Threads : pc[t] \in Saving => copy[t][x] \notin RanWell
        /\ \A t \in Threads : on[t] = x => ~Deciding(t)
    BY DEF Good, ResultsOK, Grows
  <2> QED
    BY <1>1, <1>2, <2>1
<1>11. ScheduledOK(x)'
  BY <1>1 DEF ScheduledOK, Unfinished, Scheduled
<1>12. RefusedOK(x)'
  <2>1. RefusedOK(x) /\ (pc'[x] # pc[x] => th = x)
    BY <1>1, <1>3 DEF Good
  <2>2. reply'[x] = "refused" => pc'[x] = "done"
    BY <2>1 DEF RefusedOK
  <2>3. ASSUME pc'[x] = "refused" \/ reply'[x] = "refused", ~SpoiledBefore(x)'
        PROVE  runs[x] = 0 /\ ~Potential(x)' /\ IsFinal(executions'[x])
    <3>1. CASE pc[x] = "refused" \/ reply[x] = "refused"
      <4>1. runs[x] = 0 /\ ~Potential(x)
        BY <1>4, <2>1, <2>3, <3>1 DEF RefusedOK
      <4> QED
        BY <1>7, <1>8, <4>1
    <3>2. CASE ~(pc[x] = "refused" \/ reply[x] = "refused")
      <4>1. th = x /\ pc'[x] = "refused"
        BY <2>1, <2>3, <3>2
      <4>2. Potential(x) /\ ~Potential(x)' /\ IsFinal(executions'[x])
        BY <1>8, <4>1
      <4> QED
        BY <1>4, <2>3, <4>2 DEF Good, RunsOK, Inv, ProgramTypes
    <3> QED
      BY <3>1, <3>2
  <2> QED
    BY <1>4, <2>2, <2>3 DEF RefusedOK
<1> QED
  BY <1>6, <1>9, <1>10, <1>11, <1>12 DEF Good
-----------------------------------------------------------------------------
\* The three calls of a worker: Running, what its results add up to, and Failed
LEMMA WorkerCalls ==
  ASSUME Inv, NEW w \in Workers, pc[w] \in Updating
  PROVE  \/ write[w].to = "Running" /\ write[w].next = "run" /\ write[w].fail = "fail"
         \/ write[w].to = "Failed" /\ write[w].next = "return" /\ write[w].fail = "return"
         \/ /\ write[w].to \in RunOutcomes
            /\ write[w].next = "return" /\ write[w].fail = "fail"
<1>1. WorkerOK(w)
  BY DEF Inv, ThreadOK, Threads
<1>2. \/ Calling(w, "Running", "run", "fail")
      \/ Calling(w, "Failed", "return", "return")
      \/ \E s \in RunOutcomes : Calling(w, s, "return", "fail")
  BY <1>1 DEF WorkerOK
<1>3. ASSUME NEW s \in RunOutcomes, Calling(w, s, "return", "fail")
      PROVE  write[w].to = s /\ write[w].next = "return" /\ write[w].fail = "fail"
  BY <1>3 DEF Calling
<1>4. Calling(w, "Running", "run", "fail") =>
         write[w].to = "Running" /\ write[w].next = "run" /\ write[w].fail = "fail"
  BY DEF Calling
<1>5. Calling(w, "Failed", "return", "return") =>
         write[w].to = "Failed" /\ write[w].next = "return" /\ write[w].fail = "return"
  BY DEF Calling
<1> QED
  BY <1>2, <1>3, <1>4, <1>5

\* The calls of the others
LEMMA OtherCalls ==
  ASSUME Inv, NEW th \in Threads, pc[th] \in Updating
  PROVE  /\ th \in Requests =>
               \/ write[th].to = "Queued" /\ write[th].next = "submit" /\ write[th].fail = "error"
               \/ write[th].to = "Failed" /\ write[th].next = "refused" /\ write[th].fail = "refused"
         /\ th = Main =>
               \/ write[th].to = "Queued" /\ write[th].next = "submit" /\ write[th].fail = "serving"
               \/ write[th].to = "Failed" /\ write[th].next = "recover" /\ write[th].fail = "recover"
         /\ th \in Cancels =>
               write[th].to = "Canceled" /\ write[th].next = "done" /\ write[th].fail = "done"
         /\ on[th] \in Requests
         /\ th \in Requests => on[th] = th
  BY ReturnLabels DEF Inv, ThreadOK, RequestOK, MainOK, CancelOK, Calling

\* A call that returns makes nobody one who starts plugins or decides.
LEMMA CallReturns ==
  ASSUME Inv, NEW th \in Threads, pc[th] \in Updating, NEW label, pc'[th] = label,
         label = write[th].next \/ label = write[th].fail
  PROVE  /\ Starter(th)' => Starter(th)
         /\ ~Deciding(th)'
         /\ label \notin Saving
         /\ th = Main => /\ pc[Main] \in RecoveryBusy
                         /\ label \in RecoveryBusy \union {"recover", "serving"}
         /\ th \in Requests => pc[th] # "done" /\ Starter(th) /\ (label = "refused" => ~Starter(th)')
<1> USE LocalAssumption
<1>1. /\ th \in Requests => label \in {"submit", "error", "refused"}
      /\ th \in Cancels => label = "done"
      /\ th \in Workers => label \in {"run", "fail", "return"}
      /\ th = Main => label \in {"submit", "serving", "recover"}
  BY ReturnLabels
<1>2. th \in Requests => Starter(th) /\ (label = "refused" => ~Starter(th)')
  BY <1>1 DEF Starter, CreateBusy, Updating, Threads
<1>3. th \in Cancels => ~Starter(th)' /\ ~Deciding(th)'
  BY DEF Starter, Deciding
<1>4. th \in Workers => (Starter(th)' => Starter(th)) /\ ~Deciding(th)'
  BY <1>1, WorkerCalls DEF Starter, Deciding, Updating
<1>5. th = Main => (Starter(th)' => Starter(th)) /\ ~Deciding(th)'
  BY <1>1, OtherCalls DEF Starter, Deciding, Updating
<1>6. th \in Requests => ~Deciding(th)'
  BY DEF Deciding
<1> QED
  BY <1>1, <1>2, <1>3, <1>4, <1>5, <1>6 DEF Saving, RecoveryBusy, Updating, Threads

\* An error lets its thread expect no more than before.
LEMMA ErrorExpects ==
  ASSUME Inv, NEW th \in Threads \ Cancels, pc[th] \in Updating, pc'[th] = write[th].fail
  PROVE  Expected(th) \subseteq Expected(th)'
<1>1. CASE th \in Workers
  BY <1>1, WorkerCalls DEF Expected, Updating, ExecutionStatus
<1>2. CASE th \in Requests \/ th = Main
  BY <1>2, OtherCalls DEF Expected, Updating, ExecutionStatus
<1> QED
  BY <1>1, <1>2 DEF Threads

\* As long as its row is kept, a thread in a call has a row to change.
LEMMA UpdatingPresent ==
  ASSUME NEW x \in Requests, Good(x), Kept(x), NEW th \in Threads, pc[th] \in Updating, on[th] = x
  PROVE  executions[x] # "Absent"
<1>1. th \notin Cancels => ExpectedBy(th, x)
  BY DEF Good, StatusOK
<1>2. "Absent" \notin Expected(th)
  BY DEF Expected, Updating
<1> QED
  BY <1>1, <1>2 DEF Good, StatusOK, ExpectedBy

\* A call returns and has written nothing: it found no row, or a file access failed.
LEMMA ReturnGood ==
  ASSUME Inv, HistoryTypes, NEW x \in Requests, Good(x), Grows(x), NEW th \in Threads,
         pc[th] \in Updating, NEW label, Return(th, label),
         \/ label = write[th].next /\ executions[on[th]] = "Absent"
         \/ label = write[th].fail /\ (on[th] = x => Life \in failed'[x]),
         UNCHANGED <<executions, overwritten, process, on, resultsCopy, outcome, history>>
  PROVE  Good(x)'
<1>1. pc'[th] = label /\ OwnStep(th)
  BY DEF Return, Goto, OwnStep, process, Inv, ProgramTypes, LocalsOK
<1>2. /\ Starter(th)' => Starter(th)
      /\ ~Deciding(th)'
      /\ label \notin Saving
      /\ th = Main => /\ pc[Main] \in RecoveryBusy
                      /\ label \in RecoveryBusy \union {"recover", "serving"}
      /\ th \in Requests => pc[th] # "done" /\ Starter(th) /\ (label = "refused" => ~Starter(th)')
  BY <1>1, CallReturns
<1>3. Life' = Life /\ (Kept(x)' => Kept(x))
  BY Losses
<1>4. ASSUME on[th] = x, label = write[th].next, executions[x] = "Absent"
      PROVE  ~Kept(x) /\ ~Unfinished(x)
  BY <1>4, UpdatingPresent DEF Unfinished
<1>5. ASSUME on[th] = x, th \notin Cancels, Kept(x)' PROVE ExpectedBy(th, x)'
  <2>1. label = write[th].fail /\ ExpectedBy(th, x)
    BY <1>3, <1>4, <1>5 DEF Good, StatusOK
  <2> QED
    BY <1>1, <1>5, <2>1, ErrorExpects DEF ExpectedBy
<1>6. on[th] = x => ~Unfinished(x) \/ SetBack(x)'
  BY <1>3, <1>4 DEF SetBack
<1>7. th = x => on[th] = x
  BY OtherCalls
<1>8. th = x => Life \in overwritten[x] \union failed'[x]
  BY <1>4, <1>7 DEF Kept
<1>9. runs' = runs /\ reply' = reply
  BY DEF history
<1> QED
  BY <1>1, <1>2, <1>5, <1>6, <1>8, <1>9, StepGood

\* A call that is not over goes on with the row as it expects it.
LEMMA CallGoesOn ==
  ASSUME Inv, HistoryTypes, NEW x \in Requests, Good(x), Grows(x), NEW th \in Threads,
         pc[th] \in Updating, NEW label \in {"load", "save"}, Goto(th, label),
         UNCHANGED <<executions, overwritten, process, on, write, resultsCopy, outcome, history>>,
         \A t \in Threads \ {th} : copy'[t] = copy[t],
         label = "save" => copy'[th] = executions
  PROVE  Good(x)'
<1> USE LocalAssumption
<1>1. pc'[th] = label /\ OwnStep(th) /\ label \in Updating
  BY DEF Goto, OwnStep, process, Updating, Inv, ProgramTypes, LocalsOK
<1>2. /\ Expected(th)' = Expected(th) /\ (Starter(th)' <=> Starter(th))
      /\ (Deciding(th)' <=> Deciding(th)) /\ (Carries(th)' <=> Carries(th))
  BY <1>1 DEF Expected, Starter, Deciding, Carries, Updating, CreateBusy, RecoveryBusy
<1>3. Kept(x)' => Kept(x)
  BY Losses
<1>4. on[th] = x /\ th \notin Cancels /\ Kept(x)' => ExpectedBy(th, x)'
  BY <1>2, <1>3 DEF Good, StatusOK, ExpectedBy
<1>5. th = Main => pc[Main] \in RecoveryBusy /\ label \in RecoveryBusy
  BY <1>1 DEF RecoveryBusy
<1>6. runs' = runs /\ reply' = reply
  BY DEF history
<1>7. pc[th] # "done" /\ label # "refused"
  BY DEF Updating
<1> QED
  BY <1>1, <1>2, <1>4, <1>5, <1>6, <1>7, StepGood DEF Saving

LEMMA FindRowGood ==
  ASSUME Inv, HistoryTypes, NEW x \in Requests, Good(x), Grows(x), NEW th \in Threads, FindRow(th)
  PROVE  Good(x)'
<1>1. /\ pc[th] \in Updating
      /\ UNCHANGED <<executions, overwritten, process, on, resultsCopy, outcome, history>>
  BY DEF FindRow, Updating, files
<1>2. CASE executions[on[th]] = "Absent" /\ Return(th, write[th].next)
  BY <1>1, <1>2, ReturnGood
<1>3. CASE Fault(th) /\ Return(th, write[th].fail)
  BY <1>1, <1>3, ReturnGood DEF Fault
<1>4. CASE Goto(th, "load") /\ UNCHANGED <<write, copy>>
  BY <1>1, <1>4, CallGoesOn DEF Saving
<1> QED
  BY <1>2, <1>3, <1>4 DEF FindRow

LEMMA LoadRowsGood ==
  ASSUME Inv, HistoryTypes, NEW x \in Requests, Good(x), Grows(x), NEW th \in Threads, LoadRows(th)
  PROVE  Good(x)'
<1>1. /\ pc[th] \in Updating
      /\ UNCHANGED <<executions, overwritten, process, on, resultsCopy, outcome, history>>
  BY DEF LoadRows, Updating, files
<1>2. CASE Fault(th) /\ Return(th, write[th].fail)
  BY <1>1, <1>2, ReturnGood DEF Fault
<1>3. CASE copy' = [copy EXCEPT ![th] = executions] /\ Goto(th, "save") /\ UNCHANGED write
  <2>1. copy'[th] = executions /\ \A t \in Threads \ {th} : copy'[t] = copy[t]
    BY <1>3 DEF Inv, LocalsOK
  <2> QED
    BY <1>1, <1>3, <2>1, CallGoesOn
<1> QED
  BY <1>2, <1>3 DEF LoadRows

\* What a save writes is what its thread relies on after it.
LEMMA SavedStatus ==
  ASSUME Inv, NEW th \in Threads \ Cancels, pc[th] = "save", pc'[th] = write[th].next
  PROVE  /\ Handling(th)
         /\ write[th].to \in Expected(th)'
         /\ write[th].to \in NotStarted => Starter(th)
         /\ write[th].to \in RanWell => Deciding(th)
         /\ IsFinal(write[th].to) \/ (Starter(th) /\ Carries(th)')
         /\ pc'[th] = "refused" => IsFinal(write[th].to)
         /\ Expected(th) \subseteq {"Pending", "Queued", "Running"}
<1> USE LocalAssumption
<1>1. pc[th] \in Updating
  BY DEF Updating
<1>2. CASE th \in Requests
  BY <1>1, <1>2, OtherCalls
     DEF Expected, Starter, Deciding, Handling, Carries, Updating, CreateBusy, NotStarted, RanWell, IsFinal,
         ExecutionStatus
<1>3. CASE th = Main
  BY <1>1, <1>3, OtherCalls
     DEF Expected, Starter, Deciding, Handling, Carries, Updating, RecoveryBusy, NotStarted, RanWell, IsFinal,
         ExecutionStatus
<1>4. CASE th \in Workers
  BY <1>1, <1>4, WorkerCalls
     DEF Expected, Starter, Deciding, Handling, Carries, Updating, NotStarted, RanWell, IsFinal,
         ExecutionStatus, RunOutcomes
<1> QED
  BY <1>2, <1>3, <1>4 DEF Threads

\* A save for y changes another row only where the copy differs from the file.
LEMMA SaveElsewhere ==
  ASSUME Inv, HistoryTypes, NEW x \in Requests, Grows(x), NEW y \in Requests, x # y,
         NEW rows, SaveFor(y, rows)
  PROVE  /\ executions'[x] = rows[x]
         /\ \/ executions'[x] = executions[x] /\ overwritten'[x] = overwritten[x]
            \/ ~Kept(x)'
<1>1. Life' = Life
  BY Losses
<1> QED
  BY <1>1 DEF SaveFor, Kept

LEMMA SaveRowsGood ==
  ASSUME Inv, HistoryTypes, NEW x \in Requests, Good(x), Grows(x), NEW th \in Threads, SaveRows(th)
  PROVE  Good(x)'
<1>1. /\ pc[th] = "save" /\ pc[th] \in Updating /\ pc[th] \in Saving
      /\ UNCHANGED <<process, on, resultsCopy, outcome, history>>
  BY DEF SaveRows, Updating, Saving
<1>2. CASE Fault(th) /\ Return(th, write[th].fail) /\ UNCHANGED <<executions, overwritten>>
  BY <1>1, <1>2, ReturnGood DEF Fault
<1>3. CASE /\ SaveFor(on[th], [copy[th] EXCEPT ![on[th]] = write[th].to])
           /\ Return(th, write[th].next)
  <2>1. pc'[th] = write[th].next /\ OwnStep(th) /\ UNCHANGED <<runs, reply>>
    BY <1>1, <1>3 DEF Return, Goto, OwnStep, process, history, Inv, ProgramTypes, LocalsOK
  <2>2. /\ Starter(th)' => Starter(th)
        /\ ~Deciding(th)'
        /\ pc'[th] \notin Saving
        /\ th = Main => /\ pc[Main] \in RecoveryBusy
                        /\ pc'[Main] \in RecoveryBusy \union {"recover", "serving"}
        /\ th \in Requests =>
              pc[th] # "done" /\ Starter(th) /\ (pc'[th] = "refused" => ~Starter(th)')
    BY <1>1, <2>1, CallReturns
  <2>3. /\ on[th] \in Requests /\ copy[th] \in Rows /\ write[th].to \in ExecutionStatus
        /\ th \in Requests => on[th] = th
    BY <1>1, OtherCalls, ReturnLabels DEF Inv, ProgramTypes
  <2>4. CASE on[th] # x
    <3>1. /\ executions'[x] = copy[th][x]
          /\ \/ executions'[x] = executions[x] /\ overwritten'[x] = overwritten[x]
             \/ ~Kept(x)'
      BY <1>3, <2>3, <2>4, SaveElsewhere DEF Rows
    <3> QED
      BY <1>1, <2>1, <2>2, <2>3, <2>4, <3>1, StepGood
  <2>5. CASE on[th] = x
    <3>1. executions'[x] = write[th].to /\ overwritten'[x] = overwritten[x]
      BY <1>3, <2>3, <2>5 DEF SaveFor, Rows
    <3>2. th \in Cancels => executions'[x] = "Canceled" /\ IsFinal(executions'[x])
                               /\ executions'[x] \notin NotStarted \union RanWell
      BY <1>1, <3>1, OtherCalls DEF IsFinal, NotStarted, RanWell
    <3>3. th \notin Cancels => /\ Handling(th) /\ executions'[x] \in Expected(th)'
                               /\ executions'[x] \in NotStarted => Starter(th)
                               /\ executions'[x] \in RanWell => Deciding(th)
                               /\ IsFinal(executions'[x]) \/ (Starter(th) /\ Carries(th)')
                               /\ pc'[th] = "refused" => IsFinal(executions'[x])
      BY <1>1, <2>1, <3>1, SavedStatus
    <3> QED
      BY <2>1, <2>2, <2>3, <2>5, <3>1, <3>2, <3>3, WriteGood
  <2> QED
    BY <2>4, <2>5
<1> QED
  BY <1>2, <1>3 DEF SaveRows

LEMMA UpdateStatusGood ==
  ASSUME Inv, HistoryTypes, NEW x \in Requests, Good(x), Grows(x), NEW th \in Threads, UpdateStatus(th)
  PROVE  Good(x)'
  BY FindRowGood, LoadRowsGood, SaveRowsGood DEF UpdateStatus

LEMMA InsertRowGood ==
  ASSUME Inv, HistoryTypes, NEW x \in Requests, Good(x), Grows(x), NEW r \in Requests, InsertRow(r)
  PROVE  Good(x)'
<1> USE LocalAssumption
<1>1. /\ r \in Threads /\ r \notin Workers /\ r \notin Cancels /\ r # Main
      /\ pc[r] = "insert" /\ pc[r] \in Saving /\ on[r] = r /\ copy[r] \in Rows
      /\ UNCHANGED <<channel, todo, on, runs, reply, resultsCopy, outcome>>
  BY DEF Threads, Inv, ThreadOK, RequestOK, ProgramTypes, InsertRow, Saving, history
<1>2. PICK label \in {"mark", "error"} :
        /\ Return(r, label)
        /\ \/ label = "mark" /\ SaveFor(r, [copy[r] EXCEPT ![r] = "Pending"])
           \/ label = "error" /\ Fault(r) /\ UNCHANGED <<executions, overwritten>>
  BY DEF InsertRow
<1>3. pc'[r] = label /\ OwnStep(r)
  BY <1>1, <1>2 DEF Return, Goto, OwnStep, Inv, ProgramTypes, LocalsOK
<1>4. /\ Starter(r) /\ Handling(r) /\ ~Deciding(r)' /\ label \notin Saving
      /\ pc[r] # "done" /\ label # "refused"
  BY <1>1, <1>3 DEF Starter, Handling, Deciding, CreateBusy, Saving
<1>5. CASE label = "error"
  <2>1. Life' = Life /\ Life \in failed'[r] /\ UNCHANGED <<executions, overwritten>>
    BY <1>1, <1>2, <1>5, Losses DEF Fault
  <2>2. ~Starter(r)' /\ Expected(r)' = ExecutionStatus \union {"Absent"}
    BY <1>1, <1>3, <1>5 DEF Starter, Expected, CreateBusy, Updating
  <2>3. ExpectedBy(r, x)'
    BY <2>1, <2>2 DEF ExpectedBy, Inv, ProgramTypes, Rows
  <2> QED
    BY <1>1, <1>3, <1>4, <2>1, <2>2, <2>3, StepGood DEF SetBack
<1>6. CASE label = "mark" /\ x # r
  <2>1. /\ executions'[x] = copy[r][x]
        /\ \/ executions'[x] = executions[x] /\ overwritten'[x] = overwritten[x]
           \/ ~Kept(x)'
    BY <1>1, <1>2, <1>6, SaveElsewhere DEF Rows
  <2> QED
    BY <1>1, <1>3, <1>4, <1>6, <2>1, StepGood
<1>7. CASE label = "mark" /\ x = r
  <2>1. executions'[x] = "Pending" /\ overwritten'[x] = overwritten[x] /\ "Pending" \in ExecutionStatus
    BY <1>1, <1>2, <1>7 DEF SaveFor, Rows, ExecutionStatus
  <2>2. Expected(r)' = {"Pending"} /\ Carries(r)' /\ "Pending" \notin RanWell
    BY <1>1, <1>3, <1>7 DEF Expected, Carries, CreateBusy, Updating, RanWell
  <2> QED
    BY <1>1, <1>3, <1>4, <1>7, <2>1, <2>2, WriteGood
<1> QED
  BY <1>5, <1>6, <1>7
-----------------------------------------------------------------------------
\* A status change that is refused finds a row that is decided, or one that was changed by
\* an update of another execution.
LEMMA RefusedTransit ==
  ASSUME Inv, HistoryTypes, NEW x \in Requests, Good(x), NEW th \in Threads \ Cancels, on[th] = x,
         Kept(x), NEW to, ~CanTransit(executions[x], to),
         (pc[th] = "mark" /\ to = "Queued") \/ (pc[th] = "fail" /\ to = "Failed")
  PROVE  ~Unfinished(x)
<1>1. ExpectedBy(th, x)
  BY DEF Good, StatusOK
<1>2. executions[x] = "Canceled"
  BY <1>1 DEF ExpectedBy, Expected, Updating, CanTransit, Transitions
<1> QED
  BY <1>2 DEF Unfinished, IsFinal

\* ValidateTransition and the call of UpdateStatus
LEMMA TransitGood ==
  ASSUME Inv, HistoryTypes, NEW x \in Requests, Good(x), Grows(x),
         NEW th \in Threads, NEW to, NEW next, NEW fail, Transit(th, to, next, fail),
         \/ /\ th \in Requests \/ th = Main
            /\ pc[th] = "mark" /\ to = "Queued" /\ next = "submit"
            /\ fail = IF th = Main THEN "serving" ELSE "error"
         \/ /\ th \in Workers
            /\ \/ pc[th] = "start" /\ to = "Running" /\ next = "run" /\ fail = "fail"
               \/ pc[th] = "finish" /\ next = "return" /\ fail = "fail"
               \/ pc[th] = "fail" /\ to = "Failed" /\ next = "return" /\ fail = "return"
  PROVE  Good(x)'
<1> USE LocalAssumption
<1>1. /\ th \notin Cancels /\ (th = Main => pc[Main] \in RecoveryBusy)
      /\ th = x => pc[x] # "done" /\ on[th] = x
      /\ UNCHANGED <<executions, overwritten, channel, todo, on, copy, resultsCopy, outcome, runs, reply>>
  BY DEF Transit, files, process, history, RecoveryBusy, Inv, ThreadOK, RequestOK
<1>2. Life' = Life /\ (Kept(x)' => Kept(x)) /\ (~Kept(x)' => SetBack(x)')
  BY Losses DEF Kept, SetBack
<1>3. on[th] = x /\ Kept(x) => ExpectedBy(th, x)
  BY <1>1 DEF Good, StatusOK
<1>4. CASE CanTransit(executions[on[th]], to) /\ Call(th, to, next, fail)
  <2>1. /\ pc'[th] = "exists" /\ OwnStep(th)
        /\ write'[th].next = next /\ write'[th].fail = fail
    BY <1>1, <1>4 DEF Call, Goto, OwnStep, Inv, ProgramTypes, LocalsOK
  <2>2. /\ Expected(th) \subseteq Expected(th)' /\ (Starter(th)' => Starter(th))
        /\ (Deciding(th)' => Deciding(th)) /\ (Carries(th) => Carries(th)')
    <3>1. CASE pc[th] = "mark"
      BY <2>1, <3>1 DEF Expected, Starter, Deciding, Carries, Updating, CreateBusy, RecoveryBusy
    <3>2. CASE pc[th] = "start"
      BY <2>1, <3>2 DEF Expected, Starter, Deciding, Carries, Updating, CreateBusy, RecoveryBusy
    <3>3. CASE pc[th] = "finish"
      BY <2>1, <3>3 DEF Expected, Starter, Deciding, Carries, Updating, CreateBusy, RecoveryBusy
    <3>4. CASE pc[th] = "fail"
      BY <2>1, <3>4 DEF Expected, Starter, Deciding, Carries, Updating, CreateBusy, RecoveryBusy
    <3> QED
      BY <3>1, <3>2, <3>3, <3>4
  <2>3. on[th] = x /\ Kept(x)' => ExpectedBy(th, x)'
    BY <1>1, <1>2, <1>3, <2>2 DEF ExpectedBy
  <2>4. th = Main => pc'[th] \in RecoveryBusy
    BY <2>1 DEF RecoveryBusy, Updating
  <2> QED
    BY <1>1, <2>1, <2>2, <2>3, <2>4, StepGood DEF Saving
<1>5. CASE /\ Goto(th, fail) /\ UNCHANGED write
           /\ ~CanTransit(executions[on[th]], to) \/ Fault(th)
  <2>1. pc'[th] = fail /\ OwnStep(th)
    BY <1>1, <1>5 DEF Goto, OwnStep, Inv, ProgramTypes, LocalsOK
  <2>2. \/ Expected(th)' = ExecutionStatus \union {"Absent"}
        \/ Expected(th) \subseteq Expected(th)'
    <3>1. CASE pc[th] \in {"mark", "fail"}
      BY <2>1, <3>1 DEF Expected, Updating
    <3>2. CASE pc[th] \in {"start", "finish"}
      BY <2>1, <3>2 DEF Expected, Updating
    <3> QED
      BY <3>1, <3>2
  <2>3. ~Starter(th)' /\ ~Deciding(th)' /\ fail \notin Saving /\ fail # "refused"
    BY <2>1 DEF Starter, Deciding, Updating, CreateBusy, Saving
  <2>4. on[th] = x /\ Kept(x)' => ExpectedBy(th, x)'
    <3>1. executions[x] \in ExecutionStatus \union {"Absent"}
      BY DEF Inv, ProgramTypes, Rows
    <3> QED
      BY <1>1, <1>2, <1>3, <2>2, <3>1 DEF ExpectedBy
  <2>5. on[th] = x => Carries(th)' \/ SetBack(x)' \/ ~Unfinished(x)
    <3> SUFFICES ASSUME on[th] = x, Kept(x), ~Carries(th)', ~SetBack(x)' PROVE ~Unfinished(x)
      BY <1>2
    <3>1. ~CanTransit(executions[x], to)
      BY <1>2, <1>5 DEF Fault, SetBack
    <3>2. (pc[th] = "mark" /\ to = "Queued") \/ (pc[th] = "fail" /\ to = "Failed")
      BY <2>1 DEF Carries
    <3> QED
      BY <1>1, <3>1, <3>2, RefusedTransit
  <2>6. th = Main => pc'[th] = "serving"
    BY <2>1
  <2> QED
    BY <1>1, <2>1, <2>3, <2>4, <2>5, <2>6, StepGood
<1> QED
  BY <1>4, <1>5 DEF Transit

LEMMA MarkQueuedGood ==
  ASSUME Inv, HistoryTypes, NEW x \in Requests, Good(x), Grows(x),
         NEW th \in Requests \union {Main}, MarkQueued(th)
  PROVE  Good(x)'
<1>1. th \in Threads
  BY DEF Threads
<1> QED
  BY <1>1, TransitGood DEF MarkQueued

LEMMA WorkerTransitGood ==
  ASSUME Inv, HistoryTypes, NEW x \in Requests, Good(x), Grows(x), NEW w \in Workers,
         MarkRunning(w) \/ FinishExecution(w) \/ FailExecution(w)
  PROVE  Good(x)'
<1>1. w \in Threads
  BY DEF Threads
<1>2. CASE MarkRunning(w)
  BY <1>1, <1>2, TransitGood DEF MarkRunning
<1>3. CASE FinishExecution(w)
  BY <1>1, <1>3, TransitGood DEF FinishExecution
<1>4. CASE FailExecution(w)
  BY <1>1, <1>4, TransitGood DEF FailExecution
<1> QED
  BY <1>2, <1>3, <1>4
-----------------------------------------------------------------------------
\* The error that ends a create before its row is in the file, or after it
LEMMA AnswerGood ==
  ASSUME Inv, HistoryTypes, NEW x \in Requests, Good(x), Grows(x), NEW r \in Requests, Answer(r)
  PROVE  Good(x)'
<1> USE LocalAssumption
<1>1. /\ r \in Threads /\ r \notin Workers /\ r \notin Cancels /\ r # Main
      /\ pc[r] \in {"answer", "error", "refused"} /\ on[r] = r
      /\ UNCHANGED <<executions, overwritten, process, locals, runs>>
  BY DEF Threads, Answer, files, Inv, ThreadOK, RequestOK
<1>2. pc'[r] = "done" /\ OwnStep(r)
  BY <1>1 DEF Answer, Goto, OwnStep, process, locals, Inv, ProgramTypes
<1>3. Expected(r)' = ExecutionStatus \union {"Absent"} /\ ~Starter(r)' /\ ~Deciding(r)' /\ ~Carries(r)
  BY <1>1, <1>2 DEF Expected, Starter, Deciding, Carries, CreateBusy, Updating
<1>4. ExpectedBy(r, x)'
  BY <1>1, <1>3 DEF ExpectedBy, Inv, ProgramTypes, Rows
<1>5. reply'[x] # reply[x] => r = x /\ (reply'[x] = "refused" => pc[x] = "refused")
  BY <1>1 DEF Answer, Inv, ProgramTypes
<1> QED
  BY <1>1, <1>2, <1>3, <1>4, <1>5, StepGood DEF Saving

LEMMA LoadForCreateGood ==
  ASSUME Inv, HistoryTypes, NEW x \in Requests, Good(x), Grows(x), NEW r \in Requests,
         LoadForCreate(r)
  PROVE  Good(x)'
<1> USE LocalAssumption
<1>1. /\ r \in Threads /\ r \notin Workers /\ r \notin Cancels /\ r # Main
      /\ pc[r] = "new" /\ on[r] = r
      /\ UNCHANGED <<executions, overwritten, channel, todo, on, write, resultsCopy, outcome, runs>>
  BY DEF Threads, LoadForCreate, files, Inv, ThreadOK, RequestOK
<1>2. PICK label \in {"insert", "done", "error"} :
        /\ Goto(r, label)
        /\ label = "insert" => copy' = [copy EXCEPT ![r] = executions]
        /\ label # "insert" => copy' = copy
        /\ label # "done" => reply' = reply
        /\ label = "done" => \E e \in Requests \union {"conflict"} : reply' = [reply EXCEPT ![r] = e]
  BY DEF LoadForCreate, Existing
<1>3. pc'[r] = label /\ OwnStep(r) /\ (label = "insert" => copy'[r] = executions)
  BY <1>1, <1>2 DEF Goto, OwnStep, Inv, ProgramTypes, LocalsOK
<1>4. /\ Expected(r)' = ExecutionStatus \union {"Absent"} /\ ~Deciding(r)' /\ ~Carries(r)
      /\ Starter(r)
  BY <1>1, <1>3 DEF Expected, Starter, Deciding, Carries, CreateBusy, Updating
<1>5. ExpectedBy(r, x)'
  BY <1>1, <1>4 DEF ExpectedBy, Inv, ProgramTypes, Rows
<1>6. reply'[x] # reply[x] => r = x /\ pc'[x] = "done" /\ reply'[x] # "refused"
  BY <1>2, <1>3 DEF Inv, ProgramTypes
<1> QED
  BY <1>1, <1>3, <1>4, <1>5, <1>6, StepGood DEF Saving
-----------------------------------------------------------------------------
\* A worker's steps between its status changes
LEMMA WorkerStepGood ==
  ASSUME Inv, HistoryTypes, NEW x \in Requests, Good(x), Grows(x), NEW w \in Workers,
         NEW label \in {"start", "fail", "return", "loadResults", "saveResults", "finish"},
         Goto(w, label),
         \A v \in Workers \ {w} : resultsCopy'[v] = resultsCopy[v] /\ outcome'[v] = outcome[v],
         UNCHANGED <<executions, overwritten, process, on, write, copy, reply>>,
         on[w] = x =>
            /\ Kept(x) => ExpectedBy(w, x)'
            /\ label = "finish" => x \in results'
            /\ label = "return" => ~Unfinished(x),
         label = "start" => pc[w] = "read",
         runs'[x] # runs[x] =>
            /\ on[w] = x /\ pc[w] = "run" /\ label # "start" /\ runs'[x] = runs[x] + 1
            /\ Kept(x) => executions[x] \notin NotStarted
  PROVE  Good(x)'
<1> USE LocalAssumption
<1>1. w \in Threads /\ w \notin Requests /\ w \notin Cancels /\ w # Main
  BY DEF Threads
<1>2. OwnStep(w) /\ pc'[w] = label
  BY <1>1 DEF OwnStep, Goto, process, Inv, ProgramTypes
<1>3. Kept(x)' => Kept(x)
  BY Losses
<1>4. (Starter(w)' => Starter(w)) /\ (label # "start" => ~Starter(w)') /\ (pc[w] = "run" => Starter(w))
  BY <1>1, <1>2 DEF Starter, Updating
<1>5. (Deciding(w)' => label = "finish") /\ (label # "return" => Carries(w)')
  BY <1>1, <1>2 DEF Deciding, Carries, Updating
<1> QED
  BY <1>1, <1>2, <1>3, <1>4, <1>5, StepGood DEF Saving

LEMMA ReadExecutionGood ==
  ASSUME Inv, HistoryTypes, NEW x \in Requests, Good(x), Grows(x), NEW w \in Workers,
         ReadExecution(w)
  PROVE  Good(x)'
<1> USE LocalAssumption
<1>1. /\ w \in Threads /\ w \notin Cancels /\ pc[w] = "read"
      /\ UNCHANGED <<executions, overwritten, process, on, write, copy, resultsCopy, outcome, reply, runs>>
  BY DEF Threads, ReadExecution, files, locals, history
<1>2. PICK label \in {"start", "fail", "return"} :
        Goto(w, label) /\ (label = "return" => executions[on[w]] = "Canceled")
  BY DEF ReadExecution
<1>3. pc'[w] = label
  BY <1>1, <1>2 DEF Goto, Inv, ProgramTypes
<1>4. on[w] = x /\ Kept(x) => ExpectedBy(w, x)'
  <2>1. on[w] = x /\ Kept(x) => executions[x] \in {"Queued", "Canceled"}
    <3>1. on[w] = x /\ Kept(x) => ExpectedBy(w, x)
      BY <1>1 DEF Good, StatusOK
    <3> QED
      BY <1>1, <3>1 DEF ExpectedBy, Expected, Updating
  <2>2. label # "return" => "Queued" \in Expected(w)'
    BY <1>3 DEF Expected, Updating
  <2> QED
    BY <1>1, <1>2, <2>1, <2>2 DEF ExpectedBy
<1> QED
  BY <1>1, <1>2, <1>4, WorkerStepGood DEF Unfinished, IsFinal

\* The plugins are started by the one thread that may, from a row that says Running.
LEMMA RunPluginsGood ==
  ASSUME Inv, HistoryTypes, NEW x \in Requests, Good(x), Grows(x), NEW w \in Workers, RunPlugins(w)
  PROVE  Good(x)'
<1> USE LocalAssumption
<1>1. /\ w \in Threads /\ w \notin Cancels /\ pc[w] = "run" /\ on[w] \in Requests
      /\ UNCHANGED <<executions, overwritten, process, on, write, copy, resultsCopy, reply>>
  BY DEF Threads, RunPlugins, files, Inv, ThreadOK, WorkerOK, LocalsOK
<1>2. PICK label \in {"fail", "loadResults"} : Goto(w, label)
  BY DEF RunPlugins
<1>3. pc'[w] = label /\ \A v \in Workers \ {w} : outcome'[v] = outcome[v]
  BY <1>1, <1>2 DEF Goto, RunPlugins, Inv, ProgramTypes
<1>4. on[w] = x /\ Kept(x) => executions[x] \in {"Running", "Canceled"} /\ ExpectedBy(w, x)'
  <2>1. on[w] = x /\ Kept(x) => executions[x] \in {"Running", "Canceled"}
    <3>1. on[w] = x /\ Kept(x) => ExpectedBy(w, x)
      BY <1>1 DEF Good, StatusOK
    <3> QED
      BY <1>1, <3>1 DEF ExpectedBy, Expected, Updating
  <2>2. "Running" \in Expected(w)'
    BY <1>3 DEF Expected, Updating
  <2> QED
    BY <1>1, <2>1, <2>2 DEF ExpectedBy
<1>5. runs'[x] # runs[x] => on[w] = x /\ runs'[x] = runs[x] + 1
  BY <1>1 DEF RunPlugins, Inv, ProgramTypes
<1> QED
  BY <1>1, <1>2, <1>3, <1>4, <1>5, WorkerStepGood DEF NotStarted

\* BatchSaveResults: what another worker has stored meanwhile is dropped, and known to be.
LEMMA ResultsGood ==
  ASSUME Inv, HistoryTypes, NEW x \in Requests, Good(x), Grows(x), NEW w \in Workers,
         LoadResults(w) \/ SaveResults(w)
  PROVE  Good(x)'
<1> USE LocalAssumption
<1>1. /\ w \in Threads /\ w \notin Cancels /\ pc[w] \in {"loadResults", "saveResults"}
      /\ UNCHANGED <<executions, overwritten, process, on, write, copy, outcome, reply, runs>>
  BY DEF Threads, LoadResults, SaveResults, files, history
<1>2. PICK label \in {"saveResults", "finish", "fail"} :
        Goto(w, label) /\ (label = "finish" => on[w] \in results')
  BY DEF LoadResults, SaveResults
<1>3. /\ pc'[w] = label
      /\ \A v \in Workers \ {w} : resultsCopy'[v] = resultsCopy[v]
  BY <1>1, <1>2 DEF Goto, LoadResults, SaveResults, Inv, ProgramTypes, LocalsOK
<1>4. on[w] = x /\ Kept(x) => ExpectedBy(w, x)'
  <2>1. on[w] = x /\ Kept(x) => executions[x] \in {"Running", "Canceled"}
    <3>1. on[w] = x /\ Kept(x) => ExpectedBy(w, x)
      BY <1>1 DEF Good, StatusOK
    <3> QED
      BY <1>1, <3>1 DEF ExpectedBy, Expected, Updating
  <2>2. "Running" \in Expected(w)'
    BY <1>3 DEF Expected, Updating
  <2> QED
    BY <1>1, <2>1, <2>2 DEF ExpectedBy
<1> QED
  BY <1>1, <1>2, <1>3, <1>4, WorkerStepGood
-----------------------------------------------------------------------------
\* A step that writes no file: a thread moves, ids are put into the channel, taken or listed.
Moves(th) ==
    /\ UNCHANGED <<copy, runs, reply>>
    /\ \A t \in Threads \ {th} : pc'[t] = pc[t] /\ write'[t] = write[t] /\ on'[t] = on[t]

LEMMA OthersWait ==
  ASSUME NEW th \in Threads, Moves(th), NEW t \in Threads \ {th}
  PROVE  /\ Expected(t)' = Expected(t) /\ (Starter(t)' <=> Starter(t)) /\ on'[t] = on[t]
         /\ (Deciding(t)' <=> Deciding(t)) /\ (Carries(t)' <=> Carries(t))
  BY DEF Moves, Expected, Starter, Deciding, Carries

LEMMA MoveGood ==
  ASSUME Inv, HistoryTypes, NEW x \in Requests, Good(x), Grows(x), NEW th \in Threads, Moves(th),
         executions'[x] = executions[x], overwritten'[x] = overwritten[x],
         pc'[th] \notin Saving, ~Deciding(th)', StatusOK(x)',
         Potential(x)' => \/ Potential(x)
                          \/ /\ executions[x] \in NotStarted
                             /\ Life \notin overwritten[x] \union failed[x],
         Unfinished(x) => Scheduled(x)' \/ SetBack(x)',
         th = x => pc[x] \notin {"refused", "done"} /\ pc'[x] # "refused"
  PROVE  Good(x)'
<1>1. /\ PastLosses(x) \in Nat /\ PastLosses(x)' = PastLosses(x) /\ Life' = Life
      /\ SpoiledBefore(x)' <=> SpoiledBefore(x)
      /\ Kept(x)' <=> Kept(x)
  BY Losses DEF Kept
<1>2. RunsOK(x)'
  BY <1>1 DEF Moves, Good, RunsOK, Kept
<1>3. ResultsOK(x)'
  <2> SUFFICES ASSUME x \notin results' \union dropped'
               PROVE  /\ executions'[x] \notin RanWell
                      /\ \A t \in Threads : pc'[t] \in Saving => copy'[t][x] \notin RanWell
                      /\ \A t \in Threads : on'[t] = x => ~Deciding(t)'
    BY DEF ResultsOK
  <2>1. /\ executions[x] \notin RanWell
        /\ \A t \in Threads : pc[t] \in Saving => copy[t][x] \notin RanWell
        /\ \A t \in Threads : on[t] = x => ~Deciding(t)
    BY DEF Good, ResultsOK, Grows
  <2>2. \A t \in Threads : pc'[t] \in Saving => copy'[t][x] \notin RanWell
    BY <2>1 DEF Moves
  <2>3. \A t \in Threads : on'[t] = x => ~Deciding(t)'
    BY <2>1, OthersWait
  <2> QED
    BY <2>1, <2>2, <2>3
<1>4. ScheduledOK(x)'
  BY DEF ScheduledOK, Unfinished
<1>5. RefusedOK(x)'
  <2>1. RefusedOK(x) /\ (pc'[x] # pc[x] => th = x) /\ reply'[x] = reply[x] /\ runs'[x] = runs[x]
    BY DEF Good, Moves, Threads
  <2>2. reply'[x] = "refused" => pc'[x] = "done"
    BY <2>1 DEF RefusedOK
  <2>3. ASSUME pc'[x] = "refused" \/ reply'[x] = "refused", ~SpoiledBefore(x)'
        PROVE  /\ runs'[x] = 0 /\ ~Potential(x)'
               /\ IsFinal(executions'[x]) \/ Life \in overwritten'[x] \union failed'[x]
    <3>1. pc[x] = "refused" \/ reply[x] = "refused"
      BY <2>1, <2>3
    <3>2. /\ runs[x] = 0 /\ ~Potential(x)
          /\ IsFinal(executions[x]) \/ Life \in overwritten[x] \union failed[x]
      BY <1>1, <2>1, <2>3, <3>1 DEF RefusedOK
    <3>3. ~Potential(x)'
      BY <3>2 DEF IsFinal, NotStarted
    <3> QED
      BY <2>1, <3>2, <3>3 DEF Grows
  <2> QED
    BY <1>1, <2>2, <2>3 DEF RefusedOK
<1> QED
  BY <1>2, <1>3, <1>4, <1>5 DEF Good

\* The id of the execution is put into the channel.
LEMMA PushGood ==
  ASSUME Inv, HistoryTypes, NEW x \in Requests, Good(x), Grows(x), NEW th \in Requests \union {Main},
         pc[th] = "submit", channel' = Append(channel, on[th]),
         Goto(th, IF th = Main THEN "recover" ELSE "answer"),
         UNCHANGED <<files, up, mutex, todo, locals, history, trouble, crashes>>
  PROVE  Good(x)'
<1> USE LocalAssumption
<1>1. /\ th \in Threads /\ th \notin Workers /\ th \notin Cancels /\ Main \in Threads /\ x \in Threads
      /\ on[th] \in Requests /\ on[x] = x /\ x # Main
      /\ UNCHANGED <<executions, overwritten, failed, todo, on, write>>
  BY DEF Threads, files, locals, trouble, Inv, ThreadOK, RequestOK, MainOK, RecoveryBusy
<1>2. pc'[th] = (IF th = Main THEN "recover" ELSE "answer") /\ Moves(th)
  BY <1>1 DEF Goto, Moves, locals, history, Inv, ProgramTypes
<1>3. InChannel(x)' <=> InChannel(x) \/ on[th] = x
  <2>1. channel \in Seq(Requests) /\ Len(channel) \in Nat
    BY DEF Inv, ProgramTypes
  <2>2. /\ DOMAIN channel \subseteq DOMAIN channel'
        /\ Len(channel) + 1 \in DOMAIN channel' /\ channel'[Len(channel) + 1] = on[th]
        /\ \A i \in DOMAIN channel : channel'[i] = channel[i]
        /\ \A i \in DOMAIN channel' : i = Len(channel) + 1 \/ i \in DOMAIN channel
    BY <1>1, <2>1
  <2> QED
    BY <2>2 DEF InChannel
<1>4. /\ Expected(th)' = ExecutionStatus \union {"Absent"} /\ ~Starter(th)' /\ ~Deciding(th)'
      /\ Expected(th) = {"Queued"} /\ Starter(th)
  BY <1>1, <1>2 DEF Expected, Starter, Deciding, CreateBusy, Updating
<1>5. /\ IF th = Main THEN pc[Main] = "submit" /\ pc'[Main] = "recover" ELSE pc'[Main] = pc[Main]
      /\ pc'[Main] \in Recoverable <=> pc[Main] \in Recoverable
  BY <1>1, <1>2 DEF Moves, Recoverable, RecoveryBusy
<1>6. Life' = Life /\ (Kept(x)' => Kept(x))
  BY Losses
<1>7. StatusOK(x)'
  <2> SUFFICES ASSUME Kept(x)' PROVE StatusOK(x)'
    BY DEF StatusOK
  <2>1. StatusOK(x) /\ Kept(x) /\ executions[x] \in ExecutionStatus \union {"Absent"}
    BY <1>6 DEF Good, Inv, ProgramTypes, Rows
  <2>2. ASSUME NEW t \in Threads \ Cancels, on[t] = x PROVE ExpectedBy(t, x)'
    <3>1. CASE t = th
      BY <1>1, <1>4, <2>1, <3>1 DEF ExpectedBy
    <3>2. CASE t # th
      BY <1>1, <1>2, <2>1, <2>2, <3>2, OthersWait DEF StatusOK, ExpectedBy
    <3> QED
      BY <3>1, <3>2
  <2>3. on[th] = x => executions[x] \in {"Queued", "Canceled"}
    BY <1>1, <1>4, <2>1 DEF StatusOK, ExpectedBy
  <2> QED
    BY <1>1, <1>3, <1>5, <2>1, <2>2, <2>3 DEF StatusOK
<1>8. Potential(x)' => Potential(x)
  <2>1. \A t \in Threads : on'[t] = x /\ Starter(t)' => on[t] = x /\ Starter(t)
    BY <1>1, <1>2, <1>4, OthersWait
  <2>2. pc'[Main] \in Recoverable => pc[Main] \in Recoverable
    BY <1>5
  <2> QED
    BY <1>1, <1>3, <1>4, <2>1, <2>2 DEF Potential
<1>9. ASSUME Unfinished(x) PROVE Scheduled(x)' \/ SetBack(x)'
  <2>1. CASE SetBack(x)
    BY <1>1, <1>2, <1>5, <1>6, <2>1 DEF SetBack, LeftOut, Moves
  <2>2. CASE \E t \in Threads : on[t] = x /\ Carries(t)
    BY <1>1, <1>2, <1>3, <2>2, OthersWait DEF Scheduled
  <2>3. CASE ~(\E t \in Threads : on[t] = x /\ Carries(t)) /\ Scheduled(x)
    BY <1>1, <1>3, <1>5, <2>3 DEF Scheduled
  <2> QED
    BY <1>9, <2>1, <2>2, <2>3 DEF Good, ScheduledOK
<1> QED
  BY <1>1, <1>2, <1>4, <1>7, <1>8, <1>9, MoveGood DEF Saving

LEMMA SubmitGood ==
  ASSUME Inv, HistoryTypes, NEW x \in Requests, Good(x), Grows(x), NEW th \in Requests \union {Main},
         Submit(th)
  PROVE  Good(x)'
<1> USE LocalAssumption
<1>1. /\ th \in Threads /\ th \notin Workers /\ th \notin Cancels /\ pc[th] = "submit"
      /\ th # Main => th \in Requests /\ on[th] = th
      /\ UNCHANGED <<executions, overwritten, todo, on, copy, resultsCopy, outcome, runs, reply>>
  BY DEF Threads, Submit, files, history, Inv, ThreadOK, RequestOK
<1>2. CASE channel' = Append(channel, on[th]) /\ UNCHANGED write
  BY <1>1, <1>2, PushGood DEF Submit, locals
<1>3. Starter(th) /\ Expected(th) = {"Queued"}
  BY <1>1 DEF Starter, Expected, CreateBusy, Updating
<1>4. Kept(x)' => Kept(x)
  BY Losses
<1>5. on[th] = x /\ Kept(x)' => executions[x] \in {"Queued", "Canceled"}
  <2>1. on[th] = x /\ Kept(x) => ExpectedBy(th, x)
    BY <1>1 DEF Good, StatusOK
  <2> QED
    BY <1>3, <1>4, <2>1 DEF ExpectedBy
<1>6. CASE th = Main /\ Goto(th, "serving") /\ UNCHANGED <<channel, write>>
  <2>1. pc'[th] = "serving" /\ OwnStep(th)
    BY <1>1, <1>6 DEF Goto, OwnStep, Inv, ProgramTypes
  <2>2. Expected(th)' = ExecutionStatus \union {"Absent"} /\ ~Starter(th)' /\ ~Deciding(th)'
    BY <1>1, <1>6, <2>1 DEF Expected, Starter, Deciding, Updating
  <2>3. ExpectedBy(th, x)'
    BY <1>1, <2>2 DEF ExpectedBy, Inv, ProgramTypes, Rows
  <2>4. on[th] = x => SetBack(x)'
    BY <1>1, <1>6, <2>1 DEF SetBack, LeftOut
  <2> QED
    BY <1>1, <1>6, <2>1, <2>2, <2>3, <2>4, StepGood DEF Saving, RecoveryBusy
<1>7. CASE th # Main /\ Call(th, "Failed", "refused", "refused") /\ UNCHANGED channel
  <2>1. /\ pc'[th] = "exists" /\ OwnStep(th)
        /\ write'[th].next = "refused" /\ write'[th].fail = "refused"
    BY <1>1, <1>7 DEF Call, Goto, OwnStep, Inv, ProgramTypes, LocalsOK
  <2>2. Expected(th)' = {"Queued"} /\ ~Deciding(th)' /\ Carries(th)'
    <3>1. Expected(th)' = {"Queued"}
      BY <2>1 DEF Expected, Updating
    <3> QED
      BY <1>1, <1>7, <2>1, <3>1 DEF Deciding, Carries, CreateBusy, Updating
  <2>3. on[th] = x /\ Kept(x)' => ExpectedBy(th, x)'
    BY <1>1, <1>5, <2>2 DEF ExpectedBy
  <2> QED
    BY <1>1, <1>3, <1>7, <2>1, <2>2, <2>3, StepGood DEF Saving
<1> QED
  BY <1>2, <1>6, <1>7 DEF Submit
-----------------------------------------------------------------------------
LEMMA TakeGood ==
  ASSUME Inv, HistoryTypes, NEW x \in Requests, Good(x), Grows(x), NEW w \in Workers, Take(w)
  PROVE  Good(x)'
<1> USE LocalAssumption
<1> DEFINE y == Head(channel)
<1>1. /\ w \in Threads /\ w \notin Requests /\ w \notin Cancels /\ w # Main /\ Main \in Threads
      /\ UNCHANGED <<executions, overwritten, failed, todo, write>> /\ pc[w] = "idle"
  BY DEF Threads, Take, files, trouble
<1>2. channel \in Seq(Requests) /\ Len(channel) \in Nat /\ channel # <<>>
  BY DEF Inv, ProgramTypes, Take
<1>3. /\ 1 \in DOMAIN channel /\ channel[1] = y /\ y \in Requests
      /\ \A i \in DOMAIN channel' : i + 1 \in DOMAIN channel /\ channel'[i] = channel[i + 1]
      /\ \A i \in DOMAIN channel : i = 1 \/ (i - 1 \in DOMAIN channel' /\ channel'[i - 1] = channel[i])
  BY <1>2 DEF Take
<1> HIDE DEF y
<1>4. on'[w] = y /\ pc'[w] = "read" /\ Moves(w)
  BY <1>1 DEF Take, Goto, Moves, history, y, Inv, ProgramTypes, LocalsOK
<1>5. /\ InChannel(x)' => InChannel(x)
      /\ InChannel(x) => InChannel(x)' \/ y = x
      /\ y = x => InChannel(x)
  BY <1>3 DEF InChannel
<1>6. Expected(w)' = {"Queued"} /\ ~Deciding(w)' /\ Carries(w)' /\ ~Carries(w)
  BY <1>1, <1>4 DEF Expected, Deciding, Carries, Updating
<1>7. Life' = Life /\ (Kept(x)' => Kept(x)) /\ pc'[Main] = pc[Main] /\ on'[Main] = on[Main]
  BY <1>1, <1>4, Losses DEF Moves
<1>8. StatusOK(x)'
  <2> SUFFICES ASSUME Kept(x)' PROVE StatusOK(x)'
    BY DEF StatusOK
  <2>1. StatusOK(x) /\ Kept(x)
    BY <1>7 DEF Good
  <2>2. ASSUME NEW t \in Threads \ Cancels, on'[t] = x PROVE ExpectedBy(t, x)'
    <3>1. CASE t = w
      BY <1>1, <1>4, <1>5, <1>6, <2>1, <2>2, <3>1 DEF StatusOK, ExpectedBy
    <3>2. CASE t # w
      BY <1>1, <1>4, <2>1, <2>2, <3>2, OthersWait DEF StatusOK, ExpectedBy
    <3> QED
      BY <3>1, <3>2
  <2>3. \A c \in Cancels : on'[c] = on[c]
    BY <1>1, <1>4 DEF Moves, Threads
  <2> QED
    BY <1>1, <1>5, <1>7, <2>1, <2>2, <2>3 DEF StatusOK
<1>9. Potential(x)' => Potential(x)
  <2>1. \A t \in Threads : on'[t] = x /\ Starter(t)' => InChannel(x) \/ (on[t] = x /\ Starter(t))
    BY <1>1, <1>4, <1>5, OthersWait
  <2> QED
    BY <1>1, <1>5, <1>7, <2>1 DEF Potential
<1>10. ASSUME Unfinished(x) PROVE Scheduled(x)' \/ SetBack(x)'
  <2>1. CASE SetBack(x)
    BY <1>1, <1>7, <2>1 DEF SetBack, LeftOut
  <2>2. CASE \E t \in Threads : on[t] = x /\ Carries(t)
    BY <1>1, <1>4, <1>6, <2>2, OthersWait DEF Scheduled
  <2>3. CASE ~(\E t \in Threads : on[t] = x /\ Carries(t)) /\ Scheduled(x)
    BY <1>1, <1>4, <1>5, <1>6, <1>7, <2>3 DEF Scheduled
  <2> QED
    BY <1>10, <2>1, <2>2, <2>3 DEF Good, ScheduledOK
<1> QED
  BY <1>1, <1>4, <1>6, <1>8, <1>9, <1>10, MoveGood DEF Saving

\* A worker or a cancel takes up an execution it does not carry, or lays one down.
LEMMA PickUpGood ==
  ASSUME Inv, HistoryTypes, NEW x \in Requests, Good(x), Grows(x), NEW th \in Cancels \union Workers,
         Moves(th), UNCHANGED <<executions, overwritten, failed, channel, todo>>,
         pc'[th] \notin Saving, ~Starter(th)', ~Deciding(th)', ~Carries(th),
         on'[th] = x => th \in Cancels /\ executions[x] # "Absent"
  PROVE  Good(x)'
<1> USE LocalAssumption
<1>1. th \in Threads /\ th # Main /\ th \notin Requests /\ Main \in Threads
  BY DEF Threads
<1>2. /\ Life' = Life /\ (Kept(x)' => Kept(x)) /\ (InChannel(x)' <=> InChannel(x))
      /\ pc'[Main] = pc[Main] /\ on'[Main] = on[Main]
  BY <1>1, Losses DEF Moves, InChannel
<1>3. StatusOK(x)'
  <2> SUFFICES ASSUME Kept(x)' PROVE StatusOK(x)'
    BY DEF StatusOK
  <2>1. StatusOK(x) /\ Kept(x)
    BY <1>2 DEF Good
  <2>2. ASSUME NEW t \in Threads \ Cancels, on'[t] = x PROVE ExpectedBy(t, x)'
    BY <1>1, <2>1, <2>2, OthersWait DEF StatusOK, ExpectedBy
  <2>3. \A c \in Cancels : on'[c] = x => executions[x] # "Absent"
    BY <1>1, <2>1 DEF Moves, StatusOK, Threads
  <2> QED
    BY <1>2, <2>1, <2>2, <2>3 DEF StatusOK
<1>4. Potential(x)' => Potential(x)
  <2>1. \A t \in Threads : on'[t] = x /\ Starter(t)' => on[t] = x /\ Starter(t)
    BY <1>1, OthersWait
  <2> QED
    BY <1>2, <2>1 DEF Potential
<1>5. ASSUME Unfinished(x) PROVE Scheduled(x)' \/ SetBack(x)'
  <2>1. CASE SetBack(x)
    BY <1>2, <2>1 DEF SetBack, LeftOut
  <2>2. CASE Scheduled(x)
    BY <1>1, <1>2, <2>2, OthersWait DEF Scheduled
  <2> QED
    BY <1>5, <2>1, <2>2 DEF Good, ScheduledOK
<1> QED
  BY <1>1, <1>3, <1>4, <1>5, MoveGood

LEMMA HandlerReturnsGood ==
  ASSUME Inv, HistoryTypes, NEW x \in Requests, Good(x), Grows(x), NEW w \in Workers,
         HandlerReturns(w)
  PROVE  Good(x)'
<1> USE LocalAssumption
<1>1. w \in Threads /\ w \notin Requests /\ w # Main /\ pc[w] = "return"
  BY DEF Threads, HandlerReturns
<1>2. on'[w] = NoOne /\ pc'[w] = "idle" /\ Moves(w)
  BY <1>1 DEF HandlerReturns, Goto, Moves, history, Inv, ProgramTypes, LocalsOK
<1>3. ~Starter(w)' /\ ~Deciding(w)' /\ ~Carries(w)
  BY <1>1, <1>2 DEF Starter, Deciding, Carries, Updating
<1>4. UNCHANGED <<executions, overwritten, failed, channel, todo>>
  BY DEF HandlerReturns, files, process, trouble
<1> QED
  BY <1>2, <1>3, <1>4, PickUpGood DEF Saving

LEMMA ReadForCancelGood ==
  ASSUME Inv, HistoryTypes, NEW x \in Requests, Good(x), Grows(x), NEW c \in Cancels,
         NEW y \in Requests, ReadForCancel(c, y)
  PROVE  Good(x)'
<1> USE LocalAssumption
<1>1. c \in Threads /\ c \notin Requests \union Workers /\ c # Main
  BY DEF Threads
<1>2. on'[c] = y /\ pc'[c] = "exists" /\ Moves(c)
  BY <1>1 DEF ReadForCancel, Call, Goto, Moves, history, Inv, ProgramTypes, LocalsOK
<1>3. ~Starter(c)' /\ ~Deciding(c)' /\ ~Carries(c)
  BY <1>1 DEF Starter, Deciding, Carries
<1>4. executions[y] # "Absent" /\ UNCHANGED <<executions, overwritten, failed, channel, todo>>
  BY DEF ReadForCancel, CanCancel, files, process, trouble
<1> QED
  BY <1>2, <1>3, <1>4, PickUpGood DEF Saving
-----------------------------------------------------------------------------
LEMMA BootGood ==
  ASSUME Inv, HistoryTypes, NEW x \in Requests, Good(x), Grows(x), Quiet, Boot
  PROVE  Good(x)'
<1> USE LocalAssumption
<1>1. /\ Main \in Threads /\ x # Main /\ Main \notin Cancels /\ pc[Main] = "down"
      /\ UNCHANGED <<executions, overwritten, failed, channel, todo, on>>
  BY DEF Threads, Boot, files, trouble, locals, Inv, ThreadOK, MainOK
<1>2. pc'[Main] = "list" /\ Moves(Main) /\ on[Main] = NoOne
  BY <1>1 DEF Boot, Goto, Moves, locals, history, Quiet, Inv, ProgramTypes
<1>3. ~Starter(Main)' /\ ~Deciding(Main)' /\ pc'[Main] \notin Recoverable
  BY <1>1, <1>2 DEF Starter, Deciding, Updating, Recoverable, RecoveryBusy
<1>4. (Kept(x)' => Kept(x)) /\ (InChannel(x)' <=> InChannel(x))
  BY <1>1, Losses DEF InChannel
<1>5. StatusOK(x)'
  <2>1. Kept(x)' => StatusOK(x) /\ Kept(x)
    BY <1>4 DEF Good
  <2>2. ASSUME Kept(x)', NEW t \in Threads \ Cancels, on[t] = x PROVE ExpectedBy(t, x)'
    BY <1>1, <1>2, <2>1, <2>2, OthersWait DEF StatusOK, ExpectedBy
  <2> QED
    BY <1>1, <1>3, <1>4, <2>1, <2>2 DEF StatusOK
<1>6. Potential(x)' => Potential(x)
  BY <1>1, <1>2, <1>3, <1>4, OthersWait DEF Potential
<1>7. Scheduled(x)'
  BY <1>2 DEF Scheduled
<1> QED
  BY <1>1, <1>2, <1>3, <1>5, <1>6, <1>7, MoveGood DEF Saving

\* Recovery is told of all that is unfinished, before anybody writes the file.
LEMMA ListIncompleteGood ==
  ASSUME Inv, HistoryTypes, NEW x \in Requests, Good(x), Grows(x), Quiet, ListIncomplete
  PROVE  Good(x)'
<1> USE LocalAssumption
<1>1. /\ Main \in Threads /\ x # Main /\ Main \notin Cancels /\ pc[Main] = "list" /\ on[Main] = NoOne
      /\ Life \notin overwritten[x] \union failed[x]
      /\ UNCHANGED <<executions, overwritten, channel, on>>
  BY DEF Threads, ListIncomplete, files, locals, Quiet
<1>2. PICK label \in {"recover", "serving"} : Goto(Main, label)
  BY DEF ListIncomplete
<1>3. pc'[Main] = label /\ Moves(Main)
  BY <1>1, <1>2 DEF ListIncomplete, Goto, Moves, locals, history, Inv, ProgramTypes
<1>4. todo' = {[id |-> y, status |-> executions[y]] : y \in Incomplete}
  BY DEF ListIncomplete
<1>5. /\ \A item \in todo' : item.id = x => item.status = executions[x] /\ x \in Incomplete
      /\ Unfinished(x) => \E item \in todo' : item.id = x
  <2>1. \A item \in todo' : item.id = x => item.status = executions[x] /\ x \in Incomplete
    BY <1>4
  <2>2. Unfinished(x) => x \in Incomplete
    BY DEF Unfinished, IsFinal, Incomplete, Inv, ProgramTypes, Rows, ExecutionStatus
  <2>3. x \in Incomplete => [id |-> x, status |-> executions[x]] \in todo'
    BY <1>4
  <2> QED
    BY <2>1, <2>2, <2>3
<1>6. ~Starter(Main)' /\ ~Deciding(Main)'
  BY <1>1, <1>3 DEF Starter, Deciding, Updating
<1>7. (Kept(x)' => Kept(x)) /\ (InChannel(x)' <=> InChannel(x))
  BY <1>1, Losses DEF InChannel
<1>8. StatusOK(x)'
  <2>1. Kept(x)' => StatusOK(x) /\ Kept(x)
    BY <1>7 DEF Good
  <2>2. ASSUME Kept(x)', NEW t \in Threads \ Cancels, on[t] = x PROVE ExpectedBy(t, x)'
    BY <1>1, <1>3, <2>1, <2>2, OthersWait DEF StatusOK, ExpectedBy
  <2> QED
    BY <1>1, <1>5, <1>7, <2>1, <2>2 DEF StatusOK
<1>9. ASSUME Potential(x)', ~Potential(x)
      PROVE  executions[x] \in NotStarted
  <2>1. PICK item \in todo' : item.id = x /\ item.status # "Running"
    BY <1>1, <1>3, <1>6, <1>7, <1>9, OthersWait DEF Potential
  <2> QED
    BY <1>5, <2>1 DEF NotStarted, Incomplete
<1>10. Unfinished(x) => Scheduled(x)' \/ SetBack(x)'
  BY <1>3, <1>5 DEF Scheduled, SetBack, LeftOut, Recoverable
<1> QED
  BY <1>1, <1>3, <1>6, <1>8, <1>9, <1>10, MoveGood DEF Saving

LEMMA RecoverNextGood ==
  ASSUME Inv, HistoryTypes, NEW x \in Requests, Good(x), Grows(x), RecoverNext
  PROVE  Good(x)'
<1> USE LocalAssumption
<1>1. /\ Main \in Threads /\ x # Main /\ Main \notin Cancels /\ pc[Main] = "recover"
      /\ UNCHANGED <<executions, overwritten, failed, channel>>
      /\ Moves(Main)
  BY DEF Threads, RecoverNext, files, trouble, history, Goto, Call, Moves, Inv, ProgramTypes, LocalsOK
<1>2. /\ Life' = Life /\ (Kept(x)' => Kept(x)) /\ (InChannel(x)' <=> InChannel(x))
      /\ pc[Main] \in Recoverable /\ ~Carries(Main)
  BY <1>1, Losses DEF InChannel, Recoverable, Carries, RecoveryBusy, Updating
<1>3. ASSUME NEW t \in Threads \ {Main}
      PROVE  /\ Expected(t)' = Expected(t) /\ (Starter(t)' <=> Starter(t)) /\ on'[t] = on[t]
             /\ (Deciding(t)' <=> Deciding(t)) /\ (Carries(t)' <=> Carries(t))
  BY <1>1, OthersWait
<1>4. Unfinished(x) => Scheduled(x) \/ Life \in overwritten[x] \union failed[x]
  BY <1>1 DEF Good, ScheduledOK, SetBack, LeftOut
<1>5. CASE todo = {} /\ pc'[Main] = "serving" /\ on'[Main] = NoOne /\ todo' = todo
  <2>1. ~Starter(Main)' /\ ~Deciding(Main)' /\ pc'[Main] \notin Recoverable
    BY <1>1, <1>5 DEF Starter, Deciding, Updating, Recoverable, RecoveryBusy
  <2>2. StatusOK(x)'
    <3>1. Kept(x)' => StatusOK(x) /\ Kept(x)
      BY <1>2 DEF Good
    <3>2. ASSUME Kept(x)', NEW t \in Threads \ Cancels, on'[t] = x PROVE ExpectedBy(t, x)'
      BY <1>1, <1>3, <1>5, <3>1, <3>2 DEF StatusOK, ExpectedBy
    <3>3. \A c \in Cancels : on'[c] = on[c]
      BY <1>1, <1>3 DEF Threads
    <3> QED
      BY <1>1, <1>2, <2>1, <3>1, <3>2, <3>3 DEF StatusOK
  <2>3. Potential(x)' => Potential(x)
    BY <1>2, <1>3, <1>5, <2>1 DEF Potential
  <2>4. Unfinished(x) => Scheduled(x)' \/ SetBack(x)'
    BY <1>1, <1>2, <1>3, <1>4, <1>5 DEF Scheduled, SetBack
  <2> QED
    BY <1>1, <1>5, <2>1, <2>2, <2>3, <2>4, MoveGood DEF Saving
<1>6. ASSUME NEW item \in todo, todo' = todo \ {item}, on' = [on EXCEPT ![Main] = item.id],
             \/ item.status = "Pending" /\ Goto(Main, "mark") /\ UNCHANGED write
             \/ item.status = "Queued" /\ Goto(Main, "submit") /\ UNCHANGED write
             \/ item.status = "Running" /\ Call(Main, "Failed", "recover", "recover")
      PROVE  Good(x)'
  <2>1. /\ on'[Main] = item.id
        /\ \/ item.status = "Pending" /\ pc'[Main] = "mark"
           \/ item.status = "Queued" /\ pc'[Main] = "submit"
           \/ item.status = "Running" /\ pc'[Main] = "exists" /\ write'[Main].next = "recover"
    BY <1>1, <1>6 DEF Goto, Call, Inv, ProgramTypes, LocalsOK
  <2>2. /\ Expected(Main)' = {item.status} /\ (Starter(Main)' => item.status # "Running")
        /\ ~Deciding(Main)' /\ Carries(Main)' /\ pc'[Main] \in Recoverable
    BY <1>1, <2>1
       DEF Expected, Starter, Deciding, Carries, Updating, RecoveryBusy, Recoverable, Threads
  <2>3. StatusOK(x)'
    <3>1. Kept(x)' => StatusOK(x) /\ Kept(x)
      BY <1>2 DEF Good
    <3>2. ASSUME Kept(x)', NEW t \in Threads \ Cancels, on'[t] = x PROVE ExpectedBy(t, x)'
      <4>1. CASE t = Main
        BY <1>1, <1>2, <2>1, <2>2, <3>1, <3>2, <4>1 DEF StatusOK, ExpectedBy
      <4>2. CASE t # Main
        BY <1>1, <1>3, <3>1, <3>2, <4>2 DEF StatusOK, ExpectedBy
      <4> QED
        BY <4>1, <4>2
    <3>3. \A c \in Cancels : on'[c] = on[c]
      BY <1>1, <1>3 DEF Threads
    <3> QED
      BY <1>1, <1>2, <1>6, <3>1, <3>2, <3>3 DEF StatusOK
  <2>4. Potential(x)' => Potential(x)
    BY <1>2, <1>3, <1>6, <2>1, <2>2 DEF Potential
  <2>5. Unfinished(x) => Scheduled(x)' \/ SetBack(x)'
    <3>1. CASE item.id = x
      BY <1>1, <2>1, <2>2, <3>1 DEF Scheduled
    <3>2. CASE item.id # x
      BY <1>1, <1>2, <1>3, <1>4, <1>6, <2>2, <3>2 DEF Scheduled, SetBack
    <3> QED
      BY <3>1, <3>2
  <2>6. pc'[Main] \notin Saving
    BY <2>1 DEF Saving
  <2> QED
    BY <1>1, <2>2, <2>3, <2>4, <2>5, <2>6, MoveGood
<1> QED
  BY <1>1, <1>5, <1>6 DEF RecoverNext, Goto, Inv, ProgramTypes, LocalsOK
-----------------------------------------------------------------------------
\* A stop ends a life: its losses count as losses of an earlier one from now on.
LEMMA CrashGood ==
  ASSUME Inv, HistoryTypes, NEW x \in Requests, Good(x), Crash
  PROVE  Good(x)'
<1> USE LocalAssumption
<1>1. /\ UNCHANGED <<executions, overwritten, failed, results, dropped, runs>>
      /\ channel' = <<>> /\ todo' = {}
  BY DEF Crash, files, trouble
<1>2. /\ crashes \in Nat /\ Life \in Nat /\ Life' = Life + 1
      /\ overwritten[x] \subseteq 1..Life /\ failed[x] \subseteq 1..Life /\ runs[x] \in Nat
  BY DEF Crash, Life, Inv, LocalsOK, ProgramTypes, HistoryTypes
<1>3. \A l \in overwritten[x] \union failed[x] : l < Life' /\ l # Life'
  <2>1. \A l \in 1..Life : l < Life + 1 /\ l # Life + 1
    BY <1>2
  <2> QED
    BY <1>2, <2>1
<1>4. /\ Main \in Threads /\ x \in Threads /\ x # Main /\ x \notin Workers /\ x \notin Cancels
      /\ on[x] = x
  BY DEF Threads, Inv, ThreadOK, RequestOK
<1>5. /\ \A t \in Threads : on'[t] = x => t = x
      /\ pc'[Main] = "down" /\ pc'[x] \in {"new", "done"} /\ (pc'[x] = "new" => pc[x] = "new")
      /\ \A t \in Threads : pc'[t] \notin Saving
      /\ reply'[x] = "refused" => reply[x] = "refused" /\ pc[x] \in {"new", "done"}
      /\ pc[x] # "new" => pc'[x] = "done"
  BY <1>4 DEF Crash, Saving
<1>6. ~InChannel(x)'
  BY <1>1 DEF InChannel
<1>7. /\ PastLosses(x)' = Cardinality(overwritten[x]) /\ PastLosses(x)' \in Nat
      /\ PastLosses(x) \in Nat
      /\ IF Kept(x) THEN PastLosses(x)' = PastLosses(x) ELSE PastLosses(x)' = PastLosses(x) + 1
  <2>1. overwritten'[x] \ {Life'} = overwritten[x]
    BY <1>1, <1>3
  <2>2. IsFiniteSet(1..Life)
    <3>1. \A n \in Nat : IsFiniteSet(1..n)
      BY FS_Interval
    <3> QED
      BY <1>2, <3>1
  <2>3. IsFiniteSet(overwritten[x]) /\ Cardinality(overwritten[x]) \in Nat
    BY <1>2, <2>2, FS_Subset, FS_CardinalityType
  <2>4. PastLosses(x)' = Cardinality(overwritten[x])
    BY <2>1 DEF PastLosses
  <2>5. CASE Kept(x)
    <3>1. overwritten[x] \ {Life} = overwritten[x]
      BY <2>5 DEF Kept
    <3> QED
      BY <2>3, <2>4, <2>5, <3>1 DEF PastLosses
  <2>6. CASE ~Kept(x)
    <3>1. Cardinality(overwritten[x] \ {Life}) = Cardinality(overwritten[x]) - 1
      BY <2>3, <2>6, FS_RemoveElement DEF Kept
    <3>2. Cardinality(overwritten[x] \ {Life}) \in Nat
      BY Losses DEF PastLosses
    <3> QED
      BY <2>3, <2>4, <2>6, <3>1, <3>2 DEF PastLosses
  <2> QED
    BY <2>3, <2>4, <2>5, <2>6
<1>8. Potential(x)' => Potential(x)
  <2>1. ASSUME NEW t \in Threads, on'[t] = x, Starter(t)' PROVE on[x] = x /\ Starter(x)
    BY <1>4, <1>5, <2>1 DEF Starter, CreateBusy, Updating
  <2>2. pc'[Main] \notin Recoverable
    BY <1>5 DEF Recoverable, RecoveryBusy, Updating
  <2> QED
    BY <1>4, <1>6, <2>1, <2>2 DEF Potential
<1>9. StatusOK(x)'
  <2>1. Expected(x)' = ExecutionStatus \union {"Absent"}
    BY <1>5 DEF Expected, Updating
  <2>2. ExpectedBy(x, x)'
    BY <1>1, <2>1 DEF ExpectedBy, Inv, ProgramTypes, Rows
  <2>3. \A c \in Cancels : c \in Threads /\ c # x
    BY <1>4 DEF Threads
  <2>4. \A t \in Threads \ Cancels : on'[t] = x => ExpectedBy(t, x)'
    BY <1>5, <2>2
  <2> QED
    BY <1>1, <1>5, <1>6, <2>3, <2>4 DEF StatusOK
<1>10. RunsOK(x)'
  <2>1. RunsOK(x)
    BY DEF Good
  <2>2. runs'[x] <= 1 + PastLosses(x)' /\ (Potential(x)' => runs'[x] <= PastLosses(x)')
    BY <1>1, <1>2, <1>7, <1>8, <2>1 DEF RunsOK
  <2>3. executions'[x] \in NotStarted => runs'[x] <= PastLosses(x)'
    BY <1>1, <1>2, <1>7, <2>1 DEF RunsOK
  <2> QED
    BY <2>2, <2>3 DEF RunsOK
<1>11. ResultsOK(x)'
  <2>1. \A t \in Threads : on'[t] = x => ~Deciding(t)'
    BY <1>4, <1>5 DEF Deciding
  <2> QED
    BY <1>1, <1>5, <2>1 DEF Good, ResultsOK
<1>12. ScheduledOK(x)'
  BY <1>5 DEF ScheduledOK, Scheduled
<1>13. RefusedOK(x)'
  <2>1. RefusedOK(x)
    BY DEF Good
  <2>2. reply'[x] = "refused" => pc'[x] = "done" /\ reply[x] = "refused"
    BY <1>5, <2>1 DEF RefusedOK
  <2>3. ASSUME ~SpoiledBefore(x)' PROVE ~SpoiledBefore(x) /\ overwritten[x] \union failed[x] = {}
    BY <1>1, <1>3, <2>3 DEF SpoiledBefore
  <2> QED
    BY <1>1, <1>5, <1>8, <2>1, <2>2, <2>3 DEF RefusedOK
<1> QED
  BY <1>9, <1>10, <1>11, <1>12, <1>13 DEF Good
-----------------------------------------------------------------------------
\* What the other threads do leaves the main goroutine where it is.
LEMMA MainStays ==
  ASSUME Inv,
         \/ \E r \in Requests : LoadForCreate(r) \/ Creating(r)
         \/ \E c \in Cancels : (\E x \in Requests : ReadForCancel(c, x)) \/ Canceling(c)
         \/ \E w \in Workers : Working(w)
  PROVE  pc'[Main] = pc[Main]
<1> USE LocalAssumption DEF Goto
<1>1. ASSUME NEW th \in Threads \ {Main}, NEW label, Goto(th, label) PROVE pc'[Main] = pc[Main]
  BY <1>1 DEF Inv, ProgramTypes, Threads
<1>2. ASSUME NEW th, UpdateStatus(th) PROVE \E label : Goto(th, label)
  BY <1>2 DEF UpdateStatus, FindRow, LoadRows, SaveRows, Return
<1>3. ASSUME NEW th, MarkQueued(th) \/ MarkRunning(th) \/ FinishExecution(th) \/ FailExecution(th)
      PROVE  \E label : Goto(th, label)
  BY <1>3 DEF MarkQueued, MarkRunning, FinishExecution, FailExecution, Transit, Call
<1>4. ASSUME NEW r, LoadForCreate(r) \/ InsertRow(r) \/ Submit(r) \/ Answer(r)
      PROVE  \E label : Goto(r, label)
  BY <1>4 DEF LoadForCreate, InsertRow, Submit, Answer, Return, Call
<1>5. ASSUME NEW c, NEW x, ReadForCancel(c, x) PROVE \E label : Goto(c, label)
  BY <1>5 DEF ReadForCancel, Call
<1>6. ASSUME NEW w, Take(w) \/ ReadExecution(w) \/ RunPlugins(w) \/ LoadResults(w) \/ SaveResults(w)
                    \/ HandlerReturns(w)
      PROVE  \E label : Goto(w, label)
  BY <1>6 DEF Take, ReadExecution, RunPlugins, LoadResults, SaveResults, HandlerReturns
<1>7. PICK th \in Threads \ {Main} : \E label : Goto(th, label)
  BY <1>2, <1>3, <1>4, <1>5, <1>6 DEF Creating, Canceling, Working, Threads
<1> QED
  BY <1>1, <1>7

\* Until the file has been listed nobody else is at work.
LEMMA OnlyMain ==
  ASSUME Inv, Quiet, pc[Main] \in {"down", "list"}
  PROVE  ~ \/ \E r \in Requests : LoadForCreate(r) \/ Creating(r)
           \/ \E c \in Cancels : (\E x \in Requests : ReadForCancel(c, x)) \/ Canceling(c)
           \/ \E w \in Workers : Working(w)
<1>1. ASSUME NEW r \in Requests PROVE ~(LoadForCreate(r) \/ Creating(r))
  <2>1. pc[r] \in {"new", "done"} /\ ~Serving
    BY DEF Inv, OneHolder, Serving
  <2> QED
    BY <2>1 DEF LoadForCreate, Creating, InsertRow, MarkQueued, Submit, UpdateStatus, FindRow, LoadRows,
                SaveRows, Answer
<1>2. ASSUME NEW c \in Cancels PROVE ~((\E x \in Requests : ReadForCancel(c, x)) \/ Canceling(c))
  BY DEF Quiet, Updating, Serving, ReadForCancel, Canceling, UpdateStatus, FindRow, LoadRows, SaveRows
<1>3. ASSUME NEW w \in Workers PROVE ~Working(w)
  <2>1. \A x \in Requests : ~InHand(x)
    BY DEF Inv, OneHolder
  <2>2. pc[w] = "idle"
    BY <2>1 DEF Inv, ThreadOK, WorkerOK, Threads, LocalsOK, InHand
  <2>3. channel = <<>>
    <3>1. channel \in Seq(Requests)
      BY DEF Inv, ProgramTypes
    <3>2. channel # <<>> => 1 \in DOMAIN channel /\ channel[1] \in Requests
      BY <3>1
    <3> QED
      BY <2>1, <3>2 DEF InHand
  <2> QED
    BY <2>2, <2>3
       DEF Working, Take, ReadExecution, MarkRunning, RunPlugins, LoadResults, SaveResults,
           FinishExecution, FailExecution, UpdateStatus, FindRow, LoadRows, SaveRows, HandlerReturns
<1> QED
  BY <1>1, <1>2, <1>3

LEMMA QuietInv ==
  ASSUME Inv, HistoryTypes, Quiet, Next
  PROVE  Quiet'
<1> USE LocalAssumption
<1>0. Main \in Threads /\ Cancels \subseteq Threads
  BY DEF Threads
<1>1. CASE Crash
  <2>1. on'[Main] = NoOne /\ \A c \in Cancels : pc'[c] \notin Updating
    BY <1>0, <1>1 DEF Crash, Updating
  <2>2. ASSUME NEW x \in Requests PROVE Life' \notin overwritten'[x] \union failed'[x]
    <3>1. /\ crashes \in Nat /\ Life' = Life + 1 /\ Life = crashes + 1
          /\ overwritten'[x] \subseteq 1..Life /\ failed'[x] \subseteq 1..Life
      BY <1>1 DEF Crash, files, trouble, Life, Inv, LocalsOK, HistoryTypes
    <3>2. Life + 1 \notin 1..Life
      BY <3>1
    <3> QED
      BY <3>1, <3>2
  <2> QED
    BY <2>1, <2>2 DEF Quiet
<1>2. CASE Boot
  <2>1. /\ pc[Main] = "down" /\ UNCHANGED <<on, overwritten, failed, crashes>>
        /\ \A c \in Cancels : pc'[c] = pc[c]
    BY <1>0, <1>2 DEF Boot, Goto, files, locals, trouble, Inv, ThreadOK, MainOK, ProgramTypes
  <2> QED
    BY <2>1 DEF Quiet, Life
<1>3. CASE ListIncomplete \/ RecoverNext \/ MarkQueued(Main) \/ Submit(Main) \/ UpdateStatus(Main)
  <2>1. UpdateStatus(Main) => pc'[Main] \notin {"down", "list"}
    <3>1. ASSUME UpdateStatus(Main)
          PROVE  pc[Main] \in Updating /\ (pc'[Main] \in {"load", "save"} \/ pc'[Main] = write[Main].next
                                            \/ pc'[Main] = write[Main].fail)
      BY <1>0, <3>1 DEF UpdateStatus, FindRow, LoadRows, SaveRows, Return, Goto, Updating, Inv, ProgramTypes
    <3> QED
      BY <1>0, <3>1, ReturnLabels
  <2>2. MarkQueued(Main) \/ Submit(Main) => pc'[Main] \notin {"down", "list"}
    BY <1>0 DEF MarkQueued, Transit, Submit, Call, Goto, Inv, ProgramTypes
  <2>3. ListIncomplete \/ RecoverNext => pc'[Main] \notin {"down", "list"}
    BY <1>0 DEF ListIncomplete, RecoverNext, Call, Goto, Inv, ProgramTypes
  <2> QED
    BY <1>3, <2>1, <2>2, <2>3 DEF Quiet
<1>4. CASE \/ \E r \in Requests : LoadForCreate(r) \/ Creating(r)
           \/ \E c \in Cancels : (\E x \in Requests : ReadForCancel(c, x)) \/ Canceling(c)
           \/ \E w \in Workers : Working(w)
  BY <1>4, MainStays, OnlyMain DEF Quiet
<1> QED
  BY <1>1, <1>2, <1>3, <1>4 DEF Next, Recovering
-----------------------------------------------------------------------------
LEMMA NothingGood ==
  ASSUME NEW x \in Requests, Good(x), UNCHANGED vars PROVE Good(x)'
<1> USE DEF vars, files, process, locals, history, trouble
<1>1. Life' = Life /\ (Kept(x)' <=> Kept(x)) /\ PastLosses(x)' = PastLosses(x)
  BY DEF Life, Kept, PastLosses
<1>2. \A t \in Threads : /\ Expected(t)' = Expected(t) /\ (Starter(t)' <=> Starter(t))
                         /\ (Deciding(t)' <=> Deciding(t)) /\ (Carries(t)' <=> Carries(t))
  BY DEF Expected, Starter, Deciding, Carries
<1>3. (InChannel(x)' <=> InChannel(x)) /\ (Potential(x)' <=> Potential(x))
  BY <1>2 DEF InChannel, Potential
<1>4. StatusOK(x)'
  BY <1>1, <1>2, <1>3 DEF Good, StatusOK, ExpectedBy
<1>5. RunsOK(x)'
  BY <1>1, <1>3 DEF Good, RunsOK
<1>6. ResultsOK(x)'
  BY <1>2 DEF Good, ResultsOK
<1>7. ScheduledOK(x)'
  BY <1>1, <1>2, <1>3 DEF Good, ScheduledOK, Unfinished, Scheduled, SetBack, LeftOut
<1>8. RefusedOK(x)'
  BY <1>1, <1>3 DEF Good, RefusedOK, SpoiledBefore
<1> QED
  BY <1>4, <1>5, <1>6, <1>7, <1>8 DEF Good

LEMMA ThreadGood ==
  ASSUME Inv, HistoryTypes, Quiet, NEW x \in Requests, Good(x), Grows(x), Next, ~Crash
  PROVE  Good(x)'
<1>1. ASSUME NEW r \in Requests, LoadForCreate(r) \/ Creating(r) PROVE Good(x)'
  <2>1. r \in Threads /\ r \in Requests \union {Main}
    BY DEF Threads
  <2> QED
    BY <1>1, <2>1, LoadForCreateGood, InsertRowGood, MarkQueuedGood, SubmitGood, UpdateStatusGood,
       AnswerGood DEF Creating
<1>2. ASSUME NEW c \in Cancels, (\E y \in Requests : ReadForCancel(c, y)) \/ Canceling(c)
      PROVE  Good(x)'
  <2>1. c \in Threads
    BY DEF Threads
  <2> QED
    BY <1>2, <2>1, ReadForCancelGood, UpdateStatusGood DEF Canceling
<1>3. ASSUME NEW w \in Workers, Working(w) PROVE Good(x)'
  <2>1. w \in Threads
    BY DEF Threads
  <2> QED
    BY <1>3, <2>1, TakeGood, ReadExecutionGood, WorkerTransitGood, RunPluginsGood, ResultsGood,
       UpdateStatusGood, HandlerReturnsGood DEF Working
<1>4. CASE Recovering
  <2>1. Main \in Threads /\ Main \in Requests \union {Main}
    BY DEF Threads
  <2> QED
    BY <1>4, <2>1, BootGood, ListIncompleteGood, RecoverNextGood, MarkQueuedGood, SubmitGood,
       UpdateStatusGood DEF Recovering
<1> QED
  BY <1>1, <1>2, <1>3, <1>4 DEF Next

LEMMA OutcomeInvariance == Spec => []OutcomeInv
<1>1. Init => OutcomeInv
  <2> SUFFICES ASSUME Init PROVE OutcomeInv
    OBVIOUS
  <2>1. HistoryTypes /\ Quiet
    BY LocalAssumption DEF Init, HistoryTypes, Life, Quiet, Threads, Updating
  <2> QED
    BY <2>1, InitInv, InitGood DEF OutcomeInv
<1>2. OutcomeInv /\ [Next]_vars => OutcomeInv'
  <2> SUFFICES ASSUME OutcomeInv, [Next]_vars PROVE OutcomeInv'
    OBVIOUS
  <2>1. Inv /\ HistoryTypes /\ Quiet /\ \A x \in Requests : Good(x)
    BY DEF OutcomeInv
  <2>2. Inv' /\ HistoryTypes'
    BY <2>1, NextInv, HistoryInv
  <2>3. Quiet'
    <3>1. UNCHANGED vars => Quiet'
      BY <2>1 DEF Quiet, Life, vars, files, locals, trouble
    <3> QED
      BY <2>1, <3>1, QuietInv
  <2>4. ASSUME NEW x \in Requests PROVE Good(x)'
    <3>1. CASE UNCHANGED vars
      BY <2>1, <3>1, NothingGood
    <3>2. CASE Crash
      BY <2>1, <3>2, CrashGood
    <3>3. CASE Next /\ ~Crash
      <4>1. crashes' = crashes
        BY <3>3
           DEF Next, Creating, Canceling, Working, Recovering, LoadForCreate, InsertRow, MarkQueued,
               MarkRunning, FinishExecution, FailExecution, Transit, Submit, Answer, UpdateStatus,
               FindRow, LoadRows, SaveRows, ReadForCancel, Take, ReadExecution, RunPlugins,
               LoadResults, SaveResults, HandlerReturns, Boot, ListIncomplete, RecoverNext
      <4> QED
        BY <2>1, <3>3, <4>1, NextGrows, ThreadGood
    <3> QED
      BY <3>1, <3>2, <3>3
  <2> QED
    BY <2>2, <2>3, <2>4 DEF OutcomeInv
<1> QED
  BY <1>1, <1>2, PTL DEF Spec
-----------------------------------------------------------------------------
\* For any number of executions, failing file accesses and stops: plugins of an execution
\* are started once, and once more for each life of the process in which an update of
\* another execution changed its row, never twice in one life (executeRunning,
\* ExecutionRepository.Update, RecoverIncompleteExecutions).
THEOREM RunOnce == Spec => []PluginsRunAtMostOnce
<1>1. OutcomeInv => PluginsRunAtMostOnce
  BY DEF OutcomeInv, Good, RunsOK, PastLosses, PluginsRunAtMostOnce
<1> QED
  BY <1>1, OutcomeInvariance, PTL

\* A row that says that a run ended well has its results, or another worker's save has
\* dropped them: BatchSaveResults comes before the last UpdateStatus, and a worker whose
\* results were not stored fails the execution.
THEOREM ResultsBeforeOutcome == Spec => []DecidedRunHasResults
<1>1. OutcomeInv => DecidedRunHasResults
  BY DEF OutcomeInv, Good, ResultsOK, RanWell, DecidedRunHasResults
<1> QED
  BY <1>1, OutcomeInvariance, PTL

\* The outcome in the file is replaced by no late writer of the same execution but a
\* cancel: who writes without comparing (UpdateStatus) holds a row that is not decided,
\* unless updates of other executions have changed it in this life of the process.
THEOREM OutcomeStays == Spec => OutcomeIsNotReopened
<1> DEFINE Ended(x) == executions[x] \in {"Success", "PartialSuccess", "Timeout", "Failed"}
           Stays(x) == executions'[x] \in {executions[x], "Canceled"} \/ Life \in overwritten'[x]
<1> USE LocalAssumption
<1>1. ASSUME OutcomeInv, NEW r \in Requests, InsertRow(r), NEW x \in Requests, Ended(x), Grows(x)
      PROVE  Stays(x)
  <2>1. Inv /\ HistoryTypes /\ Life' = Life /\ copy[r] \in Rows /\ pc[r] = "insert"
    BY <1>1, Losses DEF OutcomeInv, InsertRow, Inv, ProgramTypes, Threads
  <2>2. executions[r] = "Absent"
    BY <2>1 DEF Inv, InFiles, Begun
  <2>3. CASE UNCHANGED executions
    BY <2>3
  <2>4. CASE SaveFor(r, [copy[r] EXCEPT ![r] = "Pending"])
    BY <1>1, <2>1, <2>2, <2>4, SaveElsewhere DEF Kept
  <2> QED
    BY <1>1, <2>3, <2>4 DEF InsertRow
<1>2. ASSUME OutcomeInv, NEW th \in Threads, SaveRows(th), NEW x \in Requests, Ended(x), Grows(x)
      PROVE  Stays(x)
  <2>1. /\ pc[th] = "save" /\ pc[th] \in Updating /\ Inv /\ HistoryTypes /\ Good(x)
        /\ on[th] \in Requests /\ copy[th] \in Rows /\ Life' = Life
    BY <1>2, ReturnLabels, Losses DEF SaveRows, OutcomeInv, Updating, Inv, ProgramTypes
  <2>2. CASE UNCHANGED executions
    BY <2>2
  <2>3. CASE /\ SaveFor(on[th], [copy[th] EXCEPT ![on[th]] = write[th].to])
             /\ Return(th, write[th].next)
    <3>1. CASE on[th] # x
      BY <1>2, <2>1, <2>3, <3>1, SaveElsewhere DEF Kept
    <3>2. CASE on[th] = x /\ th \in Cancels
      <4>1. executions'[x] = write[th].to
        BY <2>1, <2>3, <3>2 DEF SaveFor, Rows
      <4> QED
        BY <2>1, <3>2, <4>1, OtherCalls
    <3>3. CASE on[th] = x /\ th \notin Cancels
      <4>1. pc'[th] = write[th].next
        BY <2>1, <2>3 DEF Return, Goto, Inv, ProgramTypes
      <4>2. Expected(th) \subseteq {"Pending", "Queued", "Running"}
        BY <2>1, <3>3, <4>1, SavedStatus
      <4>3. ~Kept(x)
        BY <1>2, <2>1, <3>3, <4>2 DEF Good, StatusOK, ExpectedBy
      <4> QED
        BY <1>2, <4>3 DEF Grows, Kept
    <3> QED
      BY <3>1, <3>2, <3>3
  <2> QED
    BY <1>2, <2>2, <2>3 DEF SaveRows
<1>3. ASSUME OutcomeInv, [Next]_vars, executions' # executions
      PROVE  (\E r \in Requests : InsertRow(r)) \/ (\E th \in Threads : SaveRows(th))
  <2>1. ASSUME NEW th \in Threads, UpdateStatus(th) PROVE SaveRows(th)
    BY <1>3, <2>1 DEF UpdateStatus, FindRow, LoadRows, files
  <2>2. ASSUME NEW r \in Requests, LoadForCreate(r) \/ Creating(r)
        PROVE  InsertRow(r) \/ SaveRows(r)
    <3>1. r \in Threads
      BY DEF Threads
    <3> QED
      BY <1>3, <2>1, <2>2, <3>1
         DEF LoadForCreate, Creating, MarkQueued, Transit, Submit, Answer, files
  <2>3. ASSUME NEW c \in Cancels, (\E x \in Requests : ReadForCancel(c, x)) \/ Canceling(c)
        PROVE  c \in Threads /\ SaveRows(c)
    <3>1. c \in Threads
      BY DEF Threads
    <3> QED
      BY <1>3, <2>1, <2>3, <3>1 DEF ReadForCancel, Canceling, files
  <2>4. ASSUME NEW w \in Workers, Working(w) PROVE w \in Threads /\ SaveRows(w)
    <3>1. w \in Threads
      BY DEF Threads
    <3> QED
      BY <1>3, <2>1, <2>4, <3>1
         DEF Working, Take, ReadExecution, MarkRunning, RunPlugins, LoadResults, SaveResults,
             FinishExecution, FailExecution, HandlerReturns, Transit, files
  <2>5. CASE Recovering
    <3>1. Main \in Threads
      BY DEF Threads
    <3> QED
      BY <1>3, <2>1, <2>5, <3>1
         DEF Recovering, Boot, ListIncomplete, RecoverNext, MarkQueued, Transit, Submit, files
  <2>6. ~Crash /\ ~UNCHANGED vars
    BY <1>3 DEF Crash, vars, files
  <2> QED
    BY <1>3, <2>2, <2>3, <2>4, <2>5, <2>6 DEF Next, Threads
<1>4. ASSUME OutcomeInv, [Next]_vars, NEW x \in Requests, Ended(x)
      PROVE  Stays(x)
  <2>1. SUFFICES ASSUME executions' # executions PROVE Stays(x)
    BY <1>4
  <2>2. crashes' = crashes /\ Next
    BY <1>3, <1>4, <2>1 DEF InsertRow, SaveRows, vars, files
  <2>3. Grows(x)
    BY <1>4, <2>2, NextGrows DEF OutcomeInv
  <2> QED
    BY <1>1, <1>2, <1>3, <1>4, <2>1, <2>3
<1>5. OutcomeInv /\ [Next]_vars =>
        [\A x \in Requests :
            executions[x] \in {"Success", "PartialSuccess", "Timeout", "Failed"}
               => executions'[x] \in {executions[x], "Canceled"} \/ Life \in overwritten'[x]]_vars
  BY <1>4
<1> QED
  BY <1>5, OutcomeInvariance, PTL DEF Spec, OutcomeIsNotReopened

\* While the server serves, an execution that the file shows as unfinished is in the
\* channel, with a worker or with the request that creates it, or this life of the process
\* has set it back; what earlier lives lost, recovery has listed (RecoverIncompleteExecutions).
THEOREM UnfinishedHasOwner == Spec => []UnfinishedIsScheduled
<1>1. ASSUME OutcomeInv PROVE UnfinishedIsScheduled
  <2> SUFFICES ASSUME NEW x \in Requests, Serving, Unfinished(x), ~Attended(x), ~SetBack(x)
               PROVE  Occurrences(x) > 0
    BY DEF UnfinishedIsScheduled
  <2>1. Scheduled(x) /\ pc[Main] = "serving"
    BY <1>1 DEF OutcomeInv, Good, ScheduledOK, Serving
  <2>2. ~\E th \in Threads : on[th] = x /\ Carries(th)
    <3>1. \A r \in Requests : r \in Threads /\ on[r] = r
      BY <1>1 DEF OutcomeInv, Inv, ThreadOK, RequestOK, Threads
    <3> QED
      BY <2>1, <3>1 DEF Attended, Carries, CreateBusy, RecoveryBusy, Updating, Threads
  <2>3. PICK i \in DOMAIN channel : channel[i] = x
    BY <2>1, <2>2 DEF Scheduled, InChannel, Recoverable, RecoveryBusy, Updating
  <2> DEFINE P == {j \in DOMAIN channel : channel[j] = x}
  <2>4. P # {} /\ \A a, b \in P : a = b
    BY <1>1, <2>3 DEF OutcomeInv, Inv, OneHolder
  <2>5. Cardinality(P) = 1
    BY <2>4, AtMostOne
  <2> QED
    BY <2>5 DEF Occurrences
<1> QED
  BY <1>1, OutcomeInvariance, PTL

\* What a caller was told is refused has not been run, and nobody will take it up: its row
\* is Failed before the answer is given (CreateExecution), and recovery does not list it.
\* Only an earlier life that could not write that row, or lost it, leaves it to be run.
THEOREM RefusedNeverRuns == Spec => []RefusedIsNotRun
<1>1. ASSUME OutcomeInv PROVE RefusedIsNotRun
  <2> SUFFICES ASSUME NEW x \in Requests, reply[x] = "refused", ~SpoiledBefore(x) PROVE ~(runs[x] > 0)
    BY DEF RefusedIsNotRun, SpoiledBefore
  <2> QED
    BY <1>1 DEF OutcomeInv, Good, RefusedOK
<1> QED
  BY <1>1, OutcomeInvariance, PTL
=============================================================================
