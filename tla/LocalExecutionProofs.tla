------------------------- MODULE LocalExecutionProofs -------------------------
(***************************************************************************)
(* Proofs about LocalExecution for any number of requests, workers and     *)
(* cancels, any keys, any size of the channel, and any number of failing   *)
(* file accesses and stops of the process.                                 *)
(***************************************************************************)
EXTENDS LocalExecution, TLAPS, FiniteSetTheorems

Labels ==
    {"new", "done", "idle", "down", "serving", "list", "recover", "insert", "mark", "submit",
     "answer", "error", "refused", "read", "start", "run", "loadResults", "saveResults",
     "finish", "fail", "return", "exists", "load", "save"}
Updating == {"exists", "load", "save"}
Calls == [to : ExecutionStatus \union {"none"}, next : Labels \union {"none"},
          fail : Labels \union {"none"}]
RunOutcomes == {"Success", "PartialSuccess", "Timeout", "Failed"}

\* The locals that ProgramTypes leaves out
LocalsOK ==
    /\ on \in [Threads -> Requests \union {NoOne}]
    /\ write \in [Threads -> Calls]
    /\ copy \in [Threads -> Rows \union {NoOne}]
    /\ DOMAIN resultsCopy = Workers
    /\ faults \in Nat /\ crashes \in Nat

\* What a thread does at each label: the calls of UpdateStatus, and where they return
Calling(th, to, next, fail) == write[th] = [to |-> to, next |-> next, fail |-> fail]

RequestOK(r) ==
    /\ pc[r] \in {"new", "insert", "mark", "submit", "answer", "error", "refused", "done"} \union Updating
    /\ on[r] = r
    /\ pc[r] \in Updating => \/ Calling(r, "Queued", "submit", "error")
                             \/ Calling(r, "Failed", "refused", "refused")

CancelOK(c) ==
    /\ pc[c] \in {"new", "done"} \union Updating
    /\ pc[c] \in Updating => on[c] \in Requests /\ Calling(c, "Canceled", "done", "done")

WorkerOK(w) ==
    /\ pc[w] \in {"idle", "read", "start", "run", "loadResults", "saveResults", "finish", "fail",
                  "return"} \union Updating
    /\ pc[w] = "idle" <=> on[w] = NoOne
    /\ pc[w] \in Updating => \/ Calling(w, "Running", "run", "fail")
                             \/ Calling(w, "Failed", "return", "return")
                             \/ \E s \in RunOutcomes : Calling(w, s, "return", "fail")
    /\ pc[w] = "saveResults" => resultsCopy[w] \subseteq Requests
    /\ outcome[w] \in RunOutcomes \union {"none"}

RecoveryBusy == {"mark", "submit"} \union Updating

MainOK ==
    /\ pc[Main] \in {"down", "list", "recover", "serving"} \union RecoveryBusy
    /\ pc[Main] \in RecoveryBusy => on[Main] \in Requests
    /\ pc[Main] \in Updating => \/ Calling(Main, "Queued", "submit", "serving")
                                \/ Calling(Main, "Failed", "recover", "recover")
    /\ up <=> pc[Main] # "down"

ThreadOK(th) ==
    /\ th \in Requests => RequestOK(th)
    /\ th \in Cancels => CancelOK(th)
    /\ th \in Workers => WorkerOK(th)
    /\ th = Main => MainOK
    /\ pc[th] \in {"insert", "save"} => copy[th] \in Rows

\* An execution is named by nobody before its create has inserted it.
Begun(x) == pc[x] \notin {"new", "insert"}

InFiles(x) ==
    \/ executions[x] # "Absent"
    \/ \E th \in Threads : pc[th] \in {"insert", "save"} /\ copy[th][x] # "Absent"

InHand(x) ==
    \/ \E i \in DOMAIN channel : channel[i] = x
    \/ \E w \in Workers : on[w] = x

Named(x) ==
    \/ InHand(x)
    \/ \E th \in Threads : th # x /\ on[th] = x
    \/ \E item \in todo : item.id = x

\* Who may hand an execution to the workers: its create until it has, or recovery
CreateBusy == {"new", "mark", "submit", "insert"} \union Updating
Recoverable == {"recover"} \union RecoveryBusy

\* Each execution is with one of them, or in the channel once, or with one worker.
OneHolder ==
    /\ \A i, j \in DOMAIN channel : channel[i] = channel[j] => i = j
    /\ \A v, w \in Workers : on[v] = on[w] /\ on[v] # NoOne => v = w
    /\ \A i \in DOMAIN channel, w \in Workers : channel[i] # on[w]
    /\ \A x \in Requests : pc[x] \in CreateBusy => ~InHand(x)
    /\ \A x \in Requests : pc[x] \notin {"new", "done"} => pc[Main] = "serving"
    /\ pc[Main] \in RecoveryBusy => ~InHand(on[Main])
    /\ pc[Main] \in Recoverable => \A item \in todo : ~InHand(item.id)
    /\ pc[Main] \in RecoveryBusy => \A item \in todo : item.id # on[Main]
    /\ pc[Main] \in {"down", "list"} => \A x \in Requests : ~InHand(x)
    /\ \A i, j \in todo : i.id = j.id => i = j

\* The inductive invariant
Inv ==
    /\ ProgramTypes /\ LocalsOK
    /\ \A th \in Threads : ThreadOK(th)
    /\ \A x \in Requests : InFiles(x) \/ Named(x) => Begun(x)
    /\ OneHolder
-----------------------------------------------------------------------------
LEMMA InitInv == Init => Inv
<1> SUFFICES ASSUME Init PROVE Inv
  OBVIOUS
<1> USE LocalAssumption DEF Init, Threads
<1>1. pc[Main] = "down" /\ \A th \in Threads : pc[th] \in {"down", "idle", "new"}
  OBVIOUS
<1>2. ProgramTypes
  <2>1. pc \in [Threads -> {"down", "idle", "new"}]
    BY <1>1
  <2>2. \A th \in Threads : on[th] \in Requests \union {NoOne} /\ write[th].to = "none"
    BY DEF NoWrite
  <2>3. channel = <<>> /\ channel \in Seq(Requests) /\ Len(channel) = 0
    OBVIOUS
  <2>4. executions \in Rows
    BY DEF Rows
  <2>5. /\ outcome \in [Workers -> ExecutionStatus \union {"none"}]
        /\ reply \in [Requests -> Requests \union {"none", "conflict", "error", "refused", "lost"}]
        /\ runs \in [Requests -> Nat]
    OBVIOUS
  <2>6. \A th \in Threads : pc[th] \notin {"save", "insert"}
    BY <1>1
  <2>7. up = FALSE /\ up \in BOOLEAN
    OBVIOUS
  <2>8. /\ results \subseteq Requests /\ mutex \in Requests \union {NoOne}
        /\ todo \subseteq [id : Requests, status : {"Pending", "Queued", "Running"}]
        /\ Len(channel) <= QueueSize
    BY <2>3
  <2> QED
    BY <2>1, <2>2, <2>3, <2>4, <2>5, <2>6, <2>7, <2>8 DEF ProgramTypes
<1>3. LocalsOK
  BY DEF LocalsOK, Rows, NoWrite, Calls
<1>4. \A th \in Threads : ThreadOK(th)
  BY DEF ThreadOK, RequestOK, CancelOK, WorkerOK, MainOK, Updating, RecoveryBusy
<1>5. \A x \in Requests : ~InFiles(x) /\ ~Named(x)
  <2>1. \A x \in Requests : ~InFiles(x)
    BY <1>1 DEF InFiles
  <2>2. /\ \A th \in Threads, x \in Requests : on[th] = x => th = x
        /\ \A w \in Workers : on[w] = NoOne
    OBVIOUS
  <2>3. DOMAIN channel = {}
    OBVIOUS
  <2>4. \A x \in Requests : ~Named(x)
    BY <2>2, <2>3 DEF Named, InHand
  <2> QED
    BY <2>1, <2>4
<1>6. OneHolder
  BY <1>1, <1>5 DEF OneHolder, Named, InHand, RecoveryBusy, Recoverable, Updating
<1> QED
  BY <1>2, <1>3, <1>4, <1>5, <1>6 DEF Inv

\* A thread changes its own label, call and copies, and may change the files, but
\* neither the channel nor the list of recovery.
OwnStep(th) ==
    /\ UNCHANGED <<channel, todo, on>>
    /\ \A t \in Threads \ {th} : pc'[t] = pc[t] /\ write'[t] = write[t] /\ copy'[t] = copy[t]
    /\ \A w \in Workers \ {th} : resultsCopy'[w] = resultsCopy[w] /\ outcome'[w] = outcome[w]

\* Such a step keeps the invariant when what it writes has begun, and when it does
\* not make its thread one that has still to hand an execution over.
LEMMA ThreadStep ==
  ASSUME Inv, NEW th \in Threads, OwnStep(th), ProgramTypes', LocalsOK', ThreadOK(th)', up' = up,
         \A x \in Requests :
            (executions'[x] # "Absent" => executions[x] # "Absent" \/ Begun(x)'),
         pc'[th] \in {"insert", "save"} =>
            \A x \in Requests : copy'[th][x] # "Absent" => InFiles(x),
         th \in Requests =>
            /\ pc'[th] \in CreateBusy => pc[th] \in CreateBusy
            /\ pc'[th] \notin {"new", "done"} => pc[Main] = "serving"
            /\ Begun(th) => Begun(th)',
         th = Main =>
            /\ pc[Main] \in RecoveryBusy
            /\ pc'[Main] \in RecoveryBusy \union {"recover", "serving"}
  PROVE  Inv'
<1> USE LocalAssumption DEF Inv, OwnStep
<1>1. \A t \in Threads : ThreadOK(t)'
  <2> SUFFICES ASSUME NEW t \in Threads, t # th PROVE ThreadOK(t)'
    OBVIOUS
  <2>1. ThreadOK(t) /\ pc'[t] = pc[t] /\ write'[t] = write[t] /\ copy'[t] = copy[t]
    OBVIOUS
  <2>2. t \in Workers => resultsCopy'[t] = resultsCopy[t] /\ outcome'[t] = outcome[t]
    OBVIOUS
  <2> QED
    BY <2>1, <2>2 DEF ThreadOK, RequestOK, CancelOK, WorkerOK, MainOK, Calling
<1>2. \A x \in Requests : Begun(x) => Begun(x)'
  BY DEF Begun, Threads
<1>3. \A x \in Requests : Named(x)' => Named(x)
  BY DEF Named, InHand
<1>4. \A x \in Requests : InFiles(x)' => InFiles(x) \/ Begun(x)'
  BY DEF InFiles
<1>5. OneHolder'
  <2>1. \A x \in Requests : InHand(x)' <=> InHand(x)
    BY DEF InHand
  <2>2. Main \in Threads /\ \A x \in Requests : x \in Threads /\ x # Main
    BY DEF Threads
  <2>3. pc'[Main] # pc[Main] => th = Main
    BY <2>2
  <2>4. \A x \in Requests : pc'[x] # pc[x] => x = th
    BY <2>2
  <2>5. pc'[Main] \in RecoveryBusy => on[Main] \in Requests
    BY <1>1, <2>2 DEF ThreadOK, MainOK
  <2>6. \A item \in todo : item.id \in Requests
    BY DEF ProgramTypes
  <2>7. \A x \in Requests : pc'[x] \in CreateBusy => ~InHand(x)
    BY <2>4 DEF OneHolder
  <2>8. \A x \in Requests : pc'[x] \notin {"new", "done"} => pc'[Main] = "serving"
    <3>1. CASE th = Main
      <4>1. \A x \in Requests : pc[x] \in {"new", "done"}
        BY <3>1 DEF OneHolder, RecoveryBusy, Updating
      <4> QED
        BY <2>2, <2>4, <3>1, <4>1
    <3>2. CASE th # Main
      BY <2>2, <2>3, <2>4, <3>2 DEF OneHolder
    <3> QED
      BY <3>1, <3>2
  <2>9. /\ pc'[Main] \in RecoveryBusy => pc[Main] \in RecoveryBusy
        /\ pc'[Main] \in Recoverable => pc[Main] \in Recoverable
        /\ pc'[Main] \in {"down", "list"} => pc[Main] \in {"down", "list"}
    BY <2>3 DEF RecoveryBusy, Recoverable, Updating
  <2> QED
    BY <2>1, <2>5, <2>6, <2>7, <2>8, <2>9 DEF OneHolder
<1> QED
  BY <1>1, <1>2, <1>3, <1>4, <1>5
-----------------------------------------------------------------------------
\* Where a call of UpdateStatus may return to
LEMMA ReturnLabels ==
  ASSUME Inv, NEW th \in Threads, pc[th] \in Updating,
         NEW label, label = write[th].next \/ label = write[th].fail
  PROVE  /\ th \in Requests => label \in {"submit", "error", "refused"}
         /\ th \in Cancels => label = "done"
         /\ th \in Workers => label \in {"run", "fail", "return"}
         /\ th = Main => label \in {"submit", "serving", "recover"}
         /\ label \in Labels \ {"insert", "save", "exists", "load", "new", "idle"}
         /\ on[th] \in Requests /\ write[th].to \in ExecutionStatus
<1>1. ThreadOK(th) /\ on[th] \in Requests \union {NoOne}
  BY DEF Inv, LocalsOK
<1>2. th \in Requests \/ th \in Cancels \/ th \in Workers \/ th = Main
  BY DEF Threads
<1>3. CASE th \in Requests
  BY <1>1, <1>3, LocalAssumption
     DEF ThreadOK, RequestOK, Calling, Labels, ExecutionStatus, Updating
<1>4. CASE th \in Cancels
  BY <1>1, <1>4, LocalAssumption DEF ThreadOK, CancelOK, Calling, Labels, ExecutionStatus
<1>5. CASE th \in Workers
  BY <1>1, <1>5, LocalAssumption
     DEF ThreadOK, WorkerOK, Calling, Labels, ExecutionStatus, RunOutcomes, Updating
<1>6. CASE th = Main
  BY <1>1, <1>6, LocalAssumption
     DEF ThreadOK, MainOK, Calling, Labels, ExecutionStatus, RecoveryBusy, Updating
<1> QED
  BY <1>2, <1>3, <1>4, <1>5, <1>6

\* An UpdateStatus call returns, whether it wrote, found nothing to write or failed.
LEMMA ReturnInv ==
  ASSUME Inv, NEW th \in Threads, pc[th] \in Updating,
         NEW label, label = write[th].next \/ label = write[th].fail, Return(th, label),
         executions' \in Rows, faults' \in Nat,
         \A x \in Requests : executions'[x] # "Absent" => InFiles(x) \/ x = on[th],
         UNCHANGED <<results, process, on, resultsCopy, outcome, history, crashes>>
  PROVE  Inv'
<1> USE LocalAssumption DEF Inv, Return, Goto, process, history
<1>1. /\ th \in Requests => label \in {"submit", "error", "refused"}
      /\ th \in Cancels => label = "done"
      /\ th \in Workers => label \in {"run", "fail", "return"}
      /\ th = Main => label \in {"submit", "serving", "recover"}
      /\ label \in Labels \ {"insert", "save", "exists", "load", "new", "idle"}
      /\ on[th] \in Requests
  BY ReturnLabels
<1>2. /\ pc' = [pc EXCEPT ![th] = label] /\ pc' \in [Threads -> Labels] /\ pc'[th] = label
      /\ write' \in [Threads -> Calls] /\ copy' \in [Threads -> Rows \union {NoOne}]
  BY <1>1 DEF LocalsOK, ProgramTypes, NoWrite, Calls, Labels
<1>3. OwnStep(th)
  BY DEF OwnStep, ProgramTypes, LocalsOK
<1>4. LocalsOK'
  BY <1>2 DEF LocalsOK
<1>5. ProgramTypes'
  <2>1. \A t \in Threads : pc'[t] \in {"insert", "save"} => copy'[t] \in Rows
    BY <1>1, <1>2, <1>3 DEF ProgramTypes, OwnStep
  <2>2. \A t \in Threads : write'[t].to \in ExecutionStatus \union {"none"}
    BY <1>2 DEF Calls
  <2> QED
    BY <1>2, <2>1, <2>2 DEF ProgramTypes, Labels
<1>6. ThreadOK(th)'
  <2>1. ThreadOK(th)
    OBVIOUS
  <2> QED
    BY <1>1, <1>2, <2>1 DEF ThreadOK, RequestOK, CancelOK, WorkerOK, MainOK, Updating, RecoveryBusy
<1>7. \A x \in Requests : executions'[x] # "Absent" => executions[x] # "Absent" \/ Begun(x)'
  <2> SUFFICES ASSUME NEW x \in Requests, executions'[x] # "Absent" PROVE Begun(x)'
    OBVIOUS
  <2>1. CASE x = th
    BY <1>1, <1>2, <2>1 DEF Begun
  <2>2. CASE x # th
    <3>1. InFiles(x) \/ Named(x)
      BY <2>2 DEF Named
    <3>2. pc'[x] = pc[x]
      BY <2>2 DEF ProgramTypes, Threads
    <3> QED
      BY <3>1, <3>2 DEF Begun
  <2> QED
    BY <2>1, <2>2
<1>8. th \in Requests =>
        /\ pc'[th] \in CreateBusy => pc[th] \in CreateBusy
        /\ pc'[th] \notin {"new", "done"} => pc[Main] = "serving"
        /\ Begun(th) => Begun(th)'
  BY <1>1, <1>2 DEF CreateBusy, OneHolder, Begun, Updating
<1>9. th = Main => /\ pc[Main] \in RecoveryBusy
                   /\ pc'[Main] \in RecoveryBusy \union {"recover", "serving"}
  BY <1>1, <1>2 DEF RecoveryBusy
<1> QED
  BY <1>1, <1>2, <1>3, <1>4, <1>5, <1>6, <1>7, <1>8, <1>9, ThreadStep

\* A thread goes to another label, with what it has loaded the file as it is now.
LEMMA LabelInv ==
  ASSUME Inv, NEW th \in Threads, NEW label \in Labels, pc' = [pc EXCEPT ![th] = label],
         write' \in [Threads -> Calls], copy' \in [Threads -> Rows \union {NoOne}],
         DOMAIN resultsCopy' = Workers, OwnStep(th), ThreadOK(th)',
         UNCHANGED <<executions, up, crashes>>, label \in {"insert", "save"} => copy'[th] = executions,
         faults' \in Nat, results' \subseteq Requests, mutex' \in Requests \union {NoOne},
         outcome' \in [Workers -> ExecutionStatus \union {"none"}],
         reply' \in [Requests -> Requests \union {"none", "conflict", "error", "refused", "lost"}],
         runs' \in [Requests -> Nat],
         th \in Requests =>
            /\ label \in CreateBusy => pc[th] \in CreateBusy
            /\ label \notin {"new", "done"} => pc[Main] = "serving"
            /\ Begun(th) => label \notin {"new", "insert"},
         th = Main =>
            /\ pc[Main] \in RecoveryBusy
            /\ label \in RecoveryBusy \union {"recover", "serving"}
  PROVE  Inv'
<1> USE LocalAssumption DEF Inv, OwnStep
<1>1. pc' \in [Threads -> Labels] /\ pc'[th] = label
  BY DEF ProgramTypes, Labels
<1>2. LocalsOK'
  BY DEF LocalsOK
<1>3. ProgramTypes'
  <2>1. executions \in Rows
    BY DEF ProgramTypes
  <2>2. \A t \in Threads : pc'[t] \in {"insert", "save"} => copy'[t] \in Rows
    <3>1. label \in {"insert", "save"} => copy'[th] \in Rows
      BY <2>1
    <3>2. \A t \in Threads \ {th} : pc'[t] \in {"insert", "save"} => copy[t] \in Rows
      BY DEF ProgramTypes
    <3>3. \A t \in Threads \ {th} : copy'[t] = copy[t]
      OBVIOUS
    <3> QED
      BY <1>1, <3>1, <3>2, <3>3
  <2>3. \A t \in Threads : write'[t].to \in ExecutionStatus \union {"none"}
    BY DEF Calls
  <2> QED
    BY <1>1, <2>2, <2>3 DEF ProgramTypes, Labels
<1>4. label \in {"insert", "save"} => \A x \in Requests : copy'[th][x] # "Absent" => InFiles(x)
  BY DEF InFiles
<1>5. th \in Requests => /\ pc'[th] \in CreateBusy => pc[th] \in CreateBusy
                         /\ pc'[th] \notin {"new", "done"} => pc[Main] = "serving"
                         /\ Begun(th) => Begun(th)'
  BY <1>1 DEF Begun
<1>6. th = Main => /\ pc[Main] \in RecoveryBusy
                   /\ pc'[Main] \in RecoveryBusy \union {"recover", "serving"}
  BY <1>1
<1> QED
  BY <1>1, <1>2, <1>3, <1>4, <1>5, <1>6, ThreadStep

LEMMA FindRowInv == ASSUME Inv, NEW th \in Threads, FindRow(th) PROVE Inv'
<1> USE DEF Inv
<1>1. pc[th] \in Updating /\ faults' \in Nat /\ executions \in Rows /\ executions' = executions
  BY DEF FindRow, Updating, Fault, trouble, LocalsOK, ProgramTypes, files
<1>2. CASE Return(th, write[th].next) \/ Return(th, write[th].fail)
  BY <1>1, <1>2, ReturnInv DEF FindRow, InFiles, files
<1>3. CASE Goto(th, "load") /\ UNCHANGED <<write, copy, trouble>>
  <2>1. /\ pc' = [pc EXCEPT ![th] = "load"] /\ "load" \in Labels
        /\ UNCHANGED <<executions, results, channel, up, mutex, todo, on, write, copy,
                       resultsCopy, outcome, reply, runs, trouble, crashes>>
    BY <1>3 DEF FindRow, Goto, files, process, history, Labels
  <2>2. OwnStep(th) /\ pc'[th] = "load"
    BY <2>1 DEF OwnStep, ProgramTypes
  <2>3. ThreadOK(th)'
    BY <1>1, <2>1, <2>2 DEF ThreadOK, RequestOK, CancelOK, WorkerOK, MainOK, Updating,
       RecoveryBusy, Calling
  <2>4. th \in Requests => "load" \notin {"new", "done"} /\ pc[th] \in CreateBusy /\ pc[Main] = "serving"
    BY <1>1 DEF CreateBusy, Updating, OneHolder
  <2>5. th = Main => pc[Main] \in RecoveryBusy /\ "load" \in RecoveryBusy
    BY <1>1 DEF RecoveryBusy, Updating
  <2> QED
    BY <2>1, <2>2, <2>3, <2>4, <2>5, LabelInv DEF trouble, ProgramTypes, LocalsOK
<1> QED
  BY <1>2, <1>3 DEF FindRow

LEMMA LoadRowsInv == ASSUME Inv, NEW th \in Threads, LoadRows(th) PROVE Inv'
<1> USE DEF Inv
<1>1. pc[th] \in Updating /\ faults' \in Nat /\ executions \in Rows /\ executions' = executions
  BY DEF LoadRows, Updating, Fault, trouble, LocalsOK, ProgramTypes, files
<1>2. CASE Return(th, write[th].fail)
  BY <1>1, <1>2, ReturnInv DEF LoadRows, InFiles, files
<1>3. CASE copy' = [copy EXCEPT ![th] = executions] /\ Goto(th, "save") /\ UNCHANGED <<write, trouble>>
  <2>1. /\ pc' = [pc EXCEPT ![th] = "save"] /\ "save" \in Labels
        /\ UNCHANGED <<executions, results, channel, up, mutex, todo, on, write,
                       resultsCopy, outcome, reply, runs, trouble, crashes>>
    BY <1>3 DEF LoadRows, Goto, files, process, history, Labels
  <2>2. OwnStep(th) /\ pc'[th] = "save" /\ copy'[th] = executions
        /\ copy' \in [Threads -> Rows \union {NoOne}]
    BY <1>1, <1>3, <2>1 DEF OwnStep, ProgramTypes, LocalsOK
  <2>3. ThreadOK(th)'
    BY <1>1, <2>1, <2>2 DEF ThreadOK, RequestOK, CancelOK, WorkerOK, MainOK, Updating,
       RecoveryBusy, Calling
  <2>4. th \in Requests => "save" \notin {"new", "done"} /\ pc[th] \in CreateBusy /\ pc[Main] = "serving"
    BY <1>1 DEF CreateBusy, Updating, OneHolder
  <2>5. th = Main => pc[Main] \in RecoveryBusy /\ "save" \in RecoveryBusy
    BY <1>1 DEF RecoveryBusy, Updating
  <2> QED
    BY <2>1, <2>2, <2>3, <2>4, <2>5, LabelInv DEF trouble, ProgramTypes, LocalsOK
<1> QED
  BY <1>2, <1>3 DEF LoadRows

LEMMA SaveRowsInv == ASSUME Inv, NEW th \in Threads, SaveRows(th) PROVE Inv'
<1> USE DEF Inv
<1>1. pc[th] \in Updating /\ pc[th] = "save" /\ faults' \in Nat
  BY DEF SaveRows, Updating, Fault, trouble, LocalsOK
<1>2. on[th] \in Requests /\ write[th].to \in ExecutionStatus /\ copy[th] \in Rows
  BY <1>1, ReturnLabels DEF ProgramTypes
<1>3. CASE SaveFor(on[th], [copy[th] EXCEPT ![on[th]] = write[th].to]) /\ Return(th, write[th].next)
  <2> USE DEF SaveFor
  <2>1. executions' \in Rows
    BY <1>2, <1>3 DEF Rows
  <2>2. \A x \in Requests : executions'[x] # "Absent" => InFiles(x) \/ x = on[th]
    BY <1>1, <1>2, <1>3 DEF Rows, InFiles
  <2> QED
    BY <1>1, <1>3, <2>1, <2>2, ReturnInv DEF SaveRows
<1>4. CASE Return(th, write[th].fail) /\ UNCHANGED executions
  BY <1>1, <1>4, ReturnInv DEF SaveRows, InFiles, ProgramTypes
<1> QED
  BY <1>3, <1>4 DEF SaveRows

LEMMA UpdateStatusInv == ASSUME Inv, NEW th \in Threads, UpdateStatus(th) PROVE Inv'
  BY FindRowInv, LoadRowsInv, SaveRowsInv DEF UpdateStatus

\* A checked transition calls UpdateStatus, or is refused.
LEMMA TransitInv ==
  ASSUME Inv, NEW th \in Threads, NEW to, NEW next, NEW fail, Transit(th, to, next, fail),
         \/ /\ th \in Requests \/ th = Main
            /\ pc[th] = "mark" /\ to = "Queued" /\ next = "submit"
            /\ fail = IF th = Main THEN "serving" ELSE "error"
         \/ /\ th \in Workers /\ pc[th] \in {"start", "finish", "fail"}
            /\ \/ to = "Running" /\ next = "run" /\ fail = "fail"
               \/ to = "Failed" /\ next = "return" /\ fail = "return"
               \/ to \in RunOutcomes \union {"none"} /\ next = "return" /\ fail = "fail"
  PROVE  Inv'
<1> USE LocalAssumption DEF Inv
<1> DEFINE call == [to |-> to, next |-> next, fail |-> fail]
<1>1. ThreadOK(th) /\ faults' \in Nat
  BY DEF Transit, Fault, trouble, LocalsOK
<1>2. UNCHANGED <<executions, results, channel, up, mutex, todo, on, copy, resultsCopy, outcome,
                  reply, runs, crashes>>
  BY DEF Transit, files, process, history
<1>3. th \in Requests => pc[th] \in CreateBusy /\ pc[Main] = "serving" /\ Begun(th)
  BY DEF CreateBusy, OneHolder, Begun
<1>4. th = Main => pc[Main] \in RecoveryBusy
  BY DEF RecoveryBusy
<1>5. th \in Workers => on[th] # NoOne /\ on[th] \in Requests
  BY <1>1 DEF ThreadOK, WorkerOK, LocalsOK
<1>6. th = Main => on[Main] \in Requests
  BY <1>1, <1>4 DEF ThreadOK, MainOK
<1>7. CASE CanTransit(executions[on[th]], to) /\ Call(th, to, next, fail)
  <2>1. to \in ExecutionStatus
    BY <1>7 DEF CanTransit, Transitions, ExecutionStatus
  <2>2. call \in Calls /\ "exists" \in Labels
    BY <2>1 DEF Calls, Labels
  <2>3. pc' = [pc EXCEPT ![th] = "exists"] /\ write' = [write EXCEPT ![th] = call]
    BY <1>7 DEF Call, Goto
  <2> HIDE DEF call
  <2>4. /\ pc'[th] = "exists" /\ write'[th] = call /\ write' \in [Threads -> Calls]
        /\ OwnStep(th)
    BY <1>2, <2>2, <2>3 DEF OwnStep, ProgramTypes, LocalsOK
  <2>5. th \in Workers => \/ call = [to |-> "Running", next |-> "run", fail |-> "fail"]
                          \/ call = [to |-> "Failed", next |-> "return", fail |-> "return"]
                          \/ \E s \in RunOutcomes : call = [to |-> s, next |-> "return", fail |-> "fail"]
    BY <2>1 DEF call, ExecutionStatus
  <2>6. ThreadOK(th)'
    <3>1. th \in Requests => RequestOK(th)'
      BY <1>1, <1>2, <2>4 DEF ThreadOK, RequestOK, Calling, Updating, call
    <3>2. th \in Workers => WorkerOK(th)'
      BY <1>1, <1>2, <1>5, <2>4, <2>5 DEF ThreadOK, WorkerOK, Calling, Updating
    <3>3. th = Main => MainOK'
      BY <1>1, <1>2, <1>6, <2>4 DEF ThreadOK, MainOK, Calling, Updating, RecoveryBusy, call
    <3> QED
      BY <2>4, <3>1, <3>2, <3>3 DEF ThreadOK
  <2> QED
    BY <1>1, <1>2, <1>3, <1>4, <2>2, <2>3, <2>4, <2>6, LabelInv
       DEF CreateBusy, RecoveryBusy, Updating, ProgramTypes, LocalsOK, Begun
<1>8. CASE Goto(th, fail) /\ UNCHANGED write
  <2>1. fail \in {"serving", "error", "fail", "return"} /\ fail \in Labels
    BY DEF Labels
  <2>2. pc' = [pc EXCEPT ![th] = fail] /\ pc'[th] = fail /\ OwnStep(th)
    BY <1>2, <1>8 DEF Goto, OwnStep, ProgramTypes
  <2>3. /\ th \in Requests => fail = "error" /\ th # Main
        /\ th \in Workers => fail \in {"fail", "return"}
        /\ th = Main => fail = "serving"
    OBVIOUS
  <2>4. ThreadOK(th)'
    BY <1>1, <1>2, <1>5, <2>2, <2>3 DEF ThreadOK, RequestOK, WorkerOK, MainOK, Updating, RecoveryBusy
  <2> QED
    BY <1>1, <1>2, <1>3, <1>4, <1>8, <2>1, <2>2, <2>3, <2>4, LabelInv
       DEF CreateBusy, Updating, ProgramTypes, LocalsOK
<1> QED
  BY <1>7, <1>8 DEF Transit

LEMMA MarkQueuedInv ==
  ASSUME Inv, NEW th \in Requests \union {Main}, MarkQueued(th) PROVE Inv'
  BY TransitInv, LocalAssumption DEF MarkQueued, Threads

LEMMA WorkerTransitInv ==
  ASSUME Inv, NEW w \in Workers, MarkRunning(w) \/ FinishExecution(w) \/ FailExecution(w)
  PROVE  Inv'
<1>1. w \in Threads
  BY DEF Threads
<1>2. CASE MarkRunning(w)
  BY <1>1, <1>2, TransitInv DEF MarkRunning
<1>3. CASE FailExecution(w)
  BY <1>1, <1>3, TransitInv DEF FailExecution
<1>4. CASE FinishExecution(w)
  <2>1. outcome[w] \in RunOutcomes \union {"none"}
    BY <1>1 DEF Inv, ThreadOK, WorkerOK
  <2> QED
    BY <1>1, <1>4, <2>1, TransitInv DEF FinishExecution
<1> QED
  BY <1>2, <1>3, <1>4
-----------------------------------------------------------------------------
LEMMA LoadForCreateInv == ASSUME Inv, NEW r \in Requests, LoadForCreate(r) PROVE Inv'
<1> USE LocalAssumption DEF Inv
<1>1. r \in Threads /\ r \notin Workers /\ r \notin Cancels /\ r # Main /\ ThreadOK(r)
  BY DEF Threads
<1>2. /\ pc[r] = "new" /\ pc[Main] = "serving" /\ faults' \in Nat
      /\ UNCHANGED <<executions, results, channel, up, todo, on, write, resultsCopy, outcome,
                     runs, crashes>>
  BY DEF LoadForCreate, Serving, Fault, trouble, LocalsOK, files
<1>3. PICK label \in {"insert", "done", "error"} :
        /\ pc' = [pc EXCEPT ![r] = label]
        /\ label = "insert" => copy' = [copy EXCEPT ![r] = executions]
        /\ label # "insert" => copy' = copy
        /\ mutex' \in Requests \union {NoOne}
        /\ reply' \in [Requests -> Requests \union {"none", "conflict", "error", "refused", "lost"}]
  <2> DEFINE Answers == Requests \union {"none", "conflict", "error", "refused", "lost"}
  <2>1. reply \in [Requests -> Answers] /\ mutex \in Requests \union {NoOne}
    BY DEF ProgramTypes
  <2>2. \A e \in Existing(r) :
          [reply EXCEPT ![r] = IF PayloadOf[e] = PayloadOf[r] THEN e ELSE "conflict"]
             \in [Requests -> Answers]
    BY <2>1 DEF Existing
  <2> QED
    BY <2>1, <2>2 DEF LoadForCreate, Goto
<1>4. label \in Labels /\ pc'[r] = label /\ OwnStep(r)
  BY <1>1, <1>2, <1>3 DEF Labels, OwnStep, ProgramTypes, LocalsOK
<1>5. copy' \in [Threads -> Rows \union {NoOne}] /\ (label = "insert" => copy'[r] = executions)
  <2>1. executions \in Rows /\ copy \in [Threads -> Rows \union {NoOne}]
    BY DEF ProgramTypes, LocalsOK
  <2>2. CASE label = "insert"
    BY <1>1, <1>3, <2>1, <2>2
  <2>3. CASE label # "insert"
    BY <1>3, <2>1, <2>3
  <2> QED
    BY <2>2, <2>3
<1>6. ThreadOK(r)'
  BY <1>1, <1>2, <1>4, <1>5 DEF ThreadOK, RequestOK, Updating, ProgramTypes
<1> QED
  BY <1>1, <1>2, <1>3, <1>4, <1>5, <1>6, LabelInv DEF CreateBusy, Begun, ProgramTypes, LocalsOK, Updating

\* The lock is held from the load, so that the insert adds what nobody has named.
LEMMA InsertRowInv == ASSUME Inv, NEW r \in Requests, InsertRow(r) PROVE Inv'
<1> USE LocalAssumption DEF Inv
<1>1. r \in Threads /\ r \notin Workers /\ r \notin Cancels /\ r # Main /\ ThreadOK(r)
  BY DEF Threads
<1>2. /\ pc[r] = "insert" /\ pc[Main] = "serving" /\ faults' \in Nat /\ mutex' = NoOne
      /\ UNCHANGED <<results, channel, up, todo, on, resultsCopy, outcome, reply, runs, crashes>>
  BY DEF InsertRow, Fault, trouble, LocalsOK, OneHolder, history
<1>3. copy[r] \in Rows /\ \A x \in Requests : copy[r][x] # "Absent" => InFiles(x)
  BY <1>1, <1>2 DEF ProgramTypes, InFiles
<1>4. PICK label \in {"mark", "error"} : Return(r, label)
  BY DEF InsertRow
<1>5. executions' \in Rows /\ \A x \in Requests : executions'[x] # "Absent" => InFiles(x) \/ x = r
  <2>1. CASE UNCHANGED executions
    BY <2>1 DEF ProgramTypes, InFiles
  <2>2. CASE executions' = [copy[r] EXCEPT ![r] = "Pending"]
    BY <1>3, <2>2 DEF Rows, ExecutionStatus
  <2> QED
    BY <2>1, <2>2 DEF InsertRow, SaveFor
<1>6. /\ pc' = [pc EXCEPT ![r] = label] /\ pc'[r] = label /\ label \in Labels
      /\ write' \in [Threads -> Calls] /\ copy' \in [Threads -> Rows \union {NoOne}]
      /\ OwnStep(r)
  BY <1>1, <1>2, <1>4 DEF Return, Goto, Labels, OwnStep, ProgramTypes, LocalsOK, NoWrite, Calls
<1>7. ThreadOK(r)'
  BY <1>1, <1>2, <1>6 DEF ThreadOK, RequestOK, Updating
<1>8. LocalsOK'
  BY <1>2, <1>6 DEF LocalsOK
<1>9. ProgramTypes'
  <2>1. pc' \in [Threads -> Labels]
    BY <1>6 DEF ProgramTypes, Labels
  <2>2. \A t \in Threads : write'[t].to \in ExecutionStatus \union {"none"}
    BY <1>6 DEF Calls
  <2>3. \A t \in Threads : pc'[t] \in {"insert", "save"} => copy'[t] \in Rows
    BY <1>6 DEF ProgramTypes, OwnStep
  <2> QED
    BY <1>2, <1>5, <2>1, <2>2, <2>3 DEF ProgramTypes, Labels
<1>10. \A x \in Requests : executions'[x] # "Absent" => executions[x] # "Absent" \/ Begun(x)'
  BY <1>1, <1>5, <1>6 DEF Begun, ProgramTypes, Threads
<1> QED
  BY <1>1, <1>2, <1>6, <1>7, <1>8, <1>9, <1>10, ThreadStep DEF CreateBusy, Begun

LEMMA AnswerInv == ASSUME Inv, NEW r \in Requests, Answer(r) PROVE Inv'
<1> USE LocalAssumption DEF Inv
<1>1. r \in Threads /\ r \notin Workers /\ r \notin Cancels /\ r # Main /\ ThreadOK(r)
  BY DEF Threads
<1>2. /\ pc' = [pc EXCEPT ![r] = "done"] /\ pc[r] \notin {"new", "insert"} /\ faults' \in Nat
      /\ UNCHANGED <<executions, results, channel, up, mutex, todo, on, write, copy, resultsCopy,
                     outcome, runs, crashes>>
  BY DEF Answer, Goto, Fault, trouble, LocalsOK, files, process, locals
<1>3. reply' \in [Requests -> Requests \union {"none", "conflict", "error", "refused", "lost"}]
  <2> DEFINE Answers == Requests \union {"none", "conflict", "error", "refused", "lost"}
             answer == CASE pc[r] = "refused" -> "refused"
                         [] pc[r] = "answer" /\ executions[r] # "Absent" -> r
                         [] OTHER -> "error"
  <2>1. reply \in [Requests -> Answers] /\ answer \in Answers /\ "error" \in Answers
    BY DEF ProgramTypes
  <2>2. reply' = [reply EXCEPT ![r] = answer] \/ reply' = [reply EXCEPT ![r] = "error"]
    BY DEF Answer
  <2> HIDE DEF answer
  <2> QED
    BY <2>1, <2>2
<1>4. pc'[r] = "done" /\ OwnStep(r) /\ "done" \in Labels
  BY <1>1, <1>2 DEF OwnStep, ProgramTypes, Labels
<1>5. ThreadOK(r)'
  BY <1>1, <1>2, <1>4 DEF ThreadOK, RequestOK, Updating
<1> QED
  BY <1>1, <1>2, <1>3, <1>4, <1>5, LabelInv DEF CreateBusy, Updating, ProgramTypes, LocalsOK
-----------------------------------------------------------------------------
\* What a worker does with the execution in hand between its status changes
LEMMA WorkerStep ==
  ASSUME Inv, NEW w \in Workers, NEW label \in Labels, pc' = [pc EXCEPT ![w] = label],
         label \in {"start", "fail", "return", "loadResults", "saveResults", "finish"},
         pc[w] # "idle",
         \A v \in Workers \ {w} : resultsCopy'[v] = resultsCopy[v] /\ outcome'[v] = outcome[v],
         DOMAIN resultsCopy' = Workers,
         label = "saveResults" => resultsCopy'[w] \subseteq Requests,
         outcome' \in [Workers -> ExecutionStatus \union {"none"}],
         outcome'[w] \in RunOutcomes \union {"none"},
         results' \subseteq Requests, runs' \in [Requests -> Nat], faults' \in Nat,
         UNCHANGED <<executions, process, on, write, copy, reply, crashes>>
  PROVE  Inv'
<1> USE LocalAssumption DEF Inv, process
<1>1. w \in Threads /\ w \notin Requests /\ w \notin Cancels /\ w # Main /\ ThreadOK(w)
  BY DEF Threads
<1>2. OwnStep(w) /\ pc'[w] = label
  BY <1>1 DEF OwnStep, ProgramTypes
<1>3. ThreadOK(w)'
  BY <1>1, <1>2 DEF ThreadOK, WorkerOK, Updating
<1> QED
  BY <1>1, <1>2, <1>3, LabelInv DEF ProgramTypes, LocalsOK

LEMMA ReadExecutionInv == ASSUME Inv, NEW w \in Workers, ReadExecution(w) PROVE Inv'
<1>1. PICK label \in {"start", "fail", "return"} : pc' = [pc EXCEPT ![w] = label]
  BY DEF ReadExecution, Goto
<1>2. w \in Threads /\ ThreadOK(w) /\ label \in Labels /\ pc[w] = "read"
  BY DEF Inv, Threads, Labels, ReadExecution
<1>3. UNCHANGED <<executions, results, process, on, write, copy, resultsCopy, outcome, reply,
                  runs, crashes>> /\ faults' \in Nat
  BY DEF Inv, ReadExecution, Fault, trouble, files, history, locals, LocalsOK
<1> QED
  BY <1>1, <1>2, <1>3, WorkerStep DEF Inv, ProgramTypes, LocalsOK, ThreadOK, WorkerOK

\* A run has one of the outcomes that the results can have together.
LEMMA AggregateIsOutcome == \A rs : AggregateExecutionStatus(rs) \in RunOutcomes
  BY DEF AggregateExecutionStatus, RunOutcomes

LEMMA RunPluginsInv == ASSUME Inv, NEW w \in Workers, RunPlugins(w) PROVE Inv'
<1> USE DEF Inv
<1>1. w \in Threads /\ ThreadOK(w) /\ pc[w] = "run" /\ {"fail", "loadResults"} \subseteq Labels
  BY DEF Threads, Labels, RunPlugins
<1>2. UNCHANGED <<executions, results, process, on, write, copy, resultsCopy, reply, trouble, crashes>>
  BY DEF RunPlugins, files
<1>3. on[w] \in Requests
  BY <1>1 DEF ThreadOK, WorkerOK, LocalsOK
<1>4. runs' \in [Requests -> Nat]
  <2>1. \E k \in 0..1 : runs' = [runs EXCEPT ![on[w]] = @ + k]
    BY DEF RunPlugins
  <2>2. runs \in [Requests -> Nat]
    BY DEF ProgramTypes
  <2> QED
    BY <1>3, <2>1, <2>2
<1>5. CASE Goto(w, "fail") /\ UNCHANGED outcome
  BY <1>1, <1>2, <1>4, <1>5, WorkerStep DEF trouble, Goto, ProgramTypes, LocalsOK, ThreadOK, WorkerOK
<1>6. CASE /\ \E n \in 1..MaxPlugins : \E rs \in [1..n -> Reported] :
                outcome' = [outcome EXCEPT ![w] = AggregateExecutionStatus(rs)]
           /\ Goto(w, "loadResults")
  <2>1. PICK s \in RunOutcomes : outcome' = [outcome EXCEPT ![w] = s]
    BY <1>6, AggregateIsOutcome
  <2>2. /\ outcome' \in [Workers -> ExecutionStatus \union {"none"}]
        /\ outcome'[w] \in RunOutcomes \union {"none"}
        /\ \A v \in Workers \ {w} : outcome'[v] = outcome[v]
    BY <2>1 DEF ProgramTypes, RunOutcomes, ExecutionStatus
  <2> QED
    BY <1>1, <1>2, <1>4, <1>6, <2>2, WorkerStep DEF trouble, Goto, ProgramTypes, LocalsOK
<1> QED
  BY <1>5, <1>6 DEF RunPlugins

LEMMA ResultsInv ==
  ASSUME Inv, NEW w \in Workers, LoadResults(w) \/ SaveResults(w) PROVE Inv'
<1> USE DEF Inv
<1>1. w \in Threads /\ ThreadOK(w) /\ pc[w] \in {"loadResults", "saveResults"}
  BY DEF Threads, LoadResults, SaveResults
<1>2. on[w] \in Requests
  BY <1>1 DEF ThreadOK, WorkerOK, LocalsOK
<1>3. PICK label \in {"saveResults", "finish", "fail"} : pc' = [pc EXCEPT ![w] = label]
  BY DEF LoadResults, SaveResults, Goto
<1>4. /\ results' \subseteq Requests /\ faults' \in Nat /\ DOMAIN resultsCopy' = Workers
      /\ label = "saveResults" => resultsCopy'[w] \subseteq Requests
      /\ \A v \in Workers \ {w} : resultsCopy'[v] = resultsCopy[v]
  BY <1>1, <1>2, <1>3 DEF LoadResults, SaveResults, Goto, Fault, trouble, ProgramTypes, LocalsOK, ThreadOK,
     WorkerOK, files
<1>5. UNCHANGED <<executions, process, on, write, copy, outcome, reply, runs, crashes>>
  BY DEF LoadResults, SaveResults, files, history
<1>6. label \in Labels
  BY DEF Labels
<1> QED
  BY <1>1, <1>3, <1>4, <1>5, <1>6, WorkerStep DEF ProgramTypes, ThreadOK, WorkerOK
-----------------------------------------------------------------------------
LEMMA OthersOK ==
  ASSUME Inv, NEW th \in Threads, ThreadOK(th)', th = Main \/ up' = up,
         \A t \in Threads \ {th} : /\ pc'[t] = pc[t] /\ on'[t] = on[t]
                                   /\ write'[t] = write[t] /\ copy'[t] = copy[t],
         \A w \in Workers \ {th} : resultsCopy'[w] = resultsCopy[w] /\ outcome'[w] = outcome[w]
  PROVE  \A t \in Threads : ThreadOK(t)'
<1> SUFFICES ASSUME NEW t \in Threads, t # th PROVE ThreadOK(t)'
  OBVIOUS
<1>1. /\ ThreadOK(t) /\ pc'[t] = pc[t] /\ on'[t] = on[t]
      /\ write'[t] = write[t] /\ copy'[t] = copy[t]
  BY DEF Inv
<1>2. t \in Workers => resultsCopy'[t] = resultsCopy[t] /\ outcome'[t] = outcome[t]
  OBVIOUS
<1> QED
  BY <1>1, <1>2 DEF ThreadOK, RequestOK, CancelOK, WorkerOK, MainOK, Calling

\* The id of an execution that nobody has in hand is put into the channel.
LEMMA PushInv ==
  ASSUME Inv, NEW th \in Requests \union {Main}, pc[th] = "submit", Len(channel) < QueueSize,
         channel' = Append(channel, on[th]),
         pc' = [pc EXCEPT ![th] = IF th = Main THEN "recover" ELSE "answer"],
         UNCHANGED <<files, up, mutex, todo, locals, history, trouble, crashes>>
  PROVE  Inv'
<1> USE LocalAssumption DEF Inv, files, locals, history
<1> DEFINE x == on[th]
<1>1. th \in Threads /\ th \notin Workers /\ th \notin Cancels /\ ThreadOK(th)
  BY DEF Threads
<1>2. /\ pc'[th] = IF th = Main THEN "recover" ELSE "answer"
      /\ \A t \in Threads \ {th} : pc'[t] = pc[t]
      /\ pc' \in [Threads -> Labels]
  BY <1>1 DEF ProgramTypes, Labels
<1>3. x \in Requests /\ (th # Main => th = x)
  BY <1>1 DEF ThreadOK, RequestOK, MainOK, RecoveryBusy
<1>4. ~InHand(x) /\ (th = Main => pc[x] = "done" /\ x # Main)
  <2>1. CASE th = Main
    <3>1. Named(x)
      BY <1>1, <1>3, <2>1 DEF Named
    <3>2. pc[x] = "done"
      BY <1>3, <2>1, <3>1 DEF OneHolder, Begun
    <3> QED
      BY <1>3, <2>1, <3>2 DEF OneHolder, RecoveryBusy
  <2>2. CASE th # Main
    BY <1>3, <2>2 DEF OneHolder, CreateBusy
  <2> QED
    BY <2>1, <2>2
<1>5. channel \in Seq(Requests) /\ Len(channel) \in Nat /\ QueueSize \in Nat
  BY DEF ProgramTypes
<1>6. /\ channel' \in Seq(Requests) /\ Len(channel') = Len(channel) + 1
      /\ \A i \in DOMAIN channel' : \/ i = Len(channel) + 1 /\ channel'[i] = x
                                    \/ i \in DOMAIN channel /\ channel'[i] = channel[i]
  BY <1>3, <1>5
<1> HIDE DEF x
<1>7. \A y \in Requests : InHand(y)' => InHand(y) \/ y = x
  BY <1>6 DEF InHand
<1>8. ProgramTypes' /\ LocalsOK'
  <2>1. \A t \in Threads : pc'[t] \in {"insert", "save"} => copy'[t] \in Rows
    BY <1>2 DEF ProgramTypes
  <2> QED
    BY <1>2, <1>5, <1>6, <2>1 DEF trouble, ProgramTypes, LocalsOK, Labels
<1>9. \A t \in Threads : ThreadOK(t)'
  <2>1. ThreadOK(th)'
    BY <1>1, <1>2 DEF ThreadOK, RequestOK, MainOK, RecoveryBusy, Updating
  <2> QED
    BY <1>1, <1>2, <2>1, OthersOK
<1>10. Begun(x) /\ \A y \in Requests : (Begun(y) => Begun(y)')
  BY <1>2, <1>3, <1>4 DEF Begun, Threads
<1>11. \A y \in Requests : InFiles(y)' \/ Named(y)' => InFiles(y) \/ Named(y) \/ y = x
  <2>1. \A y \in Requests : InFiles(y)' => InFiles(y)
    BY <1>2 DEF InFiles
  <2> QED
    BY <1>7, <2>1 DEF Named
<1>12. OneHolder'
  <2>1. /\ \A i, j \in DOMAIN channel' : channel'[i] = channel'[j] => i = j
        /\ \A i \in DOMAIN channel', w \in Workers : channel'[i] # on[w]
    BY <1>4, <1>6 DEF OneHolder, InHand
  <2>2. \A y \in Requests : pc'[y] \in CreateBusy => ~InHand(y)'
    BY <1>2, <1>3, <1>4, <1>7 DEF OneHolder, CreateBusy, Threads, Updating
  <2>3. \A y \in Requests : pc'[y] \notin {"new", "done"} => pc'[Main] = "serving"
    BY <1>2, <1>3 DEF OneHolder, Threads
  <2>4. pc'[Main] \notin RecoveryBusy /\ pc'[Main] \notin {"down", "list"}
    BY <1>2, <1>3 DEF RecoveryBusy, OneHolder, Threads, Updating
  <2>5. pc'[Main] \in Recoverable => th = Main
    BY <1>2, <1>3 DEF Recoverable, RecoveryBusy, OneHolder, Threads, Updating
  <2>6. ASSUME pc'[Main] \in Recoverable, NEW item \in todo PROVE ~InHand(item.id)'
    BY <1>7, <2>5, <2>6 DEF OneHolder, Recoverable, RecoveryBusy, x, ProgramTypes
  <2> QED
    BY <2>1, <2>2, <2>3, <2>4, <2>6 DEF OneHolder
<1> QED
  BY <1>8, <1>9, <1>10, <1>11, <1>12

LEMMA SubmitInv == ASSUME Inv, NEW th \in Requests \union {Main}, Submit(th) PROVE Inv'
<1> USE LocalAssumption DEF Inv, files, history
<1>1. th \in Threads /\ th \notin Workers /\ th \notin Cancels /\ ThreadOK(th) /\ pc[th] = "submit"
  BY DEF Threads, Submit
<1>2. CASE channel' = Append(channel, on[th]) /\ UNCHANGED write
  BY <1>2, PushInv DEF Submit, Goto, locals
<1>3. CASE th = Main /\ Goto(th, "serving") /\ UNCHANGED <<channel, write>>
  <2>1. pc' = [pc EXCEPT ![th] = "serving"] /\ pc'[th] = "serving" /\ OwnStep(th)
    BY <1>1, <1>3 DEF Goto, OwnStep, ProgramTypes, Submit
  <2>2. ThreadOK(th)'
    BY <1>1, <1>3, <2>1 DEF ThreadOK, MainOK, Submit, RecoveryBusy, Updating
  <2> QED
    BY <1>1, <1>3, <2>1, <2>2, LabelInv DEF trouble, Submit, Labels, RecoveryBusy, ProgramTypes, LocalsOK
<1>4. CASE th # Main /\ Call(th, "Failed", "refused", "refused") /\ UNCHANGED channel
  <2> DEFINE call == [to |-> "Failed", next |-> "refused", fail |-> "refused"]
  <2>1. call \in Calls /\ "exists" \in Labels
    BY DEF Calls, Labels, ExecutionStatus
  <2>2. pc' = [pc EXCEPT ![th] = "exists"] /\ write' = [write EXCEPT ![th] = call]
    BY <1>4 DEF Call, Goto
  <2>3. pc'[th] = "exists" /\ write'[th] = call /\ write' \in [Threads -> Calls] /\ OwnStep(th)
    BY <1>1, <1>4, <2>1, <2>2 DEF OwnStep, ProgramTypes, LocalsOK, Submit
  <2>4. ThreadOK(th)'
    BY <1>1, <1>4, <2>3 DEF ThreadOK, RequestOK, Submit, Updating, Calling
  <2> HIDE DEF call
  <2>5. "submit" \in CreateBusy /\ pc[Main] = "serving"
    BY <1>1, <1>4 DEF OneHolder, CreateBusy
  <2> QED
    BY <1>1, <1>4, <2>1, <2>2, <2>3, <2>4, <2>5, LabelInv DEF trouble, Submit, Labels, ProgramTypes, LocalsOK
<1> QED
  BY <1>2, <1>3, <1>4 DEF Submit
-----------------------------------------------------------------------------
\* A worker takes the id at the head, and the channel has it no more.
LEMMA TakeInv == ASSUME Inv, NEW w \in Workers, Take(w) PROVE Inv'
<1> USE LocalAssumption DEF Inv
<1> DEFINE x == Head(channel)
<1>1. w \in Threads /\ w \notin Requests /\ w \notin Cancels /\ w # Main /\ ThreadOK(w)
  BY DEF Threads
<1>2. UNCHANGED <<executions, results, up, mutex, todo, write, copy, resultsCopy, outcome, reply,
                  runs, trouble, crashes>> /\ pc[w] = "idle" /\ up
  BY DEF Take, files, history
<1>3. channel \in Seq(Requests) /\ Len(channel) \in Nat /\ channel # <<>> /\ QueueSize \in Nat
  BY DEF ProgramTypes, Take
<1>4. /\ x \in Requests /\ 1 \in DOMAIN channel /\ channel[1] = x
      /\ channel' \in Seq(Requests) /\ Len(channel') = Len(channel) - 1
      /\ \A i \in DOMAIN channel' : i + 1 \in DOMAIN channel /\ channel'[i] = channel[i + 1]
      /\ \A i \in DOMAIN channel' : i \in Nat /\ i > 0
  BY <1>3 DEF Take
<1> HIDE DEF x
<1>5. /\ on' = [on EXCEPT ![w] = x] /\ pc' = [pc EXCEPT ![w] = "read"]
  BY DEF Take, Goto, x
<1>6. /\ on'[w] = x /\ pc'[w] = "read" /\ pc' \in [Threads -> Labels]
      /\ on' \in [Threads -> Requests \union {NoOne}]
      /\ \A t \in Threads \ {w} : pc'[t] = pc[t] /\ on'[t] = on[t]
  BY <1>1, <1>4, <1>5 DEF ProgramTypes, LocalsOK, Labels
<1>7. ProgramTypes' /\ LocalsOK'
  <2>1. \A t \in Threads : pc'[t] \in {"insert", "save"} => copy'[t] \in Rows
    BY <1>2, <1>6 DEF ProgramTypes
  <2>2. Len(channel') <= QueueSize
    BY <1>3, <1>4 DEF ProgramTypes
  <2> QED
    BY <1>2, <1>4, <1>6, <2>1, <2>2 DEF trouble, ProgramTypes, LocalsOK, Labels
<1>8. \A t \in Threads : ThreadOK(t)'
  <2>1. ThreadOK(w)'
    BY <1>1, <1>2, <1>4, <1>6 DEF ThreadOK, WorkerOK, Updating
  <2> QED
    BY <1>1, <1>2, <1>6, <2>1, OthersOK
<1>9. InHand(x) /\ \A y \in Requests : InHand(y)' => InHand(y)
  <2>1. InHand(x)
    BY <1>4 DEF InHand
  <2>2. \A y \in Requests : InHand(y)' => InHand(y) \/ y = x
    BY <1>1, <1>4, <1>6 DEF InHand, Threads
  <2> QED
    BY <2>1, <2>2
<1>10. \A y \in Requests : /\ InFiles(y)' => InFiles(y)
                           /\ Named(y)' => Named(y)
                           /\ Begun(y)' <=> Begun(y)
  <2>1. \A y \in Requests : InFiles(y)' => InFiles(y)
    BY <1>2, <1>6 DEF InFiles
  <2>2. \A y \in Requests : Begun(y)' <=> Begun(y)
    BY <1>1, <1>6 DEF Begun, Threads
  <2> QED
    BY <1>2, <1>6, <1>9, <2>1, <2>2 DEF Named
<1>11. OneHolder'
  <2>1. \A i, j \in DOMAIN channel' : channel'[i] = channel'[j] => i = j
    <3> SUFFICES ASSUME NEW i \in DOMAIN channel', NEW j \in DOMAIN channel', channel'[i] = channel'[j]
                 PROVE  i = j
      OBVIOUS
    <3>1. i + 1 = j + 1
      BY <1>4 DEF OneHolder
    <3> QED
      BY <1>4, <3>1
  <2>2. \A i \in DOMAIN channel' : channel'[i] # x
    <3> SUFFICES ASSUME NEW i \in DOMAIN channel', channel'[i] = x PROVE FALSE
      OBVIOUS
    <3>1. i + 1 = 1
      BY <1>4 DEF OneHolder
    <3> QED
      BY <1>4, <3>1
  <2>3. \A v \in Workers : on[v] # x
    BY <1>4 DEF OneHolder
  <2>4. Workers \subseteq Threads
    BY DEF Threads
  <2>5. \A u, v \in Workers : on'[u] = on'[v] /\ on'[u] # NoOne => u = v
    BY <1>6, <2>3, <2>4 DEF OneHolder
  <2>6. \A i \in DOMAIN channel', v \in Workers : channel'[i] # on'[v]
    BY <1>4, <1>6, <2>2, <2>4 DEF OneHolder
  <2>7. /\ pc'[Main] = pc[Main] /\ on'[Main] = on[Main]
        /\ \A y \in Requests : pc'[y] = pc[y]
    BY <1>1, <1>6 DEF Threads
  <2>8. pc[Main] \in RecoveryBusy => on[Main] \in Requests
    BY DEF ThreadOK, MainOK, Threads
  <2>9. \A item \in todo : item.id \in Requests
    BY DEF ProgramTypes
  <2> QED
    BY <1>2, <1>9, <2>1, <2>5, <2>6, <2>7, <2>8, <2>9 DEF OneHolder
<1> QED
  BY <1>7, <1>8, <1>10, <1>11

\* A thread goes from one execution to another, or to none.
LEMMA PickUpInv ==
  ASSUME Inv, NEW th \in Cancels \union Workers, NEW x \in Requests \union {NoOne},
         NEW label \in Labels \ {"insert", "save"},
         on' = [on EXCEPT ![th] = x], pc' = [pc EXCEPT ![th] = label],
         x \in Requests => th \in Cancels /\ Begun(x),
         write' \in [Threads -> Calls], \A t \in Threads \ {th} : write'[t] = write[t],
         outcome' \in [Workers -> ExecutionStatus \union {"none"}],
         \A w \in Workers \ {th} : outcome'[w] = outcome[w],
         ThreadOK(th)',
         UNCHANGED <<files, process, copy, resultsCopy, history, trouble, crashes>>
  PROVE  Inv'
<1> USE LocalAssumption DEF Inv, files, process, history
<1>1. th \in Threads /\ th \notin Requests /\ th # Main
  BY DEF Threads
<1>2. /\ on'[th] = x /\ pc'[th] = label /\ pc' \in [Threads -> Labels]
      /\ on' \in [Threads -> Requests \union {NoOne}]
      /\ \A t \in Threads \ {th} : pc'[t] = pc[t] /\ on'[t] = on[t]
  BY <1>1 DEF ProgramTypes, LocalsOK, Labels
<1>3. ProgramTypes' /\ LocalsOK'
  <2>1. \A t \in Threads : pc'[t] \in {"insert", "save"} => copy'[t] \in Rows
    BY <1>2 DEF ProgramTypes
  <2>2. \A t \in Threads : write'[t].to \in ExecutionStatus \union {"none"}
    BY DEF Calls
  <2> QED
    BY <1>2, <2>1, <2>2 DEF trouble, ProgramTypes, LocalsOK, Labels
<1>4. \A t \in Threads : ThreadOK(t)'
  BY <1>1, <1>2, OthersOK
<1>5. \A y \in Requests : InHand(y)' => InHand(y)
  BY <1>1, <1>2 DEF InHand, Threads
<1>6. \A y \in Requests : (InFiles(y)' => InFiles(y)) /\ (Begun(y)' <=> Begun(y))
  BY <1>1, <1>2 DEF InFiles, Begun, Threads
<1>7. \A y \in Requests : Named(y)' => Named(y) \/ y = x
  BY <1>2, <1>5 DEF Named
<1>8. OneHolder'
  <2>1. \A v \in Workers : on'[v] = on[v] \/ on'[v] = NoOne
    BY <1>1, <1>2 DEF Threads
  <2>2. \A i \in DOMAIN channel : channel[i] \in Requests
    BY DEF ProgramTypes
  <2>3. /\ pc'[Main] = pc[Main] /\ on'[Main] = on[Main]
        /\ \A y \in Requests : pc'[y] = pc[y]
    BY <1>1, <1>2 DEF Threads
  <2>4. pc[Main] \in RecoveryBusy => on[Main] \in Requests
    BY DEF ThreadOK, MainOK, Threads
  <2>5. \A item \in todo : item.id \in Requests
    BY DEF ProgramTypes
  <2>6. /\ \A u, v \in Workers : on'[u] = on'[v] /\ on'[u] # NoOne => u = v
        /\ \A i \in DOMAIN channel, v \in Workers : channel[i] # on'[v]
    BY <2>1, <2>2 DEF OneHolder
  <2> QED
    BY <1>5, <2>3, <2>4, <2>5, <2>6 DEF OneHolder
<1> QED
  BY <1>3, <1>4, <1>6, <1>7, <1>8

LEMMA HandlerReturnsInv == ASSUME Inv, NEW w \in Workers, HandlerReturns(w) PROVE Inv'
<1> USE LocalAssumption DEF Inv
<1>1. w \in Threads /\ w \notin Requests /\ w \notin Cancels /\ w # Main /\ ThreadOK(w)
  BY DEF Threads
<1>2. /\ on' = [on EXCEPT ![w] = NoOne] /\ pc' = [pc EXCEPT ![w] = "idle"] /\ "idle" \in Labels
      /\ outcome' = [outcome EXCEPT ![w] = "none"]
      /\ UNCHANGED <<files, process, write, copy, resultsCopy, history, trouble, crashes>>
  BY DEF HandlerReturns, Goto, Labels
<1>3. on'[w] = NoOne /\ pc'[w] = "idle" /\ outcome'[w] = "none"
  BY <1>1, <1>2 DEF ProgramTypes, LocalsOK
<1>4. outcome' \in [Workers -> ExecutionStatus \union {"none"}]
  BY <1>2 DEF ProgramTypes
<1>5. ThreadOK(w)'
  BY <1>1, <1>3 DEF ThreadOK, WorkerOK, Updating
<1>6. \A v \in Workers \ {w} : outcome'[v] = outcome[v]
  BY <1>2 DEF ProgramTypes
<1> QED
  BY <1>1, <1>2, <1>4, <1>5, <1>6, PickUpInv DEF LocalsOK

LEMMA ReadForCancelInv ==
  ASSUME Inv, NEW c \in Cancels, NEW x \in Requests, ReadForCancel(c, x) PROVE Inv'
<1> USE LocalAssumption DEF Inv
<1> DEFINE call == [to |-> "Canceled", next |-> "done", fail |-> "done"]
<1>1. c \in Threads /\ c \notin Requests /\ c \notin Workers /\ c # Main
  BY DEF Threads
<1>2. call \in Calls /\ "exists" \in Labels
  BY DEF Calls, Labels, ExecutionStatus
<1>3. /\ on' = [on EXCEPT ![c] = x] /\ pc' = [pc EXCEPT ![c] = "exists"]
      /\ write' = [write EXCEPT ![c] = call]
      /\ UNCHANGED <<files, process, copy, resultsCopy, outcome, history, trouble, crashes>>
  BY DEF ReadForCancel, Call, Goto
<1>4. Begun(x)
  BY DEF ReadForCancel, CanCancel, InFiles
<1> HIDE DEF call
<1>5. /\ on'[c] = x /\ pc'[c] = "exists" /\ write'[c] = call /\ write' \in [Threads -> Calls]
      /\ \A t \in Threads \ {c} : write'[t] = write[t]
  BY <1>1, <1>2, <1>3 DEF ProgramTypes, LocalsOK
<1>6. ThreadOK(c)'
  BY <1>1, <1>5 DEF ThreadOK, CancelOK, Updating, Calling, call
<1> QED
  BY <1>1, <1>2, <1>3, <1>4, <1>5, <1>6, PickUpInv DEF ProgramTypes
-----------------------------------------------------------------------------
\* A step of the main goroutine before the server starts: nothing is created then.
LEMMA MainStep ==
  ASSUME Inv, NEW label \in Labels \ {"insert", "save", "down"}, pc' = [pc EXCEPT ![Main] = label],
         NEW x \in Requests \union {NoOne}, on' = [on EXCEPT ![Main] = x],
         pc[Main] \in {"down", "list", "recover"}, up' = TRUE,
         write' \in [Threads -> Calls], \A t \in Threads \ {Main} : write'[t] = write[t],
         todo' \subseteq [id : Requests, status : {"Pending", "Queued", "Running"}],
         faults' \in Nat, ThreadOK(Main)',
         UNCHANGED <<files, channel, mutex, copy, resultsCopy, outcome, history, crashes>>,
         x \in Requests => InFiles(x) \/ Named(x),
         \A item \in todo' : InFiles(item.id) \/ Named(item.id),
         label = "list" => pc[Main] = "down",
         label \in RecoveryBusy => ~InHand(x) /\ \A item \in todo' : item.id # x,
         label \in Recoverable => \A item \in todo' : ~InHand(item.id),
         \A i, j \in todo' : i.id = j.id => i = j
  PROVE  Inv'
<1> USE LocalAssumption DEF Inv, files, history
<1>1. Main \in Threads /\ Main \notin Requests /\ Main \notin Workers
  BY DEF Threads
<1>2. /\ on'[Main] = x /\ pc'[Main] = label /\ pc' \in [Threads -> Labels]
      /\ on' \in [Threads -> Requests \union {NoOne}]
      /\ \A t \in Threads \ {Main} : pc'[t] = pc[t] /\ on'[t] = on[t]
  BY <1>1 DEF ProgramTypes, LocalsOK, Labels
<1>3. up' \in BOOLEAN
  OBVIOUS
<1>4. ProgramTypes' /\ LocalsOK'
  <2>1. \A t \in Threads : pc'[t] \in {"insert", "save"} => copy'[t] \in Rows
    BY <1>2 DEF ProgramTypes
  <2>2. \A t \in Threads : write'[t].to \in ExecutionStatus \union {"none"}
    BY DEF Calls
  <2> QED
    BY <1>2, <1>3, <2>1, <2>2 DEF ProgramTypes, LocalsOK, Labels
<1>5. \A t \in Threads : ThreadOK(t)'
  BY <1>1, <1>2, OthersOK
<1>6. \A y \in Requests : InHand(y)' <=> InHand(y)
  BY <1>1, <1>2 DEF InHand, Threads
<1>7. \A y \in Requests : (InFiles(y)' => InFiles(y)) /\ (Begun(y)' <=> Begun(y))
  BY <1>1, <1>2 DEF InFiles, Begun, Threads
<1>8. \A y \in Requests : Named(y)' => InFiles(y) \/ Named(y)
  BY <1>2, <1>6 DEF Named
<1>9. OneHolder'
  <2>1. \A w \in Workers : on'[w] = on[w]
    BY <1>1, <1>2 DEF Threads
  <2>2. \A y \in Requests : pc'[y] = pc[y]
    BY <1>1, <1>2 DEF Threads
  <2>3. \A y \in Requests : pc[y] \in {"new", "done"}
    BY DEF OneHolder
  <2>4. pc'[Main] \in RecoveryBusy => x \in Requests
    BY <1>2 DEF ThreadOK, MainOK
  <2>5. \A item \in todo' : item.id \in Requests
    BY <1>4 DEF ProgramTypes
  <2> QED
    BY <1>2, <1>6, <2>1, <2>2, <2>3, <2>4, <2>5 DEF OneHolder
<1> QED
  BY <1>4, <1>5, <1>7, <1>8, <1>9

LEMMA BootInv == ASSUME Inv, Boot PROVE Inv'
<1> USE LocalAssumption DEF Inv
<1>1. Main \in Threads /\ Main \notin Requests /\ Main \notin Workers /\ Main \notin Cancels
  BY DEF Threads
<1>2. /\ pc' = [pc EXCEPT ![Main] = "list"] /\ up' = TRUE /\ pc[Main] = "down"
      /\ UNCHANGED <<files, channel, mutex, todo, on, write, copy, resultsCopy, outcome, history,
                     trouble, crashes>>
  BY <1>1 DEF Boot, Goto, locals, ThreadOK, MainOK
<1>3. PICK x \in Requests \union {NoOne} : x = on[Main]
  BY <1>1 DEF LocalsOK
<1>4. on' = [on EXCEPT ![Main] = x] /\ pc'[Main] = "list"
  BY <1>1, <1>2, <1>3 DEF LocalsOK, ProgramTypes
<1>5. ThreadOK(Main)'
  BY <1>1, <1>2, <1>4 DEF ThreadOK, MainOK, RecoveryBusy, Updating
<1>6. x \in Requests => Named(x)
  BY <1>1, <1>3 DEF Named
<1>7. \A item \in todo : Named(item.id)
  BY DEF Named
<1>8. /\ "list" \in Labels /\ "list" \notin RecoveryBusy /\ "list" \notin Recoverable
      /\ \A i, j \in todo : i.id = j.id => i = j
  BY DEF OneHolder, Labels, RecoveryBusy, Recoverable, Updating
<1>9. /\ write \in [Threads -> Calls] /\ faults \in Nat
      /\ todo \subseteq [id : Requests, status : {"Pending", "Queued", "Running"}]
  BY DEF ProgramTypes, LocalsOK
<1> QED
  BY <1>2, <1>4, <1>5, <1>6, <1>7, <1>8, <1>9, MainStep DEF trouble

\* The file is listed when the channel and the workers have nothing.
LEMMA ListIncompleteInv == ASSUME Inv, ListIncomplete PROVE Inv'
<1> USE LocalAssumption DEF Inv
<1>1. Main \in Threads /\ Main \notin Requests /\ Main \notin Workers /\ Main \notin Cancels
  BY DEF Threads
<1>2. /\ pc[Main] = "list" /\ up /\ faults' \in Nat
      /\ UNCHANGED <<files, channel, up, mutex, on, write, copy, resultsCopy, outcome, history, crashes>>
  BY <1>1 DEF ListIncomplete, locals, ThreadOK, MainOK, Fault, trouble, LocalsOK
<1>3. up' = TRUE
  BY <1>2 DEF ProgramTypes
<1>4. PICK x \in Requests \union {NoOne} : x = on[Main]
  BY <1>1 DEF LocalsOK
<1>5. x \in Requests => Named(x)
  BY <1>1, <1>4 DEF Named
<1>6. on' = [on EXCEPT ![Main] = x]
  BY <1>1, <1>2, <1>4 DEF LocalsOK
<1>7. PICK label \in {"recover", "serving"} : Goto(Main, label)
  BY DEF ListIncomplete
<1>8. /\ pc' = [pc EXCEPT ![Main] = label] /\ pc'[Main] = label
      /\ label \in Labels \ {"insert", "save", "down", "list"} /\ label \notin RecoveryBusy
  BY <1>1, <1>7 DEF Goto, ProgramTypes, Labels, RecoveryBusy, Updating
<1>9. ThreadOK(Main)'
  BY <1>1, <1>2, <1>7, <1>8 DEF ThreadOK, MainOK, RecoveryBusy, Updating
<1>10. todo' = {[id |-> y, status |-> executions[y]] : y \in Incomplete}
  BY DEF ListIncomplete
<1>11. \A item \in todo' :
          /\ item.id \in Incomplete /\ item = [id |-> item.id, status |-> executions[item.id]]
  BY <1>10
<1>12. todo' \subseteq [id : Requests, status : {"Pending", "Queued", "Running"}]
  BY <1>10 DEF Incomplete
<1>13. \A item \in todo' : InFiles(item.id) /\ ~InHand(item.id)
  BY <1>2, <1>11 DEF Incomplete, InFiles, OneHolder
<1>14. \A i, j \in todo' : i.id = j.id => i = j
  BY <1>11
<1> QED
  BY <1>2, <1>3, <1>4, <1>5, <1>6, <1>8, <1>9, <1>12, <1>13, <1>14, MainStep
     DEF ProgramTypes, LocalsOK

LEMMA RecoverNextInv == ASSUME Inv, RecoverNext PROVE Inv'
<1> USE LocalAssumption DEF Inv
<1>1. Main \in Threads /\ Main \notin Requests /\ Main \notin Workers /\ Main \notin Cancels
  BY DEF Threads
<1>2. /\ pc[Main] = "recover" /\ up
      /\ UNCHANGED <<files, channel, up, mutex, copy, resultsCopy, outcome, history, trouble, crashes>>
  BY <1>1 DEF RecoverNext, ThreadOK, MainOK
<1>3. up' = TRUE
  BY <1>2 DEF ProgramTypes
<1>4. \A item \in todo : Named(item.id)
  BY DEF Named
<1>5. CASE /\ todo = {} /\ Goto(Main, "serving")
           /\ on' = [on EXCEPT ![Main] = NoOne] /\ UNCHANGED <<todo, write>>
  <2>1. pc' = [pc EXCEPT ![Main] = "serving"] /\ pc'[Main] = "serving" /\ "serving" \in Labels
    BY <1>1, <1>5 DEF Goto, ProgramTypes, Labels
  <2>2. PICK x : x = NoOne
    OBVIOUS
  <2>3. x \in Requests \union {NoOne} /\ x \notin Requests /\ on' = [on EXCEPT ![Main] = x]
    BY <1>5, <2>2
  <2>4. ThreadOK(Main)'
    BY <1>1, <1>2, <2>1 DEF ThreadOK, MainOK, RecoveryBusy, Updating
  <2> QED
    BY <1>2, <1>3, <1>5, <2>1, <2>3, <2>4, MainStep
       DEF trouble, RecoveryBusy, Recoverable, Updating, ProgramTypes, LocalsOK
<1>6. ASSUME NEW item \in todo, todo' = todo \ {item}, on' = [on EXCEPT ![Main] = item.id],
             \/ Goto(Main, "mark") /\ UNCHANGED write
             \/ Goto(Main, "submit") /\ UNCHANGED write
             \/ Call(Main, "Failed", "recover", "recover")
      PROVE  Inv'
  <2> DEFINE call == [to |-> "Failed", next |-> "recover", fail |-> "recover"]
  <2>1. item.id \in Requests
    BY DEF ProgramTypes
  <2>2. call \in Calls
    BY DEF Calls, Labels, ExecutionStatus
  <2>3. PICK label \in {"mark", "submit", "exists"} :
          /\ pc' = [pc EXCEPT ![Main] = label]
          /\ IF label = "exists" THEN write' = [write EXCEPT ![Main] = call] ELSE write' = write
    BY <1>6 DEF Call, Goto
  <2> HIDE DEF call
  <2>4. /\ pc'[Main] = label /\ on'[Main] = item.id /\ label \in Labels /\ label \in RecoveryBusy
        /\ write' \in [Threads -> Calls] /\ \A t \in Threads \ {Main} : write'[t] = write[t]
        /\ label = "exists" => write'[Main] = call
    <3>1. /\ pc'[Main] = label /\ on'[Main] = item.id /\ label \in Labels
          /\ label \in RecoveryBusy
      BY <1>1, <1>6, <2>1, <2>3 DEF ProgramTypes, LocalsOK, Labels, RecoveryBusy, Updating
    <3>2. write \in [Threads -> Calls]
      BY DEF LocalsOK
    <3>3. CASE label = "exists"
      BY <1>1, <2>2, <2>3, <3>1, <3>2, <3>3
    <3>4. CASE label # "exists"
      BY <2>3, <3>1, <3>2, <3>4
    <3> QED
      BY <3>3, <3>4
  <2>5. ThreadOK(Main)'
    BY <1>1, <1>2, <2>1, <2>4 DEF ThreadOK, MainOK, RecoveryBusy, Updating, Calling, call
  <2>6. /\ ~InHand(item.id) /\ \A other \in todo' : other.id # item.id /\ ~InHand(other.id)
        /\ \A i, j \in todo' : i.id = j.id => i = j
    BY <1>2, <1>6 DEF OneHolder, Recoverable
  <2>7. todo' \subseteq [id : Requests, status : {"Pending", "Queued", "Running"}]
    BY <1>6 DEF ProgramTypes
  <2>8. label \notin {"insert", "save", "down", "list"}
    OBVIOUS
  <2>9. \A other \in todo' : Named(other.id)
    BY <1>4, <1>6
  <2> QED
    BY <1>2, <1>3, <1>4, <1>6, <2>1, <2>3, <2>4, <2>5, <2>6, <2>7, <2>8, <2>9, MainStep DEF LocalsOK, trouble
<1> QED
  BY <1>5, <1>6 DEF RecoverNext

\* A stop of the process leaves only requests that have not begun and the file.
LEMMA CrashInv == ASSUME Inv, Crash PROVE Inv'
<1> USE LocalAssumption DEF Inv
<1>1. /\ \A w \in Workers : w \in Threads /\ w # Main /\ pc'[w] = "idle"
      /\ \A c \in Cancels : c \in Threads /\ pc'[c] \in {"new", "done"}
      /\ \A r \in Requests : /\ r \in Threads
                             /\ pc'[r] = IF pc[r] = "new" THEN "new" ELSE "done"
      /\ Main \in Threads /\ pc'[Main] = "down"
  <2>1. \A th \in Threads :
          /\ th = Main => pc'[th] = "down"
          /\ th # Main /\ th \in Workers => pc'[th] = "idle"
          /\ th # Main /\ th \notin Workers => pc'[th] = IF pc[th] = "new" THEN "new" ELSE "done"
    <3> SUFFICES ASSUME NEW th \in Threads
                 PROVE  /\ th = Main => pc'[th] = "down"
                        /\ th # Main /\ th \in Workers => pc'[th] = "idle"
                        /\ th # Main /\ th \notin Workers =>
                              pc'[th] = IF pc[th] = "new" THEN "new" ELSE "done"
      OBVIOUS
    <3>1. pc'[th] = CASE th = Main                    -> "down"
                      [] th \in Workers               -> "idle"
                      [] th # Main /\ pc[th] = "new"  -> "new"
                      [] OTHER                        -> "done"
      BY DEF Crash
    <3>2. th \in Workers => pc[th] # "new"
      BY DEF ThreadOK, WorkerOK, Updating
    <3> QED
      BY <3>1, <3>2
  <2> QED
    BY <2>1 DEF Threads
<1>2. /\ executions' = executions /\ up' = FALSE /\ channel' = <<>> /\ mutex' = NoOne /\ todo' = {}
      /\ on' = [th \in Threads |-> IF th \in Requests THEN th ELSE NoOne]
      /\ write' = [th \in Threads |-> NoWrite] /\ copy' = [th \in Threads |-> NoOne]
      /\ resultsCopy' = [w \in Workers |-> NoOne] /\ outcome' = [w \in Workers |-> "none"]
      /\ UNCHANGED <<results, runs, trouble>> /\ crashes' = crashes + 1
  BY DEF Crash, files
<1>3. \A t \in Threads : pc'[t] \in {"new", "done", "idle", "down"}
  BY <1>1 DEF Threads
<1>4. pc' \in [Threads -> Labels]
  <2>1. DOMAIN pc' = Threads
    BY DEF Crash
  <2>2. \E f : pc' = [t \in Threads |-> f[t]]
    <3>1. pc' = [t \in Threads |-> pc'[t]]
      BY <2>1 DEF Crash
    <3> QED
      BY <3>1
  <2> QED
    BY <1>3, <2>2 DEF Labels
<1>5. reply' \in [Requests -> Requests \union {"none", "conflict", "error", "refused", "lost"}]
  BY DEF Crash, ProgramTypes
<1>6. DOMAIN channel' = {} /\ channel' \in Seq(Requests) /\ Len(channel') <= QueueSize
  BY <1>2
<1>7. up' \in BOOLEAN
  BY <1>2
<1>8. ProgramTypes'
  <2>1. \A t \in Threads : /\ on'[t] \in Requests \union {NoOne} /\ write'[t].to = "none"
                           /\ pc'[t] \notin {"insert", "save"}
    BY <1>2, <1>3 DEF NoWrite
  <2>2. outcome' \in [Workers -> ExecutionStatus \union {"none"}]
    BY <1>2
  <2> QED
    BY <1>2, <1>4, <1>5, <1>6, <1>7, <2>1, <2>2 DEF ProgramTypes, Labels
<1>9. LocalsOK'
  <2>1. NoWrite \in Calls
    BY DEF NoWrite, Calls
  <2> QED
    BY <1>2, <2>1 DEF LocalsOK, trouble
<1>10. /\ \A r \in Requests : on'[r] = r
       /\ \A t \in Threads : t \notin Requests => on'[t] = NoOne
       /\ \A w \in Workers : outcome'[w] = "none"
  BY <1>2 DEF Threads
<1>11. \A t \in Threads : ThreadOK(t)'
  BY <1>1, <1>2, <1>3, <1>10 DEF ThreadOK, RequestOK, CancelOK, WorkerOK, MainOK, Updating, RecoveryBusy
<1>12. \A x \in Requests : ~InHand(x)' /\ ~Named(x)'
  BY <1>1, <1>2, <1>6, <1>10 DEF InHand, Named
<1>13. \A x \in Requests : (InFiles(x)' => InFiles(x)) /\ (Begun(x) => Begun(x)')
  BY <1>1, <1>2, <1>3 DEF InFiles, Begun
<1>14. OneHolder'
  <2>1. \A v \in Workers : on'[v] = NoOne
    BY <1>1, <1>10
  <2> QED
    BY <1>1, <1>2, <1>6, <1>12, <2>1 DEF OneHolder, RecoveryBusy, Recoverable, Updating
<1> QED
  BY <1>8, <1>9, <1>11, <1>12, <1>13, <1>14
-----------------------------------------------------------------------------
LEMMA NextInv == ASSUME Inv, [Next]_vars PROVE Inv'
<1>1. ASSUME NEW r \in Requests, LoadForCreate(r) \/ Creating(r) PROVE Inv'
  <2>1. r \in Threads /\ r \in Requests \union {Main}
    BY DEF Threads
  <2> QED
    BY <1>1, <2>1, LoadForCreateInv, InsertRowInv, MarkQueuedInv, SubmitInv, UpdateStatusInv,
       AnswerInv DEF Creating
<1>2. ASSUME NEW c \in Cancels, (\E x \in Requests : ReadForCancel(c, x)) \/ Canceling(c)
      PROVE  Inv'
  <2>1. c \in Threads
    BY DEF Threads
  <2> QED
    BY <1>2, <2>1, ReadForCancelInv, UpdateStatusInv DEF Canceling
<1>3. ASSUME NEW w \in Workers, Working(w) PROVE Inv'
  <2>1. w \in Threads
    BY DEF Threads
  <2> QED
    BY <1>3, <2>1, TakeInv, ReadExecutionInv, WorkerTransitInv, RunPluginsInv, ResultsInv,
       UpdateStatusInv, HandlerReturnsInv DEF Working
<1>4. CASE Recovering
  <2>1. Main \in Threads /\ Main \in Requests \union {Main}
    BY DEF Threads
  <2> QED
    BY <1>4, <2>1, BootInv, ListIncompleteInv, RecoverNextInv, MarkQueuedInv, SubmitInv,
       UpdateStatusInv DEF Recovering
<1>5. CASE Crash
  BY <1>5, CrashInv
<1>6. CASE UNCHANGED vars
  <2> USE <1>6 DEF vars, files, process, locals, history, trouble
  <2>1. ProgramTypes' /\ LocalsOK'
    BY DEF Inv, ProgramTypes, LocalsOK
  <2>2. \A th \in Threads : ThreadOK(th)'
    BY DEF Inv, ThreadOK, RequestOK, CancelOK, WorkerOK, MainOK, Calling
  <2>3. \A x \in Requests : /\ InFiles(x)' <=> InFiles(x)
                            /\ Named(x)' <=> Named(x)
                            /\ Begun(x)' <=> Begun(x)
    BY DEF InFiles, Named, InHand, Begun
  <2>4. OneHolder'
    BY DEF Inv, OneHolder, InHand
  <2> QED
    BY <2>1, <2>2, <2>3, <2>4 DEF Inv
<1> QED
  BY <1>1, <1>2, <1>3, <1>4, <1>5, <1>6 DEF Next

LEMMA Invariance == Spec => []Inv
<1> QED
  BY InitInv, NextInv, PTL DEF Spec

\* The histories grow by what a save, a failing access or a worker's save of results does.
HistoryStep ==
    /\ UNCHANGED overwritten \/ \E y, rows : SaveFor(y, rows)
    /\ UNCHANGED failed \/ \E th : Fault(th)
    /\ UNCHANGED <<results, dropped>> \/ dropped' = dropped \union (results \ results')

LEMMA ActionHistory ==
  ASSUME Next
  PROVE  HistoryStep /\ (crashes' = crashes \/ crashes' = crashes + 1)
<1> USE DEF HistoryStep, files, history, trouble
<1>1. ASSUME NEW th, UpdateStatus(th)
      PROVE  HistoryStep /\ crashes' = crashes
  BY <1>1 DEF UpdateStatus, FindRow, LoadRows, SaveRows
<1>2. ASSUME NEW th, MarkQueued(th) \/ MarkRunning(th) \/ FinishExecution(th) \/ FailExecution(th)
      PROVE  HistoryStep /\ crashes' = crashes
  BY <1>2 DEF MarkQueued, MarkRunning, FinishExecution, FailExecution, Transit
<1>3. ASSUME NEW r, LoadForCreate(r) \/ Submit(r) \/ Answer(r) \/ InsertRow(r)
      PROVE  HistoryStep /\ crashes' = crashes
  BY <1>3 DEF LoadForCreate, Submit, Answer, InsertRow
<1>4. ASSUME NEW c, NEW x, ReadForCancel(c, x) PROVE HistoryStep /\ crashes' = crashes
  BY <1>4 DEF ReadForCancel
<1>5. ASSUME NEW w, Take(w) \/ ReadExecution(w) \/ RunPlugins(w) \/ LoadResults(w) \/ SaveResults(w)
                    \/ HandlerReturns(w)
      PROVE  HistoryStep /\ crashes' = crashes
  BY <1>5 DEF Take, ReadExecution, RunPlugins, LoadResults, SaveResults, HandlerReturns
<1>6. ASSUME Boot \/ ListIncomplete \/ RecoverNext PROVE HistoryStep /\ crashes' = crashes
  BY <1>6 DEF Boot, ListIncomplete, RecoverNext
<1>7. ASSUME Crash PROVE HistoryStep /\ crashes' = crashes + 1
  BY <1>7 DEF Crash
<1> QED
  BY <1>1, <1>2, <1>3, <1>4, <1>5, <1>6, <1>7
     DEF Next, Creating, Canceling, Working, Recovering

\* The lives that the histories name have begun.
LEMMA HistoryInv ==
  ASSUME Inv, Inv', HistoryTypes, [Next]_vars
  PROVE  HistoryTypes'
<1>1. CASE UNCHANGED vars
  BY <1>1 DEF HistoryTypes, Life, vars, files, trouble
<1>2. CASE Next
  <2>1. HistoryStep /\ crashes' \in Nat /\ crashes \in Nat /\ crashes <= crashes'
    BY <1>2, ActionHistory DEF Inv, LocalsOK
  <2>2. (1..Life) \subseteq (1..Life)' /\ Life \in (1..Life)'
    <3>1. \A m, n \in Nat : m <= n => (1..(m + 1)) \subseteq 1..(n + 1) /\ m + 1 \in 1..(n + 1)
      OBVIOUS
    <3> QED
      BY <2>1, <3>1 DEF Life
  <2>3. overwritten' \in [Requests -> SUBSET (1..Life)']
    BY <2>1, <2>2 DEF HistoryStep, SaveFor, HistoryTypes
  <2>4. failed' \in [Requests -> SUBSET (1..Life)']
    BY <2>1, <2>2 DEF HistoryStep, Fault, HistoryTypes
  <2>5. dropped' \subseteq Requests
    BY <2>1 DEF HistoryStep, HistoryTypes, Inv, ProgramTypes
  <2> QED
    BY <2>3, <2>4, <2>5 DEF HistoryTypes
<1> QED
  BY <1>1, <1>2

\* Threads are only ever where the code can be, the files hold rows of known
\* executions, and the channel holds no more than its capacity (ExecutionQueue.Submit).
THEOREM TypeCorrect == Spec => []TypeOK
<1>1. Init => HistoryTypes
  BY DEF Init, HistoryTypes, Life
<1>2. Inv => ProgramTypes
  BY DEF Inv
<1> QED
  BY <1>1, <1>2, HistoryInv, Invariance, PTL DEF Spec, TypeOK

LEMMA AtMostOne ==
  ASSUME NEW S, \A a, b \in S : a = b
  PROVE  Cardinality(S) = IF S = {} THEN 0 ELSE 1
<1>1. CASE S = {}
  BY <1>1, FS_EmptySet
<1>2. CASE S # {}
  <2>1. PICK a \in S : S = {a}
    BY <1>2
  <2> QED
    BY <1>2, <2>1, FS_Singleton
<1> QED
  BY <1>1, <1>2

\* No execution is handled twice at a time: its id is in the channel once, or with one
\* worker, whatever rows the unlocked updates lose, and whenever the process stops
\* (Submit, WorkerPool and RecoverIncompleteExecutions).
THEOREM HandledByOne == Spec => []OneHandlerPerExecution
<1>1. ASSUME Inv PROVE OneHandlerPerExecution
  <2> SUFFICES ASSUME NEW x \in Requests
               PROVE  Occurrences(x) + Cardinality({w \in Workers : on[w] = x}) <= 1
    BY DEF OneHandlerPerExecution
  <2> DEFINE P == {i \in DOMAIN channel : channel[i] = x}
             W == {w \in Workers : on[w] = x}
  <2>1. \A i, j \in P : i = j
    BY <1>1 DEF Inv, OneHolder
  <2>2. \A v, w \in W : v = w
    BY <1>1, LocalAssumption DEF Inv, OneHolder
  <2>3. P = {} \/ W = {}
    BY <1>1 DEF Inv, OneHolder
  <2>4. Cardinality(P) = IF P = {} THEN 0 ELSE 1
    BY <2>1, AtMostOne
  <2>5. Cardinality(W) = IF W = {} THEN 0 ELSE 1
    BY <2>2, AtMostOne
  <2> HIDE DEF P, W
  <2>6. Cardinality(P) + Cardinality(W) <= 1
    BY <2>3, <2>4, <2>5
  <2> QED
    BY <2>6 DEF P, W, Occurrences
<1> QED
  BY <1>1, Invariance, PTL
=============================================================================
