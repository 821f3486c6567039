---------------------------- MODULE LocalExecution ----------------------------
(***************************************************************************)
(* The local-json path of an execution: ExecutionService and               *)
(* ExecutionWorker over executions.json and a bounded channel, and the     *)
(* recovery that runs when the process starts.  The file has a lock for    *)
(* each load and for each save, none for a load followed by a save, so     *)
(* every thread works on the copy it loaded.  A thread is a create         *)
(* request, a cancel request, a pool goroutine or the main goroutine; a    *)
(* create request stands for the execution id it would insert.             *)
(***************************************************************************)
EXTENDS Naturals, FiniteSets, Sequences, ExecutionState

CONSTANTS
    Requests, Cancels, Workers, Main,  \* the threads
    NoOne,       \* no execution, no thread, nothing loaded
    KeyOf,       \* the idempotency key a request carries, or NoKey
    PayloadOf,   \* the input and plugin hashes of a request
    NoKey,       \* the empty idempotency key
    QueueSize,   \* capacity of the channel
    MaxPlugins,  \* bound: plugins of one execution
    Reported,    \* bound: the result statuses its plugins report
    MaxFaults,   \* bound: failing reads and writes of files
    MaxCrashes   \* bound: stops of the process

ASSUME LocalAssumption ==
    /\ QueueSize \in Nat \ {0} /\ MaxPlugins \in Nat \ {0}
    /\ MaxFaults \in Nat /\ MaxCrashes \in Nat /\ Reported \subseteq PluginResultStatus
    /\ NoKey \notin Requests /\ NoOne \notin Requests
    /\ Requests \intersect Cancels = {} /\ (Requests \union Cancels) \intersect Workers = {}
    /\ Main \notin Requests \union Cancels \union Workers
    /\ Requests \intersect {"none", "conflict", "error", "refused", "lost"} = {}

VARIABLES
    executions,   \* executions.json: the status of an execution, or "Absent"
    results,      \* execution_results.json: executions that have results
    channel,      \* ExecutionQueue.ch
    up,           \* the process runs
    mutex,        \* who holds ExecutionRepository.mu
    pc, on,       \* where a thread is, and the execution it works on
    write,        \* the UpdateStatus call a thread is in
    copy,         \* the executions a thread has loaded to change
    resultsCopy,  \* the results a worker has loaded to change
    outcome,      \* the aggregated status of a worker's run
    todo,         \* what recovery has not dealt with, also once it has ended
    reply,        \* what CreateExecution answered
    runs,         \* how often the plugins of an execution were started
    faults, crashes,
    overwritten,  \* history: the lives of the process in which saving the row of
                  \* another execution changed the row of this one
    failed,       \* history: the lives in which a file access for this one failed
    dropped       \* history: executions whose results another worker's save removed

files == <<executions, overwritten, results, dropped>>
process == <<channel, up, mutex, todo>>
locals == <<on, write, copy, resultsCopy, outcome>>
history == <<reply, runs>>
trouble == <<faults, failed>>
vars == <<files, process, pc, locals, history, trouble, crashes>>

Threads == Requests \union Cancels \union Workers \union {Main}
NoWrite == [to |-> "none", next |-> "none", fail |-> "none"]

\* A life of the process lasts from one start to the next.
Life == crashes + 1

Goto(th, label) == pc' = [pc EXCEPT ![th] = label]

\* A file cannot be read or written.
Fault(th) ==
    /\ faults < MaxFaults
    /\ faults' = faults + 1
    /\ failed' = [x \in Requests |-> IF x = on[th] THEN failed[x] \union {Life} ELSE failed[x]]

\* executions.json is written for the row of x.
SaveFor(x, rows) ==
    /\ executions' = rows
    /\ overwritten' = [y \in Requests |-> IF y # x /\ rows[y] # executions[y]
                                         THEN overwritten[y] \union {Life}
                                         ELSE overwritten[y]]

\* Mutant: requests are served while recovery is still at work.
Serving_Early == up

Serving == up /\ pc[Main] = "serving"
-----------------------------------------------------------------------------
\* ExecutionRepository.UpdateStatus, called as `Call` and returning to `next`, or
\* to `fail` with an error: GetByID, the load of Update, its save.  Only the
\* status is kept of a row.
Call(th, to, next, fail) ==
    /\ Goto(th, "exists")
    /\ write' = [write EXCEPT ![th] = [to |-> to, next |-> next, fail |-> fail]]

Return(th, label) ==
    /\ Goto(th, label)
    /\ write' = [write EXCEPT ![th] = NoWrite]
    /\ copy' = [copy EXCEPT ![th] = NoOne]

\* A missing row is no error: the call returns nil and nothing is written.
FindRow(th) ==
    /\ pc[th] = "exists"
    /\ \/ /\ executions[on[th]] # "Absent"
          /\ Goto(th, "load")
          /\ UNCHANGED <<write, copy, trouble>>
       \/ executions[on[th]] = "Absent" /\ Return(th, write[th].next) /\ UNCHANGED trouble
       \/ Fault(th) /\ Return(th, write[th].fail)
    /\ UNCHANGED <<files, process, on, resultsCopy, outcome, history, crashes>>

LoadRows(th) ==
    /\ pc[th] = "load"
    /\ \/ /\ copy' = [copy EXCEPT ![th] = executions]
          /\ Goto(th, "save")
          /\ UNCHANGED <<write, trouble>>
       \/ Fault(th) /\ Return(th, write[th].fail)
    /\ UNCHANGED <<files, process, on, resultsCopy, outcome, history, crashes>>

\* The file becomes what was loaded, with this one row changed (or appended).
SaveRows(th) ==
    /\ pc[th] = "save"
    /\ \/ /\ SaveFor(on[th], [copy[th] EXCEPT ![on[th]] = write[th].to])
          /\ Return(th, write[th].next)
          /\ UNCHANGED trouble
       \/ Fault(th) /\ Return(th, write[th].fail) /\ UNCHANGED <<executions, overwritten>>
    /\ UNCHANGED <<results, dropped, process, on, resultsCopy, outcome, history, crashes>>

UpdateStatus(th) == FindRow(th) \/ LoadRows(th) \/ SaveRows(th)

\* ValidateTransition on the status as it is read now, then UpdateStatus
Transit(th, to, next, fail) ==
    /\ \/ CanTransit(executions[on[th]], to) /\ Call(th, to, next, fail) /\ UNCHANGED trouble
       \/ ~CanTransit(executions[on[th]], to) /\ Goto(th, fail) /\ UNCHANGED <<write, trouble>>
       \/ Fault(th) /\ Goto(th, fail) /\ UNCHANGED write
    /\ UNCHANGED <<files, process, on, copy, resultsCopy, outcome, history, crashes>>
-----------------------------------------------------------------------------
\* CreateExecution.  The HTTP server starts after recovery.

Existing(r) ==
    {e \in Requests : KeyOf[r] # NoKey /\ KeyOf[e] = KeyOf[r] /\ executions[e] # "Absent"}

\* CreateWithIdempotency holds mu from the load to the save.
LoadForCreate(r) ==
    /\ Serving /\ pc[r] = "new" /\ mutex = NoOne
    /\ \/ /\ Existing(r) = {}
          /\ mutex' = r
          /\ copy' = [copy EXCEPT ![r] = executions]
          /\ Goto(r, "insert")
          /\ UNCHANGED <<reply, trouble>>
       \/ \E e \in Existing(r) :
             /\ reply' = [reply EXCEPT ![r] = IF PayloadOf[e] = PayloadOf[r]
                                              THEN e ELSE "conflict"]
             /\ Goto(r, "done")
             /\ UNCHANGED <<mutex, copy, trouble>>
       \/ Fault(r) /\ Goto(r, "error") /\ UNCHANGED <<mutex, copy, reply>>
    /\ UNCHANGED <<files, channel, up, todo, on, write, resultsCopy, outcome, runs, crashes>>

InsertRow(r) ==
    /\ pc[r] = "insert"
    /\ mutex' = NoOne
    /\ \/ /\ SaveFor(r, [copy[r] EXCEPT ![r] = "Pending"])
          /\ Return(r, "mark")
          /\ UNCHANGED trouble
       \/ Fault(r) /\ Return(r, "error") /\ UNCHANGED <<executions, overwritten>>
    /\ UNCHANGED <<results, dropped, channel, up, todo, on, resultsCopy, outcome, history, crashes>>

\* Mutant: the id is published before the row is marked.
MarkQueued_PublishFirst(th) ==
    /\ pc[th] = "mark"
    /\ CanTransit(executions[on[th]], "Queued")
    /\ Len(channel) < QueueSize
    /\ channel' = Append(channel, on[th])
    /\ Call(th, "Queued", "answer", "error")
    /\ UNCHANGED <<files, up, mutex, todo, on, copy, resultsCopy, outcome, history, trouble, crashes>>

\* MarkQueued, called by CreateExecution and by recovery.  A failing audit record
\* ends a create here as well.
MarkQueued(th) ==
    /\ pc[th] = "mark"
    /\ Transit(th, "Queued", "submit", IF th = Main THEN "serving" ELSE "error")

\* Mutants: the channel has no bound; a refused execution stays Queued.
Submit_NoBound(th) ==
    /\ pc[th] = "submit"
    /\ channel' = Append(channel, on[th])
    /\ Goto(th, IF th = Main THEN "recover" ELSE "answer")
    /\ UNCHANGED <<files, up, mutex, todo, locals, history, trouble, crashes>>
Submit_StaysQueued(th) ==
    /\ pc[th] = "submit"
    /\ \/ /\ Len(channel) < QueueSize
          /\ channel' = Append(channel, on[th])
          /\ Goto(th, IF th = Main THEN "recover" ELSE "answer")
       \/ /\ th # Main
          /\ Goto(th, "refused")
          /\ UNCHANGED channel
    /\ UNCHANGED <<files, up, mutex, todo, locals, history, trouble, crashes>>

\* ExecutionQueue.Submit does not wait.  The context of a create is its HTTP
\* request's, which is done when the client has gone; recovery's is never done.
Submit(th) ==
    /\ pc[th] = "submit"
    /\ \/ /\ Len(channel) < QueueSize
          /\ channel' = Append(channel, on[th])
          /\ Goto(th, IF th = Main THEN "recover" ELSE "answer")
          /\ UNCHANGED write
       \/ /\ th = Main /\ Len(channel) = QueueSize
          /\ Goto(th, "serving")
          /\ UNCHANGED <<channel, write>>
       \/ /\ th # Main
          /\ Call(th, "Failed", "refused", "refused")
          /\ UNCHANGED channel
    /\ UNCHANGED <<files, up, mutex, todo, on, copy, resultsCopy, outcome, history, trouble, crashes>>

\* The final GetExecution, or the error CreateExecution returns
Answer(r) ==
    /\ pc[r] \in {"answer", "error", "refused"}
    /\ \/ /\ reply' = [reply EXCEPT ![r] = CASE pc[r] = "refused" -> "refused"
                                             [] pc[r] = "answer" /\ executions[r] # "Absent" -> r
                                             [] OTHER -> "error"]
          /\ UNCHANGED trouble
       \/ pc[r] = "answer" /\ Fault(r) /\ reply' = [reply EXCEPT ![r] = "error"]
    /\ Goto(r, "done")
    /\ UNCHANGED <<files, process, locals, runs, crashes>>

\* CancelExecution checks the status it reads and then writes without comparing.
ReadForCancel(c, x) ==
    /\ Serving /\ pc[c] = "new"
    /\ CanCancel(executions[x])
    /\ on' = [on EXCEPT ![c] = x]
    /\ Call(c, "Canceled", "done", "done")
    /\ UNCHANGED <<files, process, copy, resultsCopy, outcome, history, trouble, crashes>>
-----------------------------------------------------------------------------
\* A goroutine of WorkerPool: HandleExecution and runExecutionSafely.
Take(w) ==
    /\ up /\ pc[w] = "idle" /\ channel # <<>>
    /\ on' = [on EXCEPT ![w] = Head(channel)]
    /\ channel' = Tail(channel)
    /\ Goto(w, "read")
    /\ UNCHANGED <<files, up, mutex, todo, write, copy, resultsCopy, outcome, history, trouble, crashes>>

ReadExecution(w) ==
    /\ pc[w] = "read"
    /\ \/ /\ Goto(w, CASE executions[on[w]] = "Absent"   -> "fail"
                       [] executions[on[w]] = "Canceled" -> "return"
                       [] OTHER                          -> "start")
          /\ UNCHANGED trouble
       \/ Fault(w) /\ Goto(w, "fail")
    /\ UNCHANGED <<files, process, locals, history, crashes>>

MarkRunning(w) == pc[w] = "start" /\ Transit(w, "Running", "run", "fail")

\* The plugins are looked up and run; a failing lookup is an error, and a panic ends
\* like one.
RunPlugins(w) ==
    /\ pc[w] = "run"
    /\ \/ /\ Goto(w, "fail")
          /\ \E started \in 0..1 : runs' = [runs EXCEPT ![on[w]] = @ + started]
          /\ UNCHANGED outcome
       \/ /\ runs' = [runs EXCEPT ![on[w]] = @ + 1]
          /\ \E n \in 1..MaxPlugins : \E rs \in [1..n -> Reported] :
                outcome' = [outcome EXCEPT ![w] = AggregateExecutionStatus(rs)]
          /\ Goto(w, "loadResults")
    /\ UNCHANGED <<files, process, on, write, copy, resultsCopy, reply, trouble, crashes>>

\* Mutant: an error of BatchSaveResults is dropped.
LoadResults_IgnoresError(w) ==
    /\ pc[w] = "loadResults"
    /\ \/ /\ resultsCopy' = [resultsCopy EXCEPT ![w] = results]
          /\ Goto(w, "saveResults")
          /\ UNCHANGED trouble
       \/ Fault(w) /\ Goto(w, "finish") /\ UNCHANGED resultsCopy
    /\ UNCHANGED <<files, process, on, write, copy, outcome, history, crashes>>

\* BatchSaveResults
LoadResults(w) ==
    /\ pc[w] = "loadResults"
    /\ \/ /\ resultsCopy' = [resultsCopy EXCEPT ![w] = results]
          /\ Goto(w, "saveResults")
          /\ UNCHANGED trouble
       \/ Fault(w) /\ Goto(w, "fail") /\ UNCHANGED resultsCopy
    /\ UNCHANGED <<files, process, on, write, copy, outcome, history, crashes>>

SaveResults(w) ==
    /\ pc[w] = "saveResults"
    /\ resultsCopy' = [resultsCopy EXCEPT ![w] = NoOne]
    /\ \/ /\ results' = resultsCopy[w] \union {on[w]}
          /\ dropped' = dropped \union (results \ results')
          /\ Goto(w, "finish")
          /\ UNCHANGED trouble
       \/ Fault(w) /\ Goto(w, "fail") /\ UNCHANGED <<results, dropped>>
    /\ UNCHANGED <<executions, overwritten, process, on, write, copy, outcome, history, crashes>>

FinishExecution(w) == pc[w] = "finish" /\ Transit(w, outcome[w], "return", "fail")
FailExecution(w) == pc[w] = "fail" /\ Transit(w, "Failed", "return", "return")

HandlerReturns(w) ==
    /\ pc[w] = "return"
    /\ Goto(w, "idle")
    /\ on' = [on EXCEPT ![w] = NoOne]
    /\ outcome' = [outcome EXCEPT ![w] = "none"]
    /\ UNCHANGED <<files, process, write, copy, resultsCopy, history, trouble, crashes>>
-----------------------------------------------------------------------------
\* The process starts; the pool runs before RecoverIncompleteExecutions does.
Boot ==
    /\ ~up
    /\ up' = TRUE
    /\ Goto(Main, "list")
    /\ UNCHANGED <<files, channel, mutex, todo, locals, history, trouble, crashes>>

\* Mutants: a status is left out of the list.
Incomplete_NoQueued == {x \in Requests : executions[x] \in {"Pending", "Running"}}
Incomplete_NoRunning == {x \in Requests : executions[x] \in {"Pending", "Queued"}}
Incomplete == {x \in Requests : executions[x] \in {"Pending", "Queued", "Running"}}

\* When the file cannot be read the server starts without recovery.
ListIncomplete ==
    /\ pc[Main] = "list"
    /\ todo' = {[id |-> x, status |-> executions[x]] : x \in Incomplete}
    /\ \/ Goto(Main, "recover") /\ UNCHANGED trouble
       \/ Fault(Main) /\ Goto(Main, "serving")
    /\ UNCHANGED <<files, channel, up, mutex, locals, history, crashes>>

\* Mutant: Running items are queued again.
RecoverNext_RunsAgain ==
    /\ pc[Main] = "recover"
    /\ \/ /\ todo = {}
          /\ Goto(Main, "serving")
          /\ on' = [on EXCEPT ![Main] = NoOne]
          /\ UNCHANGED <<todo, write>>
       \/ \E item \in todo :
             /\ todo' = todo \ {item}
             /\ on' = [on EXCEPT ![Main] = item.id]
             /\ \/ item.status = "Pending" /\ Goto(Main, "mark") /\ UNCHANGED write
                \/ item.status = "Queued" /\ Goto(Main, "submit") /\ UNCHANGED write
                \/ item.status = "Running" /\ Call(Main, "Queued", "submit", "recover")
    /\ UNCHANGED <<files, channel, up, mutex, copy, resultsCopy, outcome, history, trouble, crashes>>

\* Each item (here in any order) by the status the list gave it; an error of MarkQueued or
\* Submit ends the recovery, and the server starts all the same.  on[Main] stays at the
\* item that ended it.
RecoverNext ==
    /\ pc[Main] = "recover"
    /\ \/ /\ todo = {}
          /\ Goto(Main, "serving")
          /\ on' = [on EXCEPT ![Main] = NoOne]
          /\ UNCHANGED <<todo, write>>
       \/ \E item \in todo :
             /\ todo' = todo \ {item}
             /\ on' = [on EXCEPT ![Main] = item.id]
             /\ \/ item.status = "Pending" /\ Goto(Main, "mark") /\ UNCHANGED write
                \/ item.status = "Queued" /\ Goto(Main, "submit") /\ UNCHANGED write
                \/ item.status = "Running" /\ Call(Main, "Failed", "recover", "recover")
    /\ UNCHANGED <<files, channel, up, mutex, copy, resultsCopy, outcome, history, trouble, crashes>>

\* The process dies, or is stopped: the channel and every thread are gone, a file
\* is as its last rename left it.
Crash ==
    /\ up /\ crashes < MaxCrashes
    /\ crashes' = crashes + 1
    /\ up' = FALSE
    /\ channel' = <<>> /\ mutex' = NoOne /\ todo' = {}
    /\ pc' = [th \in Threads |->
                CASE th = Main                    -> "down"
                  [] th \in Workers               -> "idle"
                  [] th # Main /\ pc[th] = "new"  -> "new"
                  [] OTHER                        -> "done"]
    /\ on' = [th \in Threads |-> IF th \in Requests THEN th ELSE NoOne]
    /\ write' = [th \in Threads |-> NoWrite]
    /\ copy' = [th \in Threads |-> NoOne]
    /\ resultsCopy' = [w \in Workers |-> NoOne]
    /\ outcome' = [w \in Workers |-> "none"]
    /\ reply' = [r \in Requests |->
                   IF pc[r] \in {"new", "done"} THEN reply[r] ELSE "lost"]
    /\ UNCHANGED <<files, runs, trouble>>
-----------------------------------------------------------------------------
Init ==
    /\ executions = [x \in Requests |-> "Absent"]
    /\ results = {}
    /\ channel = <<>>
    /\ up = FALSE
    /\ mutex = NoOne
    /\ pc = [th \in Threads |-> CASE th = Main      -> "down"
                                  [] th \in Workers -> "idle"
                                  [] OTHER          -> "new"]
    /\ on = [th \in Threads |-> IF th \in Requests THEN th ELSE NoOne]
    /\ write = [th \in Threads |-> NoWrite]
    /\ copy = [th \in Threads |-> NoOne]
    /\ resultsCopy = [w \in Workers |-> NoOne]
    /\ outcome = [w \in Workers |-> "none"]
    /\ todo = {}
    /\ reply = [r \in Requests |-> "none"]
    /\ runs = [x \in Requests |-> 0]
    /\ faults = 0 /\ crashes = 0
    /\ overwritten = [x \in Requests |-> {}] /\ failed = [x \in Requests |-> {}]
    /\ dropped = {}

\* The steps of a thread once it has begun
Creating(r) == InsertRow(r) \/ MarkQueued(r) \/ Submit(r) \/ UpdateStatus(r) \/ Answer(r)
Canceling(c) == UpdateStatus(c)
Working(w) ==
    \/ Take(w) \/ ReadExecution(w) \/ MarkRunning(w) \/ RunPlugins(w) \/ LoadResults(w)
    \/ SaveResults(w) \/ FinishExecution(w) \/ FailExecution(w) \/ UpdateStatus(w)
    \/ HandlerReturns(w)
Recovering ==
    \/ Boot \/ ListIncomplete \/ RecoverNext
    \/ MarkQueued(Main) \/ Submit(Main) \/ UpdateStatus(Main)

Next ==
    \/ \E r \in Requests : LoadForCreate(r) \/ Creating(r)
    \/ \E c \in Cancels : (\E x \in Requests : ReadForCancel(c, x)) \/ Canceling(c)
    \/ \E w \in Workers : Working(w)
    \/ Recovering
    \/ Crash

Spec == Init /\ [][Next]_vars

\* Goroutines that can go on do, plugins run under a timeout, and the process is
\* started again.  Nobody has to send a request.
Fairness ==
    /\ \A r \in Requests : WF_vars(Creating(r))
    /\ \A c \in Cancels : WF_vars(Canceling(c))
    /\ \A w \in Workers : WF_vars(Working(w))
    /\ WF_vars(Recovering)

FairSpec == Spec /\ Fairness
-----------------------------------------------------------------------------
Rows == [Requests -> ExecutionStatus \union {"Absent"}]

ProgramTypes ==
    /\ executions \in Rows /\ results \subseteq Requests
    /\ channel \in Seq(Requests) /\ Len(channel) <= QueueSize
    /\ up \in BOOLEAN /\ mutex \in Requests \union {NoOne}
    /\ todo \subseteq [id : Requests, status : {"Pending", "Queued", "Running"}]
    /\ pc \in [Threads ->
          {"new", "done", "idle", "down", "serving", "list", "recover", "insert", "mark",
           "submit", "answer", "error", "refused", "read", "start", "run", "loadResults",
           "saveResults", "finish", "fail", "return", "exists", "load", "save"}]
    /\ \A th \in Threads :
          /\ on[th] \in Requests \union {NoOne}
          /\ write[th].to \in ExecutionStatus \union {"none"}
          /\ pc[th] \in {"save", "insert"} => copy[th] \in Rows
    /\ outcome \in [Workers -> ExecutionStatus \union {"none"}]
    /\ reply \in [Requests -> Requests \union {"none", "conflict", "error", "refused", "lost"}]
    /\ runs \in [Requests -> Nat]

HistoryTypes ==
    /\ overwritten \in [Requests -> SUBSET (1..Life)]
    /\ failed \in [Requests -> SUBSET (1..Life)]
    /\ dropped \subseteq Requests

TypeOK == ProgramTypes /\ HistoryTypes

Occurrences(x) == Cardinality({i \in DOMAIN channel : channel[i] = x})
Attended(x) ==
    \/ \E w \in Workers : on[w] = x
    \/ pc[x] \notin {"new", "done"}

Unfinished(x) == executions[x] # "Absent" /\ ~IsFinal(executions[x])

\* Recovery ended without dealing with it: the channel was full, or a file access failed.
LeftOut(x) == pc[Main] = "serving" /\ (on[Main] = x \/ \E item \in todo : item.id = x)

\* What can keep an execution from being handled until the process is started again
SetBack(x) == Life \in overwritten[x] \union failed[x] \/ LeftOut(x)

\* An id is never in the channel twice, nor in the channel while a worker has it,
\* nor with two workers: Submit is called once per create, and recovery has
\* listed the file before a create can add to it.  Holds whatever rows the
\* unlocked updates lose.
OneHandlerPerExecution ==
    \A x \in Requests : Occurrences(x) + Cardinality({w \in Workers : on[w] = x}) <= 1

\* While the server serves, work that the file shows as unfinished is in memory
\* too: in the channel, with a worker, or with the request that creates it.  If it
\* is not, this very life of the process has set it back: a lost update, an error
\* of a file, or the end of recovery.  So a start undoes whatever an earlier life lost.
UnfinishedIsScheduled ==
    \A x \in Requests :
        Serving /\ Unfinished(x) => Occurrences(x) > 0 \/ Attended(x) \/ SetBack(x)

\* Plugins of an execution are started once, over all restarts and failing file
\* accesses: it is Running in the file before they start, and a Running row is never
\* put back.  Only updates of other executions can put it back; each life of the process
\* in which they changed its row allows one more run, and never one in that same life.
PluginsRunAtMostOnce ==
    \A x \in Requests : runs[x] <= 1 + Cardinality(overwritten[x] \ {Life})

\* A caller who was told that the queue is full may ask again: what was refused is
\* not run in this life of the process, whatever is lost, nor after a restart that
\* finds its row, unless an earlier life could not write its Failed or lost it.
RefusedIsNotRun ==
    \A x \in Requests :
        reply[x] = "refused" /\ runs[x] > 0 => \E l \in overwritten[x] \union failed[x] : l < Life

\* Results are stored before the status says that a run ended well.  They are gone
\* only when another worker saved results it had loaded before.
DecidedRunHasResults ==
    \A x \in Requests :
        executions[x] \in {"Success", "PartialSuccess", "Timeout"} => x \in results \union dropped

\* The outcome of a run, or of a recovery, is not undone by a late writer: only a
\* cancel that was checked earlier can replace it, in a life of the process in which
\* updates of other executions leave the row alone.
OutcomeIsNotReopened ==
    [][\A x \in Requests :
          executions[x] \in {"Success", "PartialSuccess", "Timeout", "Failed"}
              => executions'[x] \in {executions[x], "Canceled"} \/ Life \in overwritten'[x]]_vars

\* Whatever is accepted is decided, crashes included: by the life of the process that
\* accepted it, or by the first later one that does not set it back.
AcceptedIsDecided ==
    \A x \in Requests : Unfinished(x) ~> IsFinal(executions[x]) \/ SetBack(x)

\* One idempotency key, one execution: mu makes the lookup and the insert one step.
\* Only when an unlocked update drops the row can the key get a second execution.
RetriesShareOneExecution ==
    \A r, s \in Requests :
        /\ reply[r] \in Requests /\ reply[s] \in Requests
        /\ KeyOf[r] = KeyOf[s] /\ KeyOf[r] # NoKey
        => \/ reply[r] = reply[s] /\ PayloadOf[r] = PayloadOf[s]
           \/ overwritten[reply[r]] \union overwritten[reply[s]] # {}
-----------------------------------------------------------------------------
\* What the documents say and this code does not do.

\* "Running tasks cannot be safely resumed" (execution.go:208): fails when an update of
\* another execution puts the row back to Queued before a restart.
NeverRunAgain == \A x \in Requests : runs[x] <= 1

\* A retry gets the execution its key has (execution_idempotency_test.go): fails when an
\* update of another execution drops the row.
KeyKeepsExecution ==
    \A r, s \in Requests :
        reply[r] \in Requests /\ reply[s] \in Requests /\ KeyOf[r] = KeyOf[s] /\ KeyOf[r] # NoKey
            => reply[r] = reply[s]

\* "final state must not rerun" (execution_state_test.go)
FinalStateNeverReruns ==
    [][\A x \in Requests : IsFinal(executions[x]) => executions'[x] # "Running"]_vars

\* "On startup, persisted Pending and Queued executions are re-submitted to the
\* queue" (docs/ops.md): when recovery ends each is in the channel or with a worker.
RestartResubmits ==
    [][pc[Main] # "serving" /\ pc'[Main] = "serving" =>
          \A x \in Requests :
             executions[x] \in {"Pending", "Queued"} => Occurrences(x)' > 0 \/ Attended(x)']_vars
=============================================================================
