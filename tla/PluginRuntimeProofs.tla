-------------------------- MODULE PluginRuntimeProofs --------------------------
(***************************************************************************)
(* Proofs about PluginRuntime for any set of manifests, any limits of the  *)
(* host, any amount of output and any number of changes of the plugin's    *)
(* files.                                                                  *)
(***************************************************************************)
EXTENDS PluginRuntime, TLAPS

\* Every chunk printed is in the pipe or in the buffer, unless the buffer was full.
StreamOK(s) ==
    /\ written[s] \in Nat /\ pipe[s] \in Nat /\ out[s] \in Nat
    /\ written[s] <= MaxWritten /\ out[s] <= MaxOutput
    /\ out[s] + pipe[s] <= written[s]
    /\ exceeded[s] => written[s] > MaxOutput
    /\ ~exceeded[s] => out[s] + pipe[s] = written[s]

StreamsOK ==
    /\ DOMAIN written = Streams /\ DOMAIN pipe = Streams
    /\ DOMAIN out = Streams /\ DOMAIN exceeded = Streams
    /\ \A s \in Streams : StreamOK(s)

ScalarsOK ==
    /\ manifest \in Manifests /\ content \in {"original", "changed", "missing", "gone"}
    /\ pc \in {"directory", "refused", "registered", "prepare", "policy", "start", "wait", "ran", "done"}
    /\ proc \in {"none", "running", "exited", "killed"} /\ code \in {-1, 0, 1}

\* A process is killed for its context only; the one that was awaited has left
\* nothing in its pipes, and cmd.Run has told what became of it.
ProcessOK ==
    /\ pc \in {"directory", "refused", "registered", "prepare", "policy", "start"} => proc = "none"
    /\ pc = "wait" => proc # "none"
    /\ pc \in {"ran", "done"} => proc # "running"
    /\ proc = "killed" => code = -1 /\ (expired \/ canceled)
    /\ pc \in {"ran", "done"} /\ proc # "none" =>
          /\ \A s \in Streams : pipe[s] = 0
          /\ proc = "killed" \/ code # 0 => runErr
          /\ runErr => proc = "killed" \/ code # 0 \/ expired \/ canceled

\* The result is what Classify saw, and nothing that it saw has changed since.
ResultOK ==
    /\ pc = "done" <=> result # Nothing
    /\ Ran => result.status = Status

\* The invariant of a run
RunInv == ScalarsOK /\ StreamsOK /\ ProcessOK /\ ResultOK

\* The record a worker has is the accepted manifest's.
AcceptedAs(m) ==
    /\ ValidateManifest(m)
    /\ m.checksum \notin {Unset, "placeholder"} => loaded = m.checksum

\* The record once its secrets are resolved
Prepared(p, m) ==
    /\ p.entryType = EffectiveEntryType(m)
    /\ p.networkPolicy = m.network /\ p.limits = m.limits
    /\ p.timeoutSeconds = EffectiveTimeoutSeconds(m)
    /\ p.env = IF m.secretRef = Unset THEN Unset ELSE "secret"

\* The invariant of what is started, for the store that keeps the whole record
DeclaredInv ==
    /\ manifest \in Manifests
    /\ pc = "directory" => started = Nothing
    /\ pc \notin {"directory", "refused"} => AcceptedAs(manifest)
    /\ pc \in {"registered", "prepare"} => plugin = BuildPluginFromManifest(manifest)
    /\ pc = "policy" => Prepared(plugin, manifest)
    /\ RunsAsDeclared
-----------------------------------------------------------------------------
LEMMA InitRun == Init => RunInv
  BY RuntimeAssumption DEF Init, RunInv, ScalarsOK, StreamsOK, StreamOK, ProcessOK, ResultOK,
     Streams, Nothing, Ran

\* The classification of a run never reads as no result.
LEMMA StatusIsSome == Status # "none"
  BY DEF Status, Meaning

\* A step of the worker, of the plugin, or of the context that leaves the output and
\* the result alone, and does not take part in a run that has ended.
LEMMA OtherStep ==
  ASSUME RunInv, ScalarsOK', ProcessOK', UNCHANGED <<written, pipe, out, exceeded, result>>,
         pc # "done", pc' # "done"
  PROVE  RunInv'
<1>1. StreamsOK'
  BY DEF RunInv, StreamsOK, StreamOK
<1>2. ResultOK'
  BY DEF RunInv, ResultOK, Ran
<1> QED
  BY <1>1, <1>2 DEF RunInv

\* A run that is refused before anything is started
LEMMA DeniedStep ==
  ASSUME RunInv, pc \in {"prepare", "policy"}, Denied,
         UNCHANGED <<registered, process, output, context, runErr>>
  PROVE  RunInv'
<1> USE DEF RunInv, Denied, registered, process, output, context
<1>1. ScalarsOK' /\ ProcessOK'
  BY DEF ScalarsOK, ProcessOK
<1>2. StreamsOK'
  BY DEF StreamsOK, StreamOK
<1>3. result'.status = "RuntimeError" /\ proc' = "none"
  BY DEF ProcessOK
<1>4. ResultOK'
  BY <1>3 DEF ResultOK, Ran, Nothing
<1> QED
  BY <1>1, <1>2, <1>4

LEMMA WorkerRun == ASSUME RunInv, Worker PROVE RunInv'
<1> USE DEF registered, process, output, context
<1>1. CASE LoadManifest
  <2>1. ScalarsOK' /\ ProcessOK'
    BY <1>1 DEF RunInv, LoadManifest, ScalarsOK, ProcessOK
  <2> QED
    BY <1>1, <2>1, OtherStep DEF LoadManifest
<1>2. CASE ReadPlugin
  <2>1. ScalarsOK' /\ ProcessOK'
    BY <1>2 DEF RunInv, ReadPlugin, ScalarsOK, ProcessOK
  <2> QED
    BY <1>2, <2>1, OtherStep DEF ReadPlugin
<1>3. CASE preparePluginForRuntime
  <2>1. CASE Denied
    BY <1>3, <2>1, DeniedStep DEF preparePluginForRuntime
  <2>2. CASE pc' = "policy" /\ UNCHANGED result
    <3>1. ScalarsOK' /\ ProcessOK'
      BY <1>3, <2>2 DEF RunInv, preparePluginForRuntime, ScalarsOK, ProcessOK
    <3> QED
      BY <1>3, <2>2, <3>1, OtherStep DEF preparePluginForRuntime
  <2> QED
    BY <1>3, <2>1, <2>2 DEF preparePluginForRuntime
<1>4. CASE CheckPolicy
  <2>1. CASE Denied
    BY <1>4, <2>1, DeniedStep DEF CheckPolicy
  <2>2. CASE pc' = "start" /\ UNCHANGED result
    <3>1. ScalarsOK' /\ ProcessOK'
      BY <1>4, <2>2 DEF RunInv, CheckPolicy, ScalarsOK, ProcessOK
    <3> QED
      BY <1>4, <2>2, <3>1, OtherStep DEF CheckPolicy
  <2> QED
    BY <1>4, <2>1, <2>2 DEF CheckPolicy
<1>5. CASE Start
  <2>1. ScalarsOK' /\ ProcessOK'
    BY <1>5 DEF RunInv, Start, ScalarsOK, ProcessOK
  <2> QED
    BY <1>5, <2>1, OtherStep DEF Start
<1>6. CASE Wait
  <2>1. /\ proc = "killed" \/ code # 0 => runErr'
        /\ runErr' => proc = "killed" \/ code # 0 \/ expired \/ canceled
    BY <1>6 DEF Wait
  <2>2. ScalarsOK' /\ ProcessOK'
    BY <1>6, <2>1 DEF RunInv, Wait, ScalarsOK, ProcessOK
  <2> QED
    BY <1>6, <2>2, OtherStep DEF Wait
<1>7. CASE Classify
  <2>1. ScalarsOK' /\ ProcessOK' /\ StreamsOK'
    BY <1>7 DEF RunInv, Classify, ScalarsOK, ProcessOK, StreamsOK, StreamOK
  <2>2. result'.status = Status
    BY <1>7 DEF Classify
  <2>3. Status' = Status
    BY <1>7 DEF Classify, Status, Parsed, TooMuch
  <2>4. ResultOK'
    BY <1>7, <2>2, <2>3, StatusIsSome DEF Classify, ResultOK, Ran, Nothing
  <2> QED
    BY <2>1, <2>4 DEF RunInv
<1> QED
  BY <1>1, <1>2, <1>3, <1>4, <1>5, <1>6, <1>7 DEF Worker
-----------------------------------------------------------------------------
\* Neither the plugin's files nor what outlives the process tell in a result.
LEMMA OutsideStep ==
  ASSUME RunInv, content' \in {"original", "changed", "missing", "gone"},
         UNCHANGED <<manifest, pc, proc, code, output, context, runErr, result>>
  PROVE  RunInv'
<1> USE DEF RunInv, output, context
<1>1. ScalarsOK' /\ StreamsOK' /\ ProcessOK'
  BY DEF ScalarsOK, StreamsOK, StreamOK, ProcessOK
<1>2. Status' = Status
  BY DEF Status, Parsed, TooMuch
<1>3. ResultOK'
  BY <1>2 DEF ResultOK, Ran
<1> QED
  BY <1>1, <1>3

LEMMA OutsideRun ==
  ASSUME RunInv, ChangeFiles \/ DescendantExits \/ ContainerExits PROVE RunInv'
<1>1. content' \in {"original", "changed", "missing", "gone"}
  BY DEF RunInv, ScalarsOK, ChangeFiles, DescendantExits, ContainerExits, registered
<1> QED
  BY <1>1, OutsideStep DEF ChangeFiles, DescendantExits, ContainerExits, registered, process

\* The deadline passes, the context is canceled, the process is killed, or it ends.
LEMMA ContextRun ==
  ASSUME RunInv, DeadlinePasses \/ CancelContext \/ Kill \/ Fork \/ Exit PROVE RunInv'
<1> USE DEF registered, process, output, context
<1>1. /\ UNCHANGED <<written, pipe, out, exceeded, result>>
      /\ pc # "done" /\ pc' # "done"
  BY DEF DeadlinePasses, CancelContext, Kill, Fork, Exit
<1>2. ScalarsOK'
  BY DEF RunInv, ScalarsOK, DeadlinePasses, CancelContext, Kill, Fork, Exit
<1>3. CASE DeadlinePasses \/ CancelContext
  BY <1>1, <1>2, <1>3, OtherStep DEF RunInv, ProcessOK, DeadlinePasses, CancelContext
<1>4. CASE Kill \/ Fork \/ Exit
  BY <1>1, <1>2, <1>4, OtherStep DEF RunInv, ProcessOK, Kill, Fork, Exit
<1> QED
  BY <1>3, <1>4

\* What is printed is in the pipe.
LEMMA OutputRun == ASSUME RunInv, NEW s \in Streams, Output(s) PROVE RunInv'
<1> USE RuntimeAssumption DEF RunInv
<1>1. PICK n \in 1..(MaxWritten - written[s]) :
        /\ written' = [written EXCEPT ![s] = @ + n] /\ pipe' = [pipe EXCEPT ![s] = @ + n]
  BY DEF Output
<1>2. UNCHANGED <<registered, pc, process, out, exceeded, context, runErr, result>> /\ pc = "wait"
  BY DEF Output
<1>3. ScalarsOK' /\ ProcessOK'
  BY <1>2 DEF ScalarsOK, ProcessOK, registered, process, context
<1>4. StreamsOK'
  <2>1. DOMAIN written' = Streams /\ DOMAIN pipe' = Streams
    BY <1>1 DEF StreamsOK
  <2>2. \A t \in Streams : /\ written'[t] = IF t = s THEN written[t] + n ELSE written[t]
                           /\ pipe'[t] = IF t = s THEN pipe[t] + n ELSE pipe[t]
    BY <1>1 DEF StreamsOK
  <2>3. n \in Nat /\ written[s] + n <= MaxWritten
    BY DEF StreamsOK, StreamOK
  <2>4. ASSUME NEW t \in Streams PROVE StreamOK(t)'
    <3>1. StreamOK(t)
      BY DEF StreamsOK
    <3> QED
      BY <1>2, <2>2, <2>3, <3>1 DEF StreamOK
  <2> QED
    BY <1>2, <2>1, <2>4 DEF StreamsOK
<1>5. ResultOK'
  BY <1>2 DEF ResultOK, Ran, process
<1> QED
  BY <1>3, <1>4, <1>5

\* A buffer notices what it drops.
LEMMA CopyRun == ASSUME RunInv, NEW s \in Streams, CopyOutput(s) PROVE RunInv'
<1> USE RuntimeAssumption DEF RunInv
<1>1. PICK n \in 1..pipe[s] : pipe' = [pipe EXCEPT ![s] = @ - n] /\ limitedBufferWrite(s, n)
  BY DEF CopyOutput
<1>2. UNCHANGED <<registered, pc, process, written, context, runErr, result>> /\ pc = "wait"
  BY DEF CopyOutput
<1>3. ScalarsOK' /\ ProcessOK'
  BY <1>2 DEF ScalarsOK, ProcessOK, registered, process, context
<1>4. StreamsOK'
  <2>1. /\ DOMAIN pipe' = Streams /\ DOMAIN out' = Streams /\ DOMAIN exceeded' = Streams
    BY <1>1 DEF StreamsOK, limitedBufferWrite
  <2>2. /\ pipe'[s] = pipe[s] - n /\ out'[s] = Min2(out[s] + n, MaxOutput)
        /\ \A t \in Streams \ {s} : /\ pipe'[t] = pipe[t] /\ out'[t] = out[t]
                                    /\ exceeded'[t] = exceeded[t]
    BY <1>1 DEF StreamsOK, limitedBufferWrite
  <2>3. exceeded'[s] = (exceeded[s] \/ n > MaxOutput - out[s])
    BY <1>1 DEF StreamsOK, limitedBufferWrite
  <2>4. exceeded'[s] <=> (exceeded[s] \/ n > MaxOutput - out[s])
    BY <2>3, Zenon
  <2>5. StreamOK(s)'
    <3>1. StreamOK(s) /\ n \in Nat /\ n <= pipe[s] /\ MaxOutput \in Nat
      BY DEF StreamsOK, StreamOK
    <3> QED
      BY <1>2, <2>2, <2>4, <3>1 DEF StreamOK, Min2
  <2>6. \A t \in Streams \ {s} : StreamOK(t)'
    BY <1>2, <2>2 DEF StreamsOK, StreamOK
  <2> QED
    BY <1>2, <2>1, <2>5, <2>6 DEF StreamsOK
<1>5. ResultOK'
  BY <1>2 DEF ResultOK, Ran, process
<1> QED
  BY <1>3, <1>4, <1>5

LEMMA NextRun == ASSUME RunInv, [Next]_vars PROVE RunInv'
<1>1. CASE UNCHANGED vars
  BY <1>1, OutsideStep DEF vars, registered, process, RunInv, ScalarsOK
<1>2. CASE Next
  BY <1>2, WorkerRun, OutputRun, CopyRun, OutsideRun, ContextRun DEF Next, Plugin
<1> QED
  BY <1>1, <1>2

LEMMA RunInvariance == Spec => []RunInv
<1> QED
  BY InitRun, NextRun, PTL DEF Spec

\* The output of a plugin is bounded by the buffers whatever it prints, nothing is
\* copied that was not printed, and only a run that is over has a result.
THEOREM TypeCorrect == Spec => []TypeOK
<1>1. RunInv => TypeOK
  BY DEF RunInv, ScalarsOK, StreamsOK, StreamOK, ResultOK, TypeOK
<1> QED
  BY <1>1, RunInvariance, PTL

\* A result is what happened: a success or a failure is what the document of a process
\* said that ended by itself with exit code 0, in time and with all of its output
\* read, and every other status has its cause (process_runner.go and
\* container_runner.go after cmd.Run, limitedBuffer.Write).
THEOREM ResultsAreTrue == Spec => []ResultIsTrue
<1>1. ASSUME RunInv, Ran PROVE ResultIsTrue
  <2> USE DEF RunInv
  <2>1. result.status = Status /\ pc = "done"
    BY <1>1 DEF ResultOK, Ran
  <2>2. \A s \in Streams : pipe[s] = 0 /\ StreamOK(s)
    BY <1>1 DEF ProcessOK, Ran, StreamsOK
  <2>3. \A s \in Streams : ~exceeded[s] => out[s] = written[s]
    BY <2>2 DEF StreamOK
  <2>4. TooMuch => ~FitsTheLimit
    BY <2>2, RuntimeAssumption DEF TooMuch, FitsTheLimit, StreamOK
  <2>5. /\ proc = "killed" \/ code # 0 => runErr
        /\ runErr => proc = "killed" \/ code # 0 \/ expired \/ canceled
        /\ proc \in {"exited", "killed"}
    BY <1>1 DEF ProcessOK, Ran
  <2>6. ~TooMuch => Parsed = said
    BY <2>3 DEF TooMuch, Parsed, Streams
  <2>7. CASE expired
    BY <2>1, <2>7 DEF Status, ResultIsTrue
  <2>8. CASE ~expired /\ (TooMuch \/ runErr)
    BY <2>1, <2>4, <2>5, <2>8 DEF Status, ResultIsTrue
  <2>9. CASE ~expired /\ ~TooMuch /\ ~runErr
    BY <2>1, <2>3, <2>5, <2>6, <2>9 DEF Status, ResultIsTrue, Meaning, TooMuch
  <2> QED
    BY <2>7, <2>8, <2>9
<1>2. RunInv => ResultIsTrue
  BY <1>1 DEF ResultIsTrue
<1> QED
  BY <1>2, RunInvariance, PTL
-----------------------------------------------------------------------------
LEMMA InitDeclared == Init => DeclaredInv
  BY DEF Init, DeclaredInv, RunsAsDeclared

\* Once the record is prepared only the check of the policy looks at it.
LEMMA DeclaredStays ==
  ASSUME DeclaredInv, UNCHANGED <<manifest, loaded, started>>,
         \/ UNCHANGED <<pc, plugin>>
         \/ pc \notin {"directory", "refused"} /\ pc' \in {"start", "wait", "ran", "done"}
  PROVE  DeclaredInv'
  BY DEF DeclaredInv, AcceptedAs, RunsAsDeclared

\* A checksum that was compared is that of the content at the time.
LEMMA LoadDeclared == ASSUME DeclaredInv, LoadManifest PROVE DeclaredInv'
<1> USE DEF DeclaredInv, LoadManifest, registered
<1>1. started = Nothing /\ started' = Nothing /\ manifest' = manifest
  OBVIOUS
<1>2. CASE pc' = "refused"
  BY <1>1, <1>2 DEF RunsAsDeclared
<1>3. CASE pc' = "registered"
  <2>1. /\ ValidateManifest(manifest) /\ VerifyChecksum(manifest, content) /\ loaded' = content
        /\ plugin' = BuildPluginFromManifest(manifest)
    BY <1>3 DEF VerifyIntegrity
  <2>2. manifest.checksum \notin {Unset, "placeholder"} => loaded' = manifest.checksum
    BY <2>1 DEF VerifyChecksum
  <2> QED
    BY <1>1, <1>3, <2>1, <2>2 DEF AcceptedAs, RunsAsDeclared
<1> QED
  BY <1>2, <1>3

\* A secret takes the place of the environment, which is never passed on.
LEMMA PrepareDeclared == ASSUME DeclaredInv, preparePluginForRuntime PROVE DeclaredInv'
<1> USE DEF DeclaredInv, preparePluginForRuntime, registered
<1>1. CASE Denied
  BY <1>1, DeclaredStays DEF Denied
<1>2. CASE pc' = "policy"
  <2> DEFINE p == BuildPluginFromManifest(manifest)
  <2>1. plugin = p
    OBVIOUS
  <2>2. \/ manifest.secretRef = Unset /\ manifest.env = Unset /\ plugin' = p
        \/ manifest.secretRef # Unset /\ plugin' = [p EXCEPT !.env = "secret"]
    BY <1>2, <2>1 DEF BuildPluginFromManifest, Denied
  <2>3. Prepared(plugin', manifest)
    BY <2>2 DEF Prepared, BuildPluginFromManifest
  <2> QED
    BY <1>2, <2>3 DEF AcceptedAs, RunsAsDeclared, Prepared
<1> QED
  BY <1>1, <1>2

\* What starts is what the record says, in the bounds of the host.
LEMMA CheckDeclared == ASSUME DeclaredInv, CheckPolicy PROVE DeclaredInv'
<1> USE DEF DeclaredInv, CheckPolicy, registered
<1>1. CASE pc' = "done" /\ UNCHANGED started
  BY <1>1, DeclaredStays
<1>2. CASE ~(pc' = "done" /\ UNCHANGED started)
  <2> DEFINE m == manifest
             declared == EffectiveTimeoutSeconds(m)
             isContainer == plugin.entryType = "container"
             run == [runner |-> IF isContainer THEN "container" ELSE "process",
                     network |-> IF isContainer THEN dockerNetworkMode(plugin.networkPolicy)
                                 ELSE "host",
                     limits |-> IF isContainer THEN plugin.limits ELSE NoLimits,
                     env |-> plugin.env,
                     timeout |-> IF isContainer /\ plugin.timeoutSeconds > 0
                                 THEN plugin.timeoutSeconds
                                 ELSE EffectiveTimeout(plugin)]
  <2>1. /\ started' = run /\ pc' = "start" /\ UNCHANGED <<manifest, loaded, plugin>>
        /\ ~isContainer => validateProcessPolicy(plugin)
    BY <1>2 DEF Denied
  <2>2. Prepared(plugin, m) /\ AcceptedAs(m)
    OBVIOUS
  <2>3. declared \in Int /\ declared > 0 /\ MaxTimeout \in Nat
    BY <2>2, RuntimeAssumption DEF EffectiveTimeoutSeconds, AcceptedAs, ValidateManifest
  <2>4. isContainer \/ EffectiveEntryType(m) = "process"
    BY <2>2 DEF Prepared, AcceptedAs, ValidateManifest
  <2>5. /\ run.runner = IF isContainer THEN "container" ELSE "process"
        /\ run.network = IF isContainer THEN dockerNetworkMode(plugin.networkPolicy) ELSE "host"
        /\ run.limits = IF isContainer THEN plugin.limits ELSE NoLimits
        /\ run.env = plugin.env
        /\ run.timeout = IF isContainer /\ plugin.timeoutSeconds > 0
                         THEN plugin.timeoutSeconds ELSE EffectiveTimeout(plugin)
    OBVIOUS
  <2>6. started'.timeout = IF isContainer THEN declared ELSE Min2(declared, MaxTimeout)
    BY <2>1, <2>2, <2>3, <2>5 DEF Prepared, EffectiveTimeout
  <2>7. ~isContainer => m.network \in {Unset, "none"} /\ plugin.env = Unset
    BY <2>1, <2>2 DEF Prepared, validateProcessPolicy
  <2>8. isContainer => (started'.network = "bridge" <=> m.network \in {"egress", "host"})
    BY <2>1, <2>2, <2>5 DEF Prepared, dockerNetworkMode
  <2> HIDE DEF run
  <2>9. RunsAsDeclared'
    BY <2>1, <2>2, <2>4, <2>5, <2>6, <2>7, <2>8 DEF RunsAsDeclared, Prepared, AcceptedAs
  <2> QED
    BY <2>1, <2>2, <2>9 DEF AcceptedAs
<1> QED
  BY <1>1, <1>2

LEMMA NextDeclared == ASSUME ~Sql, DeclaredInv, [Next]_vars PROVE DeclaredInv'
<1> USE DEF registered, process, output, context
<1>1. CASE UNCHANGED vars
  BY <1>1, DeclaredStays DEF vars
<1>2. CASE Worker
  <2>1. CASE ReadPlugin
    BY <2>1 DEF DeclaredInv, ReadPlugin, scanPlugin, AcceptedAs, RunsAsDeclared
  <2>2. CASE Start \/ Wait \/ Classify
    BY <2>2, DeclaredStays DEF Start, Wait, Classify
  <2> QED
    BY <1>2, <2>1, <2>2, LoadDeclared, PrepareDeclared, CheckDeclared DEF Worker
<1>3. CASE Plugin \/ Kill \/ \E s \in Streams : CopyOutput(s)
  BY <1>3, DeclaredStays DEF Plugin, Output, Fork, Exit, Kill, CopyOutput
<1>4. CASE ChangeFiles \/ DeadlinePasses \/ CancelContext \/ DescendantExits \/ ContainerExits
  BY <1>4, DeclaredStays DEF ChangeFiles, DeadlinePasses, CancelContext, DescendantExits,
     ContainerExits
<1> QED
  BY <1>1, <1>2, <1>3, <1>4 DEF Next

\* With the store that keeps the whole record (the JSON file), what is started is what
\* the accepted manifest declares, for every manifest in either of its forms
\* (BuildPluginFromManifest, preparePluginForRuntime, RunProcessPlugin and
\* RunContainerPlugin).  The table of the Postgres store forgets the timeout, the
\* network and the limits: scanPlugin then starts something else.
THEOREM StartedAsDeclared == ASSUME ~Sql PROVE Spec => []RunsAsDeclared
<1>1. DeclaredInv => RunsAsDeclared
  BY DEF DeclaredInv
<1>2. DeclaredInv /\ [Next]_vars => DeclaredInv'
  BY NextDeclared
<1> QED
  BY <1>1, <1>2, InitDeclared, PTL DEF Spec
=============================================================================
