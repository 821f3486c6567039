----------------------------- MODULE PluginRuntime -----------------------------
(***************************************************************************)
(* One plugin from its manifest to the result of a run.  LoadManifest      *)
(* accepts or refuses the manifest, the record goes through the store, the *)
(* runtime checks it and starts a process, or a docker client and with it  *)
(* a container, copies what it prints into bounded buffers, kills it when  *)
(* the context is done, waits, and turns what it sees into a result.  The  *)
(* process, its descendants, the copying, the clock and the canceling of   *)
(* the context interleave freely.  Output is counted in chunks.            *)
(***************************************************************************)
EXTENDS PluginManifest

CONSTANTS
    Manifests,          \* the manifests that may be found
    Provider,           \* a secret provider is configured
    ContainersEnabled,  \* the configuration enables the container runner
    MaxTimeout,         \* maxTimeoutSeconds of the process runner
    DefaultTimeout,     \* of a plugin without one
    MaxOutput,          \* maxOutputBytes, in chunks
    MaxWritten,         \* bound: chunks a plugin prints on a stream
    MaxChanges          \* bound: changes of the plugin's files

ASSUME RuntimeAssumption ==
    /\ Provider \in BOOLEAN /\ ContainersEnabled \in BOOLEAN
    /\ \A m \in Manifests : m.runtimeTimeout \in Int /\ m.timeout \in Int
    /\ MaxTimeout \in Nat /\ DefaultTimeout \in 1..MaxTimeout
    /\ MaxOutput \in Nat \ {0} /\ MaxWritten \in Nat /\ MaxChanges \in Nat

VARIABLES
    manifest,   \* the manifest in the directory
    content,    \* the entry point: "original", "changed" or "missing", or no
                \* directory at all: "gone"
    loaded,     \* the content when the manifest was accepted
    pc,         \* where the worker is
    plugin,     \* the record, from LoadManifest to the runner
    started,    \* what was started: the runner, its network, limits, ...
    proc,       \* the process: "none", "running", "exited" or "killed"
    code,       \* its exit code
    held,       \* a descendant has the pipes, or the container runs
    written, pipe, out, exceeded,  \* of each stream: printed, in the pipe, in the buffer
    said,       \* what is printed on stdout means
    expired, canceled,  \* the deadline of the context, its cancellation
    runErr,     \* the error cmd.Run returned
    result,     \* status and exit code
    changes     \* so far

output == <<written, pipe, out, exceeded, said>>
process == <<proc, code, held>>
context == <<expired, canceled>>
registered == <<manifest, content, loaded, changes>>
vars == <<registered, pc, plugin, started, process, output, context, runErr, result>>

Streams == {"stdout", "stderr"}
Nothing == [status |-> "none"]
Min2(a, b) == IF a < b THEN a ELSE b
-----------------------------------------------------------------------------
\* The plugin's files change: an edit, a deployment, a removal.
ChangeFiles ==
    /\ changes < MaxChanges /\ changes' = changes + 1
    /\ content' \in {"original", "changed", "missing", "gone"} \ {content}
    /\ UNCHANGED <<manifest, loaded, pc, plugin, started, process, output, context, runErr, result>>

\* The manifest and the files it names are read one after the other; here in one step.
LoadManifest ==
    /\ pc = "directory"
    /\ IF content # "gone" /\ ValidateManifest(manifest) /\ VerifyIntegrity(manifest, content)
       THEN /\ pc' = "registered" /\ loaded' = content
            /\ plugin' = BuildPluginFromManifest(manifest)
       ELSE pc' = "refused" /\ UNCHANGED <<loaded, plugin>>
    /\ UNCHANGED <<manifest, content, changes, started, process, output, context, runErr, result>>

\* The worker reads the record of the plugin it is to run.
ReadPlugin ==
    /\ pc = "registered"
    /\ plugin' = scanPlugin(plugin)
    /\ pc' = "prepare"
    /\ UNCHANGED <<registered, started, process, output, context, runErr, result>>

Denied == pc' = "done" /\ result' = [status |-> "RuntimeError", code |-> -1]

\* ResolveEnv: the reference is known, or not; its value may hold control characters.
ResolveEnv(ref) == Provider /\ ref = "known"

\* preparePluginForRuntime: secrets take the place of the environment.
preparePluginForRuntime ==
    /\ pc = "prepare"
    /\ \/ /\ plugin.secretRef = Unset /\ plugin.env = Unset
          /\ pc' = "policy" /\ UNCHANGED <<plugin, result>>
       \/ /\ plugin.secretRef # Unset /\ plugin.entryType = "container" /\ ResolveEnv(plugin.secretRef)
          /\ plugin' = [plugin EXCEPT !.env = "secret"]
          /\ pc' = "policy" /\ UNCHANGED result
       \/ /\ plugin.secretRef = Unset => plugin.env # Unset
          /\ plugin.secretRef # Unset => plugin.entryType # "container" \/ ~ResolveEnv(plugin.secretRef)
          /\ Denied /\ UNCHANGED plugin
    /\ UNCHANGED <<registered, started, process, output, context, runErr>>

validateProcessPolicy(p) == p.networkPolicy \in {Unset, "none"} /\ p.env = Unset

\* A name on the host's list, or a path that stays in the plugin's directory
buildSafeCommand(p) == p.command \in {"bare", "inside"} /\ p.args # "nul"

\* The timeout the process runner gives: the default, and at most the host's
EffectiveTimeout(p) ==
    IF p.timeoutSeconds <= 0 THEN DefaultTimeout ELSE Min2(p.timeoutSeconds, MaxTimeout)

dockerNetworkMode(policy) == IF policy \in {"egress", "host"} THEN "bridge" ELSE "none"

\* The refusal of unsafe names of environment variables is left out.
buildDockerArgs(p) == p.image = "pinned" /\ p.args # "nul"

\* RunProcessPlugin and RunContainerPlugin, up to the context of the run
CheckPolicy ==
    /\ pc = "policy"
    /\ LET isContainer == plugin.entryType = "container"
       IN IF /\ content # "gone"
             /\ IF isContainer THEN ContainersEnabled /\ buildDockerArgs(plugin)
                ELSE validateProcessPolicy(plugin) /\ buildSafeCommand(plugin)
          THEN /\ started' = [runner |-> IF isContainer THEN "container" ELSE "process",
                              network |-> IF isContainer THEN dockerNetworkMode(plugin.networkPolicy)
                                          ELSE "host",
                              limits |-> IF isContainer THEN plugin.limits ELSE NoLimits,
                              env |-> plugin.env,
                              timeout |-> IF isContainer /\ plugin.timeoutSeconds > 0
                                          THEN plugin.timeoutSeconds
                                          ELSE EffectiveTimeout(plugin)]
               /\ pc' = "start" /\ UNCHANGED result
          ELSE Denied /\ UNCHANGED started
    /\ UNCHANGED <<registered, plugin, process, output, context, runErr>>
-----------------------------------------------------------------------------
HasExecutable ==
    started.runner = "process" =>
        content # "gone" /\ (plugin.command = "inside" => content # "missing")

\* cmd.Start: nothing is started when the context is done, or without an
\* executable.  The exit code of a process that never was is zero.
Start ==
    /\ pc = "start"
    /\ \/ /\ ~expired /\ ~canceled /\ HasExecutable
          /\ proc' = "running" /\ held' = (started.runner = "container")
          /\ pc' = "wait" /\ UNCHANGED runErr
       \/ /\ expired \/ canceled \/ ~HasExecutable
          /\ runErr' = TRUE /\ pc' = "ran" /\ UNCHANGED <<proc, held>>
    /\ UNCHANGED <<registered, plugin, started, code, output, context, result>>

\* What is printed goes to a pipe.  What a descendant adds after the document spoils it.
Output(s) ==
    /\ pc = "wait" /\ written[s] < MaxWritten
    /\ proc = "running" \/ (held /\ started.runner = "process")
    /\ \E n \in 1..(MaxWritten - written[s]) :
        /\ written' = [written EXCEPT ![s] = @ + n]
        /\ pipe' = [pipe EXCEPT ![s] = @ + n]
    /\ said' = IF s = "stdout" /\ proc # "running" THEN "garbage" ELSE said
    /\ UNCHANGED <<registered, pc, plugin, started, process, out, exceeded, context, runErr, result>>

\* The plugin starts a process that inherits stdout and stderr.
Fork ==
    /\ pc = "wait" /\ proc = "running" /\ started.runner = "process" /\ ~held
    /\ held' = TRUE
    /\ UNCHANGED <<registered, pc, plugin, started, proc, code, output, context, runErr, result>>

DescendantExits ==
    /\ held /\ started.runner = "process"
    /\ held' = FALSE
    /\ UNCHANGED <<registered, pc, plugin, started, proc, code, output, context, runErr, result>>

\* The process ends by itself; the docker client ends with its container.
Exit ==
    /\ pc = "wait" /\ proc = "running"
    /\ proc' = "exited" /\ code' \in {0, 1}
    /\ held' = (held /\ started.runner = "process")
    /\ said' \in IF written["stdout"] = 0 THEN {"garbage"} ELSE {"success", "failure", "garbage"}
    /\ UNCHANGED <<registered, pc, plugin, started, written, pipe, out, exceeded, context, runErr, result>>

\* A container that outlived its client ends.
ContainerExits ==
    /\ held /\ started.runner = "container" /\ proc # "running"
    /\ held' = FALSE
    /\ UNCHANGED <<registered, pc, plugin, started, proc, code, output, context, runErr, result>>

\* Mutant: the last write is kept whole.
limitedBufferWrite_KeepsAll(s, n) ==
    /\ out' = [out EXCEPT ![s] = IF @ < MaxOutput THEN @ + n ELSE @]
    /\ exceeded' = [exceeded EXCEPT ![s] = @ \/ n > MaxOutput - out[s]]

\* Mutant: only a write to a full buffer is noticed.
limitedBufferWrite_OnlyFull(s, n) ==
    /\ out' = [out EXCEPT ![s] = Min2(@ + n, MaxOutput)]
    /\ exceeded' = [exceeded EXCEPT ![s] = @ \/ MaxOutput - out[s] <= 0]

\* limitedBuffer.Write keeps what fits and reports all of it as written.
limitedBufferWrite(s, n) ==
    /\ out' = [out EXCEPT ![s] = Min2(@ + n, MaxOutput)]
    /\ exceeded' = [exceeded EXCEPT ![s] = @ \/ n > MaxOutput - out[s]]

CopyOutput(s) ==
    /\ pc = "wait"
    /\ \E n \in 1..pipe[s] :
        /\ pipe' = [pipe EXCEPT ![s] = @ - n]
        /\ limitedBufferWrite(s, n)
    /\ UNCHANGED <<registered, pc, plugin, started, process, written, said, context, runErr, result>>

DeadlinePasses ==
    /\ pc \in {"start", "wait", "ran"} /\ ~expired
    /\ ~canceled /\ expired' = TRUE
    /\ UNCHANGED <<registered, pc, plugin, started, process, output, canceled, runErr, result>>

\* The parent context is canceled: the lease is lost, or the pool stops.
CancelContext ==
    /\ pc \in {"start", "wait", "ran"} /\ ~expired /\ ~canceled
    /\ canceled' = TRUE
    /\ UNCHANGED <<registered, pc, plugin, started, process, output, expired, runErr, result>>

\* Mutant: a canceled context does not end the process.
Kill_AtDeadlineOnly ==
    /\ pc = "wait" /\ proc = "running" /\ expired
    /\ proc' = "killed" /\ code' = -1 /\ said' = "garbage"
    /\ UNCHANGED <<registered, pc, plugin, started, held, written, pipe, out, exceeded, context, runErr, result>>

\* Only the process itself is killed: not its descendants, nor the container.
Kill ==
    /\ pc = "wait" /\ proc = "running" /\ (expired \/ canceled)
    /\ proc' = "killed" /\ code' = -1 /\ said' = "garbage"
    /\ UNCHANGED <<registered, pc, plugin, started, held, written, pipe, out, exceeded, context, runErr, result>>

\* cmd.Run returns when the process has ended and both pipes are closed and read.
\* Whether a context that ended after the process is an error depends on who is first.
Wait ==
    /\ pc = "wait" /\ proc \in {"exited", "killed"}
    /\ \A s \in Streams : pipe[s] = 0
    /\ ~(held /\ started.runner = "process")
    /\ runErr' \in {proc = "killed" \/ code # 0} \union (IF expired \/ canceled THEN {TRUE} ELSE {})
    /\ pc' = "ran"
    /\ UNCHANGED <<registered, plugin, started, process, output, context, result>>

\* What the buffer holds: a document that was cut is none.
Parsed == IF out["stdout"] = written["stdout"] THEN said ELSE "garbage"

Meaning(document) ==
    CASE document = "success" -> "Success"
      [] document = "failure" -> "Failed"
      [] OTHER -> "InvalidOutput"

TooMuch == \E s \in Streams : exceeded[s]

Status ==
    IF expired THEN "Timeout"
    ELSE IF TooMuch \/ runErr THEN "RuntimeError"
    ELSE Meaning(Parsed)

\* After cmd.Run: the deadline, the size, the error, the document
Classify ==
    /\ pc = "ran"
    /\ result' = [status |-> Status, code |-> code]
    /\ pc' = "done"
    /\ UNCHANGED <<registered, plugin, started, process, output, context, runErr>>
-----------------------------------------------------------------------------
Init ==
    /\ manifest \in Manifests /\ content \in {"original", "changed"}
    /\ loaded = "none" /\ pc = "directory" /\ plugin = Nothing /\ started = Nothing
    /\ proc = "none" /\ code = 0 /\ held = FALSE
    /\ written = [s \in Streams |-> 0] /\ pipe = [s \in Streams |-> 0]
    /\ out = [s \in Streams |-> 0] /\ exceeded = [s \in Streams |-> FALSE]
    /\ said = "garbage" /\ expired = FALSE /\ canceled = FALSE
    /\ runErr = FALSE /\ result = Nothing /\ changes = 0

Worker ==
    \/ LoadManifest \/ ReadPlugin \/ preparePluginForRuntime \/ CheckPolicy
    \/ Start \/ Wait \/ Classify

Plugin == (\E s \in Streams : Output(s)) \/ Fork \/ Exit

Next ==
    \/ Worker \/ Plugin \/ Kill \/ (\E s \in Streams : CopyOutput(s))
    \/ ChangeFiles \/ DeadlinePasses \/ CancelContext \/ DescendantExits \/ ContainerExits

Spec == Init /\ [][Next]_vars

\* The worker and the copying goroutines are scheduled, time passes, and a process
\* whose context is done is killed.  The plugin and what it starts owe nothing.
FairSpec ==
    /\ Spec
    /\ WF_vars(Worker) /\ WF_vars(Kill) /\ WF_vars(DeadlinePasses)
    /\ \A s \in Streams : WF_vars(CopyOutput(s))
-----------------------------------------------------------------------------
Ran == pc = "done" /\ proc \in {"exited", "killed"}
HasPipes == held /\ started.runner = "process"
FitsTheLimit == \A s \in Streams : written[s] <= MaxOutput

TypeOK ==
    /\ manifest \in Manifests /\ content \in {"original", "changed", "missing", "gone"}
    /\ pc \in {"directory", "refused", "registered", "prepare", "policy", "start", "wait", "ran", "done"}
    /\ proc \in {"none", "running", "exited", "killed"} /\ code \in {-1, 0, 1}
    /\ \A s \in Streams :
        /\ written[s] \in 0..MaxWritten /\ pipe[s] \in 0..written[s]
        /\ out[s] \in 0..MaxOutput /\ out[s] + pipe[s] <= written[s]
    /\ pc = "done" <=> result # Nothing

\* What was started is what the accepted manifest declares, whichever form it has
\* and whatever the runner changes: the network, the limits and the timeout of a
\* container; a process only without network and environment, its timeout at most
\* the host's; an environment only from secret references.  A checksum that is not a
\* placeholder was that of the entry point when the manifest was accepted.
RunsAsDeclared ==
    started # Nothing =>
        LET declared == EffectiveTimeoutSeconds(manifest) IN
        /\ manifest.checksum \notin {Unset, "placeholder"} => loaded = manifest.checksum
        /\ started.env = IF manifest.secretRef = Unset THEN Unset ELSE "secret"
        /\ \/ /\ started.runner = "process" /\ EffectiveEntryType(manifest) = "process"
              /\ manifest.network \in {Unset, "none"} /\ started.env = Unset
              /\ started.timeout = Min2(declared, MaxTimeout)
           \/ /\ started.runner = "container" /\ EffectiveEntryType(manifest) = "container"
              /\ started.network = "bridge" <=> manifest.network \in {"egress", "host"}
              /\ started.limits = manifest.limits /\ started.timeout = declared

\* PLUGIN_SPEC.md, Result Mapping.  What the document says is reported only of a
\* process that ended by itself with exit code 0, in time, and none of whose output
\* was dropped on the way through the pipes and the buffers.  The other way, a
\* process that did and kept to the limit is reported as what it said, unless the
\* context was done too; and a timeout or a runtime error has a cause.
ResultIsTrue ==
    Ran =>
        LET ended == proc = "exited" /\ code = 0 IN
        /\ result.status \in {"Success", "Failed"} =>
              /\ ended /\ ~expired /\ result.status = Meaning(said)
              /\ \A s \in Streams : out[s] = written[s]
        /\ ended /\ ~expired /\ ~canceled /\ FitsTheLimit => result.status = Meaning(said)
        /\ result.status = "Timeout" => expired
        /\ result.status = "RuntimeError" => ~ended \/ canceled \/ ~FitsTheLimit

\* A run ends, by its own end, at the deadline or when it is canceled, unless a
\* descendant of the plugin keeps the pipes for ever.
RunEnds == ([]<>~HasPipes) => (started # Nothing ~> pc = "done")

\* REVIEW_REPORT.md: "Runtime execution is bounded by timeout and output-size
\* limits."  A descendant that keeps the pipes breaks it: cmd.Run waits for it.
RunIsBounded == expired ~> pc = "done"

\* PLUGIN_SPEC.md, Container runtime contract: "memory/cpu/pids limits should be
\* enforced."  The Postgres store loses them.
LimitsAreEnforced ==
    started # Nothing /\ started.runner = "container" => started.limits = manifest.limits

\* The entry point that runs is the one whose checksum was verified.  A change after
\* the manifest was accepted breaks it.
VerifiedIsWhatRuns ==
    pc = "wait" /\ manifest.checksum \notin {Unset, "placeholder"} => content = manifest.checksum

\* Nothing of the plugin is left when its result is reported.  A container outlives
\* the docker client that is killed.
NothingIsLeft == Ran => ~held
=============================================================================
