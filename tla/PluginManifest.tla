----------------------------- MODULE PluginManifest -----------------------------
(***************************************************************************)
(* From a plugin's manifest to the plugin record a worker reads: which     *)
(* manifests are accepted, what is kept of them, and what comes back from  *)
(* the store.  A manifest has most fields twice, in the v1 form and in the *)
(* older flat one.  A command is known by its kind: "bare" and "unlisted"  *)
(* are names without a path, on the host's list or not, "inside" a path in *)
(* the plugin's directory, "outside" one that leaves it, "absolute" one    *)
(* from the root.  Arguments are known by the first: "file", "outside",    *)
(* "flag", or "nul" when one of them has a NUL byte.                       *)
(***************************************************************************)
EXTENDS Integers, Sequences

CONSTANTS
    Sql,          \* the store is Postgres
    TrustedKeys   \* public keys are configured

ASSUME ManifestAssumption == Sql \in BOOLEAN /\ TrustedKeys \in BOOLEAN

Unset == ""
NoLimits == "none"

\* The first of the forms of a field that is set
FirstSet(forms) ==
    LET set == {i \in DOMAIN forms : forms[i] # Unset}
    IN IF set = {} THEN Unset ELSE forms[CHOOSE i \in set : \A j \in set : i <= j]

EffectiveName(m) == FirstSet(<<m.metadataName, m.name>>)
EffectiveVersion(m) == FirstSet(<<m.metadataVersion, m.version>>)
EffectiveEntryType(m) == FirstSet(<<m.runtimeType, m.entryType, "process">>)
EffectiveCommand(m) == FirstSet(<<m.entrypoint, m.runtimeCommand, m.command>>)
EffectiveArgs(m) == FirstSet(<<m.runtimeArgs, m.args>>)

EffectiveTimeoutSeconds(m) ==
    IF m.runtimeTimeout > 0 THEN m.runtimeTimeout ELSE m.timeout

ValidateManifest(m) ==
    /\ m.apiVersion \in {Unset, "plugin.exec/v1"}
    /\ m.kind \in {Unset, "Plugin"}
    /\ EffectiveName(m) # Unset /\ EffectiveVersion(m) # Unset
    /\ \/ EffectiveEntryType(m) = "process" /\ EffectiveCommand(m) # Unset
       \/ EffectiveEntryType(m) = "container" /\ m.image # Unset
    /\ m.protocol \in {Unset, "stdio-json"}
    /\ EffectiveTimeoutSeconds(m) > 0
    /\ m.network \in {Unset, "none", "egress", "host"}

\* The file a checksum or a signature is about: its path, or "refused".
checksumTarget(m) ==
    CASE EffectiveEntryType(m) = "container" -> "refused"
      [] EffectiveCommand(m) \in {"inside", "outside"} -> EffectiveCommand(m)
      [] EffectiveArgs(m) \in {"file", "outside", "nul"} -> EffectiveArgs(m)
      [] OTHER -> "refused"

TargetIsReadable(m, content) ==
    checksumTarget(m) \in {"inside", "file"} /\ content \notin {"missing", "gone"}

\* A checksum that is not 64 digits long is a placeholder and not compared.
VerifyChecksum(m, content) ==
    m.checksum \in {Unset, "placeholder"}
        \/ (TargetIsReadable(m, content) /\ m.checksum = content)

VerifySignature(m, content) ==
    m.signature \in {Unset, "dev-local"}
        \/ (m.signature # "unsupported" /\ TrustedKeys
              /\ TargetIsReadable(m, content) /\ m.signature = content)

VerifyIntegrity(m, content) == VerifyChecksum(m, content) /\ VerifySignature(m, content)

BuildPluginFromManifest(m) ==
    [entryType |-> EffectiveEntryType(m), command |-> EffectiveCommand(m),
     args |-> EffectiveArgs(m), image |-> m.image, env |-> m.env, secretRef |-> m.secretRef,
     timeoutSeconds |-> EffectiveTimeoutSeconds(m), limits |-> m.limits,
     networkPolicy |-> m.network,
     checksumVerified |-> m.checksum \notin {Unset, "placeholder"}]

\* Mutant: the file forgets what the table forgets.
scanPlugin_Forgets(p) ==
    [p EXCEPT !.env = Unset, !.timeoutSeconds = 0, !.limits = NoLimits,
              !.networkPolicy = Unset, !.checksumVerified = FALSE]

\* The record as it is read back.  The file keeps all of it.  Of a row of the table,
\* the permissions and the resources are written and not read, the timeout and the
\* result of the verification have no column.
scanPlugin(p) ==
    IF Sql THEN [p EXCEPT !.env = Unset, !.timeoutSeconds = 0, !.limits = NoLimits,
                          !.networkPolicy = Unset, !.checksumVerified = FALSE]
    ELSE p
=============================================================================
