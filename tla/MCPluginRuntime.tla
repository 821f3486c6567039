--------------------------- MODULE MCPluginRuntime ----------------------------
\* TLC's runs of PluginRuntime: manifests in the v1 form and in the flat one, and
\* what differs from them in one respect or two.
EXTENDS PluginRuntime, TLC

Blank ==
    [apiVersion |-> "", kind |-> "", metadataName |-> "", name |-> "", metadataVersion |-> "",
     version |-> "", runtimeType |-> "", entryType |-> "", entrypoint |-> "", runtimeCommand |-> "",
     command |-> "", runtimeArgs |-> "", args |-> "", image |-> "", protocol |-> "",
     runtimeTimeout |-> 0, timeout |-> 0, network |-> "", env |-> "", secretRef |-> "",
     limits |-> "none", checksum |-> "", signature |-> ""]

V1 == [Blank EXCEPT !.apiVersion = "plugin.exec/v1", !.kind = "Plugin", !.metadataName = "n",
                    !.metadataVersion = "1", !.protocol = "stdio-json"]

V1Process == [V1 EXCEPT !.runtimeType = "process", !.entrypoint = "inside", !.runtimeTimeout = 10]
V1Container == [V1 EXCEPT !.runtimeType = "container", !.image = "pinned", !.runtimeTimeout = 60,
                          !.limits = "set"]
Flat == [Blank EXCEPT !.name = "n", !.version = "1", !.command = "bare", !.args = "file", !.timeout = 60]

\* Malformed, or refused by the runtime
Refused ==
    {[V1Process EXCEPT !.apiVersion = "v2"], [V1Process EXCEPT !.kind = "Job"],
     [Flat EXCEPT !.name = ""], [Flat EXCEPT !.version = ""], [Flat EXCEPT !.command = ""],
     [Flat EXCEPT !.timeout = 0], [Flat EXCEPT !.entryType = "wasm"],
     [V1Container EXCEPT !.image = ""], [V1Container EXCEPT !.protocol = "grpc"],
     [V1Process EXCEPT !.network = "full"], [V1Process EXCEPT !.network = "egress"],
     [V1Process EXCEPT !.env = "inline"], [V1Process EXCEPT !.secretRef = "known"],
     [V1Process EXCEPT !.entrypoint = "outside"], [V1Process EXCEPT !.entrypoint = "unlisted"],
     [V1Process EXCEPT !.entrypoint = "absolute"], [Flat EXCEPT !.args = "nul"],
     [V1Container EXCEPT !.image = "unsafe"], [V1Container EXCEPT !.checksum = "original"],
     [V1Container EXCEPT !.secretRef = "unknown"], [V1Container EXCEPT !.env = "inline"],
     [Flat EXCEPT !.checksum = "original", !.args = "flag"],
     [V1Process EXCEPT !.signature = "unsupported"]}

\* May run
Accepted ==
    {Flat, [Flat EXCEPT !.runtimeTimeout = 10, !.network = "none", !.checksum = "original"],
     [V1Process EXCEPT !.checksum = "original", !.signature = "original"],
     [V1Process EXCEPT !.checksum = "placeholder", !.signature = "dev-local", !.timeout = 60],
     V1Container,
     [V1Container EXCEPT !.network = "egress", !.secretRef = "known", !.env = "inline"],
     [V1Container EXCEPT !.network = "none", !.limits = "none", !.timeout = 10]}

AllManifests == Refused \union Accepted
=============================================================================
