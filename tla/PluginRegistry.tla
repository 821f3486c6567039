----------------------------- MODULE PluginRegistry -----------------------------
(***************************************************************************)
(* The registered plugins: ReloadPlugins brings the stored records in line *)
(* with the manifests of the plugin directory, administrators enable and   *)
(* disable plugins, and both read a record, change it and write all of it  *)
(* back.  Records are in plugins.json, changed by a load and a save, or in *)
(* a Postgres table, changed by an upsert.  A plugin's key is its name and *)
(* version; of a manifest only its revision is kept.                       *)
(***************************************************************************)
EXTENDS Naturals, FiniteSets, Sequences

CONSTANTS
    Keys,        \* names and versions of plugins
    Reloaders,   \* concurrent reloads: at startup, or asked for by an admin
    Admins,      \* concurrent enable and disable requests
    NoOne,       \* nothing read
    Sql,         \* the store is Postgres
    Revisions,   \* contents a manifest may have
    MaxChanges,  \* bound: changes of the plugin directory
    MaxReloads, MaxRequests, MaxFaults \* bounds

ASSUME RegistryAssumption ==
    /\ Reloaders \intersect Admins = {} /\ Sql \in BOOLEAN
    /\ NoOne \notin Revisions /\ {"absent", "broken"} \intersect Revisions = {}
    /\ MaxChanges \in Nat /\ MaxReloads \in Nat /\ MaxRequests \in Nat /\ MaxFaults \in Nat

VARIABLES
    dir,        \* the manifest of a key: its revision, "broken" or "absent"
    store,      \* the plugin records, in the order of the file
    lastId,     \* ids given out
    pc,         \* where a goroutine is
    todo,       \* keys a reload has still to read, or records it has to remove
    seen,       \* ids a reload has found a manifest for
    rec,        \* the record a goroutine is about to write
    copy,       \* the file it has loaded
    asked,      \* ids an administrator has ever enabled
    off,        \* ids disabled by an answered request and not enabled since
    disturbed,  \* reloads that were not alone with the directory and the store
    atStart,    \* the records when a reload began
    changes, reloads, requests, faults

store_ == <<store, lastId>>
locals == <<pc, todo, seen, rec, copy>>
history == <<asked, off, disturbed, atStart>>
counts == <<changes, reloads, requests, faults>>
vars == <<dir, store_, locals, history, counts>>

Threads == Reloaders \union Admins
Statuses == {"Loaded", "Enabled", "Disabled", "Removed"}

Goto(th, label) == pc' = [pc EXCEPT ![th] = label]
Fault == faults < MaxFaults /\ faults' = faults + 1

\* History: these reloads can no longer be said to have run alone.
Disturb(rs) ==
    /\ disturbed' = disturbed \union (rs \intersect Reloaders)
    /\ atStart' = [r \in Reloaders |-> IF r \in disturbed' THEN <<>> ELSE atStart[r]]
-----------------------------------------------------------------------------
\* The repositories: the first record of a key, and what a write makes of the
\* records.  The file knows a record by its id; the table has one row for a key
\* and keeps its id.
HasKey(items, k) == \E i \in DOMAIN items : items[i].key = k

IsFirst(items, k, i) ==
    /\ i \in DOMAIN items /\ items[i].key = k
    /\ \A j \in DOMAIN items : items[j].key = k => i <= j

ByKey(items, k) == items[CHOOSE i \in DOMAIN items : IsFirst(items, k, i)]

\* Mutant: an update of the file appends.
Put_Appends(items, p) == Append(items, p)

Put(items, p) ==
    LET Same(q) == IF Sql THEN q.key = p.key ELSE q.id = p.id
        Replaced == [i \in DOMAIN items |->
                        IF Same(items[i]) THEN [p EXCEPT !.id = items[i].id] ELSE items[i]]
    IN IF \E i \in DOMAIN items : Same(items[i]) THEN Replaced ELSE Append(items, p)

Writing == IF Sql THEN "save" ELSE "load"

\* Mutant: the status of the existing record is forgotten.
FromManifest_Resets(k, rev) ==
    IF HasKey(store, k) THEN [ByKey(store, k) EXCEPT !.rev = rev, !.status = "Loaded"]
    ELSE [id |-> lastId + 1, key |-> k, status |-> "Loaded", rev |-> rev]

\* BuildPluginFromManifest and the record UpsertFromManifest makes of it.  The statuses
\* Error and Discovered, which nothing in the code gives a record, are left out.
FromManifest(k, rev) ==
    IF HasKey(store, k)
    THEN [ByKey(store, k) EXCEPT !.rev = rev, !.status = IF @ = "Removed" THEN "Loaded" ELSE @]
    ELSE [id |-> lastId + 1, key |-> k, status |-> "Loaded", rev |-> rev]

CanEnable(p) == p.status \in {"Loaded", "Disabled"}
CanDisable(p) == p.status = "Enabled"
CanExecute(p) == p.status = "Enabled"
-----------------------------------------------------------------------------
\* Somebody adds, breaks, replaces or deletes a manifest.
ChangeDirectory ==
    /\ changes < MaxChanges /\ changes' = changes + 1
    /\ \E k \in Keys, m \in Revisions \union {"absent", "broken"} :
        m # dir[k] /\ dir' = [dir EXCEPT ![k] = m]
    /\ Disturb(Reloaders)
    /\ UNCHANGED <<store_, locals, asked, off, reloads, requests, faults>>

\* ReloadPlugins: os.ReadDir
ReloadPlugins(r) ==
    /\ pc[r] \in {"idle", "done"} /\ reloads < MaxReloads /\ reloads' = reloads + 1
    /\ todo' = [todo EXCEPT ![r] = {k \in Keys : dir[k] # "absent"}]
    /\ seen' = [seen EXCEPT ![r] = {}]
    /\ Goto(r, "scan")
    /\ disturbed' = IF \E th \in Threads \ {r} : pc[th] \notin {"idle", "done"}
                    THEN disturbed \union {r} ELSE disturbed \ {r}
    /\ atStart' = [atStart EXCEPT ![r] = IF r \in disturbed' THEN <<>> ELSE store]
    /\ UNCHANGED <<dir, store_, rec, copy, asked, off, changes, requests, faults>>

\* LoadManifest of the next directory; a manifest that cannot be read or is
\* refused is reported, and the scan goes on.
LoadManifest(r) ==
    /\ pc[r] = "scan"
    /\ \E k \in todo[r] :
        /\ todo' = [todo EXCEPT ![r] = @ \ {k}]
        /\ IF dir[k] \in Revisions
           THEN Goto(r, "find") /\ rec' = [rec EXCEPT ![r] = [key |-> k, rev |-> dir[k]]]
           ELSE UNCHANGED <<pc, rec>>
    /\ UNCHANGED <<dir, store_, seen, copy, history, counts>>

\* UpsertFromManifest, up to the write: an error leaves the plugin unseen.
FindExisting(r) ==
    /\ pc[r] = "find"
    /\ \/ /\ rec' = [rec EXCEPT ![r] = FromManifest(rec[r].key, rec[r].rev)]
          /\ lastId' = IF HasKey(store, rec[r].key) THEN lastId ELSE lastId + 1
          /\ Goto(r, Writing)
          /\ UNCHANGED <<faults, disturbed, atStart>>
       \/ /\ Fault /\ Disturb({r})
          /\ Goto(r, "scan") /\ UNCHANGED <<rec, lastId>>
    /\ UNCHANGED <<dir, store, todo, seen, copy, asked, off, changes, reloads, requests>>

\* Mutant: a plugin is only seen when it was new or changed.
MarkSeen_OnlyChanged(r) ==
    /\ pc[r] = "written"
    /\ seen' = [seen EXCEPT ![r] = @ \union
         {ByKey(store, rec[r].key).id : x \in IF \E i \in DOMAIN atStart[r] :
              atStart[r][i] = rec[r] THEN {} ELSE {1}}]
    /\ Goto(r, "scan") /\ rec' = [rec EXCEPT ![r] = NoOne]
    /\ UNCHANGED <<dir, store_, todo, copy, history, counts>>

\* The second GetByNameVersion, whose error is ignored: then nothing is seen.
MarkSeen(r) ==
    /\ pc[r] = "written"
    /\ \/ /\ seen' = [seen EXCEPT ![r] = @ \union IF HasKey(store, rec[r].key)
                                                THEN {ByKey(store, rec[r].key).id} ELSE {}]
          /\ UNCHANGED <<faults, disturbed, atStart>>
       \/ Fault /\ Disturb({r}) /\ UNCHANGED seen
    /\ Goto(r, "scan") /\ rec' = [rec EXCEPT ![r] = NoOne]
    /\ UNCHANGED <<dir, store_, todo, copy, asked, off, changes, reloads, requests>>

\* After the scan: List, whose error is ignored, and the records to remove.
ListForRemoval(r) ==
    /\ pc[r] = "scan" /\ todo[r] = {}
    /\ \/ /\ todo' = [todo EXCEPT ![r] =
                {store[i] : i \in {j \in DOMAIN store :
                                     store[j].status # "Removed" /\ store[j].id \notin seen[r]}}]
          /\ UNCHANGED <<faults, disturbed, atStart>>
       \/ Fault /\ Disturb({r}) /\ UNCHANGED todo
    /\ Goto(r, "sweep")
    /\ UNCHANGED <<dir, store_, seen, rec, copy, asked, off, changes, reloads, requests>>

RemoveUnseen(r) ==
    /\ pc[r] = "sweep" /\ todo[r] # {}
    /\ \E p \in todo[r] :
        /\ rec' = [rec EXCEPT ![r] = [p EXCEPT !.status = "Removed"]]
        /\ todo' = [todo EXCEPT ![r] = @ \ {p}]
    /\ Goto(r, IF Sql THEN "remove" ELSE "loadRemove")
    /\ UNCHANGED <<dir, store_, seen, copy, history, counts>>

EndReload(r) ==
    /\ pc[r] = "sweep" /\ todo[r] = {}
    /\ Goto(r, "done")
    /\ seen' = [seen EXCEPT ![r] = {}] /\ rec' = [rec EXCEPT ![r] = NoOne]
    /\ UNCHANGED <<dir, store_, todo, copy, history, counts>>

-----------------------------------------------------------------------------
\* EnablePlugin and DisablePlugin: GetByID, the check of the state machine, and
\* a write of the record as it was read.
ChangeStatus(a) ==
    /\ pc[a] = "idle" /\ requests < MaxRequests /\ requests' = requests + 1
    /\ \E i \in DOMAIN store, to \in {"Enabled", "Disabled"} :
        /\ IF to = "Enabled" THEN CanEnable(store[i]) ELSE CanDisable(store[i])
        /\ rec' = [rec EXCEPT ![a] = [store[i] EXCEPT !.status = to]]
        /\ asked' = IF to = "Enabled" THEN asked \union {store[i].id} ELSE asked
        /\ off' = IF to = "Enabled" THEN off \ {store[i].id} ELSE off
    /\ Goto(a, Writing)
    /\ UNCHANGED <<dir, store_, todo, seen, copy, disturbed, atStart, changes, reloads, faults>>

\* The write of a record: Update or Create of plugins.json, or the upsert.  A
\* reload goes on after an error, a request answers it.
AfterWrite(th, ok) ==
    CASE th \in Admins -> "idle"
      [] pc[th] \in {"remove", "loadRemove"} -> "sweep"
      [] OTHER -> IF ok THEN "written" ELSE "scan"

LoadPlugins(th) ==
    /\ pc[th] \in {"load", "loadRemove"}
    /\ \/ /\ copy' = [copy EXCEPT ![th] = store]
          /\ Goto(th, IF pc[th] = "load" THEN "save" ELSE "remove")
          /\ UNCHANGED <<faults, disturbed, atStart>>
       \/ /\ Fault /\ Goto(th, AfterWrite(th, FALSE)) /\ UNCHANGED copy
          /\ Disturb({th})
    /\ UNCHANGED <<dir, store_, todo, seen, rec, asked, off, changes, reloads, requests>>

SavePlugins(th) ==
    /\ pc[th] \in {"save", "remove"}
    /\ \/ /\ store' = Put(IF Sql THEN store ELSE copy[th], rec[th])
          /\ Goto(th, AfterWrite(th, TRUE))
          /\ off' = IF th \in Admins /\ rec[th].status = "Disabled"
                    THEN off \union {rec[th].id} ELSE off
          /\ Disturb(Reloaders \ {th})
          /\ UNCHANGED faults
       \/ /\ Fault /\ Goto(th, AfterWrite(th, FALSE)) /\ UNCHANGED <<store, off>>
          /\ Disturb({th})
    /\ copy' = [copy EXCEPT ![th] = NoOne]
    /\ rec' = IF pc[th] = "save" /\ th \in Reloaders THEN rec ELSE [rec EXCEPT ![th] = NoOne]
    /\ UNCHANGED <<dir, lastId, todo, seen, asked, changes, reloads, requests>>
-----------------------------------------------------------------------------
Init ==
    /\ dir \in [Keys -> Revisions \union {"absent"}]
    /\ store = <<>> /\ lastId = 0
    /\ pc = [th \in Threads |-> "idle"]
    /\ todo = [r \in Reloaders |-> {}] /\ seen = [r \in Reloaders |-> {}]
    /\ rec = [th \in Threads |-> NoOne] /\ copy = [th \in Threads |-> NoOne]
    /\ asked = {} /\ off = {} /\ disturbed = {}
    /\ atStart = [r \in Reloaders |-> <<>>]
    /\ changes = 0 /\ reloads = 0 /\ requests = 0 /\ faults = 0

Reload(r) ==
    \/ ReloadPlugins(r) \/ LoadManifest(r) \/ FindExisting(r) \/ MarkSeen(r)
    \/ ListForRemoval(r) \/ RemoveUnseen(r) \/ EndReload(r)

Next ==
    \/ ChangeDirectory
    \/ \E r \in Reloaders : Reload(r)
    \/ \E a \in Admins : ChangeStatus(a)
    \/ \E th \in Threads : LoadPlugins(th) \/ SavePlugins(th)

Spec == Init /\ [][Next]_vars
-----------------------------------------------------------------------------
Records == {store[i] : i \in DOMAIN store}
Active(k) == {p \in Records : p.key = k /\ p.status # "Removed"}

TypeOK ==
    /\ dir \in [Keys -> Revisions \union {"absent", "broken"}]
    /\ Records \subseteq [id : 1..lastId, key : Keys, status : Statuses, rev : Revisions]
    /\ \A i, j \in DOMAIN store : store[i].id = store[j].id => i = j
    /\ disturbed \subseteq Threads

\* A reload that had the directory and the store for itself, and no error, leaves
\* one active record for each valid manifest, with its content, and none for the
\* others, also when earlier reloads overlapped and left duplicates behind
\* (ReloadPlugins).
ReloadMatchesDirectory ==
    \A r \in Reloaders : pc[r] = "done" /\ r \notin disturbed =>
        \A k \in Keys :
            IF dir[k] \in Revisions
            THEN Cardinality(Active(k)) = 1 /\ \A p \in Active(k) : p.rev = dir[k]
            ELSE Active(k) = {}

\* Which plugins may run is the administrators' decision (ReloadPlugins,
\* UpsertFromManifest).  However reloads and requests overlap, only a plugin that
\* was enabled at some time is executable.  A reload that ran alone leaves all of
\* it alone: the record it finds for a valid manifest keeps its status, a removed
\* one has to be enabled again, nothing is enabled or disabled that was not before.
ReloadKeepsDecisions ==
    /\ \A p \in Records : CanExecute(p) => p.id \in asked
    /\ \A r \in Reloaders : pc[r] = "done" /\ r \notin disturbed =>
        LET old == {atStart[r][i] : i \in DOMAIN atStart[r]} IN
        /\ \A p \in old : dir[p.key] \in Revisions /\ p = ByKey(atStart[r], p.key) =>
              \E q \in Records : /\ q.id = p.id
                                 /\ q.status = IF p.status = "Removed" THEN "Loaded" ELSE p.status
        /\ \A q \in Records : q.status \in {"Enabled", "Disabled"} =>
              \E p \in old : p.id = q.id /\ p.status = q.status

\* API_SPEC.md: only enabled plugins can be executed; a plugin whose disabling was
\* answered stays off until it is enabled again.  A reload that read the record
\* before breaks it.
DisabledStaysOff == \A p \in Records : p.id \in off => ~CanExecute(p)

\* A plugin with a valid, unchanged manifest is not removed.  An ignored error of
\* the second lookup, or of the upsert, breaks it.
ValidIsNotRemoved ==
    [][\A k \in Keys : dir[k] \in Revisions /\ Active(k) # {} => Active(k)' # {}]_vars
=============================================================================
