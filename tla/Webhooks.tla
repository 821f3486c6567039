------------------------------- MODULE Webhooks -------------------------------
(***************************************************************************)
(* Webhook notifications of the local-json mode.  The event bus hands each *)
(* recorded event to a goroutine of its own, which posts it to every       *)
(* matching endpoint; one scheduler posts failed deliveries again; the     *)
(* admin API changes endpoints.  webhooks.json and webhook_deliveries.json *)
(* are changed by a load followed by a save, without a lock around both.   *)
(* A delivery is named by its event and its endpoint: an event is          *)
(* dispatched once, and a dispatch visits an endpoint once.                *)
(***************************************************************************)
EXTENDS Naturals, FiniteSets

CONSTANTS
    Events,       \* events recorded while the model runs
    Endpoints,    \* webhook ids
    Scheduler,    \* the retry goroutine
    Admins,       \* concurrent admin requests
    Enabled,      \* endpoints that are there, enabled, at the start
    EventsOf,     \* the events an endpoint's filter matches
    ScopeOf,      \* tenant and project of an endpoint
    UserScope,    \* tenant and project of an administrator
    SuperAdmins,  \* administrators of every scope
    RunScope,     \* tenant and project of the execution an event is about
    DefaultScope,
    NoRow,        \* no such delivery
    MaxAttempts, Batch,
    MaxChanges,   \* bound: admin requests
    MaxFailures   \* bound: failing reads and writes of files, stops of the process

ASSUME WebhookAssumption ==
    /\ MaxAttempts \in Nat \ {0} /\ Batch \in Nat \ {0}
    /\ MaxChanges \in Nat /\ MaxFailures \in Nat
    /\ Enabled \subseteq Endpoints
    /\ EventsOf \in [Endpoints -> SUBSET Events]
    /\ SuperAdmins \subseteq Admins /\ DOMAIN UserScope = Admins
    /\ Scheduler \notin Events \union Admins /\ Events \intersect Admins = {}

VARIABLES
    hooks,     \* webhooks.json: the status of an endpoint, or "absent"
    rows,      \* webhook_deliveries.json
    ripe,      \* deliveries and attempts whose NextRetryAt has passed
    pc,        \* where a goroutine is
    todo,      \* what a dispatch or a retry round has still to visit
    on,        \* the delivery in hand, or the admin's endpoint and change
    row,       \* the delivery's new row, before it is stored
    copy,      \* the file a goroutine has loaded to change
    born,      \* endpoints that have been created
    tries,     \* requests made for a delivery
    accepted,  \* deliveries whose receiver answered 2xx, or would have
    wasOff,    \* endpoints that were disabled or missing at some time
    stale,     \* goroutines whose copy another one has since overwritten
    raced,     \* such a copy was saved
    changes, failures

files == <<hooks, rows>>
locals == <<pc, todo, on, row, copy>>
history == <<born, tries, accepted, wasOff, stale, raced>>
vars == <<files, ripe, locals, history, changes, failures>>

Deliveries == Events \X Endpoints
Posters == Events \union {Scheduler}
Threads == Posters \union Admins
Row == [status : {"delivered", "failed", "dlq"}, attempt : 1..MaxAttempts]

ASSUME NoRowAssumption == NoRow \notin Row

Goto(th, label) == pc' = [pc EXCEPT ![th] = label]
Fault == failures < MaxFailures /\ failures' = failures + 1
-----------------------------------------------------------------------------
\* An event carries the default scope, whatever execution it is about.
StampedScope(e) == DefaultScope

Matches(h, e) == e \in EventsOf[h]

Targets(e) ==
    {h \in Endpoints : hooks[h] = "enabled" /\ ScopeOf[h] = StampedScope(e) /\ Matches(h, e)}

\* Record hands the event to the bus, whose "*" subscriber starts a goroutine.
HandleExecutionEvent(e) ==
    /\ pc[e] = "none"
    /\ Goto(e, "list")
    /\ UNCHANGED <<files, ripe, todo, on, row, copy, history, changes, failures>>

\* ListEnabledEndpoints and the filters of DispatchExecutionEvent
DispatchExecutionEvent(e) ==
    /\ pc[e] = "list"
    /\ \/ /\ todo' = [todo EXCEPT ![e] = {<<<<e, h>>, 0>> : h \in Targets(e)}]
          /\ Goto(e, "next")
          /\ UNCHANGED failures
       \/ Fault /\ Goto(e, "next") /\ UNCHANGED todo
    /\ UNCHANGED <<files, ripe, on, row, copy, history, changes>>

\* Mutant: a delivery is given up one attempt too early.
MarkDeliveryFailed_Early(n) ==
    [status |-> IF n + 1 >= MaxAttempts THEN "dlq" ELSE "failed", attempt |-> n]

\* Mutant: a delivery is given up one attempt too late.
MarkDeliveryFailed_Late(n) ==
    [status |-> IF n > MaxAttempts THEN "dlq" ELSE "failed", attempt |-> n]

MarkDeliveryFailed(n) ==
    [status |-> IF n >= MaxAttempts THEN "dlq" ELSE "failed", attempt |-> n]

\* Mutant: any answer is a success.
Delivered_AnyAnswer(answer) == answer # "none"

Delivered(answer) == answer = "2xx"

\* One request of attempt n: the receiver may accept it and its answer may be
\* lost, it may refuse, or it may not be reached before the deadline.  An attempt whose
\* context is done before a request leaves counts as a try like any other.
Post(th, d, n) ==
    \E taken \in BOOLEAN, answer \in {"2xx", "other", "none"} :
        /\ answer = "2xx" => taken
        /\ answer = "other" => ~taken
        /\ tries' = [tries EXCEPT ![d] = @ + 1]
        /\ accepted' = IF taken THEN accepted \union {d} ELSE accepted
        /\ row' = [row EXCEPT ![th] = IF Delivered(answer)
                                      THEN [status |-> "delivered", attempt |-> n]
                                      ELSE MarkDeliveryFailed(n)]
        /\ ripe' = ripe \ {<<d, n>>}

\* deliver, up to the call of CreateDelivery
Deliver(e) ==
    /\ pc[e] = "next"
    /\ \E t \in todo[e] :
        /\ Post(e, t[1], 1)
        /\ on' = [on EXCEPT ![e] = t[1]]
        /\ todo' = [todo EXCEPT ![e] = @ \ {t}]
    /\ Goto(e, "load")
    /\ UNCHANGED <<files, copy, born, wasOff, stale, raced, changes, failures>>
-----------------------------------------------------------------------------
\* The retry round of a tick: failed deliveries whose NextRetryAt has passed.
\* Mutant: the comparison with NextRetryAt is reversed.
Due_Reversed == {<<d, rows[d].attempt>> : d \in {x \in Deliveries :
            /\ rows[x] # NoRow /\ rows[x].status = "failed"
            /\ <<x, rows[x].attempt>> \notin ripe}}

Due == {<<d, rows[d].attempt>> : d \in {x \in Deliveries :
            /\ rows[x] # NoRow /\ rows[x].status = "failed"
            /\ <<x, rows[x].attempt>> \in ripe}}

\* NextRetryAt passes.
Elapse(d) ==
    /\ rows[d] # NoRow /\ rows[d].status = "failed"
    /\ <<d, rows[d].attempt>> \notin ripe
    /\ ripe' = ripe \union {<<d, rows[d].attempt>>}
    /\ UNCHANGED <<files, locals, history, changes, failures>>

\* ListDeliveries, and the choice of at most Batch due ones; an error ends the
\* round until the next tick.
RetryFailedDeliveries ==
    /\ pc[Scheduler] = "idle" /\ Due # {}
    /\ \/ /\ \E items \in SUBSET Due :
               /\ Cardinality(items) = Batch \/ (items = Due /\ Cardinality(items) < Batch)
               /\ todo' = [todo EXCEPT ![Scheduler] = items]
          /\ Goto(Scheduler, "next")
          /\ UNCHANGED failures
       \/ Fault /\ UNCHANGED <<todo, pc>>
    /\ UNCHANGED <<files, ripe, on, row, copy, history, changes>>

\* GetEndpointByID of the next due delivery
LookUpEndpoint ==
    /\ pc[Scheduler] = "next"
    /\ \/ \E t \in todo[Scheduler] :
            /\ todo' = [todo EXCEPT ![Scheduler] = @ \ {t}]
            /\ on' = [on EXCEPT ![Scheduler] = t[1]]
            /\ row' = [row EXCEPT ![Scheduler] =
                        [status |-> IF hooks[t[1][2]] = "enabled" THEN "failed" ELSE "dlq",
                         attempt |-> t[2]]]
            /\ Goto(Scheduler, IF hooks[t[1][2]] = "enabled" THEN "send" ELSE "load")
            /\ UNCHANGED failures
       \/ /\ todo[Scheduler] # {} /\ Fault
          /\ todo' = [todo EXCEPT ![Scheduler] = {}]
          /\ Goto(Scheduler, "idle")
          /\ UNCHANGED <<on, row>>
    /\ UNCHANGED <<files, ripe, copy, history, changes>>

RetryDelivery ==
    /\ pc[Scheduler] = "send"
    /\ Post(Scheduler, on[Scheduler], row[Scheduler].attempt + 1)
    /\ Goto(Scheduler, "load")
    /\ UNCHANGED <<files, todo, on, copy, born, wasOff, stale, raced, changes, failures>>
-----------------------------------------------------------------------------
\* CreateDelivery and UpdateDelivery: both put the row into the copy they
\* load; both errors are ignored.
AfterStore(th) ==
    /\ Goto(th, IF th = Scheduler /\ todo[th] = {} THEN "idle" ELSE "next")
    /\ on' = [on EXCEPT ![th] = NoRow]
    /\ row' = [row EXCEPT ![th] = NoRow]
    /\ copy' = [copy EXCEPT ![th] = NoRow]

LoadDeliveries(th) ==
    /\ pc[th] = "load"
    /\ \/ /\ copy' = [copy EXCEPT ![th] = rows]
          /\ Goto(th, "save")
          /\ UNCHANGED <<on, row, failures>>
       \/ Fault /\ AfterStore(th)
    /\ UNCHANGED <<files, ripe, todo, history, changes>>

\* Mutant: an update of a delivery keeps only what it updates.
SaveDeliveries_DropsOthers(th) ==
    /\ pc[th] = "save"
    /\ rows' = [d \in Deliveries |-> IF d = on[th] THEN row[th] ELSE NoRow]
    /\ AfterStore(th)
    /\ UNCHANGED <<hooks, ripe, todo, history, changes, failures>>

SaveDeliveries(th) ==
    /\ pc[th] = "save"
    /\ \/ /\ rows' = [copy[th] EXCEPT ![on[th]] = row[th]]
          /\ stale' = (stale \union {p \in Posters : pc[p] = "save"}) \ {th}
          /\ raced' = (raced \/ th \in stale)
          /\ UNCHANGED failures
       \/ Fault /\ stale' = stale \ {th} /\ UNCHANGED <<rows, raced>>
    /\ AfterStore(th)
    /\ UNCHANGED <<hooks, ripe, todo, born, tries, accepted, wasOff, changes>>
-----------------------------------------------------------------------------
\* The admin API.  A change of an endpoint is its status, or "absent" for a
\* delete; a create has a new id and the scope of its administrator.
sameWebhookScope(a, h) == a \in SuperAdmins \/ UserScope[a] = ScopeOf[h]

CreateEndpoint(a) ==
    /\ pc[a] = "idle" /\ changes < MaxChanges
    /\ \E h \in Endpoints \ born :
        /\ ScopeOf[h] = UserScope[a]
        /\ born' = born \union {h}
        /\ on' = [on EXCEPT ![a] = <<h, "enabled">>]
    /\ Goto(a, "load")
    /\ changes' = changes + 1
    /\ UNCHANGED <<files, ripe, todo, row, copy, tries, accepted, wasOff, stale, raced,
                   failures>>

\* GetEndpointForUser of SetEndpointStatusForUser and DeleteEndpointForUser
FindEndpoint(a) ==
    /\ pc[a] = "idle" /\ changes < MaxChanges
    /\ \E h \in Endpoints, change \in {"enabled", "disabled", "absent"} :
        /\ hooks[h] # "absent" /\ sameWebhookScope(a, h)
        /\ on' = [on EXCEPT ![a] = <<h, change>>]
    /\ Goto(a, "load")
    /\ changes' = changes + 1
    /\ UNCHANGED <<files, ripe, todo, row, copy, history, failures>>

\* UpdateEndpoint, which appends an endpoint it does not find, CreateEndpoint and
\* DeleteEndpoint of the repository.
LoadEndpoints(a) ==
    /\ pc[a] = "load"
    /\ \/ copy' = [copy EXCEPT ![a] = hooks] /\ Goto(a, "save") /\ UNCHANGED failures
          /\ UNCHANGED on
       \/ Fault /\ Goto(a, "idle") /\ on' = [on EXCEPT ![a] = NoRow] /\ UNCHANGED copy
    /\ UNCHANGED <<files, ripe, todo, row, history, changes>>

SaveEndpoints(a) ==
    /\ pc[a] = "save"
    /\ \/ /\ hooks' = [copy[a] EXCEPT ![on[a][1]] = on[a][2]]
          /\ wasOff' = wasOff \union {h \in born : hooks'[h] # "enabled"}
          /\ UNCHANGED failures
       \/ Fault /\ UNCHANGED <<hooks, wasOff>>
    /\ Goto(a, "idle")
    /\ on' = [on EXCEPT ![a] = NoRow]
    /\ copy' = [copy EXCEPT ![a] = NoRow]
    /\ UNCHANGED <<rows, ripe, todo, row, born, tries, accepted, stale, raced, changes>>
-----------------------------------------------------------------------------
\* The process stops: the files stay, a dispatch under way is not taken up
\* again, and the next process starts a scheduler.
Crash ==
    /\ Fault
    /\ pc' = [th \in Threads |->
                IF th \in Events /\ pc[th] # "none" THEN "next"
                ELSE IF th \in Events THEN "none" ELSE "idle"]
    /\ todo' = [th \in Posters |-> {}]
    /\ copy' = [th \in Threads |-> NoRow]
    /\ on' = [th \in Threads |-> NoRow]
    /\ row' = [th \in Posters |-> NoRow]
    /\ stale' = {}
    /\ UNCHANGED <<files, ripe, born, tries, accepted, wasOff, raced, changes>>

Init ==
    /\ hooks = [h \in Endpoints |-> IF h \in Enabled THEN "enabled" ELSE "absent"]
    /\ rows = [d \in Deliveries |-> NoRow]
    /\ ripe = {}
    /\ pc = [th \in Threads |-> IF th \in Events THEN "none" ELSE "idle"]
    /\ todo = [th \in Posters |-> {}]
    /\ on = [th \in Threads |-> NoRow]
    /\ row = [th \in Posters |-> NoRow]
    /\ copy = [th \in Threads |-> NoRow]
    /\ born = Enabled
    /\ tries = [d \in Deliveries |-> 0]
    /\ accepted = {} /\ wasOff = {} /\ stale = {} /\ raced = FALSE
    /\ changes = 0 /\ failures = 0

Dispatch(e) == HandleExecutionEvent(e) \/ DispatchExecutionEvent(e) \/ Deliver(e)
Retry == RetryFailedDeliveries \/ LookUpEndpoint \/ RetryDelivery
Store(th) == LoadDeliveries(th) \/ SaveDeliveries(th)
Change(a) == CreateEndpoint(a) \/ FindEndpoint(a) \/ LoadEndpoints(a) \/ SaveEndpoints(a)

Next ==
    \/ \E e \in Events : Dispatch(e)
    \/ Retry
    \/ \E th \in Posters : Store(th)
    \/ \E d \in Deliveries : Elapse(d)
    \/ \E a \in Admins : Change(a)
    \/ Crash

\* The scheduler's ticker fires again and again, time passes, and a call of the
\* scheduler returns; nothing is assumed of dispatches and of administrators.
Spec == /\ Init /\ [][Next]_vars
        /\ WF_vars(Retry) /\ WF_vars(Store(Scheduler))
        /\ \A d \in Deliveries : WF_vars(Elapse(d))
-----------------------------------------------------------------------------
TypeOK ==
    /\ hooks \in [Endpoints -> {"absent", "enabled", "disabled"}]
    /\ rows \in [Deliveries -> Row \union {NoRow}]
    /\ ripe \subseteq Deliveries \X (1..MaxAttempts)
    /\ row \in [Posters -> Row \union {NoRow}]
    /\ tries \in [Deliveries -> Nat]

\* What is stored as delivered was accepted by its receiver, although an
\* answer may be lost and two goroutines write the file (webhook.go, deliver
\* and retryDelivery).
DeliveredWasAccepted ==
    \A d \in Deliveries : rows[d] # NoRow /\ rows[d].status = "delivered" => d \in accepted

\* No delivery is given up early: one in the dead-letter state was posted
\* MaxAttempts times, or its endpoint was off or deleted at some time; and no
\* row counts an attempt that was not made, whatever is lost.
GivenUpForCause ==
    \A d \in Deliveries : rows[d] # NoRow =>
        /\ rows[d].attempt <= tries[d]
        /\ rows[d].status = "dlq" => tries[d] >= MaxAttempts \/ d[2] \in wasOff

\* A request without a record is owed to an error of the store, to a stop of
\* the process or to two overlapping changes of webhook_deliveries.json, and to
\* nothing else.
SentIsRecorded ==
    \/ failures > 0 \/ raced
    \/ \A d \in Deliveries :
         tries[d] > 0 => rows[d] # NoRow
                         \/ \E p \in Posters : on[p] = d /\ pc[p] \in {"load", "save"}

\* A failed delivery is posted until it is delivered or given up (or its row is
\* lost): no delivery stays in the failed state, with a batch limit, store
\* errors, restarts and changing endpoints.
FailedIsSettled ==
    \A d \in Deliveries :
        (rows[d] # NoRow /\ rows[d].status = "failed")
            ~> (rows[d] = NoRow \/ rows[d].status # "failed")

\* RFC 0009: "An execution event is delivered only to enabled webhook endpoints
\* in the same tenant/project".
DeliveredInScope == \A d \in Deliveries : tries[d] > 0 => ScopeOf[d[2]] = RunScope[d[1]]

\* A delivery is posted at most MaxAttempts times.  Overlapping saves and
\* stops of the process break it.
RequestsAreLimited == \A d \in Deliveries : tries[d] <= MaxAttempts

\* A deleted endpoint does not come back.  Two administrators break it, also of
\* different tenants.
DeletedStays ==
    [][\A h \in born : hooks[h] = "absent" /\ h \in wasOff => hooks'[h] = "absent"]_vars
=============================================================================
