------------------------------ MODULE EventStream ------------------------------
(***************************************************************************)
(* Events of executions in the local-json mode: ExecutionEventService      *)
(* appends each to execution_events.json and hands it to the bus, which    *)
(* calls the subscribers of its execution and those of "*"; an SSE request *)
(* replays what is stored, subscribes, and then copies a bounded channel   *)
(* to its client.  A recorder is a goroutine that records events of one    *)
(* execution one after another; the streams watch one execution.           *)
(***************************************************************************)
EXTENDS Naturals, FiniteSets, Sequences

CONSTANTS
    Recorders,
    Watched,     \* recorders of the execution the streams watch
    Streams,     \* clients
    NoOne,       \* an empty slot, nothing loaded
    Capacity,    \* slots of a stream's channel (16 in the code)
    EventsOf,    \* bound: how many events a recorder records
    MaxConnects, \* bound: stream requests
    MaxFaults    \* bound: failing reads and writes of the file

ASSUME StreamAssumption ==
    /\ Watched \subseteq Recorders /\ NoOne \notin Streams
    /\ Capacity \in Nat \ {0} /\ EventsOf \in [Recorders -> Nat]
    /\ MaxConnects \in Nat /\ MaxFaults \in Nat

VARIABLES
    log,         \* execution_events.json
    subscribers, \* the slots of Bus.subscribers[id]
    slot,        \* the index a stream's unsubscribe has captured
    pc, nth,     \* where a recorder is, and which event it is at
    copy,        \* the file a recorder has loaded to append to
    at,          \* the slot a recorder that publishes has come to
    stream,      \* where a stream request is
    channel,     \* events a stream has not written yet
    out,         \* events a client was sent by its present request
    before,      \* events published before a stream subscribed
    dropped,     \* events a stream found no room for
    dispatched,  \* how often an event was given to the "*" subscriber
    raced,       \* the file was overwritten with an outdated copy
    connects, faults

recording == <<log, pc, nth, copy, raced, dispatched>>
streaming == <<stream, out, slot, before>>
vars == <<recording, streaming, subscribers, at, channel, dropped, connects, faults>>

EventsUpTo(r, k) == {<<r, i>> : i \in 1..k}
AllEvents == UNION {EventsUpTo(r, EventsOf[r]) : r \in Recorders}
Current(r) == <<r, nth[r]>>

\* Events whose Publish has returned.
Published == UNION {EventsUpTo(r, nth[r] - 1) : r \in Recorders}

Goto(r, label) == pc' = [pc EXCEPT ![r] = label]
Fault == faults < MaxFaults /\ faults' = faults + 1

\* Publishers hold mu for reading.
Readers == {r \in Recorders : pc[r] = "publish"}
-----------------------------------------------------------------------------
\* Record: repo.Create, whose error is ignored, then Publish.
LoadLog(r) ==
    /\ pc[r] = "idle" /\ nth[r] <= EventsOf[r]
    /\ \/ Goto(r, "save") /\ copy' = [copy EXCEPT ![r] = log] /\ UNCHANGED faults
       \/ Fault /\ Goto(r, "lock") /\ UNCHANGED copy
    /\ UNCHANGED <<log, nth, raced, dispatched, streaming, subscribers, at, channel,
                   dropped, connects>>

\* Mutant: the file keeps only the events of the recorder's execution.
SaveLog_OwnExecution(r) ==
    /\ pc[r] = "save"
    /\ log' = Append(SelectSeq(copy[r], LAMBDA e : (e[1] \in Watched) <=> (r \in Watched)),
                     Current(r))
    /\ raced' = (raced \/ copy[r] # log)
    /\ Goto(r, "lock")
    /\ copy' = [copy EXCEPT ![r] = NoOne]
    /\ UNCHANGED <<nth, dispatched, streaming, subscribers, at, channel, dropped, connects,
                   faults>>

SaveLog(r) ==
    /\ pc[r] = "save"
    /\ \/ /\ log' = Append(copy[r], Current(r))
          /\ raced' = (raced \/ copy[r] # log)
          /\ UNCHANGED faults
       \/ Fault /\ UNCHANGED <<log, raced>>
    /\ Goto(r, "lock")
    /\ copy' = [copy EXCEPT ![r] = NoOne]
    /\ UNCHANGED <<nth, dispatched, streaming, subscribers, at, channel, dropped, connects>>

\* Publish takes the read lock; nobody holds the write lock between two steps.
BeginPublish(r) ==
    /\ pc[r] = "lock"
    /\ Goto(r, "publish")
    /\ UNCHANGED <<log, nth, copy, raced, dispatched, streaming, subscribers, at, channel,
                   dropped, connects, faults>>

\* Mutant: the callback waits for room in the channel.
Offer_Blocking(s, e) ==
    /\ Len(channel[s]) < Capacity
    /\ channel' = [channel EXCEPT ![s] = Append(@, e)]
    /\ UNCHANGED dropped

\* Mutant: the channel has no bound.
Offer_Unbounded(s, e) ==
    channel' = [channel EXCEPT ![s] = Append(@, e)] /\ UNCHANGED dropped

\* The callback of a stream: a send that gives up when the channel is full.
Offer(s, e) ==
    IF Len(channel[s]) < Capacity
    THEN channel' = [channel EXCEPT ![s] = Append(@, e)] /\ UNCHANGED dropped
    ELSE dropped' = [dropped EXCEPT ![s] = @ \union {e}] /\ UNCHANGED channel

\* The call of the next subscriber of the event's execution, if it has one
CallSubscriber(r) ==
    /\ pc[r] = "publish" /\ r \in Watched /\ at[r] <= Len(subscribers)
    /\ IF subscribers[at[r]] = NoOne
       THEN UNCHANGED <<channel, dropped>>
       ELSE Offer(subscribers[at[r]], Current(r))
    /\ at' = [at EXCEPT ![r] = @ + 1]
    /\ UNCHANGED <<recording, streaming, subscribers, connects, faults>>

\* Mutant: an execution nobody watches is not published at all.
EndPublish_OnlyWatched(r) ==
    /\ pc[r] = "publish" /\ (r \notin Watched \/ at[r] > Len(subscribers))
    /\ dispatched' = IF subscribers = <<>> THEN dispatched
                     ELSE [dispatched EXCEPT ![Current(r)] = @ + 1]
    /\ Goto(r, "idle")
    /\ nth' = [nth EXCEPT ![r] = @ + 1]
    /\ at' = [at EXCEPT ![r] = 1]
    /\ UNCHANGED <<log, copy, raced, streaming, subscribers, channel, dropped,
                   connects, faults>>

\* After them the "*" subscriber, the webhook dispatcher; then the lock is
\* released and the recorder goes on.
EndPublish(r) ==
    /\ pc[r] = "publish" /\ (r \notin Watched \/ at[r] > Len(subscribers))
    /\ dispatched' = [dispatched EXCEPT ![Current(r)] = @ + 1]
    /\ Goto(r, "idle")
    /\ nth' = [nth EXCEPT ![r] = @ + 1]
    /\ at' = [at EXCEPT ![r] = 1]
    /\ UNCHANGED <<log, copy, raced, streaming, subscribers, channel, dropped,
                   connects, faults>>
-----------------------------------------------------------------------------
\* ListByExecutionID: the stored events of the execution, in the order of the file.
OfWatched(q) ==
    LET upTo[i \in 0..Len(q)] ==
            IF i = 0 THEN <<>>
            ELSE IF q[i][1] \in Watched THEN Append(upTo[i - 1], q[i]) ELSE upTo[i - 1]
    IN upTo[Len(q)]

\* StreamEvents.  The replay writes one snapshot of the file; a read error
\* leaves it empty.
Replay(s) ==
    /\ stream[s] = "off" /\ connects < MaxConnects
    /\ connects' = connects + 1
    /\ \/ out' = [out EXCEPT ![s] = OfWatched(log)]
          /\ UNCHANGED faults
       \/ Fault /\ out' = [out EXCEPT ![s] = <<>>]
    /\ stream' = [stream EXCEPT ![s] = "replayed"]
    /\ UNCHANGED <<recording, slot, before, subscribers, at, channel, dropped>>

\* Mutant: the stream replays once more, to close the gap.
Subscribe_ReplaysAgain(s) ==
    /\ stream[s] = "replayed" /\ Readers = {}
    /\ subscribers' = Append(subscribers, s)
    /\ slot' = [slot EXCEPT ![s] = Len(subscribers) + 1]
    /\ out' = [out EXCEPT ![s] = @ \o OfWatched(log)]
    /\ before' = [before EXCEPT ![s] = Published]
    /\ stream' = [stream EXCEPT ![s] = "live"]
    /\ UNCHANGED <<recording, at, channel, dropped, connects, faults>>

Subscribe(s) ==
    /\ stream[s] = "replayed" /\ Readers = {}
    /\ subscribers' = Append(subscribers, s)
    /\ slot' = [slot EXCEPT ![s] = Len(subscribers) + 1]
    /\ channel' = [channel EXCEPT ![s] = <<>>]
    /\ dropped' = [dropped EXCEPT ![s] = {}]
    /\ before' = [before EXCEPT ![s] = Published]
    /\ stream' = [stream EXCEPT ![s] = "live"]
    /\ UNCHANGED <<recording, out, at, connects, faults>>

Write(s) ==
    /\ stream[s] = "live" /\ channel[s] # <<>>
    /\ out' = [out EXCEPT ![s] = Append(@, Head(channel[s]))]
    /\ channel' = [channel EXCEPT ![s] = Tail(@)]
    /\ UNCHANGED <<recording, stream, slot, before, subscribers, at, dropped, connects, faults>>

\* Mutant: unsubscribe takes the slot out of the list.
Vacate_Removes(s) ==
    subscribers' = SubSeq(subscribers, 1, slot[s] - 1)
                     \o SubSeq(subscribers, slot[s] + 1, Len(subscribers))

Vacate(s) == subscribers' = [subscribers EXCEPT ![slot[s]] = NoOne]

\* The client goes away, and the deferred unsubscribe takes the lock.
Disconnect(s) ==
    /\ stream[s] = "live" /\ Readers = {}
    /\ Vacate(s)
    /\ stream' = [stream EXCEPT ![s] = "off"]
    /\ slot' = [slot EXCEPT ![s] = 0]
    /\ out' = [out EXCEPT ![s] = <<>>]
    /\ channel' = [channel EXCEPT ![s] = <<>>]
    /\ dropped' = [dropped EXCEPT ![s] = {}]
    /\ before' = [before EXCEPT ![s] = {}]
    /\ UNCHANGED <<recording, at, connects, faults>>

Record(r) ==
    LoadLog(r) \/ SaveLog(r) \/ BeginPublish(r) \/ CallSubscriber(r) \/ EndPublish(r)
Stream(s) == Replay(s) \/ Subscribe(s) \/ Write(s) \/ Disconnect(s)

Init ==
    /\ log = <<>> /\ subscribers = <<>>
    /\ slot = [s \in Streams |-> 0]
    /\ pc = [r \in Recorders |-> "idle"] /\ nth = [r \in Recorders |-> 1]
    /\ copy = [r \in Recorders |-> NoOne] /\ at = [r \in Recorders |-> 1]
    /\ stream = [s \in Streams |-> "off"]
    /\ channel = [s \in Streams |-> <<>>] /\ out = [s \in Streams |-> <<>>]
    /\ before = [s \in Streams |-> {}] /\ dropped = [s \in Streams |-> {}]
    /\ dispatched = [e \in AllEvents |-> 0]
    /\ raced = FALSE /\ connects = 0 /\ faults = 0

Next == (\E r \in Recorders : Record(r)) \/ (\E s \in Streams : Stream(s))

\* A recorder is a goroutine that runs; of clients nothing is assumed.
Spec == Init /\ [][Next]_vars /\ \A r \in Recorders : WF_vars(Record(r))
-----------------------------------------------------------------------------
Items(q) == {q[i] : i \in DOMAIN q}
Received(s) == out[s] \o channel[s]

TypeOK ==
    /\ Items(log) \subseteq AllEvents
    /\ Items(subscribers) \subseteq Streams \union {NoOne}
    /\ nth \in [Recorders -> Nat \ {0}]
    /\ stream \in [Streams -> {"off", "replayed", "live"}]
    /\ \A s \in Streams : Items(Received(s)) \subseteq AllEvents /\ Len(channel[s]) <= Capacity

\* A client is told the events of one recorder in the order they were recorded;
\* an event that is being recorded while the stream connects may be told twice
\* (StreamEvents: first the file, then the bus).
StreamKeepsOrder ==
    \A s \in Streams : \A i, j \in DOMAIN Received(s) :
        i < j /\ Received(s)[i][1] = Received(s)[j][1]
            => Received(s)[i][2] <= Received(s)[j][2]

\* The subscribers of the bus: the webhook dispatcher is called once for each
\* recorded event, watched or not and stored or not; a connected client misses an
\* event only when its channel was full, or when the event was published before
\* its stream subscribed.  Clients that come and go do not take the subscription
\* of another (Record, Publish, Subscribe and its unsubscribe).
MissedForCause ==
    /\ \A e \in AllEvents : dispatched[e] = IF e \in Published THEN 1 ELSE 0
    /\ \A s \in Streams : stream[s] = "live" =>
        \A e \in Published : e[1] \in Watched =>
            e \in Items(Received(s)) \union dropped[s] \union before[s]

\* An event is missing in the stored list only after a failed read or write or
\* after two recorders changed the file at once (ExecutionEventRepository.Create).
StoredUnlessRaced ==
    faults > 0 \/ raced \/ Published \subseteq Items(log)

\* Recording never waits for a client, however slow: every recorder gets through
\* all its events although no stream ever reads (the select in StreamEvents).
RecordingNeverWaits == \A r \in Recorders : <>(nth[r] = EventsOf[r] + 1)

\* VERIFY.md: the events of an execution are complete.  Two recorders break it.
LogIsComplete == Published \subseteq Items(log)

\* No client is sent an event twice.  An event that is recorded while the stream
\* connects breaks it.
NoEventTwice ==
    \A s \in Streams : \A i, j \in DOMAIN Received(s) :
        Received(s)[i] = Received(s)[j] => i = j
=============================================================================
