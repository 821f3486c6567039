--------------------------- MODULE EventStreamProofs ---------------------------
(***************************************************************************)
(* Proofs about EventStream for any recorders, clients and channel size,   *)
(* any number of events and connections, and failing reads and writes of   *)
(* the file.  The replay filters a file of any length with a recursive     *)
(* function: what it returns is proved by induction over the naturals, in  *)
(* the form of a least element of a set.                                   *)
(***************************************************************************)
EXTENDS EventStream, Integers, WellFoundedInduction, TLAPS

\* A set of naturals that is not empty has a least element.
LEMMA LeastNatural ==
    ASSUME NEW S \in SUBSET Nat, S # {}
    PROVE  \E x \in S : \A y \in S : x <= y
<1>1. \E x \in S : \A y \in S : <<y, x>> \notin OpToRel(<, Nat)
  BY NatLessThanWellFounded, WFMin, Zenon
<1>2. \A x, y \in Nat : y < x => <<y, x>> \in OpToRel(<, Nat)
  BY DEF OpToRel
<1>3. \E x \in S : \A y \in S : ~ (y < x)
  BY <1>1, <1>2, Zenon
<1> QED
  BY <1>3

\* Induction, about a set in place of a predicate.
LEMMA Induction ==
    ASSUME NEW S \in SUBSET Nat, 0 \in S, \A n \in S : n + 1 \in S
    PROVE  S = Nat
<1> SUFFICES ASSUME S # Nat PROVE FALSE
  OBVIOUS
<1>1. PICK x \in Nat \ S : \A y \in Nat \ S : x <= y
  <2>1. Nat \ S \in SUBSET Nat /\ Nat \ S # {}
    OBVIOUS
  <2> QED
    BY <2>1, LeastNatural
<1>2. x # 0 /\ x - 1 \in S
  BY <1>1
<1> QED
  BY <1>1, <1>2

\* The recursive function of OfWatched exists: its value on 0..n extends to n + 1.
LEMMA OfWatchedUnfolds ==
    ASSUME NEW q, Len(q) \in Nat
    PROVE  \E f : /\ f = [i \in 0..Len(q) |->
                            IF i = 0 THEN <<>>
                            ELSE IF q[i][1] \in Watched THEN Append(f[i - 1], q[i])
                            ELSE f[i - 1]]
                  /\ OfWatched(q) = f[Len(q)]
<1> DEFINE Step(f, i) == IF i = 0 THEN <<>>
                         ELSE IF q[i][1] \in Watched THEN Append(f[i - 1], q[i]) ELSE f[i - 1]
           Unfolds(n) == \E f : f = [i \in 0..n |-> Step(f, i)]
<1>1. \A n \in Nat : Unfolds(n)
  <2> DEFINE S == {n \in Nat : Unfolds(n)}
  <2>1. 0 \in S
    <3>1. [i \in 0..0 |-> <<>>] = [i \in 0..0 |-> Step([j \in 0..0 |-> <<>>], i)]
      OBVIOUS
    <3> QED
      BY <3>1
  <2>2. ASSUME NEW n \in S PROVE n + 1 \in S
    <3>1. PICK f : f = [i \in 0..n |-> Step(f, i)]
      OBVIOUS
    <3> DEFINE g == [i \in 0..(n + 1) |-> IF i = n + 1 THEN Step(f, i) ELSE f[i]]
    <3>2. \A i \in 0..(n + 1) : i # 0 => g[i - 1] = f[i - 1]
      OBVIOUS
    <3>3. \A i \in 0..(n + 1) : Step(g, i) = Step(f, i)
      BY <3>2
    <3>4. \A i \in 0..n : f[i] = Step(f, i)
      BY <3>1
    <3>5. g = [i \in 0..(n + 1) |-> Step(g, i)]
      BY <3>3, <3>4
    <3>6. Unfolds(n + 1)
      <4> HIDE DEF g, Step
      <4> QED
        BY <3>5
    <3> QED
      BY <3>6
  <2> HIDE DEF S
  <2>3. S \in SUBSET Nat
    BY DEF S
  <2>4. S = Nat
    BY <2>1, <2>2, <2>3, Induction
  <2> QED
    BY <2>4 DEF S
<1> DEFINE upTo == CHOOSE f : f = [i \in 0..Len(q) |-> Step(f, i)]
<1>2. upTo = [i \in 0..Len(q) |-> Step(upTo, i)]
  BY <1>1
<1>3. OfWatched(q) = upTo[Len(q)]
  BY DEF OfWatched
<1> QED
  BY <1>2, <1>3

\* p holds the events of the watched execution among the first n of q, in their order.
IsPart(p, q, n) ==
    /\ \A i \in 1..Len(p) : \E a \in 1..n : p[i] = q[a] /\ q[a][1] \in Watched
    /\ \A i, j \in 1..Len(p) : i < j => \E a, b \in 1..n : a < b /\ p[i] = q[a] /\ p[j] = q[b]
    /\ \A a \in 1..n : q[a][1] \in Watched => \E i \in 1..Len(p) : p[i] = q[a]

LEMMA Appended ==
    ASSUME NEW E, NEW p \in Seq(E), NEW e \in E
    PROVE  /\ Append(p, e) \in Seq(E) /\ Len(Append(p, e)) = Len(p) + 1
           /\ Append(p, e)[Len(p) + 1] = e
           /\ \A i \in 1..Len(p) : Append(p, e)[i] = p[i]
  OBVIOUS

LEMMA Replaced ==
    ASSUME NEW E, NEW p \in Seq(E), NEW k, NEW e \in E
    PROVE  /\ [p EXCEPT ![k] = e] \in Seq(E) /\ Len([p EXCEPT ![k] = e]) = Len(p)
           /\ \A i \in 1..Len(p) : [p EXCEPT ![k] = e][i] = IF i = k THEN e ELSE p[i]
<1>1. PICK n \in Nat : n = Len(p) /\ DOMAIN p = 1..n /\ p \in [1..n -> E]
  OBVIOUS
<1>2. PICK pp : pp = [p EXCEPT ![k] = e]
  OBVIOUS
<1>3. pp \in [1..n -> E]
  BY <1>1, <1>2
<1>4. pp \in Seq(E) /\ Len(pp) = n
  BY <1>1, <1>3
<1>5. \A i \in 1..n : pp[i] = IF i = k THEN e ELSE p[i]
  BY <1>1, <1>2
<1> QED
  BY <1>1, <1>2, <1>4, <1>5

LEMMA PartGrows ==
    ASSUME NEW E, NEW q \in Seq(E), NEW n \in Nat, n + 1 <= Len(q), NEW p \in Seq(E),
           IsPart(p, q, n), q[n + 1][1] \in Watched
    PROVE  Append(p, q[n + 1]) \in Seq(E) /\ IsPart(Append(p, q[n + 1]), q, n + 1)
<1>1. q[n + 1] \in E
  OBVIOUS
<1>2. PICK e \in E : e = q[n + 1]
  BY <1>1
<1>3. PICK pp \in Seq(E) : pp = Append(p, e)
  BY Appended
<1>4. /\ Len(pp) = Len(p) + 1 /\ pp[Len(p) + 1] = e
      /\ \A i \in 1..Len(p) : pp[i] = p[i]
  BY <1>3, Appended
<1>5. \A i \in 1..Len(pp) : \E a \in 1..(n + 1) : pp[i] = q[a] /\ q[a][1] \in Watched
  <2> TAKE i \in 1..Len(pp)
  <2>1. CASE i = Len(p) + 1
    BY <1>2, <1>4, <2>1
  <2>2. CASE i \in 1..Len(p)
    <3>1. PICK a \in 1..n : p[i] = q[a] /\ q[a][1] \in Watched
      BY <2>2 DEF IsPart
    <3> QED
      BY <1>4, <2>2, <3>1
  <2> QED
    BY <1>4, <2>1, <2>2
<1>6. \A i, j \in 1..Len(pp) : i < j =>
          \E a, b \in 1..(n + 1) : a < b /\ pp[i] = q[a] /\ pp[j] = q[b]
  <2> TAKE i, j \in 1..Len(pp)
  <2> HAVE i < j
  <2>1. i \in 1..Len(p)
    BY <1>4
  <2>2. CASE j = Len(p) + 1
    <3>1. PICK a \in 1..n : p[i] = q[a]
      BY <2>1 DEF IsPart
    <3> QED
      BY <1>2, <1>4, <2>1, <2>2, <3>1
  <2>3. CASE j \in 1..Len(p)
    <3>1. PICK a, b \in 1..n : a < b /\ p[i] = q[a] /\ p[j] = q[b]
      BY <2>1, <2>3 DEF IsPart
    <3> QED
      BY <1>4, <2>1, <2>3, <3>1
  <2>4. j = Len(p) + 1 \/ j \in 1..Len(p)
    BY <1>4
  <2> QED
    BY <2>2, <2>3, <2>4
<1>7. \A a \in 1..(n + 1) : q[a][1] \in Watched => \E i \in 1..Len(pp) : pp[i] = q[a]
  <2> TAKE a \in 1..(n + 1)
  <2> HAVE q[a][1] \in Watched
  <2>1. CASE a = n + 1
    BY <1>2, <1>4, <2>1
  <2>2. CASE a \in 1..n
    <3>1. PICK i \in 1..Len(p) : p[i] = q[a]
      BY <2>2 DEF IsPart
    <3> QED
      BY <1>4, <3>1
  <2> QED
    BY <2>1, <2>2
<1>8. IsPart(pp, q, n + 1)
  BY <1>5, <1>6, <1>7 DEF IsPart
<1> QED
  BY <1>2, <1>3, <1>8

\* What the replay sends is a part of the file, in the order of the file, and all
\* of it that belongs to the watched execution.
LEMMA OfWatchedFilters ==
    ASSUME NEW E, NEW q \in Seq(E)
    PROVE  OfWatched(q) \in Seq(E) /\ IsPart(OfWatched(q), q, Len(q))
<1>1. Len(q) \in Nat
  OBVIOUS
<1>2. PICK f : /\ f = [i \in 0..Len(q) |->
                          IF i = 0 THEN <<>>
                          ELSE IF q[i][1] \in Watched THEN Append(f[i - 1], q[i]) ELSE f[i - 1]]
               /\ OfWatched(q) = f[Len(q)]
  BY <1>1, OfWatchedUnfolds
<1>3. f[0] = <<>>
  BY <1>1, <1>2
<1>4. ASSUME NEW n \in Nat, n + 1 <= Len(q)
      PROVE  f[n + 1] = IF q[n + 1][1] \in Watched THEN Append(f[n], q[n + 1]) ELSE f[n]
  <2>1. n + 1 \in 0..Len(q) /\ n + 1 # 0 /\ (n + 1) - 1 = n
    BY <1>1, <1>4
  <2>2. f[n + 1] = IF q[n + 1][1] \in Watched THEN Append(f[(n + 1) - 1], q[n + 1])
                   ELSE f[(n + 1) - 1]
    BY <1>2, <2>1
  <2> QED
    BY <2>1, <2>2
<1> DEFINE S == {n \in Nat : n <= Len(q) => f[n] \in Seq(E) /\ IsPart(f[n], q, n)}
<1>5. 0 \in S
  <2>1. <<>> \in Seq(E) /\ Len(<<>>) = 0
    OBVIOUS
  <2>2. IsPart(<<>>, q, 0)
    BY <2>1 DEF IsPart
  <2> QED
    BY <1>3, <2>1, <2>2
<1>6. ASSUME NEW n \in S PROVE n + 1 \in S
  <2> SUFFICES ASSUME n + 1 <= Len(q)
               PROVE  f[n + 1] \in Seq(E) /\ IsPart(f[n + 1], q, n + 1)
    OBVIOUS
  <2>1. n \in Nat /\ f[n] \in Seq(E) /\ IsPart(f[n], q, n)
    BY <1>1
  <2>2. PICK p \in Seq(E) : p = f[n] /\ IsPart(p, q, n)
    BY <2>1
  <2> HIDE DEF S
  <2>3. CASE q[n + 1][1] \in Watched
    <3>1. f[n + 1] = Append(p, q[n + 1])
      BY <1>4, <2>1, <2>2, <2>3
    <3> QED
      BY <2>1, <2>2, <2>3, <3>1, PartGrows
  <2>4. CASE q[n + 1][1] \notin Watched
    <3>1. f[n + 1] = p
      BY <1>4, <2>1, <2>2, <2>4
    <3>2. \A a \in 1..(n + 1) : q[a][1] \in Watched => a \in 1..n
      BY <2>1, <2>4
    <3>3. \A a \in 1..n : a \in 1..(n + 1)
      BY <2>1
    <3>4. IsPart(p, q, n + 1)
      BY <2>2, <3>2, <3>3 DEF IsPart
    <3> QED
      BY <3>1, <3>4
  <2> QED
    BY <2>3, <2>4
<1> HIDE DEF S
<1>7. S \in SUBSET Nat
  BY DEF S
<1>8. S = Nat
  BY <1>5, <1>6, <1>7, Induction
<1>9. f[Len(q)] \in Seq(E) /\ IsPart(f[Len(q)], q, Len(q))
  BY <1>1, <1>8 DEF S
<1> QED
  BY <1>2, <1>9
-----------------------------------------------------------------------------
\* The inductive invariant: types, first of all; the variables TypeOK leaves out.
\* A recorder at an event has not come past its last one, and only while it
\* publishes is it past the first slot of the subscribers.
TypesOK ==
    /\ log \in Seq(AllEvents) /\ subscribers \in Seq(Streams \union {NoOne})
    /\ slot \in [Streams -> Nat]
    /\ pc \in [Recorders -> {"idle", "save", "lock", "publish"}]
    /\ nth \in [Recorders -> Nat \ {0}] /\ at \in [Recorders -> Nat \ {0}]
    /\ \A r \in Recorders :
          /\ pc[r] # "idle" => nth[r] <= EventsOf[r]
          /\ pc[r] = "save" => copy[r] \in Seq(AllEvents)
          /\ pc[r] # "publish" => at[r] = 1
          /\ nth[r] <= EventsOf[r] + 1
    /\ copy \in [Recorders -> Seq(AllEvents) \union {NoOne}]
    /\ stream \in [Streams -> {"off", "replayed", "live"}]
    /\ channel \in [Streams -> Seq(AllEvents)] /\ out \in [Streams -> Seq(AllEvents)]
    /\ \A s \in Streams : Len(channel[s]) <= Capacity
    /\ before \in [Streams -> SUBSET AllEvents] /\ dropped \in [Streams -> SUBSET AllEvents]
    /\ raced \in BOOLEAN /\ faults \in Nat /\ connects \in Nat

\* The events of one recorder are in their order, and none is later than the one
\* the recorder is at.
Sorted(q) == \A i, j \in 1..Len(q) : i < j /\ q[i][1] = q[j][1] => q[i][2] <= q[j][2]
Past(q) == \A i \in 1..Len(q) : q[i][2] <= nth[q[i][1]]

OrderOK ==
    /\ Sorted(log) /\ Past(log)
    /\ \A r \in Recorders : pc[r] = "save" => Sorted(copy[r]) /\ Past(copy[r])
    /\ \A s \in Streams :
          /\ Sorted(out[s] \o channel[s]) /\ Past(out[s] \o channel[s])
          /\ stream[s] # "live" => channel[s] = <<>>

\* A connected client has a slot of its own, and nobody else has one.
SlotsOK ==
    /\ \A s \in Streams : stream[s] = "live" =>
          slot[s] \in 1..Len(subscribers) /\ subscribers[slot[s]] = s
    /\ \A i \in 1..Len(subscribers) : subscribers[i] # NoOne =>
          stream[subscribers[i]] = "live" /\ slot[subscribers[i]] = i

\* What a connected client was told of, or has a reason not to be.
Excused(s, e) ==
    \/ \E i \in 1..Len(out[s]) : out[s][i] = e
    \/ \E i \in 1..Len(channel[s]) : channel[s][i] = e
    \/ e \in dropped[s] \/ e \in before[s]

\* Also the event that is being published, once the publisher is past its slot.
HeardOK ==
    \A s \in Streams, r \in Watched : stream[s] = "live" =>
        /\ \A i \in 1..(nth[r] - 1) : Excused(s, <<r, i>>)
        /\ pc[r] = "publish" /\ slot[s] < at[r] => Excused(s, Current(r))

DispatchedOK == dispatched = [e \in AllEvents |-> IF e[2] < nth[e[1]] THEN 1 ELSE 0]

Stored(e) == \E i \in 1..Len(log) : log[i] = e

StoredOK ==
    faults > 0 \/ raced \/
    \A r \in Recorders :
        /\ \A i \in 1..(nth[r] - 1) : Stored(<<r, i>>)
        /\ pc[r] \in {"lock", "publish"} => Stored(Current(r))

Inv == TypesOK /\ OrderOK /\ SlotsOK /\ HeardOK /\ DispatchedOK /\ StoredOK

LEMMA EventShape ==
    \A e : e \in AllEvents <=> \E r \in Recorders : \E i \in 1..EventsOf[r] : e = <<r, i>>
  BY DEF AllEvents, EventsUpTo

LEMMA EventParts ==
    ASSUME NEW e \in AllEvents
    PROVE  /\ e[1] \in Recorders /\ e[2] \in 1..EventsOf[e[1]] /\ e = <<e[1], e[2]>>
           /\ e[2] \in Nat
<1>1. PICK r \in Recorders : \E i \in 1..EventsOf[r] : e = <<r, i>>
  BY EventShape
<1>2. PICK i \in 1..EventsOf[r] : e = <<r, i>>
  BY <1>1
<1>3. EventsOf[r] \in Nat
  BY StreamAssumption
<1> QED
  BY <1>2, <1>3

LEMMA CurrentIsEvent ==
    ASSUME TypesOK, NEW r \in Recorders, pc[r] # "idle"
    PROVE  /\ Current(r) \in AllEvents
           /\ Current(r)[1] = r /\ Current(r)[2] = nth[r]
<1>1. nth[r] \in 1..EventsOf[r]
  BY StreamAssumption DEF TypesOK
<1>2. <<r, nth[r]>> \in AllEvents
  BY <1>1, EventShape
<1> QED
  BY <1>2 DEF Current

LEMMA PublishedAreEvents ==
    ASSUME TypesOK
    PROVE  /\ Published \subseteq AllEvents
           /\ \A e \in AllEvents : e \in Published <=> e[2] < nth[e[1]]
           /\ \A r \in Recorders : \A i \in 1..(nth[r] - 1) : <<r, i>> \in Published
<1>1. \A e : e \in Published <=> \E r \in Recorders : \E i \in 1..(nth[r] - 1) : e = <<r, i>>
  BY DEF Published, EventsUpTo
<1>2. ASSUME NEW r \in Recorders, NEW i \in 1..(nth[r] - 1) PROVE <<r, i>> \in AllEvents
  <2>1. i \in 1..EventsOf[r]
    BY StreamAssumption DEF TypesOK
  <2> QED
    BY <2>1, EventShape
<1>3. ASSUME NEW e \in AllEvents PROVE e \in Published <=> e[2] < nth[e[1]]
  <2>1. e[1] \in Recorders /\ e[2] \in Nat /\ e[2] >= 1 /\ e = <<e[1], e[2]>>
    BY EventParts, StreamAssumption
  <2>2. nth[e[1]] \in Nat
    BY <2>1 DEF TypesOK
  <2>3. ASSUME e[2] < nth[e[1]] PROVE e \in Published
    <3>1. e[2] \in 1..(nth[e[1]] - 1)
      BY <2>1, <2>2, <2>3
    <3> QED
      BY <1>1, <2>1, <3>1
  <2>4. ASSUME e \in Published PROVE e[2] < nth[e[1]]
    <3>1. PICK r \in Recorders : \E i \in 1..(nth[r] - 1) : e = <<r, i>>
      BY <1>1, <2>4
    <3>2. PICK i \in 1..(nth[r] - 1) : e = <<r, i>>
      BY <3>1
    <3>3. nth[r] \in Nat
      BY DEF TypesOK
    <3> QED
      BY <3>2, <3>3
  <2> QED
    BY <2>3, <2>4
<1> QED
  BY <1>1, <1>2, <1>3

LEMMA TypesInit == Init => TypesOK
<1> SUFFICES ASSUME Init PROVE TypesOK
  OBVIOUS
<1>1. \A S : <<>> \in Seq(S) /\ Len(<<>>) = 0
  OBVIOUS
<1>2. Capacity \in Nat /\ \A r \in Recorders : EventsOf[r] \in Nat
  BY StreamAssumption
<1>3. /\ channel \in [Streams -> Seq(AllEvents)] /\ out \in [Streams -> Seq(AllEvents)]
      /\ \A s \in Streams : Len(channel[s]) <= Capacity
  BY <1>1, <1>2 DEF Init
<1>4. /\ log \in Seq(AllEvents) /\ subscribers \in Seq(Streams \union {NoOne})
      /\ slot \in [Streams -> Nat] /\ stream \in [Streams -> {"off", "replayed", "live"}]
      /\ before \in [Streams -> SUBSET AllEvents] /\ dropped \in [Streams -> SUBSET AllEvents]
      /\ raced \in BOOLEAN /\ faults \in Nat /\ connects \in Nat
  BY <1>1 DEF Init
<1>5. /\ pc \in [Recorders -> {"idle", "save", "lock", "publish"}]
      /\ nth \in [Recorders -> Nat \ {0}] /\ at \in [Recorders -> Nat \ {0}]
      /\ copy \in [Recorders -> Seq(AllEvents) \union {NoOne}]
      /\ \A r \in Recorders : pc[r] = "idle" /\ nth[r] = 1 /\ at[r] = 1
  BY DEF Init
<1> QED
  BY <1>2, <1>3, <1>4, <1>5 DEF TypesOK

LEMMA RecordTypes ==
    ASSUME TypesOK, NEW r \in Recorders, Record(r)
    PROVE  TypesOK'
<1> USE DEF TypesOK, Goto, Fault, recording, streaming
<1>1. /\ EventsOf[r] \in Nat /\ nth[r] \in Nat \ {0} /\ at[r] \in Nat \ {0} /\ faults \in Nat
      /\ Capacity \in Nat
  BY StreamAssumption
<1>2. CASE LoadLog(r)
  <2>1. /\ pc' \in [Recorders -> {"idle", "save", "lock", "publish"}]
        /\ copy' \in [Recorders -> Seq(AllEvents) \union {NoOne}] /\ faults' \in Nat
    <3>1. /\ copy' = [copy EXCEPT ![r] = log] \/ copy' = copy
          /\ faults' = faults \/ faults' = faults + 1
          /\ pc' = [pc EXCEPT ![r] = "save"] \/ pc' = [pc EXCEPT ![r] = "lock"]
      BY <1>2 DEF LoadLog
    <3>2. copy' \in [Recorders -> Seq(AllEvents) \union {NoOne}]
      BY <3>1
    <3>3. pc' \in [Recorders -> {"idle", "save", "lock", "publish"}]
      BY <3>1
    <3>4. faults' \in Nat
      BY <1>1, <3>1
    <3> QED
      BY <3>2, <3>3, <3>4
  <2>2. \A x \in Recorders :
          /\ pc'[x] # "idle" => nth'[x] <= EventsOf[x]
          /\ pc'[x] = "save" => copy'[x] \in Seq(AllEvents)
          /\ pc'[x] # "publish" => at'[x] = 1
          /\ nth'[x] <= EventsOf[x] + 1
    BY <1>2 DEF LoadLog
  <2> QED
    BY <1>2, <2>1, <2>2 DEF LoadLog
<1>3. CASE SaveLog(r)
  <2>1. Current(r) \in AllEvents /\ copy[r] \in Seq(AllEvents)
    BY <1>3, CurrentIsEvent DEF SaveLog
  <2>2. log' = Append(copy[r], Current(r)) \/ log' = log
    BY <1>3 DEF SaveLog
  <2>3. log' \in Seq(AllEvents)
    <3>1. Append(copy[r], Current(r)) \in Seq(AllEvents)
      BY <2>1, Appended
    <3> QED
      BY <2>2, <3>1
  <2>4. faults' \in Nat
    BY <1>1, <1>3 DEF SaveLog
  <2>5. raced' = raced \/ raced' = (raced \/ copy[r] # log)
    BY <1>3, Zenon DEF SaveLog
  <2>6. raced' \in BOOLEAN
    BY <2>5
  <2> QED
    BY <1>1, <1>3, <2>3, <2>4, <2>6 DEF SaveLog
<1>4. CASE BeginPublish(r)
  BY <1>1, <1>4 DEF BeginPublish
<1>5. CASE CallSubscriber(r)
  <2>1. Current(r) \in AllEvents
    BY <1>5, CurrentIsEvent DEF CallSubscriber
  <2>2. /\ channel' \in [Streams -> Seq(AllEvents)]
        /\ dropped' \in [Streams -> SUBSET AllEvents]
        /\ \A s \in Streams : Len(channel'[s]) <= Capacity
    <3>1. CASE subscribers[at[r]] = NoOne
      BY <1>5, <3>1 DEF CallSubscriber
    <3>2. CASE subscribers[at[r]] # NoOne
      <4>1. PICK s \in Streams : s = subscribers[at[r]]
        BY <1>1, <1>5, <3>2 DEF CallSubscriber
      <4>2. Offer(s, Current(r))
        BY <1>5, <3>2, <4>1 DEF CallSubscriber
      <4>3. CASE Len(channel[s]) < Capacity
        <5>1. channel' = [channel EXCEPT ![s] = Append(channel[s], Current(r))]
              /\ UNCHANGED dropped
          BY <4>2, <4>3 DEF Offer
        <5>2. /\ Append(channel[s], Current(r)) \in Seq(AllEvents)
              /\ Len(Append(channel[s], Current(r))) = Len(channel[s]) + 1
              /\ Len(channel[s]) \in Nat
          BY <2>1, Appended
        <5> QED
          BY <1>1, <4>3, <5>1, <5>2
      <4>4. CASE ~ (Len(channel[s]) < Capacity)
        <5>1. dropped' = [dropped EXCEPT ![s] = dropped[s] \union {Current(r)}]
              /\ UNCHANGED channel
          BY <4>2, <4>4 DEF Offer
        <5> QED
          BY <2>1, <5>1
      <4> QED
        BY <4>3, <4>4
    <3> QED
      BY <3>1, <3>2
  <2>3. at' \in [Recorders -> Nat \ {0}] /\ \A x \in Recorders : pc[x] # "publish" => at'[x] = 1
    BY <1>1, <1>5 DEF CallSubscriber
  <2> QED
    BY <1>5, <2>2, <2>3 DEF CallSubscriber
<1>6. CASE EndPublish(r)
  <2>1. nth' \in [Recorders -> Nat \ {0}] /\ at' \in [Recorders -> Nat \ {0}]
    BY <1>1, <1>6 DEF EndPublish
  <2>2. \A x \in Recorders :
          /\ pc'[x] # "idle" => nth'[x] <= EventsOf[x]
          /\ pc'[x] # "publish" => at'[x] = 1
          /\ nth'[x] <= EventsOf[x] + 1
    BY <1>1, <1>6 DEF EndPublish
  <2> QED
    BY <1>6, <2>1, <2>2 DEF EndPublish
<1> QED
  BY <1>2, <1>3, <1>4, <1>5, <1>6 DEF Record

LEMMA StreamTypes ==
    ASSUME TypesOK, NEW s \in Streams, Stream(s)
    PROVE  TypesOK'
<1> USE DEF TypesOK, Fault, recording, streaming
<1>1. Capacity \in Nat /\ faults \in Nat /\ connects \in Nat
  BY StreamAssumption
<1>2. <<>> \in Seq(AllEvents) /\ Len(<<>>) = 0
  OBVIOUS
<1>3. CASE Replay(s)
  <2>1. OfWatched(log) \in Seq(AllEvents)
    BY OfWatchedFilters
  <2>2. out' = [out EXCEPT ![s] = OfWatched(log)] \/ out' = [out EXCEPT ![s] = <<>>]
    BY <1>3 DEF Replay
  <2>3. out' \in [Streams -> Seq(AllEvents)]
    BY <1>2, <2>1, <2>2
  <2>4. faults' \in Nat /\ connects' \in Nat
    BY <1>1, <1>3 DEF Replay
  <2> QED
    BY <1>1, <1>3, <2>3, <2>4 DEF Replay
<1>4. CASE Subscribe(s)
  <2>1. subscribers' \in Seq(Streams \union {NoOne}) /\ Len(subscribers) \in Nat
    BY <1>4, Appended DEF Subscribe
  <2>2. Published \in SUBSET AllEvents
    BY PublishedAreEvents
  <2>3. /\ channel' \in [Streams -> Seq(AllEvents)]
        /\ \A x \in Streams : Len(channel'[x]) <= Capacity
    BY <1>1, <1>2, <1>4 DEF Subscribe
  <2>4. before' \in [Streams -> SUBSET AllEvents] /\ dropped' \in [Streams -> SUBSET AllEvents]
    BY <1>4, <2>2 DEF Subscribe
  <2> QED
    BY <1>4, <2>1, <2>3, <2>4 DEF Subscribe
<1>5. CASE Write(s)
  <2>1. /\ Head(channel[s]) \in AllEvents /\ Tail(channel[s]) \in Seq(AllEvents)
        /\ Len(Tail(channel[s])) = Len(channel[s]) - 1 /\ Len(channel[s]) \in Nat
    BY <1>5 DEF Write
  <2>2. out' \in [Streams -> Seq(AllEvents)]
    BY <1>5, <2>1, Appended DEF Write
  <2>3. /\ channel' \in [Streams -> Seq(AllEvents)]
        /\ \A x \in Streams : Len(channel'[x]) <= Capacity
    BY <1>1, <1>5, <2>1 DEF Write
  <2> QED
    BY <1>5, <2>2, <2>3 DEF Write
<1>6. CASE Disconnect(s)
  <2>1. subscribers' = [subscribers EXCEPT ![slot[s]] = NoOne]
    BY <1>6 DEF Disconnect, Vacate
  <2>4. subscribers' \in Seq(Streams \union {NoOne})
    BY <2>1, Replaced
  <2>2. /\ channel' \in [Streams -> Seq(AllEvents)] /\ out' \in [Streams -> Seq(AllEvents)]
        /\ \A x \in Streams : Len(channel'[x]) <= Capacity
    BY <1>1, <1>2, <1>6 DEF Disconnect
  <2>3. before' \in [Streams -> SUBSET AllEvents] /\ dropped' \in [Streams -> SUBSET AllEvents]
    BY <1>6 DEF Disconnect
  <2> QED
    BY <1>6, <2>2, <2>3, <2>4 DEF Disconnect
<1> QED
  BY <1>3, <1>4, <1>5, <1>6 DEF Stream
-----------------------------------------------------------------------------
\* Sequences: a stream's write moves the first event of the channel to what was
\* sent, an offer adds one at the end.
LEMMA Moved ==
    ASSUME NEW E, NEW a \in Seq(E), NEW b \in Seq(E), b # <<>>
    PROVE  Append(a, Head(b)) \o Tail(b) = a \o b
  OBVIOUS

LEMMA Lengthened ==
    ASSUME NEW E, NEW a \in Seq(E), NEW b \in Seq(E), NEW e \in E
    PROVE  a \o Append(b, e) = Append(a \o b, e) /\ a \o b \in Seq(E)
  OBVIOUS

LEMMA Alone ==
    ASSUME NEW E, NEW a \in Seq(E)
    PROVE  a \o <<>> = a
  OBVIOUS

LEMMA OrderOfAppended ==
    ASSUME NEW q \in Seq(AllEvents), NEW e \in AllEvents, Sorted(q), Past(q),
           e[2] = nth[e[1]]
    PROVE  Sorted(Append(q, e)) /\ Past(Append(q, e))
<1>1. PICK p \in Seq(AllEvents) : p = Append(q, e)
  BY Appended
<1>2. /\ Len(p) = Len(q) + 1 /\ p[Len(q) + 1] = e /\ Len(q) \in Nat
      /\ \A i \in 1..Len(q) : p[i] = q[i]
  BY <1>1, Appended
<1>3. e[2] \in Nat
  BY EventParts
<1>4. Past(p)
  <2> SUFFICES ASSUME NEW i \in 1..Len(p) PROVE p[i][2] <= nth[p[i][1]]
    BY DEF Past
  <2>1. CASE i = Len(q) + 1
    BY <1>2, <1>3, <2>1
  <2>2. CASE i \in 1..Len(q)
    BY <1>2, <2>2 DEF Past
  <2> QED
    BY <1>2, <2>1, <2>2
<1>5. Sorted(p)
  <2> SUFFICES ASSUME NEW i \in 1..Len(p), NEW j \in 1..Len(p), i < j, p[i][1] = p[j][1]
               PROVE  p[i][2] <= p[j][2]
    BY DEF Sorted
  <2>1. i \in 1..Len(q) /\ p[i] = q[i]
    BY <1>2
  <2>2. CASE j = Len(q) + 1
    <3>1. q[i][2] <= nth[q[i][1]]
      BY <2>1 DEF Past
    <3> QED
      BY <1>2, <2>1, <2>2, <3>1
  <2>3. CASE j \in 1..Len(q)
    BY <1>2, <2>1, <2>3 DEF Sorted
  <2> QED
    BY <1>2, <2>2, <2>3
<1> QED
  BY <1>1, <1>4, <1>5

LEMMA OrderOfPart ==
    ASSUME NEW q \in Seq(AllEvents), Sorted(q), Past(q)
    PROVE  Sorted(OfWatched(q)) /\ Past(OfWatched(q))
<1>1. PICK p \in Seq(AllEvents) : p = OfWatched(q) /\ IsPart(p, q, Len(q))
  BY OfWatchedFilters
<1>2. Past(p)
  BY <1>1 DEF Past, IsPart
<1>3. Sorted(p)
  <2> SUFFICES ASSUME NEW i \in 1..Len(p), NEW j \in 1..Len(p), i < j, p[i][1] = p[j][1]
               PROVE  p[i][2] <= p[j][2]
    BY DEF Sorted
  <2>1. PICK a, b \in 1..Len(q) : a < b /\ p[i] = q[a] /\ p[j] = q[b]
    BY <1>1 DEF IsPart
  <2> QED
    BY <2>1 DEF Sorted
<1> QED
  BY <1>1, <1>2, <1>3

\* A recorder that goes on leaves what was in order in order.
LEMMA StaysPast ==
    ASSUME TypesOK, NEW q \in Seq(AllEvents), Past(q),
           \A r \in Recorders : nth'[r] = nth[r] \/ nth'[r] = nth[r] + 1
    PROVE  Past(q)'
<1> SUFFICES ASSUME NEW i \in 1..Len(q) PROVE q[i][2] <= nth'[q[i][1]]
  BY DEF Past
<1>1. q[i] \in AllEvents
  OBVIOUS
<1>2. q[i][1] \in Recorders /\ q[i][2] \in Nat
  BY <1>1, EventParts
<1>3. nth[q[i][1]] \in Nat /\ q[i][2] <= nth[q[i][1]]
  BY <1>2 DEF TypesOK, Past
<1> QED
  BY <1>2, <1>3

LEMMA NthGrows ==
    ASSUME TypesOK, Next
    PROVE  \A r \in Recorders : nth'[r] = nth[r] \/ nth'[r] = nth[r] + 1
  BY DEF TypesOK, Next, Record, Stream, LoadLog, SaveLog, BeginPublish, CallSubscriber, EndPublish,
         Replay, Subscribe, Write, Disconnect, recording, streaming

LEMMA OrderInit == Init => OrderOK
<1> SUFFICES ASSUME Init PROVE OrderOK
  OBVIOUS
<1>1. Sorted(<<>>) /\ Past(<<>>)
  <2>1. Len(<<>>) = 0 /\ 1..0 = {}
    OBVIOUS
  <2> QED
    BY <2>1 DEF Sorted, Past
<1>2. <<>> \o <<>> = <<>>
  OBVIOUS
<1>3. log = <<>> /\ \A r \in Recorders : pc[r] = "idle"
  BY DEF Init
<1>4. \A s \in Streams : out[s] = <<>> /\ channel[s] = <<>>
  BY DEF Init
<1> QED
  BY <1>1, <1>2, <1>3, <1>4 DEF OrderOK

\* The stored list, also when an outdated copy replaces it.
LEMMA FileOrder ==
    ASSUME TypesOK, OrderOK, Next, TypesOK'
    PROVE  /\ Sorted(log)' /\ Past(log)'
           /\ \A r \in Recorders : pc'[r] = "save" => Sorted(copy[r])' /\ Past(copy[r])'
<1>1. \A q \in Seq(AllEvents) : Past(q) => Past(q)'
  BY NthGrows, StaysPast
<1>2. log' = log \/ \E r \in Recorders : SaveLog(r) /\ log' = Append(copy[r], Current(r))
  BY DEF Next, Record, Stream, LoadLog, SaveLog, BeginPublish, CallSubscriber, EndPublish,
         Replay, Subscribe, Write, Disconnect, recording, streaming
<1>3. Sorted(log)' /\ Past(log)'
  <2>1. CASE log' = log
    <3>1. PICK q \in Seq(AllEvents) : q = log /\ q = log' /\ Sorted(q) /\ Past(q)
      BY <2>1 DEF TypesOK, OrderOK
    <3> QED
      BY <1>1, <3>1 DEF Sorted, Past
  <2>2. CASE \E r \in Recorders : SaveLog(r) /\ log' = Append(copy[r], Current(r))
    <3>1. PICK r \in Recorders : SaveLog(r) /\ log' = Append(copy[r], Current(r))
      BY <2>2
    <3>2. pc[r] = "save" /\ nth' = nth
      BY <3>1 DEF SaveLog
    <3>3. PICK e \in AllEvents : e = Current(r) /\ e[2] = nth[e[1]]
      BY <3>2, CurrentIsEvent
    <3>4. PICK q \in Seq(AllEvents) : q = copy[r] /\ Sorted(q) /\ Past(q)
      BY <3>2 DEF TypesOK, OrderOK
    <3>5. PICK p \in Seq(AllEvents) : p = Append(q, e)
      BY Appended
    <3>6. Sorted(p) /\ Past(p)
      BY <3>3, <3>4, <3>5, OrderOfAppended
    <3>7. log' = p
      BY <3>1, <3>3, <3>4, <3>5
    <3>8. Past(p)'
      BY <3>2, <3>6 DEF Past
    <3> QED
      BY <3>6, <3>7, <3>8 DEF Sorted, Past
  <2> QED
    BY <1>2, <2>1, <2>2
<1>4. ASSUME NEW r \in Recorders, pc'[r] = "save" PROVE Sorted(copy[r])' /\ Past(copy[r])'
  <2>1. \/ copy'[r] = log
        \/ pc[r] = "save" /\ copy'[r] = copy[r]
    BY <1>4 DEF TypesOK, Next, Record, Stream, LoadLog, SaveLog, BeginPublish, CallSubscriber,
       EndPublish, Replay, Subscribe, Write, Disconnect, recording, streaming, Goto
  <2>2. CASE copy'[r] = log
    <3>1. log \in Seq(AllEvents) /\ Sorted(log) /\ Past(log)
      BY DEF TypesOK, OrderOK
    <3>2. PICK q \in Seq(AllEvents) : q = copy'[r] /\ Sorted(q) /\ Past(q)
      BY <2>2, <3>1
    <3> QED
      BY <1>1, <3>2 DEF Sorted, Past
  <2>3. CASE pc[r] = "save" /\ copy'[r] = copy[r]
    <3>1. copy[r] \in Seq(AllEvents) /\ Sorted(copy[r]) /\ Past(copy[r])
      BY <2>3 DEF TypesOK, OrderOK
    <3>2. PICK q \in Seq(AllEvents) : q = copy'[r] /\ Sorted(q) /\ Past(q)
      BY <2>3, <3>1
    <3> QED
      BY <1>1, <3>2 DEF Sorted, Past
  <2> QED
    BY <2>1, <2>2, <2>3
<1> QED
  BY <1>3, <1>4

\* What a step makes of what a client was sent and of its channel.
LEMMA StreamSteps ==
    ASSUME TypesOK, SlotsOK, Next, NEW s \in Streams
    PROVE  \/ out'[s] = out[s] /\ channel'[s] = channel[s] /\ stream'[s] = stream[s]
           \/ \E r \in Recorders : /\ CallSubscriber(r) /\ pc[r] # "idle"
                                   /\ subscribers[at[r]] = s /\ at[r] \in 1..Len(subscribers)
                                   /\ Len(channel[s]) < Capacity
                                   /\ channel'[s] = Append(channel[s], Current(r))
                                   /\ out' = out /\ nth' = nth /\ stream'[s] = "live"
                                   /\ stream[s] = "live"
           \/ /\ stream[s] = "off" /\ stream'[s] = "replayed" /\ channel'[s] = channel[s]
              /\ out'[s] \in {OfWatched(log), <<>>} /\ nth' = nth
           \/ /\ stream[s] = "replayed" /\ stream'[s] = "live" /\ out'[s] = out[s]
              /\ channel'[s] = <<>>
           \/ /\ stream[s] = "live" /\ stream'[s] = "live" /\ channel[s] # <<>>
              /\ out'[s] = Append(out[s], Head(channel[s])) /\ channel'[s] = Tail(channel[s])
           \/ stream[s] = "live" /\ stream'[s] = "off" /\ out'[s] = <<>> /\ channel'[s] = <<>>
<1> USE DEF TypesOK
<1>1. CASE \E r \in Recorders : Record(r)
  <2>1. PICK r \in Recorders : Record(r)
    BY <1>1
  <2>2. CASE CallSubscriber(r) /\ subscribers[at[r]] = s
    <3>1. at[r] \in 1..Len(subscribers) /\ pc[r] # "idle"
      BY <2>2 DEF CallSubscriber
    <3>2. s # NoOne
      BY StreamAssumption
    <3>3. Offer(s, Current(r)) /\ UNCHANGED <<recording, streaming>>
      BY <2>2, <3>2 DEF CallSubscriber
    <3>4. stream[s] = "live"
      BY <2>2, <3>1, <3>2 DEF SlotsOK
    <3>5. CASE Len(channel[s]) < Capacity
      BY <2>2, <3>1, <3>3, <3>4, <3>5 DEF Offer, recording, streaming
    <3>6. CASE ~ (Len(channel[s]) < Capacity)
      BY <3>3, <3>6 DEF Offer, recording, streaming
    <3> QED
      BY <3>5, <3>6
  <2>3. CASE CallSubscriber(r) /\ subscribers[at[r]] # s
    BY <2>3 DEF CallSubscriber, Offer, recording, streaming
  <2>4. CASE LoadLog(r) \/ SaveLog(r) \/ BeginPublish(r) \/ EndPublish(r)
    BY <2>4 DEF LoadLog, SaveLog, BeginPublish, EndPublish, streaming
  <2> QED
    BY <2>1, <2>2, <2>3, <2>4 DEF Record
<1>2. CASE \E t \in Streams : Stream(t)
  <2>1. PICK t \in Streams : Stream(t)
    BY <1>2
  <2>2. CASE t = s
    <3>1. CASE Replay(s)
      BY <3>1 DEF Replay, recording
    <3>2. CASE Subscribe(s)
      BY <3>2 DEF Subscribe
    <3>3. CASE Write(s)
      BY <3>3 DEF Write
    <3>4. CASE Disconnect(s)
      BY <3>4 DEF Disconnect
    <3> QED
      BY <2>1, <2>2, <3>1, <3>2, <3>3, <3>4 DEF Stream
  <2>3. CASE t # s
    BY <2>1, <2>3 DEF Stream, Replay, Subscribe, Write, Disconnect
  <2> QED
    BY <2>2, <2>3
<1> QED
  BY <1>1, <1>2 DEF Next

LEMMA OrderInductive ==
    ASSUME TypesOK, OrderOK, SlotsOK, Next, TypesOK'
    PROVE  OrderOK'
<1>1. \A q \in Seq(AllEvents) : Past(q) => Past(q)'
  BY NthGrows, StaysPast
<1>2. ASSUME NEW s \in Streams
      PROVE  /\ Sorted(out[s] \o channel[s])' /\ Past(out[s] \o channel[s])'
             /\ stream'[s] # "live" => channel'[s] = <<>>
  <2>1. PICK a, b \in Seq(AllEvents) : a = out[s] /\ b = channel[s]
    BY DEF TypesOK
  <2>2. Sorted(a \o b) /\ Past(a \o b) /\ (stream[s] # "live" => b = <<>>)
    BY <2>1 DEF OrderOK
  <2>3. a \o b \in Seq(AllEvents) /\ a \o <<>> = a /\ <<>> \o <<>> = <<>> /\ <<>> \in Seq(AllEvents)
    OBVIOUS
  <2>4. Sorted(<<>>) /\ Past(<<>>)
    BY DEF Sorted, Past
  <2>5. \E q \in Seq(AllEvents) : /\ out'[s] \o channel'[s] = q
                                  /\ Sorted(q) /\ Past(q)'
                                  /\ stream'[s] # "live" => channel'[s] = <<>>
    <3>1. CASE out'[s] = a /\ channel'[s] = b /\ stream'[s] = stream[s]
      BY <1>1, <2>2, <2>3, <3>1
    <3>2. CASE \E r \in Recorders : /\ pc[r] # "idle"
                                    /\ channel'[s] = Append(b, Current(r))
                                    /\ out'[s] = a /\ nth' = nth /\ stream'[s] = "live"
      <4>1. PICK r \in Recorders : /\ pc[r] # "idle"
                                   /\ channel'[s] = Append(b, Current(r))
                                   /\ out'[s] = a /\ nth' = nth /\ stream'[s] = "live"
        BY <3>2
      <4>2. PICK e \in AllEvents : e = Current(r) /\ e[2] = nth[e[1]]
        BY <4>1, CurrentIsEvent
      <4>3. PICK q \in Seq(AllEvents) : q = Append(a \o b, e)
        BY <2>3, Appended
      <4>4. Sorted(q) /\ Past(q)
        BY <2>2, <2>3, <4>2, <4>3, OrderOfAppended
      <4>5. Past(q)'
        BY <4>1, <4>4 DEF Past
      <4>6. out'[s] \o channel'[s] = q
        BY <4>1, <4>2, <4>3, Lengthened
      <4> QED
        BY <4>1, <4>4, <4>5, <4>6
    <3>3. CASE /\ stream[s] = "off" /\ channel'[s] = b
               /\ out'[s] \in {OfWatched(log), <<>>}
      <4>1. b = <<>> /\ channel'[s] = <<>>
        BY <2>2, <3>3
      <4>2. PICK q \in Seq(AllEvents) : q = out'[s] /\ Sorted(q) /\ Past(q)
        <5>1. CASE out'[s] = OfWatched(log)
          <6>1. PICK l \in Seq(AllEvents) : l = log /\ Sorted(l) /\ Past(l)
            BY DEF TypesOK, OrderOK
          <6>2. PICK q \in Seq(AllEvents) : q = OfWatched(l)
            BY OfWatchedFilters
          <6> QED
            BY <5>1, <6>1, <6>2, OrderOfPart
        <5>2. CASE out'[s] = <<>>
          BY <2>3, <2>4, <5>2
        <5> QED
          BY <3>3, <5>1, <5>2
      <4>3. out'[s] \o channel'[s] = q
        BY <4>1, <4>2, Alone
      <4> QED
        BY <1>1, <4>1, <4>2, <4>3
    <3>4. CASE stream[s] = "replayed" /\ stream'[s] = "live" /\ out'[s] = a /\ channel'[s] = <<>>
      BY <1>1, <2>2, <2>3, <3>4
    <3>5. CASE /\ stream'[s] = "live" /\ b # <<>>
               /\ out'[s] = Append(a, Head(b)) /\ channel'[s] = Tail(b)
      <4>1. out'[s] \o channel'[s] = a \o b
        BY <3>5, Moved
      <4> QED
        BY <1>1, <2>2, <2>3, <3>5, <4>1
    <3>6. CASE out'[s] = <<>> /\ channel'[s] = <<>>
      BY <1>1, <2>3, <2>4, <3>6
    <3> QED
      BY <2>1, <3>1, <3>2, <3>3, <3>4, <3>5, <3>6, StreamSteps
  <2> QED
    BY <2>5 DEF Sorted, Past
<1> QED
  BY <1>2, FileOrder DEF OrderOK
-----------------------------------------------------------------------------
LEMMA SlotsInit == Init => SlotsOK
<1> SUFFICES ASSUME Init PROVE SlotsOK
  OBVIOUS
<1>1. subscribers = <<>> /\ 1..Len(<<>>) = {}
  BY DEF Init
<1>2. \A s \in Streams : stream[s] = "off"
  BY DEF Init
<1> QED
  BY <1>1, <1>2 DEF SlotsOK

LEMMA SlotsInductive ==
    ASSUME TypesOK, SlotsOK, Next
    PROVE  SlotsOK'
<1>1. CASE \E r \in Recorders : Record(r)
  <2>1. UNCHANGED <<subscribers, slot, stream>>
    BY <1>1 DEF Record, LoadLog, SaveLog, BeginPublish, CallSubscriber, EndPublish, streaming
  <2> QED
    BY <2>1 DEF SlotsOK
<1>2. ASSUME NEW s \in Streams, Stream(s) PROVE SlotsOK'
  <2>1. CASE Replay(s)
    <3>1. /\ UNCHANGED <<subscribers, slot>> /\ stream[s] = "off"
          /\ \A x \in Streams : stream'[x] = IF x = s THEN "replayed" ELSE stream[x]
      BY <2>1 DEF Replay, TypesOK
    <3> QED
      BY <3>1 DEF SlotsOK, TypesOK
  <2>2. CASE Subscribe(s)
    <3>1. s \in Streams \union {NoOne} /\ Len(subscribers) \in Nat
      BY DEF TypesOK
    <3>2. /\ Len(subscribers') = Len(subscribers) + 1 /\ subscribers'[Len(subscribers) + 1] = s
          /\ \A i \in 1..Len(subscribers) : subscribers'[i] = subscribers[i]
      BY <2>2, <3>1, Appended DEF Subscribe, TypesOK
    <3>3. /\ stream[s] = "replayed"
          /\ \A x \in Streams : /\ stream'[x] = IF x = s THEN "live" ELSE stream[x]
                                /\ slot'[x] = IF x = s THEN Len(subscribers) + 1 ELSE slot[x]
      BY <2>2 DEF Subscribe, TypesOK
    <3>4. \A i \in 1..Len(subscribers) : subscribers[i] # s
      BY <3>3, StreamAssumption DEF SlotsOK
    <3>5. ASSUME NEW x \in Streams, stream'[x] = "live"
          PROVE  slot'[x] \in 1..Len(subscribers') /\ subscribers'[slot'[x]] = x
      BY <3>1, <3>2, <3>3, <3>5 DEF SlotsOK
    <3>6. ASSUME NEW i \in 1..Len(subscribers'), subscribers'[i] # NoOne
          PROVE  stream'[subscribers'[i]] = "live" /\ slot'[subscribers'[i]] = i
      <4>1. CASE i = Len(subscribers) + 1
        BY <3>2, <3>3, <4>1
      <4>2. CASE i \in 1..Len(subscribers)
        <5>1. subscribers'[i] = subscribers[i] /\ subscribers[i] \in Streams
          BY <3>2, <3>6, <4>2 DEF TypesOK
        <5> QED
          BY <3>3, <3>4, <3>6, <4>2, <5>1 DEF SlotsOK
      <4> QED
        BY <3>1, <3>2, <4>1, <4>2
    <3> QED
      BY <3>5, <3>6 DEF SlotsOK
  <2>3. CASE Write(s)
    BY <2>3 DEF Write, SlotsOK
  <2>4. CASE Disconnect(s)
    <3>1. /\ subscribers' = [subscribers EXCEPT ![slot[s]] = NoOne]
          /\ stream[s] = "live"
          /\ \A x \in Streams : /\ stream'[x] = IF x = s THEN "off" ELSE stream[x]
                                /\ slot'[x] = IF x = s THEN 0 ELSE slot[x]
      BY <2>4 DEF Disconnect, Vacate, TypesOK
    <3>2. /\ Len(subscribers') = Len(subscribers)
          /\ \A i \in 1..Len(subscribers) :
                subscribers'[i] = IF i = slot[s] THEN NoOne ELSE subscribers[i]
      BY <3>1, Replaced DEF TypesOK
    <3>3. ASSUME NEW x \in Streams, stream'[x] = "live"
          PROVE  slot'[x] \in 1..Len(subscribers') /\ subscribers'[slot'[x]] = x
      BY <3>1, <3>2, <3>3 DEF SlotsOK
    <3>4. ASSUME NEW i \in 1..Len(subscribers'), subscribers'[i] # NoOne
          PROVE  stream'[subscribers'[i]] = "live" /\ slot'[subscribers'[i]] = i
      <4>1. i \in 1..Len(subscribers) /\ i # slot[s] /\ subscribers'[i] = subscribers[i]
        BY <3>2, <3>4
      <4>2. subscribers[i] \in Streams
        BY <3>4, <4>1 DEF TypesOK
      <4> QED
        BY <3>1, <3>4, <4>1, <4>2 DEF SlotsOK
    <3> QED
      BY <3>3, <3>4 DEF SlotsOK
  <2> QED
    BY <1>2, <2>1, <2>2, <2>3, <2>4 DEF Stream
<1> QED
  BY <1>1, <1>2 DEF Next

\* What a connected client was told, or need not be told, stays so.
LEMMA ExcusedStays ==
    ASSUME TypesOK, SlotsOK, Next, NEW s \in Streams, NEW e,
           stream[s] = "live", stream'[s] = "live", Excused(s, e)
    PROVE  Excused(s, e)'
<1>1. dropped[s] \subseteq dropped'[s] /\ before'[s] = before[s]
  <2>1. CASE \E r \in Recorders : Record(r)
    <3>1. PICK r \in Recorders : Record(r)
      BY <2>1
    <3>2. before' = before
      BY <2>1 DEF Record, LoadLog, SaveLog, BeginPublish, CallSubscriber, EndPublish, streaming
    <3>3. CASE CallSubscriber(r)
      <4>1. UNCHANGED dropped \/ Offer(subscribers[at[r]], Current(r))
        BY <3>3 DEF CallSubscriber
      <4>2. PICK t : t = subscribers[at[r]]
        OBVIOUS
      <4>3. UNCHANGED dropped \/ dropped' = [dropped EXCEPT ![t] = dropped[t] \union {Current(r)}]
        BY <4>1, <4>2 DEF Offer
      <4> QED
        BY <3>2, <4>3 DEF TypesOK
    <3>4. CASE ~ CallSubscriber(r)
      BY <3>1, <3>2, <3>4 DEF Record, LoadLog, SaveLog, BeginPublish, EndPublish
    <3> QED
      BY <3>3, <3>4
  <2>2. CASE \E t \in Streams : Stream(t)
    BY <2>2 DEF TypesOK, Stream, Replay, Subscribe, Write, Disconnect
  <2> QED
    BY <2>1, <2>2 DEF Next
<1>2. PICK a, b \in Seq(AllEvents) : a = out[s] /\ b = channel[s]
  BY DEF TypesOK
<1>3. CASE out'[s] = a /\ channel'[s] = b
  BY <1>1, <1>2, <1>3 DEF Excused
<1>4. CASE \E r \in Recorders : /\ pc[r] # "idle" /\ channel'[s] = Append(b, Current(r))
                                /\ out'[s] = a
  <2>1. PICK r \in Recorders : /\ pc[r] # "idle" /\ channel'[s] = Append(b, Current(r))
                               /\ out'[s] = a
    BY <1>4
  <2>2. Current(r) \in AllEvents
    BY <2>1, CurrentIsEvent
  <2>3. /\ Len(channel'[s]) = Len(b) + 1 /\ Len(b) \in Nat
        /\ \A i \in 1..Len(b) : channel'[s][i] = b[i]
    BY <2>1, <2>2, Appended
  <2>4. 1..Len(b) \subseteq 1..Len(channel'[s])
    BY <2>3
  <2> QED
    BY <1>1, <1>2, <2>1, <2>3, <2>4 DEF Excused
<1>5. CASE b # <<>> /\ out'[s] = Append(a, Head(b)) /\ channel'[s] = Tail(b)
  <2>1. /\ Head(b) \in AllEvents /\ Head(b) = b[1] /\ Len(b) \in Nat /\ Len(a) \in Nat
        /\ Len(Tail(b)) = Len(b) - 1
        /\ \A i \in 1..(Len(b) - 1) : Tail(b)[i] = b[i + 1]
    BY <1>5
  <2>2. /\ Len(out'[s]) = Len(a) + 1 /\ out'[s][Len(a) + 1] = b[1]
        /\ \A i \in 1..Len(a) : out'[s][i] = a[i]
    BY <1>5, <2>1, Appended
  <2>3. ASSUME NEW i \in 1..Len(a), a[i] = e PROVE \E j \in 1..Len(out'[s]) : out'[s][j] = e
    BY <2>1, <2>2, <2>3
  <2>4. ASSUME NEW i \in 1..Len(b), b[i] = e
        PROVE  \/ \E j \in 1..Len(out'[s]) : out'[s][j] = e
               \/ \E j \in 1..Len(channel'[s]) : channel'[s][j] = e
    <3>1. CASE i = 1
      BY <2>1, <2>2, <2>4, <3>1
    <3>2. CASE i # 1
      <4>1. i - 1 \in 1..Len(channel'[s]) /\ i - 1 \in 1..(Len(b) - 1)
        BY <1>5, <2>1, <3>2
      <4>2. channel'[s][i - 1] = e
        BY <1>5, <2>1, <2>4, <4>1
      <4> QED
        BY <4>1, <4>2
    <3> QED
      BY <3>1, <3>2
  <2> QED
    BY <1>1, <1>2, <2>3, <2>4 DEF Excused
<1> QED
  BY <1>2, <1>3, <1>4, <1>5, StreamSteps

LEMMA HeardInit == Init => HeardOK
  BY DEF Init, HeardOK

LEMMA HeardInductive ==
    ASSUME TypesOK, SlotsOK, HeardOK, Next
    PROVE  HeardOK'
<1> SUFFICES ASSUME NEW s \in Streams, NEW r \in Watched, stream'[s] = "live"
             PROVE  /\ \A i \in 1..(nth'[r] - 1) : Excused(s, <<r, i>>)'
                    /\ pc'[r] = "publish" /\ slot'[s] < at'[r] => Excused(s, Current(r))'
  BY DEF HeardOK
<1>1. r \in Recorders /\ nth[r] \in Nat \ {0} /\ at[r] \in Nat \ {0}
  BY StreamAssumption DEF TypesOK
<1>2. CASE stream[s] # "live"
  <2>1. Subscribe(s)
    BY <1>2 DEF TypesOK, Next, Record, Stream, LoadLog, SaveLog, BeginPublish, CallSubscriber,
       EndPublish, Replay, Subscribe, Write, Disconnect, streaming
  <2>2. before'[s] = Published /\ nth' = nth /\ pc' = pc /\ pc[r] # "publish"
    BY <1>1, <2>1 DEF Subscribe, recording, Readers, TypesOK
  <2>3. \A i \in 1..(nth'[r] - 1) : <<r, i>> \in before'[s]
    BY <1>1, <2>2, PublishedAreEvents
  <2> QED
    BY <2>2, <2>3 DEF Excused
<1>3. CASE stream[s] = "live"
  <2>1. \A e : Excused(s, e) => Excused(s, e)'
    BY <1>3, ExcusedStays
  <2>2. \A i \in 1..(nth[r] - 1) : Excused(s, <<r, i>>)
    BY <1>3 DEF HeardOK
  <2>3. pc[r] = "publish" /\ slot[s] < at[r] => Excused(s, <<r, nth[r]>>)
    BY <1>3 DEF HeardOK, Current
  <2>4. slot'[s] = slot[s] /\ slot[s] \in 1..Len(subscribers) /\ subscribers[slot[s]] = s
    <3>1. slot'[s] = slot[s]
      BY <1>3 DEF TypesOK, Next, Record, Stream, LoadLog, SaveLog, BeginPublish, CallSubscriber,
         EndPublish, Replay, Subscribe, Write, Disconnect, streaming
    <3> QED
      BY <1>3, <3>1 DEF SlotsOK
  <2>5. CASE nth'[r] = nth[r] /\ (pc'[r] # "publish" \/ (pc[r] = "publish" /\ at'[r] = at[r]))
    BY <2>1, <2>2, <2>3, <2>4, <2>5 DEF Current
  <2>6. CASE BeginPublish(r)
    <3>1. at[r] = 1 /\ at' = at /\ nth' = nth
      BY <1>1, <2>6 DEF BeginPublish, TypesOK
    <3> QED
      BY <2>1, <2>2, <2>4, <3>1
  <2>7. CASE CallSubscriber(r)
    <3>1. /\ nth'[r] = nth[r] /\ at'[r] = at[r] + 1 /\ pc[r] = "publish"
          /\ at[r] \in 1..Len(subscribers)
      BY <1>1, <2>7 DEF CallSubscriber, recording, TypesOK
    <3>2. ASSUME slot[s] = at[r] PROVE Excused(s, <<r, nth[r]>>)'
      <4>1. subscribers[at[r]] = s /\ s # NoOne
        BY <2>4, <3>2, StreamAssumption
      <4>2. Offer(s, Current(r)) /\ Current(r) = <<r, nth[r]>>
        BY <2>7, <4>1 DEF CallSubscriber, Current
      <4>3. Current(r) \in AllEvents
        BY <1>1, <3>1, CurrentIsEvent
      <4>4. CASE Len(channel[s]) < Capacity
        <5>1. PICK b \in Seq(AllEvents) : b = channel[s]
          BY DEF TypesOK
        <5>2. channel'[s] = Append(b, Current(r))
          BY <4>2, <4>4, <5>1 DEF Offer, TypesOK
        <5>3. Len(b) \in Nat /\ Len(channel'[s]) = Len(b) + 1 /\ channel'[s][Len(b) + 1] = Current(r)
          BY <4>3, <5>2, Appended
        <5> QED
          BY <3>1, <4>2, <5>3 DEF Excused
      <4>5. CASE ~ (Len(channel[s]) < Capacity)
        <5>1. Current(r) \in dropped'[s]
          BY <4>2, <4>5 DEF Offer, TypesOK
        <5> QED
          BY <3>1, <4>2, <5>1 DEF Excused
      <4> QED
        BY <4>4, <4>5
    <3>3. slot[s] < at'[r] => slot[s] < at[r] \/ slot[s] = at[r]
      BY <1>1, <2>4, <3>1
    <3> QED
      BY <2>1, <2>2, <2>3, <2>4, <3>1, <3>2, <3>3 DEF Current
  <2>8. CASE EndPublish(r)
    <3>1. pc[r] = "publish" /\ at[r] > Len(subscribers) /\ nth'[r] = nth[r] + 1 /\ pc'[r] = "idle"
      BY <1>1, <2>8 DEF EndPublish, Goto, TypesOK
    <3>2. slot[s] < at[r]
      BY <1>1, <2>4, <3>1 DEF TypesOK
    <3>3. \A i \in 1..(nth'[r] - 1) : i \in 1..(nth[r] - 1) \/ i = nth[r]
      BY <1>1, <3>1
    <3> QED
      BY <2>1, <2>2, <2>3, <3>1, <3>2, <3>3
  <2> QED
    <3>1. CASE LoadLog(r) \/ SaveLog(r)
      BY <1>1, <2>5, <3>1 DEF LoadLog, SaveLog, Goto, TypesOK
    <3>2. CASE \E x \in Recorders : x # r /\ Record(x)
      BY <1>1, <2>5, <3>2 DEF Record, LoadLog, SaveLog, BeginPublish, CallSubscriber, EndPublish,
         Goto, TypesOK, recording
    <3>3. CASE \E t \in Streams : Stream(t)
      BY <1>1, <2>5, <3>3 DEF Stream, Replay, Subscribe, Write, Disconnect, recording
    <3> QED
      BY <1>1, <2>6, <2>7, <2>8, <3>1, <3>2, <3>3 DEF Next, Record
<1> QED
  BY <1>2, <1>3

\* The webhook dispatcher, and the stored list.
LEMMA DispatchedInit == Init => DispatchedOK
<1> SUFFICES ASSUME Init PROVE DispatchedOK
  OBVIOUS
<1>1. ASSUME NEW e \in AllEvents PROVE ~ (e[2] < nth[e[1]])
  BY EventParts, StreamAssumption DEF Init
<1> QED
  BY <1>1 DEF Init, DispatchedOK

LEMMA DispatchedInductive ==
    ASSUME TypesOK, DispatchedOK, Next
    PROVE  DispatchedOK'
<1>1. CASE UNCHANGED <<dispatched, nth>>
  BY <1>1 DEF DispatchedOK
<1>2. CASE \E r \in Recorders : EndPublish(r)
  <2>1. PICK r \in Recorders : EndPublish(r)
    BY <1>2
  <2>2. /\ Current(r) \in AllEvents /\ Current(r)[1] = r /\ Current(r)[2] = nth[r]
        /\ nth[r] \in Nat \ {0} /\ Current(r) = <<r, nth[r]>>
    BY <2>1, CurrentIsEvent DEF EndPublish, TypesOK, Current
  <2>3. \A x \in Recorders : nth'[x] = IF x = r THEN nth[r] + 1 ELSE nth[x]
    BY <2>1 DEF EndPublish, TypesOK
  <2>4. dispatched' = [dispatched EXCEPT ![Current(r)] = dispatched[Current(r)] + 1]
    BY <2>1 DEF EndPublish
  <2>5. dispatched[Current(r)] = 0
    BY <2>2 DEF DispatchedOK
  <2>6. ASSUME NEW e \in AllEvents
        PROVE  dispatched'[e] = IF e[2] < nth'[e[1]] THEN 1 ELSE 0
    <3>1. e[1] \in Recorders /\ e[2] \in Nat /\ e = <<e[1], e[2]>> /\ nth[e[1]] \in Nat
      BY EventParts DEF TypesOK
    <3>2. CASE e = Current(r)
      BY <2>2, <2>3, <2>4, <2>5, <3>2 DEF DispatchedOK
    <3>3. CASE e # Current(r)
      <4>1. dispatched'[e] = dispatched[e]
        BY <2>4, <3>3 DEF DispatchedOK
      <4>2. e[1] = r => e[2] # nth[r]
        BY <2>2, <3>1, <3>3
      <4>3. e[2] < nth'[e[1]] <=> e[2] < nth[e[1]]
        BY <2>2, <2>3, <3>1, <4>2
      <4> QED
        BY <4>1, <4>3 DEF DispatchedOK
    <3> QED
      BY <3>2, <3>3
  <2>7. dispatched' \in [AllEvents -> {0, 1}]
    <3>1. dispatched' = [e \in AllEvents |-> dispatched'[e]]
      BY <2>4 DEF DispatchedOK
    <3> QED
      BY <2>6, <3>1
  <2> QED
    BY <2>6, <2>7 DEF DispatchedOK
<1>3. UNCHANGED <<dispatched, nth>> \/ \E r \in Recorders : EndPublish(r)
  BY DEF Next, Record, Stream, LoadLog, SaveLog, BeginPublish, CallSubscriber, Replay, Subscribe,
     Write, Disconnect, recording, streaming
<1> QED
  BY <1>1, <1>2, <1>3

LEMMA StoredInit == Init => StoredOK
  BY DEF Init, StoredOK

LEMMA StoredInductive ==
    ASSUME TypesOK, StoredOK, Next, TypesOK'
    PROVE  StoredOK'
<1>1. /\ faults \in Nat /\ faults' \in Nat /\ faults' >= faults
      /\ raced => raced'
  BY DEF TypesOK, Next, Record, Stream, LoadLog, SaveLog, BeginPublish, CallSubscriber, EndPublish,
     Fault, Replay, Subscribe, Write, Disconnect, recording, streaming
<1> SUFFICES ASSUME faults' = 0, ~ raced', NEW r \in Recorders
             PROVE  /\ \A i \in 1..(nth'[r] - 1) : Stored(<<r, i>>)'
                    /\ pc'[r] \in {"lock", "publish"} => Stored(Current(r))'
  BY <1>1 DEF StoredOK, TypesOK
<1>2. faults = 0 /\ ~ raced /\ nth[r] \in Nat \ {0}
  BY <1>1 DEF TypesOK
<1>3. /\ \A i \in 1..(nth[r] - 1) : Stored(<<r, i>>)
      /\ pc[r] \in {"lock", "publish"} => Stored(<<r, nth[r]>>)
  BY <1>1, <1>2 DEF StoredOK, Current
<1>4. CASE \E x \in Recorders : SaveLog(x)
  <2>1. PICK x \in Recorders : SaveLog(x)
    BY <1>4
  <2>2. log' = Append(log, Current(x)) /\ nth' = nth
    <3>1. /\ nth' = nth
          /\ \/ log' = Append(copy[x], Current(x)) /\ raced' = (raced \/ copy[x] # log)
             \/ faults' = faults + 1
      BY <2>1 DEF SaveLog, Fault
    <3>2. log' = Append(copy[x], Current(x)) /\ raced' = (raced \/ copy[x] # log)
      BY <1>2, <3>1
    <3>3. copy[x] = log
      BY <3>2, Zenon
    <3> QED
      BY <3>1, <3>2, <3>3
  <2>3. PICK q \in Seq(AllEvents), e \in AllEvents : q = log /\ e = Current(x)
    BY <2>1, CurrentIsEvent DEF TypesOK, SaveLog
  <2>4. /\ Len(log') = Len(q) + 1 /\ log'[Len(q) + 1] = e /\ Len(q) \in Nat
        /\ \A i \in 1..Len(q) : log'[i] = q[i]
    BY <2>2, <2>3, Appended
  <2>5. \A y : Stored(y) => Stored(y)'
    BY <2>3, <2>4 DEF Stored
  <2>6. Stored(e)'
    BY <2>4 DEF Stored
  <2>7. r # x => pc'[r] = pc[r]
    BY <2>1 DEF SaveLog, Goto, TypesOK
  <2> QED
    BY <1>3, <2>2, <2>3, <2>5, <2>6, <2>7 DEF Current
<1>5. CASE log' = log
  <2>1. \A y : Stored(y) <=> Stored(y)'
    BY <1>5 DEF Stored
  <2>2. CASE EndPublish(r)
    <3>1. pc[r] = "publish" /\ nth'[r] = nth[r] + 1 /\ pc'[r] = "idle"
      BY <2>2 DEF EndPublish, Goto, TypesOK
    <3>2. \A i \in 1..(nth'[r] - 1) : i \in 1..(nth[r] - 1) \/ i = nth[r]
      BY <1>2, <3>1
    <3> QED
      BY <1>3, <2>1, <3>1, <3>2
  <2>3. CASE nth'[r] = nth[r] /\ (pc'[r] = pc[r] \/ pc[r] = "lock" \/ pc'[r] \notin {"lock", "publish"})
    BY <1>3, <2>1, <2>3 DEF Current
  <2>4. CASE SaveLog(r)
    BY <1>4, <2>4
  <2>5. \/ EndPublish(r) \/ SaveLog(r)
        \/ /\ nth'[r] = nth[r]
           /\ pc'[r] = pc[r] \/ pc[r] = "lock" \/ pc'[r] \notin {"lock", "publish"}
    <3>1. CASE LoadLog(r)
      BY <1>1, <1>2, <3>1 DEF LoadLog, Fault, Goto, TypesOK
    <3>2. CASE BeginPublish(r) \/ CallSubscriber(r)
      BY <3>2 DEF BeginPublish, CallSubscriber, recording
    <3>3. CASE \E x \in Recorders : x # r /\ Record(x)
      BY <3>3 DEF TypesOK, Record, LoadLog, SaveLog, BeginPublish, CallSubscriber, EndPublish, Goto,
         recording
    <3>4. CASE \E t \in Streams : Stream(t)
      BY <3>4 DEF Stream, Replay, Subscribe, Write, Disconnect, recording
    <3> QED
      BY <3>1, <3>2, <3>3, <3>4 DEF Next, Record
  <2> QED
    BY <2>2, <2>3, <2>4, <2>5
<1>6. log' = log \/ \E x \in Recorders : SaveLog(x)
  BY DEF Next, Record, Stream, LoadLog, SaveLog, BeginPublish, CallSubscriber, EndPublish,
     Replay, Subscribe, Write, Disconnect, recording, streaming
<1> QED
  BY <1>4, <1>5, <1>6
-----------------------------------------------------------------------------
LEMMA InvInit == Init => Inv
  BY TypesInit, OrderInit, SlotsInit, HeardInit, DispatchedInit, StoredInit DEF Inv

LEMMA InvNext == Inv /\ [Next]_vars => Inv'
<1> SUFFICES ASSUME Inv, [Next]_vars PROVE Inv'
  OBVIOUS
<1>1. CASE Next
  <2>1. TypesOK'
    BY <1>1, RecordTypes, StreamTypes DEF Next, Inv
  <2> QED
    BY <1>1, <2>1, OrderInductive, SlotsInductive, HeardInductive, DispatchedInductive,
       StoredInductive DEF Inv
<1>2. CASE UNCHANGED vars
  <2>1. /\ UNCHANGED <<log, subscribers, slot, pc, nth, copy, at, stream, channel, out>>
        /\ UNCHANGED <<before, dropped, dispatched, raced, connects, faults>>
    BY <1>2 DEF vars, recording, streaming
  <2>2. TypesOK'
    BY <2>1 DEF Inv, TypesOK
  <2>3. OrderOK'
    <3>1. Sorted(log)' /\ Past(log)'
      BY <2>1 DEF Inv, OrderOK, Sorted, Past
    <3>2. ASSUME NEW r \in Recorders, pc'[r] = "save" PROVE Sorted(copy[r])' /\ Past(copy[r])'
      BY <2>1, <3>2 DEF Inv, OrderOK, Sorted, Past
    <3>3. ASSUME NEW s \in Streams
          PROVE  /\ Sorted(out[s] \o channel[s])' /\ Past(out[s] \o channel[s])'
                 /\ stream'[s] # "live" => channel'[s] = <<>>
      <4>1. PICK q : q = out[s] \o channel[s] /\ q = out'[s] \o channel'[s]
        BY <2>1
      <4>2. Sorted(q) /\ Past(q) /\ (stream[s] # "live" => channel[s] = <<>>)
        BY <4>1 DEF Inv, OrderOK
      <4>3. Sorted(out[s] \o channel[s])'
        BY <4>1, <4>2 DEF Sorted
      <4>4. Past(q)'
        BY <2>1, <4>2 DEF Past
      <4>5. Past(out[s] \o channel[s])'
        BY <4>1, <4>4 DEF Past
      <4> QED
        BY <2>1, <4>2, <4>3, <4>5
    <3> QED
      BY <3>1, <3>2, <3>3 DEF OrderOK
  <2>4. SlotsOK' /\ DispatchedOK' /\ StoredOK'
    BY <2>1 DEF Inv, SlotsOK, DispatchedOK, StoredOK, Stored, Current
  <2>5. HeardOK'
    BY <2>1 DEF Inv, HeardOK, Excused, Current
  <2> QED
    BY <2>2, <2>3, <2>4, <2>5 DEF Inv
<1> QED
  BY <1>1, <1>2

LEMMA Invariance == Spec => []Inv
  BY InvInit, InvNext, PTL DEF Spec

LEMMA ReceivedItems ==
    ASSUME TypesOK, NEW s \in Streams
    PROVE  /\ Received(s) \in Seq(AllEvents) /\ DOMAIN Received(s) = 1..Len(Received(s))
           /\ \A i \in 1..Len(out[s]) : out[s][i] \in Items(Received(s))
           /\ \A i \in 1..Len(channel[s]) : channel[s][i] \in Items(Received(s))
<1>1. PICK a, b \in Seq(AllEvents) : a = out[s] /\ b = channel[s]
  BY DEF TypesOK
<1>2. PICK q \in Seq(AllEvents) : q = a \o b
  <2>1. a \o b \in Seq(AllEvents)
    OBVIOUS
  <2> QED
    BY <2>1
<1>3. /\ Len(q) = Len(a) + Len(b) /\ Len(a) \in Nat /\ Len(b) \in Nat /\ DOMAIN q = 1..Len(q)
      /\ \A i \in 1..Len(a) : q[i] = a[i]
      /\ \A i \in 1..Len(b) : q[Len(a) + i] = b[i]
  BY <1>2
<1>4. ASSUME NEW i \in 1..Len(a) PROVE a[i] \in Items(q)
  <2>1. i \in DOMAIN q /\ q[i] = a[i]
    BY <1>3
  <2> QED
    BY <2>1 DEF Items
<1>5. ASSUME NEW i \in 1..Len(b) PROVE b[i] \in Items(q)
  <2>1. Len(a) + i \in DOMAIN q /\ q[Len(a) + i] = b[i]
    BY <1>3
  <2> QED
    BY <2>1 DEF Items
<1> QED
  BY <1>1, <1>2, <1>3, <1>4, <1>5 DEF Received

\* The stored list, the slots and what the clients were sent are what they should be,
\* and no channel holds more than its capacity (Bus, StreamEvents).
THEOREM TypeCorrect == Spec => []TypeOK
<1>1. ASSUME Inv PROVE TypeOK
  <2>1. Items(log) \subseteq AllEvents /\ Items(subscribers) \subseteq Streams \union {NoOne}
    BY <1>1 DEF Inv, TypesOK, Items
  <2>2. ASSUME NEW s \in Streams PROVE Items(Received(s)) \subseteq AllEvents
    BY <1>1, ReceivedItems DEF Inv, Items
  <2> QED
    BY <1>1, <2>1, <2>2 DEF Inv, TypesOK, TypeOK
<1> QED
  BY <1>1, Invariance, PTL

\* A client is told the events of a recorder in their order, from the file and from
\* the bus together, whatever other recorders overwrite (StreamEvents, Create).
THEOREM EventsInOrder == Spec => []StreamKeepsOrder
<1>1. ASSUME Inv PROVE StreamKeepsOrder
  <2>1. ASSUME NEW s \in Streams PROVE DOMAIN Received(s) = 1..Len(Received(s)) /\ Sorted(Received(s))
    BY <1>1, ReceivedItems DEF Inv, OrderOK, Received
  <2> QED
    BY <2>1 DEF StreamKeepsOrder, Sorted
<1> QED
  BY <1>1, Invariance, PTL

\* The dispatcher is called once for each event, and a connected client misses an
\* event only for a full channel or because it came too late (Publish, Subscribe).
THEOREM NothingSilentlyMissed == Spec => []MissedForCause
<1>1. ASSUME Inv PROVE MissedForCause
  <2>1. ASSUME NEW e \in AllEvents PROVE dispatched[e] = IF e \in Published THEN 1 ELSE 0
    BY <1>1, PublishedAreEvents DEF Inv, DispatchedOK
  <2>2. ASSUME NEW s \in Streams, stream[s] = "live", NEW e \in Published, e[1] \in Watched
        PROVE  e \in Items(Received(s)) \union dropped[s] \union before[s]
    <3>1. e \in AllEvents /\ e[2] < nth[e[1]]
      BY <1>1, PublishedAreEvents DEF Inv
    <3>2. /\ e[1] \in Recorders /\ e[2] \in 1..EventsOf[e[1]] /\ e = <<e[1], e[2]>>
          /\ nth[e[1]] \in Nat /\ EventsOf[e[1]] \in Nat
      BY <1>1, <3>1, EventParts, StreamAssumption DEF Inv, TypesOK
    <3>3. e[2] \in 1..(nth[e[1]] - 1)
      BY <3>1, <3>2
    <3>4. Excused(s, e)
      BY <1>1, <2>2, <3>2, <3>3 DEF Inv, HeardOK
    <3> QED
      BY <1>1, <3>4, ReceivedItems DEF Inv, Excused
  <2> QED
    BY <2>1, <2>2 DEF MissedForCause
<1> QED
  BY <1>1, Invariance, PTL

\* An event is missing in the file only after an error or an outdated copy (Create).
THEOREM StoredOrRaced == Spec => []StoredUnlessRaced
<1>1. ASSUME Inv PROVE StoredUnlessRaced
  <2> SUFFICES ASSUME faults = 0, ~ raced, NEW e \in Published PROVE e \in Items(log)
    BY <1>1 DEF Inv, TypesOK, StoredUnlessRaced
  <2>1. PICK r \in Recorders : \E i \in 1..(nth[r] - 1) : e = <<r, i>>
    BY DEF Published, EventsUpTo
  <2>2. Stored(e)
    BY <1>1, <2>1 DEF Inv, StoredOK
  <2> QED
    BY <1>1, <2>2 DEF Inv, TypesOK, Stored, Items
<1> QED
  BY <1>1, Invariance, PTL
=============================================================================
