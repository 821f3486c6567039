-------------------------- MODULE PluginRegistryProofs --------------------------
(***************************************************************************)
(* Proofs about PluginRegistry for any keys, reloads, administrators and   *)
(* contents of manifests, for both stores, and any number of changes of    *)
(* the directory and failing accesses.                                     *)
(***************************************************************************)
EXTENDS PluginRegistry, Integers, FiniteSetTheorems, WellFoundedInduction, TLAPS

Rec == [id : Nat \ {0}, key : Keys, status : Statuses, rev : Revisions]
Found == [key : Keys, rev : Revisions]

Scanning == {"scan", "find", "load", "save", "written"}
Sweeping == {"sweep", "loadRemove", "remove"}
Holding == {"load", "save", "written", "loadRemove", "remove"}
Saving == {"save", "remove"}

\* The inductive invariant: types, first of all.
TypesOK ==
    /\ dir \in [Keys -> Revisions \union {"absent", "broken"}]
    /\ lastId \in Nat /\ store \in Seq(Rec)
    /\ pc \in [Threads -> Scanning \union Sweeping \union {"idle", "done"}]
    /\ \A a \in Admins : pc[a] \in {"idle", "load", "save"}
    /\ todo \in [Reloaders -> (SUBSET Keys) \union (SUBSET Rec)]
    /\ seen \in [Reloaders -> SUBSET Nat]
    /\ rec \in [Threads -> Rec \union Found \union {NoOne}]
    /\ copy \in [Threads -> Seq(Rec) \union {NoOne}]
    /\ \A r \in Reloaders : /\ pc[r] \in Scanning => todo[r] \in SUBSET Keys
                            /\ pc[r] \in Sweeping => todo[r] \in SUBSET Rec
                            /\ pc[r] = "find" => rec[r] \in Found
    /\ \A th \in Threads : /\ pc[th] \in Holding => rec[th] \in Rec
                           /\ pc[th] \in Saving /\ ~ Sql => copy[th] \in Seq(Rec)
    /\ disturbed \subseteq Reloaders
    /\ atStart \in [Reloaders -> Seq(Rec)]

\* No id is greater than the last one given out.
IdsOK ==
    /\ \A i \in 1..Len(store) : store[i].id <= lastId
    /\ \A th \in Threads :
          /\ pc[th] \in Holding => rec[th].id <= lastId
          /\ pc[th] \in Saving /\ ~ Sql => \A i \in 1..Len(copy[th]) : copy[th][i].id <= lastId
    /\ \A r \in Reloaders : pc[r] \in Sweeping => \A p \in todo[r] : p.id <= lastId

\* No two records of a file have one id, no two rows of the table have one key.
UniqueIds(q) == \A i, j \in 1..Len(q) : q[i].id = q[j].id => i = j
UniqueKeys(q) == \A i, j \in 1..Len(q) : q[i].key = q[j].key => i = j

Row(p) == \E i \in 1..Len(store) : store[i].id = p.id /\ store[i].key = p.key

UniqueOK ==
    /\ UniqueIds(store)
    /\ ~ Sql => \A th \in Threads : pc[th] \in Saving => UniqueIds(copy[th])

\* In the table an id stays with its key; only a new record, which is not enabled,
\* may have no row yet.
TableOK == Sql =>
    /\ UniqueKeys(store)
    /\ \A th \in Threads : pc[th] \in Holding =>
          /\ \A i \in 1..Len(store) : store[i].id = rec[th].id => store[i].key = rec[th].key
          /\ rec[th].status = "Loaded" \/ Row(rec[th])
          /\ \A x \in Threads : pc[x] \in Holding /\ rec[x].id = rec[th].id
                => rec[x].key = rec[th].key
    /\ \A r \in Reloaders : pc[r] \in Sweeping => \A p \in todo[r] : Row(p)

\* Whatever is executable, or is about to be written as such, was enabled once.
Asked(p) == CanExecute(p) => p.id \in asked

AskedOK ==
    /\ \A i \in 1..Len(store) : Asked(store[i])
    /\ \A th \in Threads :
          /\ pc[th] \in Holding => Asked(rec[th])
          /\ pc[th] \in Saving /\ ~ Sql => \A i \in 1..Len(copy[th]) : Asked(copy[th][i])
-----------------------------------------------------------------------------
\* A reload that has been alone since it began.
Lone(r) == pc[r] # "idle" /\ r \notin disturbed

Valid(k) == dir[k] \in Revisions
First(k, i) == i \in 1..Len(store) /\ store[i].key = k
                   /\ \A j \in 1..Len(store) : store[j].key = k => i <= j
Kept(status) == IF status = "Removed" THEN "Loaded" ELSE status

\* The records it began with are still in their places, and nothing is enabled or
\* disabled that was not so at the start.
SinceStart(r) ==
    /\ Len(atStart[r]) <= Len(store)
    /\ \A i \in 1..Len(atStart[r]) :
          store[i].id = atStart[r][i].id /\ store[i].key = atStart[r][i].key
    /\ \A i \in 1..Len(store) : store[i].status \in {"Enabled", "Disabled"} =>
          i <= Len(atStart[r]) /\ atStart[r][i].status = store[i].status

\* The manifest of k is in the store; it has not got there yet.
Settled(r, k) == \E i \in 1..Len(store) :
    /\ First(k, i) /\ store[i].rev = dir[k] /\ store[i].status # "Removed"
    /\ i <= Len(atStart[r]) => store[i].status = Kept(atStart[r][i].status)
Untouched(r, k) == \A i \in 1..Len(atStart[r]) :
    atStart[r][i].key = k => store[i].status = atStart[r][i].status

InHand(r, k) == pc[r] \in {"find", "load", "save", "written"} /\ rec[r].key = k
SeenFirst(r, k) == \E i \in 1..Len(store) : First(k, i) /\ store[i].id \in seen[r]

\* What was seen is the first record of a key with a valid manifest.
SeenOK(r) == \A i \in 1..Len(store) : store[i].id \in seen[r] =>
    Valid(store[i].key) /\ First(store[i].key, i)

\* The record a reload is about to write for a manifest.
FoundOK(r) ==
    /\ Valid(rec[r].key) /\ rec[r].rev = dir[rec[r].key]
    /\ pc[r] \in {"load", "save"} =>
          \/ \E i \in 1..Len(store) : /\ First(rec[r].key, i) /\ rec[r].id = store[i].id
                                      /\ rec[r].status = Kept(store[i].status)
          \/ /\ \A i \in 1..Len(store) : store[i].key # rec[r].key /\ store[i].id # rec[r].id
             /\ rec[r].status = "Loaded"

ScanOK(r) == pc[r] \in Scanning =>
    /\ SeenOK(r)
    /\ \A k \in Keys : Valid(k) =>
          \/ k \in todo[r] /\ ~ InHand(r, k) /\ Untouched(r, k)
          \/ InHand(r, k) /\ k \notin todo[r]
                /\ IF pc[r] = "written" THEN Settled(r, k) ELSE Untouched(r, k)
          \/ k \notin todo[r] /\ ~ InHand(r, k) /\ Settled(r, k) /\ SeenFirst(r, k)
    /\ pc[r] # "scan" => FoundOK(r)

SweepOK(r) == pc[r] \in Sweeping =>
    /\ SeenOK(r)
    /\ \A k \in Keys : Valid(k) => Settled(r, k) /\ SeenFirst(r, k)
    /\ \A p \in todo[r] : p.id \notin seen[r] /\ \E i \in 1..Len(store) : store[i] = p
    /\ \A i \in 1..Len(store) : store[i].status # "Removed" =>
          \/ store[i].id \in seen[r] \/ store[i] \in todo[r]
          \/ pc[r] # "sweep" /\ rec[r].id = store[i].id
    /\ pc[r] # "sweep" =>
          /\ rec[r].status = "Removed" /\ rec[r].id \notin seen[r] /\ Row(rec[r])
          /\ \A p \in todo[r] : p.id # rec[r].id

DoneOK(r) == pc[r] = "done" =>
    /\ \A k \in Keys : Valid(k) => Settled(r, k)
    /\ \A i \in 1..Len(store) : store[i].status # "Removed" =>
          Valid(store[i].key) /\ First(store[i].key, i)

CopyOK(r) == pc[r] \in Saving /\ ~ Sql => copy[r] = store

LoneOK == \A r \in Reloaders : Lone(r) =>
    CopyOK(r) /\ SinceStart(r) /\ ScanOK(r) /\ SweepOK(r) /\ DoneOK(r)

Inv == TypesOK /\ IdsOK /\ UniqueOK /\ TableOK /\ AskedOK /\ LoneOK
-----------------------------------------------------------------------------
\* A set of naturals that is not empty has a least element.
LEMMA LeastNatural ==
    ASSUME NEW S \in SUBSET Nat, S # {}
    PROVE  \E x \in S : \A y \in S : x <= y
<1>1. \E x \in S : \A y \in S : <<y, x>> \notin OpToRel(<, Nat)
  BY NatLessThanWellFounded, WFMin, Zenon
<1>2. \A x, y \in Nat : y < x => <<y, x>> \in OpToRel(<, Nat)
  BY DEF OpToRel
<1>3. \E x \in S : \A y \in S : ~ (y < x)
  BY <1>1, <1>2, Zenon
<1> QED
  BY <1>3

\* GetByNameVersion returns the first record of a key.
LEMMA ByKeyIsFirst ==
    ASSUME NEW q \in Seq(Rec), NEW k, HasKey(q, k)
    PROVE  \E i \in 1..Len(q) : IsFirst(q, k, i) /\ ByKey(q, k) = q[i]
<1>1. DOMAIN q = 1..Len(q) /\ Len(q) \in Nat
  OBVIOUS
<1> DEFINE S == {i \in 1..Len(q) : q[i].key = k}
<1>2. S \in SUBSET Nat /\ S # {}
  BY <1>1 DEF HasKey
<1>3. PICK x \in S : \A y \in S : x <= y
  <2> HIDE DEF S
  <2> QED
    BY <1>2, LeastNatural
<1>4. IsFirst(q, k, x)
  BY <1>1, <1>3 DEF IsFirst
<1>5. \E i \in DOMAIN q : IsFirst(q, k, i)
  BY <1>1, <1>4
<1>6. PICK i : i = CHOOSE j \in DOMAIN q : IsFirst(q, k, j)
  OBVIOUS
<1>7. i \in DOMAIN q /\ IsFirst(q, k, i)
  BY <1>5, <1>6
<1> QED
  BY <1>1, <1>6, <1>7 DEF ByKey

LEMMA FirstIsFirst ==
    ASSUME TypesOK, NEW k, NEW i
    PROVE  /\ IsFirst(store, k, i) <=> First(k, i)
           /\ First(k, i) => HasKey(store, k) /\ ByKey(store, k) = store[i]
<1>1. DOMAIN store = 1..Len(store) /\ Len(store) \in Nat
  BY DEF TypesOK
<1>2. IsFirst(store, k, i) <=> First(k, i)
  BY <1>1 DEF IsFirst, First
<1>3. ASSUME First(k, i) PROVE HasKey(store, k) /\ ByKey(store, k) = store[i]
  <2>1. HasKey(store, k)
    BY <1>1, <1>3 DEF First, HasKey
  <2>2. PICK j \in 1..Len(store) : IsFirst(store, k, j) /\ ByKey(store, k) = store[j]
    BY <2>1, ByKeyIsFirst DEF TypesOK
  <2>3. i \in Nat /\ j \in Nat /\ i <= j /\ j <= i
    BY <1>1, <1>3, <2>2 DEF First, IsFirst
  <2>4. i = j
    BY <2>3
  <2> QED
    BY <2>1, <2>2, <2>4
<1> QED
  BY <1>2, <1>3

\* Without a first record there is none.
LEMMA NoFirst ==
    ASSUME TypesOK, NEW k
    PROVE  HasKey(store, k) <=> \E i \in 1..Len(store) : First(k, i)
<1>1. HasKey(store, k) => \E i \in 1..Len(store) : IsFirst(store, k, i)
  BY ByKeyIsFirst DEF TypesOK
<1> QED
  BY <1>1, FirstIsFirst

Same(a, p) == IF Sql THEN a.key = p.key ELSE a.id = p.id

\* A write changes one record in its place and keeps its id, or adds one at the end.
IsPut(items, p, q) ==
    \/ \E k \in 1..Len(items) :
          /\ Same(items[k], p) /\ Len(q) = Len(items)
          /\ q[k].id = items[k].id /\ q[k].key = p.key
          /\ q[k].status = p.status /\ q[k].rev = p.rev
          /\ \A i \in 1..Len(items) : i # k => q[i] = items[i]
    \/ /\ \A i \in 1..Len(items) : ~ Same(items[i], p)
       /\ Len(q) = Len(items) + 1 /\ q[Len(items) + 1] = p
       /\ \A i \in 1..Len(items) : q[i] = items[i]

LEMMA WithId ==
    ASSUME NEW p \in Rec, NEW n \in Nat \ {0}
    PROVE  /\ [p EXCEPT !.id = n] \in Rec
           /\ [p EXCEPT !.id = n].id = n /\ [p EXCEPT !.id = n].key = p.key
           /\ [p EXCEPT !.id = n].status = p.status /\ [p EXCEPT !.id = n].rev = p.rev
  BY DEF Rec

LEMMA PutWrites ==
    ASSUME NEW items \in Seq(Rec), NEW p \in Rec,
           IF Sql THEN UniqueKeys(items) ELSE UniqueIds(items)
    PROVE  Put(items, p) \in Seq(Rec) /\ IsPut(items, p, Put(items, p))
<1>1. DOMAIN items = 1..Len(items) /\ Len(items) \in Nat /\ \A i \in 1..Len(items) : items[i] \in Rec
  OBVIOUS
<1>2. CASE \A i \in 1..Len(items) : ~ Same(items[i], p)
  <2>1. Put(items, p) = Append(items, p)
    BY <1>1, <1>2 DEF Put, Same
  <2>2. /\ Append(items, p) \in Seq(Rec) /\ Len(Append(items, p)) = Len(items) + 1
        /\ Append(items, p)[Len(items) + 1] = p
        /\ \A i \in 1..Len(items) : Append(items, p)[i] = items[i]
    OBVIOUS
  <2> QED
    BY <1>2, <2>1, <2>2 DEF IsPut
<1>3. CASE \E k \in 1..Len(items) : Same(items[k], p)
  <2>1. PICK k \in 1..Len(items) : Same(items[k], p)
    BY <1>3
  <2>2. \A i \in 1..Len(items) : Same(items[i], p) <=> i = k
    BY <2>1 DEF Same, UniqueKeys, UniqueIds
  <2> DEFINE New(i) == IF Same(items[i], p) THEN [p EXCEPT !.id = items[i].id] ELSE items[i]
             R == [i \in 1..Len(items) |-> New(i)]
  <2>3. Put(items, p) = R
    BY <1>1, <1>3 DEF Put, Same
  <2>4. ASSUME NEW i \in 1..Len(items) PROVE New(i) \in Rec
    <3>1. items[i].id \in Nat \ {0}
      BY <1>1 DEF Rec
    <3> QED
      BY <1>1, <3>1, WithId
  <2>5. New(k) = [p EXCEPT !.id = items[k].id] /\ \A i \in 1..Len(items) : i # k => New(i) = items[i]
    BY <2>1, <2>2
  <2>6. items[k].id \in Nat \ {0}
    BY <1>1 DEF Rec
  <2>7. /\ New(k).id = items[k].id /\ New(k).key = p.key /\ New(k).status = p.status
        /\ New(k).rev = p.rev
    <3>1. PICK n \in Nat \ {0} : n = items[k].id
      BY <2>6
    <3>2. PICK x : x = [p EXCEPT !.id = n]
      OBVIOUS
    <3>3. x.id = n /\ x.key = p.key /\ x.status = p.status /\ x.rev = p.rev
      BY <3>2, WithId
    <3>4. New(k) = x
      BY <2>5, <3>1, <3>2
    <3> HIDE DEF New
    <3> QED
      BY <3>1, <3>3, <3>4
  <2> HIDE DEF New
  <2>8. R \in Seq(Rec) /\ Len(R) = Len(items) /\ \A i \in 1..Len(items) : R[i] = New(i)
    BY <1>1, <2>4
  <2>9. PICK q \in Seq(Rec) : q = Put(items, p) /\ Len(q) = Len(items)
                              /\ \A i \in 1..Len(items) : q[i] = New(i)
    BY <2>3, <2>8
  <2>10. \A i \in 1..Len(items) : i # k => q[i] = items[i]
    BY <2>5, <2>9
  <2>11. IsPut(items, p, q)
    BY <2>1, <2>7, <2>9, <2>10 DEF IsPut
  <2> QED
    BY <2>9, <2>11
<1> QED
  BY <1>2, <1>3

LEMMA FromManifestIs ==
    ASSUME TypesOK, NEW k \in Keys, NEW rev \in Revisions
    PROVE  /\ FromManifest(k, rev) \in Rec
           /\ FromManifest(k, rev).key = k /\ FromManifest(k, rev).rev = rev
           /\ \/ /\ HasKey(store, k)
                 /\ \E i \in 1..Len(store) :
                       /\ First(k, i) /\ FromManifest(k, rev).id = store[i].id
                       /\ FromManifest(k, rev).status = Kept(store[i].status)
              \/ /\ ~ HasKey(store, k)
                 /\ \A i \in 1..Len(store) : store[i].key # k
                 /\ FromManifest(k, rev).id = lastId + 1
                 /\ FromManifest(k, rev).status = "Loaded"
<1>1. DOMAIN store = 1..Len(store) /\ \A i \in 1..Len(store) : store[i] \in Rec
  BY DEF TypesOK
<1>2. CASE HasKey(store, k)
  <2>1. PICK i \in 1..Len(store) : First(k, i)
    BY <1>2, NoFirst
  <2>2. PICK p \in Rec : p = store[i] /\ p = ByKey(store, k) /\ p.key = k
    BY <1>1, <2>1, FirstIsFirst DEF First
  <2>3. PICK n : n = [p EXCEPT !.rev = rev, !.status = IF p.status = "Removed" THEN "Loaded" ELSE p.status]
    OBVIOUS
  <2>4. n = FromManifest(k, rev)
    BY <1>2, <2>2, <2>3 DEF FromManifest
  <2>5. /\ n \in Rec /\ n.id = p.id /\ n.key = p.key /\ n.rev = rev
        /\ n.status = IF p.status = "Removed" THEN "Loaded" ELSE p.status
    BY <2>3 DEF Rec, Statuses
  <2> QED
    BY <1>2, <2>1, <2>2, <2>4, <2>5 DEF Kept
<1>3. CASE ~ HasKey(store, k)
  <2>1. PICK n : n = [id |-> lastId + 1, key |-> k, status |-> "Loaded", rev |-> rev]
    OBVIOUS
  <2>2. n = FromManifest(k, rev)
    BY <1>3, <2>1 DEF FromManifest
  <2>3. n \in Rec /\ n.id = lastId + 1 /\ n.key = k /\ n.status = "Loaded" /\ n.rev = rev
    BY <2>1 DEF Rec, Statuses, TypesOK
  <2>4. \A i \in 1..Len(store) : store[i].key # k
    BY <1>1, <1>3 DEF HasKey
  <2> QED
    BY <1>3, <2>2, <2>3, <2>4
<1> QED
  BY <1>2, <1>3

LEMMA WithStatus ==
    ASSUME NEW p \in Rec, NEW st \in Statuses
    PROVE  /\ [p EXCEPT !.status = st] \in Rec
           /\ [p EXCEPT !.status = st].id = p.id /\ [p EXCEPT !.status = st].key = p.key
           /\ [p EXCEPT !.status = st].status = st /\ [p EXCEPT !.status = st].rev = p.rev
  BY DEF Rec

LEMMA DisturbTypes ==
    ASSUME TypesOK, NEW rs, Disturb(rs)
    PROVE  /\ disturbed' \subseteq Reloaders /\ atStart' \in [Reloaders -> Seq(Rec)]
           /\ disturbed' = disturbed \union (rs \intersect Reloaders)
           /\ \A r \in Reloaders : r \notin disturbed' => atStart'[r] = atStart[r]
<1>1. <<>> \in Seq(Rec)
  OBVIOUS
<1> QED
  BY <1>1 DEF TypesOK, Disturb

\* What SavePlugins makes of the stored records.
LEMMA SaveWrites ==
    ASSUME TypesOK, UniqueOK, TableOK, NEW th \in Threads, SavePlugins(th)
    PROVE  \/ store' = store /\ off' = off /\ disturbed' = disturbed \union ({th} \intersect Reloaders)
           \/ \E items \in Seq(Rec) :
                 /\ items = (IF Sql THEN store ELSE copy[th])
                 /\ rec[th] \in Rec /\ (IF Sql THEN UniqueKeys(items) ELSE UniqueIds(items))
                 /\ store' \in Seq(Rec) /\ IsPut(items, rec[th], store')
                 /\ disturbed' = disturbed \union (Reloaders \ {th})
                 /\ pc'[th] = AfterWrite(th, TRUE)
<1>1. pc[th] \in Saving /\ pc[th] \in Holding
  BY DEF SavePlugins, Saving, Holding
<1>2. PICK p \in Rec : p = rec[th]
  BY <1>1 DEF TypesOK
<1>3. PICK items \in Seq(Rec) : /\ items = (IF Sql THEN store ELSE copy[th])
                                /\ IF Sql THEN UniqueKeys(items) ELSE UniqueIds(items)
  BY <1>1 DEF TypesOK, UniqueOK, TableOK
<1>4. Put(items, p) \in Seq(Rec) /\ IsPut(items, p, Put(items, p))
  BY <1>3, PutWrites
<1>5. CASE store' = Put(items, p) /\ Disturb(Reloaders \ {th}) /\ Goto(th, AfterWrite(th, TRUE))
  <2>1. disturbed' = disturbed \union (Reloaders \ {th})
    BY <1>5, DisturbTypes
  <2>2. pc'[th] = AfterWrite(th, TRUE)
    BY <1>5 DEF TypesOK, Goto
  <2> QED
    BY <1>2, <1>3, <1>4, <1>5, <2>1, <2>2
<1>6. CASE UNCHANGED <<store, off>> /\ Disturb({th})
  BY <1>6, DisturbTypes
<1> QED
  BY <1>2, <1>3, <1>5, <1>6 DEF SavePlugins

LEMMA TypesInit == Init => TypesOK
<1> SUFFICES ASSUME Init PROVE TypesOK
  OBVIOUS
<1>1. <<>> \in Seq(Rec) /\ Reloaders \subseteq Threads /\ Admins \subseteq Threads
  BY DEF Threads
<1> QED
  BY <1>1 DEF Init, TypesOK, Scanning, Sweeping, Holding, Saving

LEMMA ThreadSets == Reloaders \subseteq Threads /\ Admins \subseteq Threads /\ Reloaders \intersect Admins = {}
  BY RegistryAssumption DEF Threads

LEMMA ScanTypes ==
    ASSUME TypesOK, NEW r \in Reloaders,
           ReloadPlugins(r) \/ LoadManifest(r) \/ FindExisting(r) \/ MarkSeen(r)
    PROVE  TypesOK'
<1> USE ThreadSets DEF TypesOK, Goto, store_, locals, history, counts
<1> USE DEF Scanning, Sweeping, Holding, Saving
<1>1. CASE ReloadPlugins(r)
  <2>1. /\ todo' \in [Reloaders -> (SUBSET Keys) \union (SUBSET Rec)] /\ todo'[r] \in SUBSET Keys
        /\ seen' \in [Reloaders -> SUBSET Nat]
    BY <1>1 DEF ReloadPlugins
  <2>2. /\ disturbed' \subseteq Reloaders /\ atStart' \in [Reloaders -> Seq(Rec)]
    <3>1. <<>> \in Seq(Rec)
      OBVIOUS
    <3> QED
      BY <1>1, <3>1 DEF ReloadPlugins
  <2>3. pc' = [pc EXCEPT ![r] = "scan"]
    BY <1>1 DEF ReloadPlugins
  <2>4. \A x \in Reloaders : x # r => todo'[x] = todo[x]
    BY <1>1 DEF ReloadPlugins
  <2>5. UNCHANGED <<dir, store, lastId, rec, copy>>
    BY <1>1 DEF ReloadPlugins
  <2> QED
    BY <2>1, <2>2, <2>3, <2>4, <2>5
<1>2. CASE LoadManifest(r)
  <2>1. PICK k \in todo[r] :
          /\ todo' = [todo EXCEPT ![r] = todo[r] \ {k}]
          /\ IF dir[k] \in Revisions
             THEN Goto(r, "find") /\ rec' = [rec EXCEPT ![r] = [key |-> k, rev |-> dir[k]]]
             ELSE UNCHANGED <<pc, rec>>
    BY <1>2 DEF LoadManifest
  <2>2. todo[r] \in SUBSET Keys /\ k \in Keys /\ pc[r] = "scan"
    BY <1>2, <2>1 DEF LoadManifest
  <2>3. /\ todo' \in [Reloaders -> (SUBSET Keys) \union (SUBSET Rec)] /\ todo'[r] \in SUBSET Keys
        /\ \A x \in Reloaders : x # r => todo'[x] = todo[x]
    BY <2>1, <2>2
  <2>4. UNCHANGED <<dir, store, lastId, seen, copy, disturbed, atStart>>
    BY <1>2 DEF LoadManifest
  <2>5. CASE dir[k] \in Revisions
    <3>1. [key |-> k, rev |-> dir[k]] \in Found
      BY <2>2, <2>5 DEF Found
    <3>2. PICK f \in Found : f = [key |-> k, rev |-> dir[k]]
      BY <3>1
    <3>3. rec' = [rec EXCEPT ![r] = f] /\ pc' = [pc EXCEPT ![r] = "find"]
      BY <2>1, <2>5, <3>2
    <3> QED
      BY <2>2, <2>3, <2>4, <3>3
  <2>6. CASE dir[k] \notin Revisions
    BY <2>1, <2>2, <2>3, <2>4, <2>6
  <2> QED
    BY <2>5, <2>6
<1>3. CASE FindExisting(r)
  <2>1. rec[r] \in Found /\ rec[r].key \in Keys /\ rec[r].rev \in Revisions /\ pc[r] = "find"
    BY <1>3 DEF FindExisting, Found
  <2>2. PICK p \in Rec : p = FromManifest(rec[r].key, rec[r].rev)
    BY <2>1, FromManifestIs
  <2>3. disturbed' \subseteq Reloaders /\ atStart' \in [Reloaders -> Seq(Rec)]
    BY <1>3, DisturbTypes DEF FindExisting
  <2>4. UNCHANGED <<dir, store, todo, seen, copy>> /\ lastId' \in Nat
    BY <1>3 DEF FindExisting
  <2>5. CASE rec' = [rec EXCEPT ![r] = p] /\ Goto(r, Writing)
    <3>1. pc' = [pc EXCEPT ![r] = IF Sql THEN "save" ELSE "load"]
      BY <2>5 DEF Writing
    <3> QED
      BY <2>1, <2>3, <2>4, <2>5, <3>1
  <2>6. CASE rec' = rec /\ pc' = [pc EXCEPT ![r] = "scan"]
    BY <2>1, <2>3, <2>4, <2>6
  <2> QED
    BY <1>3, <2>2, <2>5, <2>6 DEF FindExisting
<1>4. CASE MarkSeen(r)
  <2>1. disturbed' \subseteq Reloaders /\ atStart' \in [Reloaders -> Seq(Rec)]
    BY <1>4, DisturbTypes DEF MarkSeen
  <2>2. /\ UNCHANGED <<dir, store, lastId, todo, copy>> /\ pc[r] = "written"
        /\ pc' = [pc EXCEPT ![r] = "scan"] /\ rec' = [rec EXCEPT ![r] = NoOne]
    BY <1>4 DEF MarkSeen
  <2>3. seen' \in [Reloaders -> SUBSET Nat]
    <3>1. HasKey(store, rec[r].key) => ByKey(store, rec[r].key).id \in Nat
      <4>1. HasKey(store, rec[r].key) => ByKey(store, rec[r].key) \in Rec
        BY ByKeyIsFirst
      <4> QED
        BY <4>1 DEF Rec
    <3>2. PICK S \in SUBSET Nat : S = (IF HasKey(store, rec[r].key) THEN {ByKey(store, rec[r].key).id}
                                      ELSE {})
      BY <3>1
    <3>3. seen' = [seen EXCEPT ![r] = seen[r] \union S] \/ seen' = seen
      BY <1>4, <3>2 DEF MarkSeen
    <3>4. seen[r] \in SUBSET Nat /\ seen[r] \union S \in SUBSET Nat
      OBVIOUS
    <3> QED
      BY <3>3, <3>4
  <2> QED
    BY <2>1, <2>2, <2>3
<1> QED
  BY <1>1, <1>2, <1>3, <1>4

LEMMA SweepTypes ==
    ASSUME TypesOK, NEW r \in Reloaders, ListForRemoval(r) \/ RemoveUnseen(r) \/ EndReload(r)
    PROVE  TypesOK'
<1> USE ThreadSets DEF TypesOK, Goto, store_, locals, history, counts
<1> USE DEF Scanning, Sweeping, Holding, Saving
<1>1. CASE ListForRemoval(r)
  <2>1. disturbed' \subseteq Reloaders /\ atStart' \in [Reloaders -> Seq(Rec)]
    BY <1>1, DisturbTypes DEF ListForRemoval
  <2>2. UNCHANGED <<dir, store, lastId, seen, rec, copy>> /\ pc' = [pc EXCEPT ![r] = "sweep"]
    BY <1>1 DEF ListForRemoval
  <2>3. /\ todo'[r] \in SUBSET Rec /\ \A x \in Reloaders : x # r => todo'[x] = todo[x]
        /\ todo' \in [Reloaders -> (SUBSET Keys) \union (SUBSET Rec)]
    <3>1. DOMAIN store = 1..Len(store) /\ \A i \in DOMAIN store : store[i] \in Rec
      OBVIOUS
    <3>2. PICK S \in SUBSET Rec :
            S = {store[i] : i \in {j \in DOMAIN store :
                                     store[j].status # "Removed" /\ store[j].id \notin seen[r]}}
      <4>1. {store[i] : i \in {j \in DOMAIN store :
                 store[j].status # "Removed" /\ store[j].id \notin seen[r]}} \subseteq Rec
        BY <3>1
      <4> QED
        BY <4>1
    <3>3. todo' = [todo EXCEPT ![r] = S] \/ (todo' = todo /\ todo[r] = {})
      BY <1>1, <3>2 DEF ListForRemoval
    <3>4. CASE todo' = [todo EXCEPT ![r] = S]
      BY <3>4
    <3>5. CASE todo' = todo /\ todo[r] = {}
      BY <3>5
    <3> QED
      BY <3>3, <3>4, <3>5
  <2> QED
    BY <2>1, <2>2, <2>3
<1>2. CASE RemoveUnseen(r)
  <2>1. todo[r] \in SUBSET Rec /\ pc[r] = "sweep"
    BY <1>2 DEF RemoveUnseen
  <2>2. PICK p \in Rec : /\ p \in todo[r] /\ rec' = [rec EXCEPT ![r] = [p EXCEPT !.status = "Removed"]]
                         /\ todo' = [todo EXCEPT ![r] = todo[r] \ {p}]
    BY <1>2, <2>1 DEF RemoveUnseen
  <2>3. PICK n \in Rec : n = [p EXCEPT !.status = "Removed"]
    BY WithStatus DEF Statuses
  <2>4. /\ UNCHANGED <<dir, store, lastId, seen, copy, disturbed, atStart>>
        /\ pc' = [pc EXCEPT ![r] = IF Sql THEN "remove" ELSE "loadRemove"]
    BY <1>2 DEF RemoveUnseen
  <2>5. rec' = [rec EXCEPT ![r] = n]
    BY <2>2, <2>3
  <2>6. /\ todo' \in [Reloaders -> (SUBSET Keys) \union (SUBSET Rec)] /\ todo'[r] \in SUBSET Rec
        /\ \A x \in Reloaders : x # r => todo'[x] = todo[x]
    <3>1. PICK S \in SUBSET Rec : S = todo[r] \ {p}
      BY <2>1
    <3>2. todo' = [todo EXCEPT ![r] = S]
      BY <2>2, <3>1
    <3> QED
      BY <3>2
  <2> QED
    BY <2>1, <2>4, <2>5, <2>6
<1>3. CASE EndReload(r)
  BY <1>3 DEF EndReload
<1> QED
  BY <1>1, <1>2, <1>3

LEMMA WriteTypes ==
    ASSUME TypesOK, UniqueOK, TableOK, NEW th \in Threads, LoadPlugins(th) \/ SavePlugins(th)
    PROVE  TypesOK'
<1> USE ThreadSets DEF TypesOK, Goto, store_, locals, history, counts
<1> USE DEF Scanning, Sweeping, Holding, Saving
<1>1. CASE LoadPlugins(th)
  <2>1. disturbed' \subseteq Reloaders /\ atStart' \in [Reloaders -> Seq(Rec)]
    BY <1>1, DisturbTypes DEF LoadPlugins
  <2>2. UNCHANGED <<dir, store, lastId, todo, seen, rec>>
    BY <1>1 DEF LoadPlugins
  <2>3. CASE /\ copy' = [copy EXCEPT ![th] = store]
             /\ pc' = [pc EXCEPT ![th] = IF pc[th] = "load" THEN "save" ELSE "remove"]
    BY <1>1, <2>1, <2>2, <2>3 DEF LoadPlugins
  <2>4. CASE copy' = copy /\ pc' = [pc EXCEPT ![th] = AfterWrite(th, FALSE)]
    BY <1>1, <2>1, <2>2, <2>4 DEF LoadPlugins, AfterWrite
  <2> QED
    BY <1>1, <2>3, <2>4 DEF LoadPlugins
<1>2. CASE SavePlugins(th)
  <2>1. disturbed' \subseteq Reloaders /\ atStart' \in [Reloaders -> Seq(Rec)]
    BY <1>2, DisturbTypes DEF SavePlugins
  <2>2. store' \in Seq(Rec)
    BY <1>2, SaveWrites
  <2>3. UNCHANGED <<dir, lastId, todo, seen>> /\ copy' = [copy EXCEPT ![th] = NoOne]
    BY <1>2 DEF SavePlugins
  <2>4. rec' = rec \/ rec' = [rec EXCEPT ![th] = NoOne]
    BY <1>2 DEF SavePlugins
  <2>5. /\ \E ok \in BOOLEAN : pc' = [pc EXCEPT ![th] = AfterWrite(th, ok)]
        /\ pc[th] \in {"save", "remove"}
    BY <1>2 DEF SavePlugins
  <2>6. PICK l : /\ pc' = [pc EXCEPT ![th] = l]
                 /\ IF th \in Admins THEN l = "idle"
                    ELSE IF pc[th] = "remove" THEN l = "sweep" ELSE l \in {"written", "scan"}
    BY <2>5 DEF AfterWrite
  <2>7. l = "written" => rec' = rec
    BY <1>2, <2>6 DEF SavePlugins, Threads
  <2> QED
    BY <2>1, <2>2, <2>3, <2>4, <2>5, <2>6, <2>7
<1> QED
  BY <1>1, <1>2

LEMMA RequestTypes ==
    ASSUME TypesOK, ChangeDirectory \/ \E a \in Admins : ChangeStatus(a)
    PROVE  TypesOK'
<1> USE ThreadSets DEF TypesOK, Goto, store_, locals, history, counts
<1> USE DEF Scanning, Sweeping, Holding, Saving
<1>1. CASE ChangeDirectory
  <2>1. disturbed' \subseteq Reloaders /\ atStart' \in [Reloaders -> Seq(Rec)]
    BY <1>1, DisturbTypes DEF ChangeDirectory
  <2>2. dir' \in [Keys -> Revisions \union {"absent", "broken"}]
    BY <1>1 DEF ChangeDirectory
  <2> QED
    BY <1>1, <2>1, <2>2 DEF ChangeDirectory
<1>2. ASSUME NEW a \in Admins, ChangeStatus(a) PROVE TypesOK'
  <2>1. DOMAIN store = 1..Len(store) /\ \A i \in DOMAIN store : store[i] \in Rec
    OBVIOUS
  <2>2. PICK i \in DOMAIN store, to \in {"Enabled", "Disabled"} :
          rec' = [rec EXCEPT ![a] = [store[i] EXCEPT !.status = to]]
    BY <1>2 DEF ChangeStatus
  <2>3. PICK n \in Rec : n = [store[i] EXCEPT !.status = to]
    BY <2>1, WithStatus DEF Statuses
  <2>4. rec' = [rec EXCEPT ![a] = n]
    BY <2>2, <2>3
  <2>5. /\ UNCHANGED <<dir, store, lastId, todo, seen, copy, disturbed, atStart>>
        /\ pc' = [pc EXCEPT ![a] = IF Sql THEN "save" ELSE "load"]
    BY <1>2 DEF ChangeStatus, Writing
  <2> QED
    BY <2>4, <2>5
<1> QED
  BY <1>1, <1>2
-----------------------------------------------------------------------------
\* What a step of one goroutine does to the others: nothing.
Frame(th) == \A x \in Threads : x # th =>
    /\ pc'[x] = pc[x] /\ rec'[x] = rec[x] /\ copy'[x] = copy[x]
    /\ x \in Reloaders => todo'[x] = todo[x] /\ seen'[x] = seen[x]

\* And to itself: it takes nothing new in hand but the stored records,
Quiet(th) ==
    /\ UNCHANGED <<store, lastId, asked>>
    /\ pc'[th] \in Holding => pc[th] \in Holding /\ rec'[th] = rec[th]
    /\ pc'[th] \in Saving => copy'[th] = store
    /\ th \in Reloaders /\ pc'[th] \in Sweeping =>
          \A p \in todo'[th] : \/ pc[th] \in Sweeping /\ p \in todo[th]
                               \/ \E i \in 1..Len(store) : p = store[i]

\* or a record to be written: a stored one, a new one, or one to be removed,
OfRow(p) == \E i \in 1..Len(store) :
    /\ p.id = store[i].id /\ p.key = store[i].key
    /\ CanExecute(p) => CanExecute(store[i]) \/ p.id \in asked'
OfNew(p) == p.id = lastId + 1 /\ lastId' = lastId + 1 /\ p.status = "Loaded"
OfSweep(th, p) == \E q \in todo[th] :
    /\ th \in Reloaders /\ pc[th] \in Sweeping
    /\ p.id = q.id /\ p.key = q.key /\ p.status = "Removed"

Takes(th) ==
    /\ store' = store /\ lastId' \in {lastId, lastId + 1} /\ asked \subseteq asked'
    /\ pc'[th] \in Saving => Sql
    /\ th \in Reloaders /\ pc'[th] \in Sweeping => pc[th] \in Sweeping /\ todo'[th] \subseteq todo[th]
    /\ OfRow(rec'[th]) \/ OfNew(rec'[th]) \/ OfSweep(th, rec'[th])

\* or it writes its record.
Writes(th) ==
    /\ UNCHANGED <<lastId, asked>> /\ pc[th] \in Saving
    /\ \E items \in Seq(Rec) :
          /\ items = (IF Sql THEN store ELSE copy[th])
          /\ IF Sql THEN UniqueKeys(items) ELSE UniqueIds(items)
          /\ IsPut(items, rec[th], store')
    /\ pc'[th] \notin Saving
    /\ pc'[th] \in Holding => rec'[th] = rec[th]
    /\ th \in Reloaders /\ pc'[th] \in Sweeping => pc[th] \in Sweeping /\ todo'[th] = todo[th]

LEMMA ReloadSteps ==
    ASSUME TypesOK, NEW r \in Reloaders, Reload(r)
    PROVE  Frame(r) /\ (Quiet(r) \/ Takes(r))
<1> USE ThreadSets DEF Goto, store_, locals, history, counts, Frame
<1> USE DEF Scanning, Sweeping, Holding, Saving
<1>1. CASE ReloadPlugins(r)
  BY <1>1 DEF ReloadPlugins, Quiet, TypesOK
<1>2. CASE LoadManifest(r)
  BY <1>2 DEF LoadManifest, Quiet, TypesOK
<1>3. CASE FindExisting(r)
  <2>1. rec[r] \in Found /\ rec[r].key \in Keys /\ rec[r].rev \in Revisions /\ pc[r] = "find"
    BY <1>3 DEF FindExisting, Found, TypesOK
  <2>2. PICK p \in Rec : p = FromManifest(rec[r].key, rec[r].rev)
    BY <2>1, FromManifestIs
  <2>3. CASE /\ rec' = [rec EXCEPT ![r] = p] /\ Goto(r, Writing)
             /\ lastId' = IF HasKey(store, rec[r].key) THEN lastId ELSE lastId + 1
    <3>1. pc' = [pc EXCEPT ![r] = IF Sql THEN "save" ELSE "load"]
      BY <2>3 DEF Writing
    <3>2. pc'[r] = (IF Sql THEN "save" ELSE "load") /\ rec'[r] = p /\ Frame(r)
      BY <1>3, <2>3, <3>1 DEF FindExisting, TypesOK
    <3>3. OfRow(p) \/ OfNew(p)
      <4>1. CASE HasKey(store, rec[r].key)
        <5>1. PICK i \in 1..Len(store) : /\ First(rec[r].key, i) /\ p.id = store[i].id
                                         /\ p.status = Kept(store[i].status)
          BY <2>1, <2>2, <4>1, FromManifestIs
        <5>2. p.key = store[i].key /\ (CanExecute(p) => CanExecute(store[i]))
          BY <2>1, <2>2, <5>1, FromManifestIs DEF First, Kept, CanExecute
        <5> QED
          BY <5>1, <5>2 DEF OfRow
      <4>2. CASE ~ HasKey(store, rec[r].key)
        BY <2>1, <2>2, <2>3, <4>2, FromManifestIs DEF OfNew
      <4> QED
        BY <4>1, <4>2
    <3>4. UNCHANGED <<store, asked>>
      BY <1>3 DEF FindExisting
    <3> QED
      BY <2>3, <3>2, <3>3, <3>4 DEF Takes
  <2>4. CASE rec' = rec /\ pc' = [pc EXCEPT ![r] = "scan"] /\ lastId' = lastId
    BY <1>3, <2>4 DEF FindExisting, Quiet, TypesOK
  <2> QED
    BY <1>3, <2>2, <2>3, <2>4 DEF FindExisting
<1>4. CASE MarkSeen(r)
  BY <1>4 DEF MarkSeen, Quiet, TypesOK
<1>5. CASE ListForRemoval(r)
  <2>1. DOMAIN store = 1..Len(store)
    BY DEF TypesOK
  <2>2. \A p \in todo'[r] : \E i \in 1..Len(store) : p = store[i]
    BY <1>5, <2>1 DEF ListForRemoval, TypesOK
  <2> QED
    BY <1>5, <2>2 DEF ListForRemoval, Quiet, TypesOK
<1>6. CASE RemoveUnseen(r)
  <2>1. todo[r] \in SUBSET Rec /\ pc[r] = "sweep"
    BY <1>6 DEF RemoveUnseen, TypesOK
  <2>2. PICK p \in Rec : /\ p \in todo[r] /\ rec' = [rec EXCEPT ![r] = [p EXCEPT !.status = "Removed"]]
                         /\ todo' = [todo EXCEPT ![r] = todo[r] \ {p}]
    BY <1>6, <2>1 DEF RemoveUnseen
  <2>3. PICK n \in Rec : /\ n = [p EXCEPT !.status = "Removed"] /\ n.id = p.id /\ n.key = p.key
                         /\ n.status = "Removed"
    BY WithStatus DEF Statuses
  <2>4. pc' = [pc EXCEPT ![r] = IF Sql THEN "remove" ELSE "loadRemove"]
    BY <1>6 DEF RemoveUnseen
  <2>5. rec'[r] = n /\ OfSweep(r, n) /\ todo'[r] \subseteq todo[r]
    BY <2>1, <2>2, <2>3 DEF OfSweep, TypesOK
  <2> QED
    BY <1>6, <2>1, <2>2, <2>4, <2>5 DEF RemoveUnseen, Takes, TypesOK
<1>7. CASE EndReload(r)
  BY <1>7 DEF EndReload, Quiet, TypesOK
<1> QED
  BY <1>1, <1>2, <1>3, <1>4, <1>5, <1>6, <1>7 DEF Reload

LEMMA WriteSteps ==
    ASSUME TypesOK, UniqueOK, TableOK, NEW th \in Threads, LoadPlugins(th) \/ SavePlugins(th)
    PROVE  Frame(th) /\ (Quiet(th) \/ Writes(th))
<1> USE ThreadSets DEF Goto, store_, locals, history, counts, Frame
<1> USE DEF Scanning, Sweeping, Holding, Saving
<1>1. CASE LoadPlugins(th)
  <2>1. CASE /\ copy' = [copy EXCEPT ![th] = store]
             /\ pc' = [pc EXCEPT ![th] = IF pc[th] = "load" THEN "save" ELSE "remove"]
    BY <1>1, <2>1 DEF LoadPlugins, Quiet, TypesOK
  <2>2. CASE copy' = copy /\ pc' = [pc EXCEPT ![th] = AfterWrite(th, FALSE)]
    BY <1>1, <2>2 DEF LoadPlugins, Quiet, AfterWrite, TypesOK
  <2> QED
    BY <1>1, <2>1, <2>2 DEF LoadPlugins
<1>2. CASE SavePlugins(th)
  <2>1. pc[th] \in Saving /\ UNCHANGED <<lastId, asked, todo, seen>>
    BY <1>2 DEF SavePlugins
  <2>2. /\ \E ok \in BOOLEAN : pc' = [pc EXCEPT ![th] = AfterWrite(th, ok)]
        /\ store' = store \/ pc' = [pc EXCEPT ![th] = AfterWrite(th, TRUE)]
    BY <1>2 DEF SavePlugins
  <2>3. PICK l : /\ pc' = [pc EXCEPT ![th] = l]
                 /\ IF th \in Admins THEN l = "idle"
                    ELSE IF pc[th] = "remove" THEN l = "sweep" ELSE l \in {"written", "scan"}
    <3>1. PICK l : l \in {AfterWrite(th, TRUE), AfterWrite(th, FALSE)} /\ pc' = [pc EXCEPT ![th] = l]
      BY <2>2
    <3>2. IF th \in Admins THEN l = "idle"
          ELSE IF pc[th] = "remove" THEN l = "sweep" ELSE l \in {"written", "scan"}
      BY <2>1, <3>1 DEF AfterWrite, TypesOK
    <3> QED
      BY <3>1, <3>2
  <2>4. /\ pc'[th] \notin Saving
        /\ pc'[th] \in Holding => rec'[th] = rec[th]
        /\ pc'[th] \in Sweeping => pc[th] \in Sweeping /\ todo'[th] = todo[th]
    BY <1>2, <2>1, <2>3 DEF SavePlugins, TypesOK, Threads
  <2>5. Frame(th)
    BY <1>2, <2>1, <2>3 DEF SavePlugins, TypesOK
  <2>6. CASE store' = store
    BY <2>1, <2>4, <2>5, <2>6 DEF Quiet
  <2>7. CASE \E items \in Seq(Rec) :
                 /\ items = (IF Sql THEN store ELSE copy[th])
                 /\ (IF Sql THEN UniqueKeys(items) ELSE UniqueIds(items))
                 /\ IsPut(items, rec[th], store')
    BY <2>1, <2>4, <2>5, <2>7 DEF Writes
  <2> QED
    BY <1>2, <2>6, <2>7, SaveWrites
<1> QED
  BY <1>1, <1>2

LEMMA RequestSteps ==
    ASSUME TypesOK, NEW a \in Admins, ChangeStatus(a)
    PROVE  Frame(a) /\ Takes(a)
<1> USE ThreadSets DEF Goto, store_, locals, history, counts, Frame
<1> USE DEF Scanning, Sweeping, Holding, Saving
<1>1. DOMAIN store = 1..Len(store) /\ \A i \in DOMAIN store : store[i] \in Rec
  BY DEF TypesOK
<1>2. PICK i \in DOMAIN store, to \in {"Enabled", "Disabled"} :
        /\ rec' = [rec EXCEPT ![a] = [store[i] EXCEPT !.status = to]]
        /\ asked' = IF to = "Enabled" THEN asked \union {store[i].id} ELSE asked
  BY DEF ChangeStatus
<1>3. PICK p \in Rec : p = store[i]
  BY <1>1
<1>4. PICK n : n = [p EXCEPT !.status = to]
  OBVIOUS
<1>5. n.id = p.id /\ n.key = p.key /\ n.status = to
  BY <1>4, WithStatus DEF Statuses
<1>6. rec'[a] = n
  BY <1>2, <1>3, <1>4 DEF TypesOK
<1>7. OfRow(n)
  <2>1. CanExecute(n) => n.id \in asked'
    BY <1>2, <1>3, <1>5 DEF CanExecute
  <2> QED
    BY <1>1, <1>3, <1>5, <2>1 DEF OfRow
<1>8. /\ UNCHANGED <<store, lastId, todo, seen, copy>> /\ pc[a] = "idle"
      /\ pc' = [pc EXCEPT ![a] = IF Sql THEN "save" ELSE "load"]
  BY DEF ChangeStatus, Writing
<1> QED
  BY <1>2, <1>6, <1>7, <1>8 DEF Takes, TypesOK

\* Where the records of a written store come from.
LEMMA Written ==
    ASSUME TypesOK, UniqueOK, TableOK, NEW th \in Threads, Writes(th), TypesOK'
    PROVE  \E items \in Seq(Rec) :
              /\ items = (IF Sql THEN store ELSE copy[th])
              /\ rec[th] \in Rec /\ pc[th] \in Holding /\ store' \in Seq(Rec)
              /\ IsPut(items, rec[th], store')
              /\ UniqueIds(items) /\ (Sql => UniqueKeys(items))
              /\ \A i \in 1..Len(store') :
                    \/ i <= Len(items) /\ store'[i] = items[i]
                    \/ i <= Len(items) /\ Same(items[i], rec[th]) /\ store'[i].id = items[i].id
                          /\ store'[i].key = rec[th].key /\ store'[i].status = rec[th].status
                    \/ i = Len(items) + 1 /\ store'[i] = rec[th]
                          /\ \A j \in 1..Len(items) : ~ Same(items[j], rec[th])
<1>1. PICK items \in Seq(Rec) :
          /\ items = (IF Sql THEN store ELSE copy[th])
          /\ IF Sql THEN UniqueKeys(items) ELSE UniqueIds(items)
          /\ IsPut(items, rec[th], store')
  BY DEF Writes
<1>2. pc[th] \in Saving /\ pc[th] \in Holding /\ rec[th] \in Rec /\ store' \in Seq(Rec)
  BY DEF Writes, Saving, Holding, TypesOK
<1>3. UniqueIds(items)
  BY <1>1, <1>2 DEF UniqueOK
<1>4. Len(items) \in Nat /\ Len(store') \in Nat
  BY <1>2
<1>5. \A i \in 1..Len(store') :
        \/ i <= Len(items) /\ store'[i] = items[i]
        \/ i <= Len(items) /\ Same(items[i], rec[th]) /\ store'[i].id = items[i].id
              /\ store'[i].key = rec[th].key /\ store'[i].status = rec[th].status
        \/ i = Len(items) + 1 /\ store'[i] = rec[th]
              /\ \A j \in 1..Len(items) : ~ Same(items[j], rec[th])
  BY <1>1, <1>4 DEF IsPut
<1> QED
  BY <1>1, <1>2, <1>3, <1>5

LEMMA IdsNext ==
    ASSUME TypesOK, UniqueOK, TableOK, IdsOK, TypesOK', NEW th \in Threads, Frame(th),
           Quiet(th) \/ Takes(th) \/ Writes(th)
    PROVE  IdsOK'
<1> USE ThreadSets
<1>1. lastId \in Nat /\ lastId' \in Nat /\ Len(store) \in Nat
  BY DEF TypesOK
<1>2. lastId <= lastId' /\ \A n \in Nat : n <= lastId => n <= lastId'
  BY <1>1 DEF Quiet, Takes, Writes
<1>3. \A p \in Rec : p.id \in Nat
  BY DEF Rec
<1>4. \A i \in 1..Len(store') : store'[i].id <= lastId'
  <2>1. CASE store' = store /\ TRUE
    BY <1>2, <1>3, <2>1 DEF IdsOK, TypesOK
  <2>2. CASE Writes(th)
    <3>1. PICK items \in Seq(Rec) :
              /\ items = (IF Sql THEN store ELSE copy[th])
              /\ pc[th] \in Holding /\ pc[th] \in Saving
              /\ \A i \in 1..Len(store') :
                    \/ i <= Len(items) /\ store'[i] = items[i]
                    \/ i <= Len(items) /\ store'[i].id = items[i].id
                    \/ store'[i] = rec[th]
      BY <2>2, Written DEF Writes
    <3>2. \A i \in 1..Len(items) : items[i].id <= lastId
      BY <3>1 DEF IdsOK
    <3>3. rec[th].id <= lastId /\ lastId' = lastId
      BY <2>2, <3>1 DEF IdsOK, Writes
    <3>4. \A i \in 1..Len(store') : i <= Len(items) => i \in 1..Len(items)
      BY DEF TypesOK
    <3> QED
      BY <3>1, <3>2, <3>3, <3>4
  <2> QED
    BY <2>1, <2>2 DEF Quiet, Takes
<1>5. ASSUME NEW x \in Threads, pc'[x] \in Holding PROVE rec'[x].id <= lastId'
  <2>1. CASE pc[x] \in Holding /\ rec'[x] = rec[x]
    BY <1>2, <1>3, <2>1 DEF IdsOK, TypesOK
  <2>2. CASE x = th /\ Takes(th)
    <3>1. CASE OfRow(rec'[th])
      BY <1>2, <1>3, <2>2, <3>1 DEF OfRow, IdsOK, TypesOK
    <3>2. CASE OfNew(rec'[th])
      BY <1>1, <2>2, <3>2 DEF OfNew
    <3>3. CASE OfSweep(th, rec'[th])
      <4>1. PICK p \in todo[th] : /\ th \in Reloaders /\ pc[th] \in Sweeping /\ rec'[th].id = p.id
        BY <3>3 DEF OfSweep
      <4>2. p \in Rec /\ p.id <= lastId
        BY <4>1 DEF TypesOK, IdsOK
      <4> QED
        BY <1>2, <1>3, <2>2, <4>1, <4>2
    <3> QED
      BY <2>2, <3>1, <3>2, <3>3 DEF Takes
  <2> QED
    BY <1>5, <2>1, <2>2 DEF Frame, Quiet, Writes, Saving, Holding
<1>6. ASSUME NEW x \in Threads, pc'[x] \in Saving, ~ Sql
      PROVE  \A i \in 1..Len(copy'[x]) : copy'[x][i].id <= lastId'
  <2>1. CASE pc[x] \in Saving /\ copy'[x] = copy[x]
    BY <1>2, <1>3, <1>6, <2>1 DEF IdsOK, TypesOK
  <2>2. CASE copy'[x] = store /\ store' = store
    BY <1>4, <2>2
  <2> QED
    BY <1>6, <2>1, <2>2 DEF Frame, Quiet, Takes, Writes
<1>7. ASSUME NEW r \in Reloaders, pc'[r] \in Sweeping, NEW p \in todo'[r] PROVE p.id <= lastId'
  <2>1. CASE pc[r] \in Sweeping /\ p \in todo[r]
    BY <1>2, <1>3, <2>1 DEF IdsOK, TypesOK
  <2>2. CASE \E i \in 1..Len(store) : p = store[i]
    BY <1>2, <1>3, <2>2 DEF IdsOK, TypesOK
  <2> QED
    BY <1>7, <2>1, <2>2 DEF Frame, Quiet, Takes, Writes
<1> QED
  BY <1>4, <1>5, <1>6, <1>7 DEF IdsOK

LEMMA UniqueNext ==
    ASSUME TypesOK, UniqueOK, TableOK, IdsOK, TypesOK', NEW th \in Threads, Frame(th),
           Quiet(th) \/ Takes(th) \/ Writes(th)
    PROVE  UniqueOK'
<1>1. UniqueIds(store')
  <2>1. CASE store' = store
    BY <2>1 DEF UniqueOK
  <2>2. CASE Writes(th)
    <3>1. PICK items \in Seq(Rec) :
              /\ items = (IF Sql THEN store ELSE copy[th])
              /\ rec[th] \in Rec /\ pc[th] \in Holding /\ store' \in Seq(Rec)
              /\ IsPut(items, rec[th], store')
              /\ UniqueIds(items)
      BY <2>2, Written
    <3>2. Len(items) \in Nat /\ Len(store') \in Nat
      BY <3>1
    <3>3. CASE \E k \in 1..Len(items) :
                 /\ Same(items[k], rec[th]) /\ Len(store') = Len(items)
                 /\ store'[k].id = items[k].id
                 /\ \A i \in 1..Len(items) : i # k => store'[i] = items[i]
      <4>1. Len(store') = Len(items) /\ \A i \in 1..Len(items) : store'[i].id = items[i].id
        BY <3>3
      <4> QED
        BY <3>1, <4>1 DEF UniqueIds
    <3>4. CASE /\ \A i \in 1..Len(items) : ~ Same(items[i], rec[th])
               /\ Len(store') = Len(items) + 1 /\ store'[Len(items) + 1] = rec[th]
               /\ \A i \in 1..Len(items) : store'[i] = items[i]
      <4>1. \A i \in 1..Len(items) : items[i].id # rec[th].id
        <5>1. CASE Sql
          BY <3>1, <3>4, <5>1 DEF Same, TableOK
        <5>2. CASE ~ Sql
          BY <3>4, <5>2 DEF Same
        <5> QED
          BY <5>1, <5>2
      <4>2. \A i \in 1..Len(store') : i \in 1..Len(items) \/ i = Len(items) + 1
        BY <3>2, <3>4
      <4> QED
        BY <3>1, <3>4, <4>1, <4>2 DEF UniqueIds
    <3> QED
      BY <3>1, <3>3, <3>4 DEF IsPut
  <2> QED
    BY <2>1, <2>2 DEF Quiet, Takes
<1>2. ASSUME ~ Sql, NEW x \in Threads, pc'[x] \in Saving PROVE UniqueIds(copy'[x])
  <2>1. CASE pc[x] \in Saving /\ copy'[x] = copy[x]
    BY <1>2, <2>1 DEF UniqueOK
  <2>2. CASE copy'[x] = store
    BY <2>2 DEF UniqueOK
  <2> QED
    BY <1>2, <2>1, <2>2 DEF Frame, Quiet, Takes, Writes
<1> QED
  BY <1>1, <1>2 DEF UniqueOK

\* The rows of the table stay, with their keys.
LEMMA RowsStay ==
    ASSUME TypesOK, UniqueOK, TableOK, TypesOK', Sql, NEW th \in Threads,
           Quiet(th) \/ Takes(th) \/ Writes(th)
    PROVE  /\ Len(store) <= Len(store') /\ Len(store) \in Nat /\ Len(store') \in Nat
           /\ \A i \in 1..Len(store) : store'[i].id = store[i].id /\ store'[i].key = store[i].key
           /\ \A i \in 1..Len(store') : i \in 1..Len(store) \/
                 /\ Writes(th) /\ Len(store') = Len(store) + 1 /\ i = Len(store) + 1
                 /\ store'[i] = rec[th] /\ \A j \in 1..Len(store) : store[j].key # rec[th].key
<1>1. Len(store) \in Nat /\ Len(store') \in Nat
  BY DEF TypesOK
<1>2. CASE store' = store
  BY <1>1, <1>2
<1>3. CASE Writes(th)
  <2>1. IsPut(store, rec[th], store')
    BY <1>3 DEF Writes
  <2>2. CASE \E k \in 1..Len(store) :
               /\ Same(store[k], rec[th]) /\ Len(store') = Len(store)
               /\ store'[k].id = store[k].id /\ store'[k].key = rec[th].key
               /\ \A i \in 1..Len(store) : i # k => store'[i] = store[i]
    BY <1>1, <2>2 DEF Same
  <2>3. CASE /\ \A i \in 1..Len(store) : ~ Same(store[i], rec[th])
             /\ Len(store') = Len(store) + 1 /\ store'[Len(store) + 1] = rec[th]
             /\ \A i \in 1..Len(store) : store'[i] = store[i]
    BY <1>1, <1>3, <2>3 DEF Same
  <2> QED
    BY <2>1, <2>2, <2>3 DEF IsPut
<1> QED
  BY <1>2, <1>3 DEF Quiet, Takes

LEMMA TableNext ==
    ASSUME TypesOK, UniqueOK, TableOK, IdsOK, TypesOK', NEW th \in Threads, Frame(th),
           Quiet(th) \/ Takes(th) \/ Writes(th)
    PROVE  TableOK'
<1> SUFFICES ASSUME Sql PROVE TableOK'
  BY DEF TableOK
<1> USE ThreadSets
<1>1. /\ Len(store) <= Len(store') /\ Len(store) \in Nat /\ Len(store') \in Nat
      /\ \A i \in 1..Len(store) : store'[i].id = store[i].id /\ store'[i].key = store[i].key
      /\ \A i \in 1..Len(store') : i \in 1..Len(store) \/
            /\ Writes(th) /\ Len(store') = Len(store) + 1 /\ i = Len(store) + 1
            /\ store'[i] = rec[th] /\ \A j \in 1..Len(store) : store[j].key # rec[th].key
  BY RowsStay
<1>2. UniqueKeys(store')
  BY <1>1 DEF TableOK, UniqueKeys
<1>3. ASSUME NEW p, Row(p) PROVE \E i \in 1..Len(store') : store'[i].id = p.id /\ store'[i].key = p.key
  BY <1>1, <1>3 DEF Row
<1>4. Writes(th) => pc[th] \in Holding
  BY DEF Writes, Saving, Holding
\* what is held is held already, or of a row, or new
<1>5. ASSUME NEW x \in Threads, pc'[x] \in Holding
      PROVE  \/ pc[x] \in Holding /\ rec'[x] = rec[x]
             \/ Takes(th) /\ x = th /\ Row(rec'[x])
             \/ Takes(th) /\ x = th /\ OfNew(rec'[x])
  <2>1. CASE Takes(th) /\ x = th /\ OfRow(rec'[th])
    BY <2>1 DEF OfRow, Row
  <2>2. CASE Takes(th) /\ x = th /\ OfSweep(th, rec'[th])
    BY <2>2 DEF OfSweep, TableOK, Row
  <2>3. CASE Takes(th) /\ x = th /\ OfNew(rec'[th])
    BY <2>3
  <2>4. CASE x # th \/ ~ Takes(th)
    BY <1>4, <1>5, <2>4 DEF Frame, Quiet, Writes
  <2> QED
    BY <2>1, <2>2, <2>3, <2>4 DEF Takes
<1>6. Takes(th) => store' = store
  BY DEF Takes
<1>7. ASSUME NEW x \in Threads, pc'[x] \in Holding
      PROVE  /\ \A i \in 1..Len(store') : store'[i].id = rec'[x].id => store'[i].key = rec'[x].key
             /\ rec'[x].status = "Loaded"
                   \/ \E i \in 1..Len(store') : store'[i].id = rec'[x].id /\ store'[i].key = rec'[x].key
  <2>1. CASE pc[x] \in Holding /\ rec'[x] = rec[x]
    <3>1. \A i \in 1..Len(store') : store'[i].id = rec[x].id => store'[i].key = rec[x].key
      BY <1>1, <1>4, <2>1 DEF TableOK
    <3>2. rec[x].status = "Loaded" \/ Row(rec[x])
      BY <2>1 DEF TableOK
    <3> QED
      BY <1>3, <2>1, <3>1, <3>2
  <2>2. CASE store' = store /\ Row(rec'[x])
    <3>1. PICK i \in 1..Len(store) : store[i].id = rec'[x].id /\ store[i].key = rec'[x].key
      BY <2>2 DEF Row
    <3> QED
      BY <2>2, <3>1 DEF UniqueOK, UniqueIds
  <2>3. CASE store' = store /\ OfNew(rec'[x])
    <3>1. \A i \in 1..Len(store) : store[i].id <= lastId /\ store[i].id \in Nat
      <4>1. \A i \in 1..Len(store) : store[i] \in Rec
        BY DEF TypesOK
      <4> QED
        BY <4>1 DEF IdsOK, Rec
    <3> QED
      BY <2>3, <3>1 DEF OfNew, TypesOK
  <2> QED
    BY <1>5, <1>6, <1>7, <2>1, <2>2, <2>3
<1>8. ASSUME NEW x \in Threads, NEW y \in Threads, pc'[x] \in Holding, pc'[y] \in Holding,
             rec'[y].id = rec'[x].id
      PROVE  rec'[y].key = rec'[x].key
  <2>1. CASE pc[x] \in Holding /\ rec'[x] = rec[x] /\ pc[y] \in Holding /\ rec'[y] = rec[y]
    BY <1>8, <2>1 DEF TableOK
  <2>2. CASE x = y
    BY <2>2
  <2>3. ASSUME NEW u \in Threads, NEW v \in Threads, pc[u] \in Holding, rec'[u] = rec[u],
               rec'[v].id = rec[u].id, store' = store, Row(rec'[v]) \/ OfNew(rec'[v])
        PROVE  rec'[v].key = rec[u].key
    <3>1. CASE Row(rec'[v])
      BY <2>3, <3>1 DEF Row, TableOK
    <3>2. CASE OfNew(rec'[v])
      <4>1. rec[u].id <= lastId /\ rec[u].id \in Nat /\ lastId \in Nat
        BY <2>3 DEF IdsOK, TypesOK, Rec
      <4> QED
        BY <2>3, <3>2, <4>1 DEF OfNew
    <3> QED
      BY <2>3, <3>1, <3>2
  <2> QED
    BY <1>5, <1>6, <1>8, <2>1, <2>2, <2>3
<1>9. ASSUME NEW r \in Reloaders, pc'[r] \in Sweeping, NEW p \in todo'[r]
      PROVE  \E i \in 1..Len(store') : store'[i].id = p.id /\ store'[i].key = p.key
  <2>1. Row(p)
    <3>1. CASE pc[r] \in Sweeping /\ p \in todo[r]
      BY <3>1 DEF TableOK
    <3>2. CASE \E i \in 1..Len(store) : p = store[i]
      BY <3>2 DEF Row
    <3> QED
      BY <1>9, <3>1, <3>2 DEF Frame, Quiet, Takes, Writes
  <2> QED
    BY <1>3, <2>1
<1> QED
  BY <1>2, <1>7, <1>8, <1>9 DEF TableOK, Row

LEMMA AskedNext ==
    ASSUME TypesOK, UniqueOK, TableOK, IdsOK, AskedOK, TypesOK', NEW th \in Threads, Frame(th),
           Quiet(th) \/ Takes(th) \/ Writes(th)
    PROVE  AskedOK'
<1> USE ThreadSets DEF Asked, CanExecute
<1>1. asked \subseteq asked'
  BY DEF Quiet, Takes, Writes
<1>2. \A i \in 1..Len(store') : store'[i].status = "Enabled" => store'[i].id \in asked'
  <2>1. CASE store' = store
    BY <1>1, <2>1 DEF AskedOK
  <2>2. CASE Writes(th)
    <3>1. PICK items \in Seq(Rec) :
              /\ items = (IF Sql THEN store ELSE copy[th])
              /\ pc[th] \in Holding /\ UniqueIds(items) /\ (Sql => UniqueKeys(items))
              /\ \A i \in 1..Len(store') :
                    \/ i <= Len(items) /\ store'[i] = items[i]
                    \/ i <= Len(items) /\ Same(items[i], rec[th]) /\ store'[i].id = items[i].id
                          /\ store'[i].status = rec[th].status
                    \/ store'[i] = rec[th]
      BY <2>2, Written
    <3>2. \A i \in 1..Len(items) : Asked(items[i])
      BY <2>2, <3>1 DEF AskedOK, Writes
    <3>3. Asked(rec[th])
      BY <3>1 DEF AskedOK
    <3>4. \A i \in 1..Len(store') : i <= Len(items) => i \in 1..Len(items)
      BY DEF TypesOK
    <3>5. ASSUME NEW i \in 1..Len(items), Same(items[i], rec[th]), rec[th].status = "Enabled"
          PROVE  items[i].id = rec[th].id
      <4>1. CASE Sql
        <5>1. PICK k \in 1..Len(store) : store[k].id = rec[th].id /\ store[k].key = rec[th].key
          BY <3>1, <3>5, <4>1 DEF TableOK, Row
        <5>2. k = i
          BY <3>1, <3>5, <4>1, <5>1 DEF Same, UniqueKeys
        <5> QED
          BY <3>1, <4>1, <5>1, <5>2
      <4>2. CASE ~ Sql
        BY <3>5, <4>2 DEF Same
      <4> QED
        BY <4>1, <4>2
    <3> QED
      BY <1>1, <3>1, <3>2, <3>3, <3>4, <3>5
  <2> QED
    BY <2>1, <2>2 DEF Quiet, Takes
<1>3. ASSUME NEW x \in Threads, pc'[x] \in Holding PROVE rec'[x].status = "Enabled" => rec'[x].id \in asked'
  <2>1. CASE pc[x] \in Holding /\ rec'[x] = rec[x]
    BY <1>1, <2>1 DEF AskedOK
  <2>2. CASE x = th /\ Takes(th)
    BY <1>1, <2>2 DEF Takes, OfRow, OfNew, OfSweep, AskedOK
  <2> QED
    BY <1>3, <2>1, <2>2 DEF Frame, Quiet, Writes, Saving, Holding
<1>4. ASSUME ~ Sql, NEW x \in Threads, pc'[x] \in Saving
      PROVE  \A i \in 1..Len(copy'[x]) : copy'[x][i].status = "Enabled" => copy'[x][i].id \in asked'
  <2>1. CASE pc[x] \in Saving /\ copy'[x] = copy[x]
    BY <1>1, <1>4, <2>1 DEF AskedOK
  <2>2. CASE copy'[x] = store
    BY <1>1, <2>2 DEF AskedOK
  <2> QED
    BY <1>4, <2>1, <2>2 DEF Frame, Quiet, Takes, Writes
<1> QED
  BY <1>2, <1>3, <1>4 DEF AskedOK
-----------------------------------------------------------------------------
\* A reload that stays alone is left alone: what it relies on does not change.
LeftAlone(r) ==
    /\ UNCHANGED <<dir, store>> /\ pc'[r] = pc[r] /\ rec'[r] = rec[r] /\ copy'[r] = copy[r]
    /\ todo'[r] = todo[r] /\ seen'[r] = seen[r] /\ atStart'[r] = atStart[r]

StepOf(th) ==
    \/ th \in Reloaders /\ Reload(th)
    \/ th \in Admins /\ ChangeStatus(th)
    \/ LoadPlugins(th) \/ SavePlugins(th)

LEMMA OthersStep ==
    ASSUME TypesOK, UniqueOK, TableOK, NEW r \in Reloaders, NEW th \in Threads, th # r,
           Frame(th), StepOf(th), r \notin disturbed'
    PROVE  LeftAlone(r) /\ r \notin disturbed
<1> USE ThreadSets DEF store_, locals, history, counts
<1>1. /\ pc'[r] = pc[r] /\ rec'[r] = rec[r] /\ copy'[r] = copy[r]
      /\ todo'[r] = todo[r] /\ seen'[r] = seen[r]
  BY DEF Frame
<1>2. ASSUME NEW rs, Disturb(rs) PROVE atStart'[r] = atStart[r] /\ r \notin disturbed /\ r \notin rs
  BY <1>2, DisturbTypes
<1>3. CASE th \in Reloaders /\ Reload(th)
  <2>1. UNCHANGED <<dir, store>>
    BY <1>3 DEF Reload, ReloadPlugins, LoadManifest, FindExisting, MarkSeen, ListForRemoval,
                RemoveUnseen, EndReload
  <2>2. atStart'[r] = atStart[r] /\ r \notin disturbed
    <3>1. CASE ReloadPlugins(th)
      BY <3>1 DEF ReloadPlugins, TypesOK
    <3>2. CASE ~ ReloadPlugins(th)
      <4>1. UNCHANGED <<disturbed, atStart>> \/ Disturb({th})
        BY <1>3, <3>2 DEF Reload, LoadManifest, FindExisting, MarkSeen, ListForRemoval,
                          RemoveUnseen, EndReload
      <4> QED
        BY <1>2, <4>1
    <3> QED
      BY <3>1, <3>2
  <2> QED
    BY <1>1, <2>1, <2>2 DEF LeftAlone
<1>4. CASE ChangeStatus(th)
  BY <1>1, <1>4 DEF ChangeStatus, LeftAlone
<1>5. CASE LoadPlugins(th)
  BY <1>1, <1>2, <1>5 DEF LoadPlugins, LeftAlone
<1>6. CASE SavePlugins(th)
  BY <1>1, <1>2, <1>6 DEF SavePlugins, LeftAlone
<1> QED
  BY <1>3, <1>4, <1>5, <1>6 DEF StepOf

LEMMA LeftAloneKeeps ==
    ASSUME NEW r \in Reloaders, LeftAlone(r),
           CopyOK(r), SinceStart(r), ScanOK(r), SweepOK(r), DoneOK(r)
    PROVE  CopyOK(r)' /\ SinceStart(r)' /\ ScanOK(r)' /\ SweepOK(r)' /\ DoneOK(r)'
<1>1. /\ UNCHANGED <<dir, store>> /\ pc'[r] = pc[r] /\ rec'[r] = rec[r] /\ copy'[r] = copy[r]
      /\ todo'[r] = todo[r] /\ seen'[r] = seen[r] /\ atStart'[r] = atStart[r]
  BY DEF LeftAlone
<1>2. CopyOK(r)' /\ SinceStart(r)'
  BY <1>1 DEF CopyOK, SinceStart
<1>3. ASSUME NEW k
      PROVE  /\ Valid(k)' <=> Valid(k)
             /\ Settled(r, k)' <=> Settled(r, k)
             /\ Untouched(r, k)' <=> Untouched(r, k)
             /\ InHand(r, k)' <=> InHand(r, k)
             /\ SeenFirst(r, k)' <=> SeenFirst(r, k)
  <2>1. (Valid(k)' <=> Valid(k)) /\ (InHand(r, k)' <=> InHand(r, k))
    BY <1>1 DEF Valid, InHand
  <2>2. (Settled(r, k)' <=> Settled(r, k)) /\ (SeenFirst(r, k)' <=> SeenFirst(r, k))
    BY <1>1 DEF Settled, SeenFirst, First
  <2>3. Untouched(r, k)' <=> Untouched(r, k)
    BY <1>1 DEF Untouched
  <2> QED
    BY <2>1, <2>2, <2>3
<1>4. SeenOK(r)' <=> SeenOK(r)
  BY <1>1 DEF SeenOK, Valid, First
<1>5. FoundOK(r)' <=> FoundOK(r)
  BY <1>1 DEF FoundOK, Valid, First
<1>6. ScanOK(r)'
  BY <1>1, <1>3, <1>4, <1>5 DEF ScanOK
<1>7. SweepOK(r)'
  BY <1>1, <1>3, <1>4 DEF SweepOK, Row
<1>8. DoneOK(r)'
  BY <1>1, <1>3 DEF DoneOK, Valid, First
<1> QED
  BY <1>2, <1>6, <1>7, <1>8

\* As long as the store stays, so does what is said of a manifest and its record.
LEMMA SameStore ==
    ASSUME NEW r \in Reloaders, UNCHANGED <<dir, store>>, atStart'[r] = atStart[r], NEW k
    PROVE  /\ Valid(k)' <=> Valid(k)
           /\ Settled(r, k)' <=> Settled(r, k)
           /\ Untouched(r, k)' <=> Untouched(r, k)
  BY DEF Valid, Settled, First, Untouched

\* One record at most is the first of a key.
LEMMA FirstIsOne ==
    ASSUME TypesOK, NEW k, NEW i \in 1..Len(store), NEW j \in 1..Len(store), First(k, i), First(k, j)
    PROVE  i = j
<1>1. Len(store) \in Nat /\ i <= j /\ j <= i
  BY DEF First, TypesOK
<1> QED
  BY <1>1

LEMMA LoneStarts ==
    ASSUME TypesOK, TypesOK', NEW r \in Reloaders, ReloadPlugins(r), r \notin disturbed'
    PROVE  CopyOK(r)' /\ SinceStart(r)' /\ ScanOK(r)' /\ SweepOK(r)' /\ DoneOK(r)'
<1>1. /\ UNCHANGED <<dir, store>> /\ pc'[r] = "scan" /\ seen'[r] = {} /\ atStart'[r] = store
      /\ todo'[r] = {k \in Keys : dir[k] # "absent"}
  BY ThreadSets DEF ReloadPlugins, Goto, TypesOK, store_
<1>2. CopyOK(r)' /\ SweepOK(r)' /\ DoneOK(r)'
  BY <1>1 DEF CopyOK, SweepOK, DoneOK, Saving, Sweeping
<1>3. SinceStart(r)'
  BY <1>1 DEF SinceStart, TypesOK
<1>4. ScanOK(r)'
  <2>1. SeenOK(r)'
    BY <1>1 DEF SeenOK
  <2>2. ASSUME NEW k \in Keys, Valid(k)'
        PROVE  k \in todo'[r] /\ ~ InHand(r, k)' /\ Untouched(r, k)'
    BY <1>1, <2>2, RegistryAssumption DEF Valid, InHand, Untouched
  <2> QED
    BY <1>1, <2>1, <2>2 DEF ScanOK
<1> QED
  BY <1>2, <1>3, <1>4

\* LoadManifest, FindExisting and MarkSeen: the store is read, and stays.
LEMMA LoneScans ==
    ASSUME TypesOK, TypesOK', UniqueOK, IdsOK, NEW r \in Reloaders,
           LoadManifest(r) \/ FindExisting(r) \/ MarkSeen(r), r \notin disturbed',
           SinceStart(r), ScanOK(r)
    PROVE  CopyOK(r)' /\ SinceStart(r)' /\ ScanOK(r)' /\ SweepOK(r)' /\ DoneOK(r)'
<1> USE ThreadSets DEF store_, locals, history, counts
<1>1. UNCHANGED <<dir, store, copy>> /\ atStart'[r] = atStart[r] /\ ~ Disturb({r})
  <2>1. ~ Disturb({r})
    BY DEF Disturb
  <2> QED
    BY <2>1 DEF LoadManifest, FindExisting, MarkSeen
<1>2. SinceStart(r)'
  BY <1>1 DEF SinceStart
<1>3. ASSUME NEW k
      PROVE  /\ Valid(k)' <=> Valid(k)
             /\ Settled(r, k)' <=> Settled(r, k)
             /\ Untouched(r, k)' <=> Untouched(r, k)
  BY <1>1, SameStore
<1>4. pc[r] \in Scanning /\ (pc'[r] \in {"scan", "find", "load"} \/ (pc'[r] = "save" /\ Sql))
  BY DEF LoadManifest, FindExisting, MarkSeen, Goto, Scanning, Writing, TypesOK
<1>5. CopyOK(r)' /\ SweepOK(r)' /\ DoneOK(r)'
  BY <1>4 DEF CopyOK, SweepOK, DoneOK, Saving, Sweeping
<1>6. CASE LoadManifest(r)
  <2>1. PICK k \in todo[r] :
          /\ todo' = [todo EXCEPT ![r] = todo[r] \ {k}]
          /\ IF dir[k] \in Revisions
             THEN Goto(r, "find") /\ rec' = [rec EXCEPT ![r] = [key |-> k, rev |-> dir[k]]]
             ELSE UNCHANGED <<pc, rec>>
    BY <1>6 DEF LoadManifest
  <2>2. /\ todo'[r] = todo[r] \ {k} /\ pc[r] = "scan" /\ seen'[r] = seen[r]
        /\ IF Valid(k) THEN pc'[r] = "find" /\ rec'[r].key = k /\ rec'[r].rev = dir[k]
           ELSE pc'[r] = "scan"
    BY <1>6, <2>1 DEF LoadManifest, Goto, TypesOK, Valid
  <2>3. SeenOK(r)'
    BY <1>1, <2>2 DEF ScanOK, Scanning, SeenOK, Valid, First
  <2>4. pc'[r] # "scan" => FoundOK(r)'
    BY <1>1, <2>2 DEF FoundOK, Valid
  <2>5. ASSUME NEW m \in Keys, Valid(m)'
        PROVE  \/ m \in todo'[r] /\ ~ InHand(r, m)' /\ Untouched(r, m)'
               \/ InHand(r, m)' /\ m \notin todo'[r] /\ pc'[r] # "written" /\ Untouched(r, m)'
               \/ m \notin todo'[r] /\ ~ InHand(r, m)' /\ Settled(r, m)' /\ SeenFirst(r, m)'
    <3>1. Valid(m) /\ ~ InHand(r, m)
      BY <1>3, <2>2, <2>5 DEF InHand
    <3>2. \/ m \in todo[r] /\ Untouched(r, m)
          \/ m \notin todo[r] /\ Settled(r, m) /\ SeenFirst(r, m)
      BY <2>2, <3>1 DEF ScanOK, Scanning
    <3>3. SeenFirst(r, m) => SeenFirst(r, m)'
      BY <1>1, <2>2 DEF SeenFirst, First
    <3>4. InHand(r, m)' <=> m = k
      BY <2>1, <2>2, <3>1 DEF InHand
    <3> QED
      BY <1>3, <2>1, <2>2, <3>1, <3>2, <3>3, <3>4
  <2> QED
    BY <1>2, <1>5, <2>3, <2>4, <2>5 DEF ScanOK
<1>7. CASE FindExisting(r)
  <2>1. rec[r] \in Found /\ rec[r].key \in Keys /\ rec[r].rev \in Revisions /\ pc[r] = "find"
    BY <1>7 DEF FindExisting, Found, TypesOK
  <2>2. PICK p \in Rec : p = FromManifest(rec[r].key, rec[r].rev)
    BY <2>1, FromManifestIs
  <2>3. /\ rec'[r] = p /\ pc'[r] = Writing /\ todo'[r] = todo[r] /\ seen'[r] = seen[r]
        /\ p.key = rec[r].key /\ p.rev = rec[r].rev
    <3>1. Goto(r, Writing) /\ rec' = [rec EXCEPT ![r] = p] /\ UNCHANGED <<todo, seen>>
      BY <1>1, <1>7, <2>2 DEF FindExisting
    <3>2. FromManifest(rec[r].key, rec[r].rev).key = rec[r].key
          /\ FromManifest(rec[r].key, rec[r].rev).rev = rec[r].rev
      BY <2>1, FromManifestIs
    <3>3. rec'[r] = p /\ pc'[r] = Writing /\ todo'[r] = todo[r] /\ seen'[r] = seen[r]
      BY <2>1, <3>1 DEF Goto, TypesOK
    <3> QED
      BY <2>2, <3>2, <3>3
  <2>4. pc'[r] \in {"save", "load"}
    BY <2>3 DEF Writing
  <2>5. SeenOK(r)'
    BY <1>1, <2>1, <2>3 DEF ScanOK, Scanning, SeenOK, Valid, First
  <2>6. FoundOK(r)'
    <3>1. Valid(p.key) /\ p.rev = dir[p.key]
      BY <2>1, <2>3 DEF ScanOK, Scanning, FoundOK
    <3>2. \/ \E i \in 1..Len(store) : /\ First(p.key, i) /\ p.id = store[i].id
                                      /\ p.status = Kept(store[i].status)
          \/ /\ \A i \in 1..Len(store) : store[i].key # p.key /\ store[i].id # p.id
             /\ p.status = "Loaded"
      <4>1. \A i \in 1..Len(store) : store[i].id <= lastId /\ store[i].id # lastId + 1
        <5>1. \A i \in 1..Len(store) : store[i] \in Rec /\ lastId \in Nat
          BY DEF TypesOK
        <5>2. \A i \in 1..Len(store) : store[i].id \in Nat /\ store[i].id <= lastId
          BY <5>1 DEF Rec, IdsOK
        <5> QED
          BY <5>1, <5>2
      <4> QED
        BY <2>1, <2>2, <2>3, <4>1, FromManifestIs
    <3> QED
      BY <1>1, <2>3, <3>1, <3>2 DEF FoundOK, Valid, First
  <2>7. ASSUME NEW m \in Keys, Valid(m)'
        PROVE  \/ m \in todo'[r] /\ ~ InHand(r, m)' /\ Untouched(r, m)'
               \/ InHand(r, m)' /\ m \notin todo'[r] /\ pc'[r] # "written" /\ Untouched(r, m)'
               \/ m \notin todo'[r] /\ ~ InHand(r, m)' /\ Settled(r, m)' /\ SeenFirst(r, m)'
    <3>1. Valid(m) /\ (InHand(r, m)' <=> InHand(r, m)) /\ (SeenFirst(r, m) => SeenFirst(r, m)')
      BY <1>1, <1>3, <2>1, <2>3, <2>4, <2>7 DEF InHand, SeenFirst, First
    <3> QED
      BY <1>3, <2>1, <2>3, <2>4, <3>1 DEF ScanOK, Scanning
  <2> QED
    BY <1>2, <1>5, <2>4, <2>5, <2>6, <2>7 DEF ScanOK
<1>8. CASE MarkSeen(r)
  <2>1. /\ pc[r] = "written" /\ rec[r] \in Rec /\ rec[r].key \in Keys /\ Valid(rec[r].key)
        /\ pc'[r] = "scan" /\ todo'[r] = todo[r]
    BY <1>8 DEF MarkSeen, Goto, ScanOK, Scanning, FoundOK, TypesOK, Holding, Rec
  <2>2. InHand(r, rec[r].key) /\ Settled(r, rec[r].key) /\ rec[r].key \notin todo[r]
    BY <2>1 DEF InHand, ScanOK, Scanning
  <2>3. PICK i \in 1..Len(store) : First(rec[r].key, i)
    BY <2>2 DEF Settled
  <2>4. seen'[r] = seen[r] \union {store[i].id}
    <3>1. HasKey(store, rec[r].key) /\ ByKey(store, rec[r].key) = store[i]
      BY <2>3, FirstIsFirst
    <3> QED
      BY <1>1, <1>8, <3>1 DEF MarkSeen, TypesOK
  <2>5. SeenOK(r)'
    <3>1. ASSUME NEW j \in 1..Len(store), store[j].id \in seen'[r]
          PROVE  Valid(store[j].key) /\ First(store[j].key, j)
      <4>1. CASE store[j].id \in seen[r]
        BY <2>1, <4>1 DEF ScanOK, Scanning, SeenOK
      <4>2. CASE store[j].id = store[i].id
        <5>1. j = i
          BY <4>2 DEF UniqueOK, UniqueIds
        <5> QED
          BY <2>1, <2>3, <5>1 DEF First
      <4> QED
        BY <2>4, <3>1, <4>1, <4>2
    <3> QED
      BY <1>1, <3>1 DEF SeenOK, Valid, First
  <2>6. ASSUME NEW m \in Keys, Valid(m)'
        PROVE  \/ m \in todo'[r] /\ ~ InHand(r, m)' /\ Untouched(r, m)'
               \/ m \notin todo'[r] /\ ~ InHand(r, m)' /\ Settled(r, m)' /\ SeenFirst(r, m)'
    <3>1. Valid(m) /\ ~ InHand(r, m)' /\ (SeenFirst(r, m) => SeenFirst(r, m)')
      BY <1>1, <1>3, <2>1, <2>4, <2>6 DEF InHand, SeenFirst, First
    <3>2. CASE m = rec[r].key
      <4>1. SeenFirst(r, m)'
        BY <1>1, <2>3, <2>4, <3>2 DEF SeenFirst, First
      <4> QED
        BY <1>3, <2>1, <2>2, <3>1, <3>2, <4>1
    <3>3. CASE m # rec[r].key
      BY <1>3, <2>1, <3>1, <3>3 DEF ScanOK, Scanning, InHand
    <3> QED
      BY <3>2, <3>3
  <2> QED
    BY <1>2, <1>5, <2>1, <2>5, <2>6 DEF ScanOK
<1> QED
  BY <1>2, <1>5, <1>6, <1>7, <1>8

\* ListForRemoval, RemoveUnseen and EndReload: the store is read, and stays.
LEMMA LoneSweeps ==
    ASSUME TypesOK, TypesOK', UniqueOK, NEW r \in Reloaders,
           ListForRemoval(r) \/ RemoveUnseen(r) \/ EndReload(r), r \notin disturbed',
           SinceStart(r), ScanOK(r), SweepOK(r)
    PROVE  CopyOK(r)' /\ SinceStart(r)' /\ ScanOK(r)' /\ SweepOK(r)' /\ DoneOK(r)'
<1> USE ThreadSets DEF store_, locals, history, counts
<1>1. UNCHANGED <<dir, store, copy>> /\ atStart'[r] = atStart[r] /\ ~ Disturb({r})
  <2>1. ~ Disturb({r})
    BY DEF Disturb
  <2> QED
    BY <2>1 DEF ListForRemoval, RemoveUnseen, EndReload
<1>2. SinceStart(r)'
  BY <1>1 DEF SinceStart
<1>3. ASSUME NEW k
      PROVE  /\ Valid(k)' <=> Valid(k)
             /\ Settled(r, k)' <=> Settled(r, k)
             /\ seen'[r] = seen[r] => (SeenFirst(r, k)' <=> SeenFirst(r, k))
  BY <1>1, SameStore DEF SeenFirst, First
<1>4. pc[r] \in {"scan", "sweep"}
      /\ (pc'[r] \in {"sweep", "loadRemove", "done"} \/ (pc'[r] = "remove" /\ Sql))
  BY DEF ListForRemoval, RemoveUnseen, EndReload, Goto, TypesOK
<1>5. CopyOK(r)' /\ ScanOK(r)'
  BY <1>4 DEF CopyOK, ScanOK, Saving, Scanning
<1>6. seen'[r] = seen[r] /\ SeenOK(r) => SeenOK(r)'
  BY <1>1 DEF SeenOK, Valid, First
<1>7. DOMAIN store = 1..Len(store) /\ \A i \in 1..Len(store) : store[i] \in Rec
  BY DEF TypesOK
<1>8. CASE ListForRemoval(r)
  <2>1. /\ pc[r] = "scan" /\ todo[r] = {} /\ pc'[r] = "sweep" /\ seen'[r] = seen[r]
        /\ todo'[r] = {store[i] : i \in {j \in DOMAIN store :
                                     store[j].status # "Removed" /\ store[j].id \notin seen[r]}}
    BY <1>1, <1>8 DEF ListForRemoval, Goto, TypesOK
  <2>2. SeenOK(r)' /\ \A k \in Keys : Valid(k) => Settled(r, k) /\ SeenFirst(r, k)
    BY <1>6, <2>1 DEF ScanOK, Scanning, InHand
  <2>3. \A p \in todo'[r] : p.id \notin seen'[r] /\ \E i \in 1..Len(store') : store'[i] = p
    BY <1>1, <1>7, <2>1
  <2>4. \A i \in 1..Len(store') : store'[i].status # "Removed" =>
           store'[i].id \in seen'[r] \/ store'[i] \in todo'[r]
    BY <1>1, <1>7, <2>1
  <2>5. ASSUME NEW k \in Keys, Valid(k)' PROVE Settled(r, k)' /\ SeenFirst(r, k)'
    BY <1>3, <2>1, <2>2, <2>5
  <2>6. SweepOK(r)'
    BY <2>1, <2>2, <2>3, <2>4, <2>5 DEF SweepOK
  <2>7. DoneOK(r)'
    BY <2>1 DEF DoneOK
  <2> QED
    BY <1>2, <1>5, <2>6, <2>7
<1>9. CASE RemoveUnseen(r)
  <2>1. todo[r] \in SUBSET Rec /\ pc[r] = "sweep"
    BY <1>9 DEF RemoveUnseen, TypesOK, Sweeping
  <2>2. PICK p \in Rec : /\ p \in todo[r] /\ rec' = [rec EXCEPT ![r] = [p EXCEPT !.status = "Removed"]]
                         /\ todo' = [todo EXCEPT ![r] = todo[r] \ {p}]
    BY <1>9, <2>1 DEF RemoveUnseen
  <2>3. PICK n \in Rec : /\ n = [p EXCEPT !.status = "Removed"] /\ n.id = p.id /\ n.key = p.key
                         /\ n.status = "Removed"
    BY WithStatus DEF Statuses
  <2>4. rec'[r] = n /\ todo'[r] = todo[r] \ {p} /\ seen'[r] = seen[r]
        /\ pc'[r] \in {"remove", "loadRemove"}
    BY <1>9, <2>2, <2>3 DEF RemoveUnseen, Goto, TypesOK
  <2>5. /\ SeenOK(r)
        /\ \A k \in Keys : Valid(k) => Settled(r, k) /\ SeenFirst(r, k)
        /\ \A q \in todo[r] : q.id \notin seen[r] /\ \E i \in 1..Len(store) : store[i] = q
        /\ \A i \in 1..Len(store) : store[i].status # "Removed" =>
              store[i].id \in seen[r] \/ store[i] \in todo[r]
    BY <2>1 DEF SweepOK, Sweeping
  <2>6. PICK i \in 1..Len(store) : store[i] = p
    BY <2>2, <2>5
  <2>7. Row(rec[r])'
    BY <1>1, <2>3, <2>4, <2>6 DEF Row
  <2>8. \A q \in todo'[r] : q.id # rec'[r].id
    <3>1. ASSUME NEW q \in todo[r], q.id = p.id PROVE q = p
      <4>1. PICK j \in 1..Len(store) : store[j] = q
        BY <2>5
      <4>2. j = i
        BY <2>6, <3>1, <4>1 DEF UniqueOK, UniqueIds
      <4> QED
        BY <2>6, <4>1, <4>2
    <3> QED
      BY <2>3, <2>4, <3>1
  <2>9. ASSUME NEW k \in Keys, Valid(k)' PROVE Settled(r, k)' /\ SeenFirst(r, k)'
    BY <1>3, <2>4, <2>5, <2>9
  <2>10. /\ \A q \in todo'[r] : q.id \notin seen'[r] /\ \E j \in 1..Len(store') : store'[j] = q
         /\ \A j \in 1..Len(store') : store'[j].status # "Removed" =>
               store'[j].id \in seen'[r] \/ store'[j] \in todo'[r] \/ rec'[r].id = store'[j].id
    BY <1>1, <2>3, <2>4, <2>5
  <2>11. rec'[r].status = "Removed" /\ rec'[r].id \notin seen'[r]
    BY <2>2, <2>3, <2>4, <2>5
  <2>12. SweepOK(r)'
    BY <1>6, <2>4, <2>5, <2>7, <2>8, <2>9, <2>10, <2>11 DEF SweepOK
  <2>13. DoneOK(r)'
    BY <2>4 DEF DoneOK
  <2> QED
    BY <1>2, <1>5, <2>12, <2>13
<1>10. CASE EndReload(r)
  <2>1. pc[r] = "sweep" /\ todo[r] = {} /\ pc'[r] = "done"
    BY <1>10 DEF EndReload, Goto, TypesOK
  <2>2. /\ SeenOK(r)
        /\ \A k \in Keys : Valid(k) => Settled(r, k)
        /\ \A i \in 1..Len(store) : store[i].status # "Removed" => store[i].id \in seen[r]
    BY <2>1 DEF SweepOK, Sweeping
  <2>3. \A i \in 1..Len(store) : store[i].status # "Removed" =>
            Valid(store[i].key) /\ First(store[i].key, i)
    BY <2>2 DEF SeenOK
  <2>4. DoneOK(r)'
    <3>1. ASSUME NEW k \in Keys, Valid(k)' PROVE Settled(r, k)'
      BY <1>3, <2>2, <3>1
    <3>2. \A i \in 1..Len(store') : store'[i].status # "Removed" =>
             /\ dir'[store'[i].key] \in Revisions
             /\ i \in 1..Len(store')
             /\ \A j \in 1..Len(store') : store'[j].key = store'[i].key => i <= j
      BY <1>1, <2>3 DEF Valid, First
    <3> QED
      BY <3>1, <3>2 DEF DoneOK, Valid, First
  <2>5. SweepOK(r)'
    BY <2>1 DEF SweepOK, Sweeping
  <2> QED
    BY <1>2, <1>5, <2>4, <2>5
<1> QED
  BY <1>8, <1>9, <1>10

LEMMA LoneLoads ==
    ASSUME TypesOK, TypesOK', NEW r \in Reloaders, LoadPlugins(r), r \notin disturbed',
           SinceStart(r), ScanOK(r), SweepOK(r)
    PROVE  CopyOK(r)' /\ SinceStart(r)' /\ ScanOK(r)' /\ SweepOK(r)' /\ DoneOK(r)'
<1> USE ThreadSets DEF store_
<1>1. ~ Disturb({r})
  BY DEF Disturb
<1>2. /\ UNCHANGED <<dir, store, todo, seen, rec>> /\ atStart'[r] = atStart[r] /\ copy'[r] = store
      /\ \/ pc[r] = "load" /\ pc'[r] = "save"
         \/ pc[r] = "loadRemove" /\ pc'[r] = "remove"
  BY <1>1 DEF LoadPlugins, Goto, TypesOK
<1>3. CopyOK(r)' /\ SinceStart(r)' /\ DoneOK(r)'
  BY <1>2 DEF CopyOK, SinceStart, DoneOK
<1>4. ASSUME NEW k
      PROVE  /\ Valid(k)' <=> Valid(k)
             /\ Settled(r, k)' <=> Settled(r, k)
             /\ Untouched(r, k)' <=> Untouched(r, k)
             /\ SeenFirst(r, k)' <=> SeenFirst(r, k)
             /\ pc[r] = "load" => (InHand(r, k)' <=> InHand(r, k))
  <2>1. SeenFirst(r, k)' <=> SeenFirst(r, k)
    BY <1>2 DEF SeenFirst, First
  <2>2. pc[r] = "load" => (InHand(r, k)' <=> InHand(r, k))
    BY <1>2 DEF InHand
  <2> QED
    BY <1>2, <2>1, <2>2, SameStore
<1>5. SeenOK(r)' <=> SeenOK(r)
  BY <1>2 DEF SeenOK, Valid, First
<1>6. CASE pc[r] = "load"
  <2>1. FoundOK(r)'
    BY <1>2, <1>6 DEF ScanOK, Scanning, FoundOK, Valid, First
  <2>2. ScanOK(r)'
    BY <1>2, <1>4, <1>5, <1>6, <2>1 DEF ScanOK, Scanning
  <2>3. SweepOK(r)'
    BY <1>2, <1>6 DEF SweepOK, Sweeping
  <2> QED
    BY <1>3, <2>2, <2>3
<1>7. CASE pc[r] = "loadRemove"
  <2>1. SweepOK(r)'
    BY <1>2, <1>4, <1>5, <1>7 DEF SweepOK, Sweeping, Row
  <2>2. ScanOK(r)'
    BY <1>2, <1>7 DEF ScanOK, Scanning
  <2> QED
    BY <1>3, <2>1, <2>2
<1> QED
  BY <1>2, <1>6, <1>7

\* SavePlugins, of a reload alone: one record of the store is written, in its
\* place or at the end.
LEMMA LoneWrites ==
    ASSUME TypesOK, TypesOK', UniqueOK, TableOK, NEW r \in Reloaders, SavePlugins(r),
           r \notin disturbed', CopyOK(r)
    PROVE  /\ UNCHANGED <<dir, todo, seen>> /\ atStart'[r] = atStart[r]
           /\ \/ pc[r] = "save" /\ pc'[r] = "written" /\ rec'[r] = rec[r]
              \/ pc[r] = "remove" /\ pc'[r] = "sweep"
           /\ rec[r] \in Rec /\ IsPut(store, rec[r], store')
<1> USE ThreadSets DEF store_
<1>1. ~ Disturb({r})
  BY DEF Disturb
<1>2. /\ Disturb(Reloaders \ {r}) /\ Goto(r, AfterWrite(r, TRUE)) /\ pc[r] \in {"save", "remove"}
      /\ pc[r] = "save" => rec' = rec
      /\ UNCHANGED <<dir, todo, seen>>
  BY <1>1 DEF SavePlugins
<1>3. atStart'[r] = atStart[r]
  BY <1>2, DisturbTypes
<1>4. pc'[r] = AfterWrite(r, TRUE)
  BY <1>2 DEF Goto, TypesOK
<1>5. \/ pc[r] = "save" /\ pc'[r] = "written" /\ rec'[r] = rec[r]
      \/ pc[r] = "remove" /\ pc'[r] = "sweep"
  BY <1>2, <1>4 DEF AfterWrite
<1>6. rec[r] \in Rec /\ store' = Put(IF Sql THEN store ELSE copy[r], rec[r])
  BY <1>1, <1>2 DEF SavePlugins, TypesOK, Holding
<1>7. store' = Put(store, rec[r])
  BY <1>2, <1>6 DEF CopyOK, Saving
<1>8. store \in Seq(Rec) /\ IF Sql THEN UniqueKeys(store) ELSE UniqueIds(store)
  BY DEF TypesOK, UniqueOK, TableOK
<1> QED
  BY <1>2, <1>3, <1>5, <1>6, <1>7, <1>8, PutWrites

\* The write that brings a manifest into the store.
LEMMA LoneSaves ==
    ASSUME TypesOK, TypesOK', UniqueOK, TableOK, NEW r \in Reloaders, SavePlugins(r), pc[r] = "save",
           r \notin disturbed', CopyOK(r), SinceStart(r), ScanOK(r)
    PROVE  CopyOK(r)' /\ SinceStart(r)' /\ ScanOK(r)' /\ SweepOK(r)' /\ DoneOK(r)'
<1>1. /\ UNCHANGED <<dir, todo, seen>> /\ atStart'[r] = atStart[r]
      /\ pc'[r] = "written" /\ rec'[r] = rec[r] /\ rec[r] \in Rec /\ IsPut(store, rec[r], store')
  BY LoneWrites
<1>2. CopyOK(r)' /\ SweepOK(r)' /\ DoneOK(r)'
  BY <1>1 DEF CopyOK, SweepOK, DoneOK, Saving, Sweeping
<1>3. Valid(rec[r].key) /\ rec[r].rev = dir[rec[r].key] /\ rec[r].key \in Keys /\ FoundOK(r)
  BY <1>1 DEF ScanOK, Scanning, FoundOK, Rec
<1>4. PICK n \in Nat : n = Len(store)
  BY DEF TypesOK
<1>5. PICK a \in Nat : a = Len(atStart[r]) /\ a <= n
  BY <1>4 DEF SinceStart, TypesOK
<1>6. Untouched(r, rec[r].key) /\ InHand(r, rec[r].key) /\ rec[r].key \notin todo[r]
  BY <1>1, <1>3 DEF ScanOK, Scanning, InHand
\* what becomes of the records
<1>7. \E c \in 1..(n + 1) :
        /\ Len(store') = IF c <= n THEN n ELSE c
        /\ \A i \in 1..n : /\ store'[i].id = store[i].id /\ store'[i].key = store[i].key
                           /\ i # c => store'[i] = store[i]
        /\ store'[c].key = rec[r].key /\ store'[c].rev = rec[r].rev
        /\ store'[c].status = rec[r].status
        /\ c <= n => First(rec[r].key, c) /\ rec[r].status = Kept(store[c].status)
        /\ c > n => (\A i \in 1..n : store[i].key # rec[r].key) /\ rec[r].status = "Loaded"
  <2>1. CASE \E i \in 1..Len(store) : /\ First(rec[r].key, i) /\ rec[r].id = store[i].id
                                      /\ rec[r].status = Kept(store[i].status)
    <3>1. PICK i \in 1..n : /\ First(rec[r].key, i) /\ rec[r].id = store[i].id
                            /\ rec[r].status = Kept(store[i].status) /\ store[i].key = rec[r].key
      BY <1>4, <2>1 DEF First
    <3>2. \A j \in 1..n : Same(store[j], rec[r]) <=> j = i
      BY <1>4, <3>1 DEF Same, UniqueOK, TableOK, UniqueIds, UniqueKeys
    <3>3. /\ Len(store') = n /\ store'[i].id = store[i].id /\ store'[i].key = rec[r].key
          /\ store'[i].status = rec[r].status /\ store'[i].rev = rec[r].rev
          /\ \A j \in 1..n : j # i => store'[j] = store[j]
      BY <1>1, <1>4, <3>1, <3>2 DEF IsPut
    <3>4. i \in 1..(n + 1) /\ i <= n
      OBVIOUS
    <3> QED
      BY <3>1, <3>3, <3>4
  <2>2. CASE /\ \A i \in 1..Len(store) : store[i].key # rec[r].key /\ store[i].id # rec[r].id
             /\ rec[r].status = "Loaded"
    <3>1. \A j \in 1..n : ~ Same(store[j], rec[r])
      BY <1>4, <2>2 DEF Same
    <3>2. /\ Len(store') = n + 1 /\ store'[n + 1] = rec[r]
          /\ \A j \in 1..n : store'[j] = store[j]
      BY <1>1, <1>4, <3>1 DEF IsPut
    <3>3. n + 1 \in 1..(n + 1) /\ ~ (n + 1 <= n) /\ n + 1 > n
      OBVIOUS
    <3> QED
      BY <1>4, <2>2, <3>2, <3>3
  <2> QED
    BY <1>3, <2>1, <2>2 DEF FoundOK
<1>8. PICK c \in 1..(n + 1) :
        /\ Len(store') = IF c <= n THEN n ELSE c
        /\ \A i \in 1..n : /\ store'[i].id = store[i].id /\ store'[i].key = store[i].key
                           /\ i # c => store'[i] = store[i]
        /\ store'[c].key = rec[r].key /\ store'[c].rev = rec[r].rev
        /\ store'[c].status = rec[r].status
        /\ c <= n => First(rec[r].key, c) /\ rec[r].status = Kept(store[c].status)
        /\ c > n => (\A i \in 1..n : store[i].key # rec[r].key) /\ rec[r].status = "Loaded"
  BY <1>7
<1>9. n <= Len(store') /\ \A i \in 1..Len(store') : i \in 1..n \/ i = c
  BY <1>8
<1>10. c \in 1..Len(store') /\ Len(store') \in Nat
  BY <1>8
<1>11. rec[r].status # "Removed"
  BY <1>8 DEF Kept
\* a first record stays the first; the written one is the first of its key
<1>12. ASSUME NEW k, NEW i, First(k, i) PROVE First(k, i)' /\ i \in 1..n
  <2>1. i \in 1..n /\ store[i].key = k /\ \A j \in 1..n : store[j].key = k => i <= j
    BY <1>4, <1>12 DEF First
  <2>2. i \in 1..Len(store') /\ store'[i].key = k
    BY <1>8, <1>9, <1>10, <2>1
  <2>3. \A j \in 1..Len(store') : store'[j].key = k => i <= j
    <3>1. \A j \in 1..n : store'[j].key = k => i <= j
      BY <1>8, <2>1
    <3>2. c > n => i <= c
      BY <2>1
    <3> QED
      BY <1>9, <3>1, <3>2
  <2> QED
    BY <2>1, <2>2, <2>3 DEF First
<1>13. First(rec[r].key, c)'
  <2>1. CASE c <= n
    <3>1. PICK k : k = rec[r].key
      OBVIOUS
    <3>2. First(k, c)'
      BY <1>8, <1>12, <2>1, <3>1
    <3> QED
      BY <1>1, <3>1, <3>2 DEF First
  <2>2. CASE c > n
    <3>1. \A j \in 1..Len(store') : store'[j].key = rec[r].key => c <= j
      BY <1>8, <1>9, <2>2
    <3> QED
      BY <1>1, <1>8, <1>10, <3>1 DEF First
  <2> QED
    BY <1>8, <2>1, <2>2
<1>14. SinceStart(r)'
  <2>1. \A i \in 1..a : store'[i].id = atStart[r][i].id /\ store'[i].key = atStart[r][i].key
    BY <1>4, <1>5, <1>8 DEF SinceStart
  <2>2. ASSUME NEW i \in 1..Len(store'), store'[i].status \in {"Enabled", "Disabled"}
        PROVE  i <= a /\ atStart[r][i].status = store'[i].status
    <3>1. i \in 1..n /\ store'[i].status = store[i].status
      BY <1>8, <1>9, <2>2 DEF Kept
    <3> QED
      BY <1>4, <1>5, <2>2, <3>1 DEF SinceStart
  <2> QED
    BY <1>1, <1>5, <1>9, <1>10, <2>1, <2>2 DEF SinceStart
<1>15. SeenOK(r)'
  <2>1. ASSUME NEW i \in 1..Len(store'), store'[i].id \in seen[r]
        PROVE  dir[store'[i].key] \in Revisions /\ \A j \in 1..Len(store') : store'[j].key = store'[i].key => i <= j
    <3>1. CASE i \in 1..n
      <4>1. PICK k : k = store[i].key
        OBVIOUS
      <4>2. store'[i].id = store[i].id /\ store'[i].key = k
        BY <1>8, <3>1, <4>1
      <4>3. Valid(k) /\ First(k, i)
        BY <1>4, <2>1, <3>1, <4>1, <4>2 DEF ScanOK, Scanning, SeenOK
      <4>4. First(k, i)'
        BY <1>12, <4>3
      <4> QED
        BY <4>2, <4>3, <4>4 DEF First, Valid
    <3>2. CASE i = c
      BY <1>1, <1>3, <1>8, <1>13, <3>2 DEF First, Valid
    <3> QED
      BY <1>9, <3>1, <3>2
  <2> QED
    BY <1>1, <2>1 DEF SeenOK, Valid, First
<1>16. FoundOK(r)'
  BY <1>1, <1>3 DEF FoundOK, Valid
<1>17. ASSUME NEW k \in Keys, Valid(k)'
       PROVE  \/ k \in todo'[r] /\ ~ InHand(r, k)' /\ Untouched(r, k)'
              \/ InHand(r, k)' /\ k \notin todo'[r] /\ Settled(r, k)'
              \/ k \notin todo'[r] /\ ~ InHand(r, k)' /\ Settled(r, k)' /\ SeenFirst(r, k)'
  <2>1. Valid(k) /\ (InHand(r, k)' <=> k = rec[r].key) /\ (InHand(r, k) <=> k = rec[r].key)
    BY <1>1, <1>17 DEF Valid, InHand
  <2>2. CASE k = rec[r].key
    <3>1. First(k, c)'
      BY <1>13, <2>2, <1>1 DEF First
    <3>2. store'[c].rev = dir[k] /\ store'[c].status # "Removed"
      BY <1>3, <1>8, <1>11, <2>2
    <3>3. c <= a => store'[c].status = Kept(atStart[r][c].status)
      BY <1>4, <1>5, <1>6, <1>8 DEF Untouched, SinceStart, First
    <3>4. Settled(r, k)'
      BY <1>1, <1>5, <1>10, <3>1, <3>2, <3>3 DEF Settled
    <3> QED
      BY <1>1, <1>6, <2>1, <2>2, <3>4
  <2>3. CASE k # rec[r].key
    <3>1. \A i \in 1..n : store[i].key = k => store'[i] = store[i]
      BY <1>8, <2>3
    <3>2. Untouched(r, k) => Untouched(r, k)'
      BY <1>1, <1>4, <1>5, <3>1 DEF Untouched, SinceStart
    <3>3. Settled(r, k) => Settled(r, k)'
      <4>1. ASSUME Settled(r, k) PROVE Settled(r, k)'
        <5>1. PICK i \in 1..Len(store) :
                /\ First(k, i) /\ store[i].rev = dir[k] /\ store[i].status # "Removed"
                /\ i <= Len(atStart[r]) => store[i].status = Kept(atStart[r][i].status)
          BY <4>1 DEF Settled
        <5>2. First(k, i)' /\ store'[i] = store[i] /\ i \in 1..Len(store')
          BY <1>4, <1>9, <1>12, <3>1, <5>1 DEF First
        <5> QED
          BY <1>1, <5>1, <5>2 DEF Settled
      <4> QED
        BY <4>1
    <3>4. SeenFirst(r, k) => SeenFirst(r, k)'
      <4>1. ASSUME NEW i \in 1..Len(store), First(k, i), store[i].id \in seen[r] PROVE SeenFirst(r, k)'
        <5>1. First(k, i)' /\ store'[i] = store[i] /\ i \in 1..Len(store')
          BY <1>4, <1>9, <1>12, <3>1, <4>1 DEF First
        <5> QED
          BY <1>1, <4>1, <5>1 DEF SeenFirst
      <4> QED
        BY <4>1 DEF SeenFirst
    <3> QED
      BY <1>1, <2>1, <2>3, <3>2, <3>3, <3>4 DEF ScanOK, Scanning
  <2> QED
    BY <2>2, <2>3
<1>18. ScanOK(r)'
  BY <1>1, <1>15, <1>16, <1>17 DEF ScanOK
<1> QED
  BY <1>2, <1>14, <1>18

\* The write that removes a record no manifest was found for.
LEMMA LoneRemoves ==
    ASSUME TypesOK, TypesOK', UniqueOK, TableOK, NEW r \in Reloaders, SavePlugins(r), pc[r] = "remove",
           r \notin disturbed', CopyOK(r), SinceStart(r), SweepOK(r)
    PROVE  CopyOK(r)' /\ SinceStart(r)' /\ ScanOK(r)' /\ SweepOK(r)' /\ DoneOK(r)'
<1>1. /\ UNCHANGED <<dir, todo, seen>> /\ atStart'[r] = atStart[r]
      /\ pc'[r] = "sweep" /\ rec[r] \in Rec /\ IsPut(store, rec[r], store')
  BY LoneWrites
<1>2. CopyOK(r)' /\ ScanOK(r)' /\ DoneOK(r)'
  BY <1>1 DEF CopyOK, ScanOK, DoneOK, Saving, Scanning
<1>3. PICK n \in Nat : n = Len(store)
  BY DEF TypesOK
<1>4. /\ SeenOK(r)
      /\ \A k \in Keys : Valid(k) => Settled(r, k) /\ SeenFirst(r, k)
      /\ \A p \in todo[r] : p.id \notin seen[r] /\ \E i \in 1..n : store[i] = p
      /\ \A i \in 1..n : store[i].status # "Removed" =>
            store[i].id \in seen[r] \/ store[i] \in todo[r] \/ rec[r].id = store[i].id
      /\ rec[r].status = "Removed" /\ rec[r].id \notin seen[r] /\ Row(rec[r])
      /\ \A p \in todo[r] : p.id # rec[r].id
  BY <1>3 DEF SweepOK, Sweeping
<1>5. PICK c \in 1..n : store[c].id = rec[r].id /\ store[c].key = rec[r].key
  BY <1>3, <1>4 DEF Row
<1>6. \A i \in 1..n : Same(store[i], rec[r]) <=> i = c
  BY <1>3, <1>5 DEF Same, UniqueOK, TableOK, UniqueIds, UniqueKeys
<1>7. /\ Len(store') = n /\ store'[c].id = store[c].id /\ store'[c].key = store[c].key
      /\ store'[c].status = "Removed"
      /\ \A i \in 1..n : i # c => store'[i] = store[i]
  BY <1>1, <1>3, <1>4, <1>5, <1>6 DEF IsPut
<1>8. \A i \in 1..n : store'[i].id = store[i].id /\ store'[i].key = store[i].key
  BY <1>7
<1>9. ASSUME NEW k, NEW i PROVE First(k, i)' <=> First(k, i)
  BY <1>3, <1>7, <1>8 DEF First
<1>10. SinceStart(r)'
  BY <1>1, <1>3, <1>7, <1>8 DEF SinceStart
<1>11. SeenOK(r)'
  <2>1. ASSUME NEW i \in 1..n, store'[i].id \in seen[r]
        PROVE  dir[store'[i].key] \in Revisions /\ \A j \in 1..n : store'[j].key = store'[i].key => i <= j
    BY <1>3, <1>4, <1>8, <2>1 DEF SeenOK, Valid, First
  <2> QED
    BY <1>1, <1>3, <1>7, <2>1 DEF SeenOK, Valid, First
<1>12. ASSUME NEW k \in Keys, Valid(k)' PROVE Settled(r, k)' /\ SeenFirst(r, k)'
  <2>1. Settled(r, k) /\ SeenFirst(r, k)
    BY <1>1, <1>4, <1>12 DEF Valid
  <2>2. PICK i \in 1..n : First(k, i) /\ store[i].id \in seen[r]
    BY <1>3, <2>1 DEF SeenFirst
  <2>3. i # c /\ First(k, i)'
    BY <1>4, <1>5, <1>9, <2>2
  <2>4. SeenFirst(r, k)'
    BY <1>1, <1>7, <1>8, <2>2, <2>3 DEF SeenFirst
  <2>5. /\ store[i].rev = dir[k] /\ store[i].status # "Removed"
        /\ i <= Len(atStart[r]) => store[i].status = Kept(atStart[r][i].status)
    BY <1>3, <2>1, <2>2, FirstIsOne DEF Settled
  <2>6. Settled(r, k)'
    BY <1>1, <1>7, <2>2, <2>3, <2>5 DEF Settled
  <2> QED
    BY <2>4, <2>6
<1>13. /\ \A p \in todo'[r] : p.id \notin seen'[r] /\ \E i \in 1..Len(store') : store'[i] = p
       /\ \A i \in 1..Len(store') : store'[i].status # "Removed" =>
             store'[i].id \in seen'[r] \/ store'[i] \in todo'[r]
  <2>1. ASSUME NEW p \in todo[r] PROVE p.id \notin seen[r] /\ \E i \in 1..n : store'[i] = p
    <3>1. PICK i \in 1..n : store[i] = p
      BY <1>4
    <3>2. i # c
      BY <1>4, <1>5, <3>1
    <3> QED
      BY <1>4, <1>7, <3>1, <3>2
  <2>2. ASSUME NEW i \in 1..n, store'[i].status # "Removed"
        PROVE  store'[i].id \in seen[r] \/ store'[i] \in todo[r]
    <3>1. i # c /\ store'[i] = store[i]
      BY <1>7, <2>2
    <3>2. store[i].id # rec[r].id
      BY <1>3, <1>5, <3>1 DEF UniqueOK, UniqueIds
    <3> QED
      BY <1>4, <2>2, <3>1, <3>2
  <2> QED
    BY <1>1, <1>7, <2>1, <2>2
<1>14. SweepOK(r)'
  BY <1>1, <1>11, <1>12, <1>13 DEF SweepOK
<1> QED
  BY <1>2, <1>10, <1>14

LEMMA LoneNext ==
    ASSUME TypesOK, IdsOK, UniqueOK, TableOK, LoneOK, TypesOK', NEW th \in Threads, Frame(th), StepOf(th)
    PROVE  LoneOK'
<1> SUFFICES ASSUME NEW r \in Reloaders, pc'[r] # "idle", r \notin disturbed'
             PROVE  CopyOK(r)' /\ SinceStart(r)' /\ ScanOK(r)' /\ SweepOK(r)' /\ DoneOK(r)'
  BY DEF LoneOK, Lone
<1>1. pc[r] # "idle" /\ r \notin disturbed =>
         CopyOK(r) /\ SinceStart(r) /\ ScanOK(r) /\ SweepOK(r) /\ DoneOK(r)
  BY DEF LoneOK, Lone
<1>2. CASE th # r
  <2>1. LeftAlone(r) /\ r \notin disturbed
    BY <1>2, OthersStep
  <2>2. pc[r] # "idle"
    BY <2>1 DEF LeftAlone
  <2> QED
    BY <1>1, <2>1, <2>2, LeftAloneKeeps
<1>3. CASE th = r /\ ReloadPlugins(r)
  BY <1>3, LoneStarts
<1>4. CASE th = r /\ ~ ReloadPlugins(r)
  <2>1. \/ LoadManifest(r) \/ FindExisting(r) \/ MarkSeen(r)
        \/ ListForRemoval(r) \/ RemoveUnseen(r) \/ EndReload(r)
        \/ LoadPlugins(r) \/ SavePlugins(r)
    BY <1>4, ThreadSets DEF StepOf, Reload
  <2>2. disturbed \subseteq disturbed'
    <3>1. ASSUME NEW rs, Disturb(rs) PROVE disturbed \subseteq disturbed'
      BY <3>1 DEF Disturb
    <3>2. disturbed' = disturbed \/ Disturb({r}) \/ Disturb(Reloaders \ {r})
      BY <2>1 DEF LoadManifest, FindExisting, MarkSeen, ListForRemoval, RemoveUnseen, EndReload,
                  LoadPlugins, SavePlugins, history
    <3> QED
      BY <3>1, <3>2
  <2>3. pc[r] # "idle"
    BY <2>1 DEF LoadManifest, FindExisting, MarkSeen, ListForRemoval, RemoveUnseen, EndReload,
                LoadPlugins, SavePlugins
  <2>4. CopyOK(r) /\ SinceStart(r) /\ ScanOK(r) /\ SweepOK(r) /\ DoneOK(r)
    BY <1>1, <2>2, <2>3
  <2>5. CASE LoadManifest(r) \/ FindExisting(r) \/ MarkSeen(r)
    BY <2>4, <2>5, LoneScans
  <2>6. CASE ListForRemoval(r) \/ RemoveUnseen(r) \/ EndReload(r)
    BY <2>4, <2>6, LoneSweeps
  <2>7. CASE LoadPlugins(r)
    BY <2>4, <2>7, LoneLoads
  <2>8. CASE SavePlugins(r)
    <3>1. pc[r] \in {"save", "remove"}
      BY <2>8 DEF SavePlugins
    <3> QED
      BY <2>4, <2>8, <3>1, LoneSaves, LoneRemoves
  <2> QED
    BY <2>1, <2>5, <2>6, <2>7, <2>8
<1> QED
  BY <1>2, <1>3, <1>4

LEMMA LoneDirectory ==
    ASSUME TypesOK, LoneOK, ChangeDirectory
    PROVE  LoneOK'
<1>1. disturbed' = disturbed \union Reloaders
  <2>1. Disturb(Reloaders)
    BY DEF ChangeDirectory
  <2> QED
    BY <2>1, DisturbTypes
<1> QED
  BY <1>1 DEF LoneOK, Lone

-----------------------------------------------------------------------------
LEMMA InvInit == Init => Inv
<1> SUFFICES ASSUME Init PROVE Inv
  OBVIOUS
<1>1. TypesOK
  BY TypesInit
<1>2. store = <<>> /\ Len(store) = 0 /\ \A th \in Threads : pc[th] = "idle"
  BY DEF Init
<1>3. IdsOK /\ UniqueOK /\ TableOK /\ AskedOK
  BY <1>2, ThreadSets DEF IdsOK, UniqueOK, TableOK, AskedOK, UniqueIds, UniqueKeys,
                          Holding, Saving, Sweeping
<1>4. LoneOK
  BY <1>2, ThreadSets DEF LoneOK, Lone
<1> QED
  BY <1>1, <1>3, <1>4 DEF Inv

LEMMA InvNext == Inv /\ [Next]_vars => Inv'
<1> SUFFICES ASSUME Inv, [Next]_vars PROVE Inv'
  OBVIOUS
<1> USE DEF Inv
<1>1. CASE Next
  <2>1. TypesOK'
    BY <1>1, ScanTypes, SweepTypes, WriteTypes, RequestTypes DEF Next, Reload
  <2>2. CASE ChangeDirectory
    <3>1. UNCHANGED <<store, lastId, pc, todo, seen, rec, copy, asked>>
      BY <2>2 DEF ChangeDirectory, store_, locals
    <3>2. IdsOK' /\ UniqueOK'
      BY <3>1 DEF IdsOK, UniqueOK, UniqueIds
    <3>3. TableOK'
      BY <3>1 DEF TableOK, UniqueKeys, Row
    <3>4. AskedOK'
      BY <3>1 DEF AskedOK, Asked, CanExecute
    <3> QED
      BY <2>1, <2>2, <3>2, <3>3, <3>4, LoneDirectory
  <2>3. ASSUME NEW th \in Threads, Frame(th), Quiet(th) \/ Takes(th) \/ Writes(th), StepOf(th)
        PROVE  Inv'
    BY <2>1, <2>3, IdsNext, UniqueNext, TableNext, AskedNext, LoneNext
  <2>4. ASSUME NEW r \in Reloaders, Reload(r) PROVE Inv'
    BY <2>3, <2>4, ReloadSteps, ThreadSets DEF StepOf
  <2>5. ASSUME NEW a \in Admins, ChangeStatus(a) PROVE Inv'
    BY <2>3, <2>5, RequestSteps, ThreadSets DEF StepOf
  <2>6. ASSUME NEW th \in Threads, LoadPlugins(th) \/ SavePlugins(th) PROVE Inv'
    BY <2>3, <2>6, WriteSteps DEF StepOf
  <2> QED
    BY <1>1, <2>2, <2>4, <2>5, <2>6 DEF Next
<1>2. CASE UNCHANGED vars
  <2>1. /\ UNCHANGED <<dir, store, lastId, pc, todo, seen, rec, copy>>
        /\ UNCHANGED <<asked, disturbed, atStart>>
    BY <1>2 DEF vars, store_, locals, history
  <2>2. TypesOK' /\ IdsOK' /\ UniqueOK'
    BY <2>1 DEF TypesOK, IdsOK, UniqueOK, UniqueIds
  <2>3. TableOK'
    BY <2>1 DEF TableOK, UniqueKeys, Row
  <2>4. AskedOK'
    BY <2>1 DEF AskedOK, Asked, CanExecute
  <2>5. LoneOK'
    <3>1. ASSUME NEW r \in Reloaders PROVE LeftAlone(r)
      BY <2>1 DEF LeftAlone
    <3> QED
      BY <2>1, <3>1, LeftAloneKeeps DEF LoneOK, Lone
  <2> QED
    BY <2>2, <2>3, <2>4, <2>5
<1> QED
  BY <1>1, <1>2

LEMMA Invariant == Spec => []Inv
  BY InvInit, InvNext, PTL DEF Spec

\* Every record has an id that was given out, a key, a status and a revision, and
\* no two records one id, however loads, saves and upserts interleave (TypeOK).
THEOREM TypeCorrect == Spec => []TypeOK
<1>1. Inv => TypeOK
  <2> SUFFICES ASSUME Inv PROVE TypeOK
    OBVIOUS
  <2>1. DOMAIN store = 1..Len(store) /\ \A i \in DOMAIN store : store[i] \in Rec
    BY DEF Inv, TypesOK
  <2>2. ASSUME NEW i \in DOMAIN store
        PROVE  store[i] \in [id : 1..lastId, key : Keys, status : Statuses, rev : Revisions]
    <3>1. PICK p \in Rec : p = store[i]
      BY <2>1
    <3>2. p.id \in Nat \ {0} /\ p.id <= lastId /\ lastId \in Nat
      BY <2>1, <3>1 DEF Rec, Inv, IdsOK, TypesOK
    <3>3. p.id \in 1..lastId
      BY <3>2
    <3> QED
      BY <3>1, <3>3 DEF Rec
  <2>3. Records \subseteq [id : 1..lastId, key : Keys, status : Statuses, rev : Revisions]
    BY <2>2 DEF Records
  <2>4. disturbed \subseteq Threads
    BY ThreadSets DEF Inv, TypesOK
  <2> QED
    BY <2>1, <2>3, <2>4 DEF TypeOK, Inv, TypesOK, UniqueOK, UniqueIds
<1> QED
  BY <1>1, Invariant, PTL

\* What a lone reload leaves, in the words of the inductive invariant.
LEMMA LoneDone ==
    ASSUME Inv, NEW r \in Reloaders, pc[r] = "done", r \notin disturbed
    PROVE  /\ SinceStart(r) /\ \A k \in Keys : Valid(k) => Settled(r, k)
           /\ \A i \in 1..Len(store) : store[i].status # "Removed" =>
                 Valid(store[i].key) /\ First(store[i].key, i)
  BY DEF Inv, LoneOK, Lone, DoneOK

\* A reload that had the directory and the store for itself, and no error, leaves
\* one active record for each valid manifest, with its content, and none for the
\* others (ReloadPlugins).
THEOREM ReloadIsExact == Spec => []ReloadMatchesDirectory
<1>1. Inv => ReloadMatchesDirectory
  <2> SUFFICES ASSUME Inv, NEW r \in Reloaders, pc[r] = "done", r \notin disturbed, NEW k \in Keys
               PROVE  IF dir[k] \in Revisions
                      THEN Cardinality(Active(k)) = 1 /\ \A p \in Active(k) : p.rev = dir[k]
                      ELSE Active(k) = {}
    BY DEF ReloadMatchesDirectory
  <2>1. TypesOK /\ DOMAIN store = 1..Len(store)
    BY DEF Inv, TypesOK
  <2>2. ASSUME NEW p \in Active(k)
        PROVE  Valid(k) /\ \E i \in 1..Len(store) : First(k, i) /\ p = store[i]
    <3>1. PICK i \in 1..Len(store) : p = store[i] /\ store[i].key = k /\ store[i].status # "Removed"
      BY <2>1, <2>2 DEF Active, Records
    <3> QED
      BY <3>1, LoneDone
  <2>3. CASE Valid(k)
    <3>1. PICK i \in 1..Len(store) : /\ First(k, i) /\ store[i].rev = dir[k]
                                     /\ store[i].status # "Removed"
      BY <2>3, LoneDone DEF Settled
    <3>2. store[i] \in Active(k)
      BY <2>1, <3>1 DEF Active, Records, First
    <3>3. \A p \in Active(k) : p = store[i]
      BY <2>1, <2>2, <3>1, FirstIsOne
    <3>4. Active(k) = {store[i]}
      BY <3>2, <3>3
    <3>5. Cardinality(Active(k)) = 1
      BY <3>4, FS_Singleton
    <3> QED
      BY <2>3, <3>1, <3>3, <3>5 DEF Valid
  <2>4. CASE ~ Valid(k)
    BY <2>2, <2>4 DEF Valid
  <2> QED
    BY <2>3, <2>4
<1> QED
  BY <1>1, Invariant, PTL

\* Only a plugin that was enabled at some time is executable, however reloads and
\* requests overlap; a reload that ran alone leaves the administrators' decisions
\* as they are (ReloadPlugins, UpsertFromManifest).
THEOREM DecisionsAreKept == Spec => []ReloadKeepsDecisions
<1>1. Inv => ReloadKeepsDecisions
  <2> SUFFICES ASSUME Inv PROVE ReloadKeepsDecisions
    OBVIOUS
  <2>1. /\ TypesOK /\ DOMAIN store = 1..Len(store) /\ Len(store) \in Nat
        /\ \A i \in 1..Len(store) : store[i] \in Rec
    <3>1. TypesOK /\ store \in Seq(Rec)
      BY DEF Inv, TypesOK
    <3> QED
      BY <3>1
  <2>2. \A p \in Records : CanExecute(p) => p.id \in asked
    BY <2>1 DEF Inv, AskedOK, Asked, Records
  <2>3. ASSUME NEW r \in Reloaders, pc[r] = "done", r \notin disturbed,
               NEW i \in DOMAIN atStart[r], dir[atStart[r][i].key] \in Revisions,
               atStart[r][i] = ByKey(atStart[r], atStart[r][i].key)
        PROVE  \E q \in Records : q.id = atStart[r][i].id /\ q.status = Kept(atStart[r][i].status)
    <3>1. PICK old \in Seq(Rec) : old = atStart[r]
      BY <2>1 DEF TypesOK
    <3>2. DOMAIN old = 1..Len(old) /\ Len(old) \in Nat /\ \A j \in 1..Len(old) : old[j] \in Rec
      OBVIOUS
    <3>3. PICK k \in Keys : k = old[i].key
      BY <2>3, <3>1, <3>2 DEF Rec
    <3>4. HasKey(old, k)
      BY <2>3, <3>1, <3>3 DEF HasKey
    <3>5. PICK f \in 1..Len(old) : IsFirst(old, k, f) /\ old[i] = old[f]
      BY <2>3, <3>1, <3>3, <3>4, ByKeyIsFirst
    <3>6. PICK m \in 1..Len(store) :
             First(k, m) /\ (m <= Len(old) => store[m].status = Kept(old[m].status))
      BY <2>3, <3>1, <3>3, LoneDone DEF Settled, Valid
    <3>7. /\ Len(old) <= Len(store)
          /\ \A j \in 1..Len(old) : store[j].id = old[j].id /\ store[j].key = old[j].key
      BY <2>3, <3>1, LoneDone DEF SinceStart
    <3>8. m <= f
      BY <2>1, <3>2, <3>5, <3>6, <3>7 DEF First, IsFirst
    <3>9. m \in 1..Len(old) /\ f <= m
      BY <2>1, <3>2, <3>5, <3>6, <3>7, <3>8 DEF First, IsFirst
    <3>10. m = f
      BY <2>1, <3>2, <3>8, <3>9
    <3>11. store[m] \in Records
      BY <2>1 DEF Records
    <3> QED
      BY <3>1, <3>5, <3>6, <3>7, <3>9, <3>10, <3>11
  <2>4. ASSUME NEW r \in Reloaders, pc[r] = "done", r \notin disturbed,
               NEW q \in Records, q.status \in {"Enabled", "Disabled"}
        PROVE  \E i \in DOMAIN atStart[r] : atStart[r][i].id = q.id /\ atStart[r][i].status = q.status
    <3>1. DOMAIN atStart[r] = 1..Len(atStart[r]) /\ Len(atStart[r]) \in Nat
      BY <2>1 DEF TypesOK
    <3>2. PICK i \in 1..Len(store) : q = store[i]
      BY <2>1 DEF Records
    <3>3. i \in 1..Len(atStart[r]) /\ atStart[r][i].status = q.status
      BY <2>1, <2>4, <3>1, <3>2, LoneDone DEF SinceStart
    <3> QED
      BY <2>4, <3>1, <3>2, <3>3, LoneDone DEF SinceStart
  <2> QED
    BY <2>2, <2>3, <2>4 DEF ReloadKeepsDecisions, Kept
<1> QED
  BY <1>1, Invariant, PTL
=============================================================================
