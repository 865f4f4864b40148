------------------------- MODULE BucketQueueProofs -------------------------
(***************************************************************************)
(* Proofs, for any sets of keys, items and goroutines, that the bucketing  *)
(* work queue keeps its invariants and implements BucketSpec.              *)
(***************************************************************************)
EXTENDS BucketQueue, TLAPS

\* Every step of the bucketing queue keeps the types of its state.
LEMMA TypeNext == BucketInv /\ [Next]_vars => TypeOK'
<1> SUFFICES ASSUME BucketInv, [Next]_vars PROVE TypeOK'
  OBVIOUS
<1> USE BucketAssumption
    DEF BucketInv, TypeOK, WorkQueueTypeOK, ThreadsCoherent, Threads, WorkerSteps, AdderSteps
<1>1. ASSUME NEW t \in Adders, NEW i \in Items, AddWithData(t, i) PROVE TypeOK'
  BY <1>1 DEF AddWithData, Goto, QueueAdd, Added, Lock, bucketVars
<1>2. ASSUME NEW t \in Adders, AddWithDataEnd(t) PROVE TypeOK'
  BY <1>2, SMTT(30) DEF AddWithDataEnd, Goto, AppendData, Unlock, wqVars
<1>3. ASSUME NEW t \in Workers, NEW k \in Keys, Get(t, k) PROVE TypeOK'
  BY <1>3 DEF Get, Goto, QueueGet, bucketVars
<1>4. ASSUME NEW t \in Workers, Quit(t) PROVE TypeOK'
  BY <1>4 DEF Quit, Goto, wqVars, bucketVars
<1>5. ASSUME NEW t \in Workers, GetWithData(t) PROVE TypeOK'
  BY <1>5 DEF GetWithData, Goto, wqVars
<1>6. ASSUME NEW t \in Workers, SyncSucceeds(t) PROVE TypeOK'
  BY <1>6 DEF SyncSucceeds, Goto, wqVars, bucketVars
<1>7. ASSUME NEW t \in Workers, SyncFails(t) PROVE TypeOK'
  BY <1>7 DEF SyncFails, Goto, QueueAddRateLimited, Lock, bucketVars
<1>8. ASSUME NEW t \in Workers, AddRateLimitedEnd(t) PROVE TypeOK'
  BY <1>8 DEF AddRateLimitedEnd, Goto, AppendData, Unlock, wqVars
<1>9. ASSUME NEW t \in Workers, Done(t) PROVE TypeOK'
  BY <1>9 DEF Done, Goto, QueueDone, Lock, bucketVars
<1>10. ASSUME NEW t \in Workers, DoneEnd(t) PROVE TypeOK'
  BY <1>10 DEF DoneEnd, Goto, Unlock, wqVars
<1>11. ASSUME NEW k \in Keys, DelayOver(k) PROVE TypeOK'
  BY <1>11 DEF DelayOver, QueueDelayOver, Added, bucketVars
<1>12. ASSUME ShutDown PROVE TypeOK'
  BY <1>12 DEF ShutDown, QueueShutDown, bucketVars
<1>13. CASE UNCHANGED vars
  BY <1>13 DEF vars, wqVars, bucketVars
<1> QED
  BY <1>1, <1>2, <1>3, <1>4, <1>5, <1>6, <1>7, <1>8, <1>9, <1>10, <1>11, <1>12, <1>13, Zenon DEF Next, Worker

\* The invariant holds of the empty queue NewBucketingWorkQueue makes.
LEMMA InvInit == Init => BucketInv
<1> SUFFICES ASSUME Init PROVE BucketInv
  OBVIOUS
<1> USE BucketAssumption DEF Init, WorkQueueInit, Threads
<1>1. TypeOK
  BY Zenon DEF TypeOK, WorkQueueTypeOK, WorkerSteps, AdderSteps
<1>2. NeverConcurrent /\ OneBucket /\ NoStrandedWork /\ QueueCoherent
  BY DEF NeverConcurrent, OneBucket, NoStrandedWork, QueueCoherent, Holds, Serves, Pending
<1>3. ItemsConserved /\ ThreadsCoherent
  BY DEF ItemsConserved, ThreadsCoherent, Pending, Locked, WorkerSteps, AdderSteps
<1> QED
  BY <1>1, <1>2, <1>3 DEF BucketInv

\* A worker that Get has given a key never finds it in progress once it has
\* the lock: the goroutine that had the key before it is through Done.
LEMMA GotIsFree ==
  ASSUME BucketInv, NEW t \in Workers, pc[t] = "got", workLock = Free
  PROVE  key[t] \in Keys /\ key[t] \notin inProgress
<1>1. key[t] \in Keys
  BY DEF BucketInv, ThreadsCoherent, Threads
<1>2. ASSUME NEW u \in Workers, Serves(u, key[t]) PROVE FALSE
  <2>1. pc[u] # "finishing"
    BY BucketAssumption DEF BucketInv, ThreadsCoherent, Threads, Locked
  <2>2. Holds(u, key[t]) /\ Holds(t, key[t]) /\ u # t
    BY <1>2, <2>1 DEF Holds, Serves
  <2> QED
    BY <1>1, <2>2 DEF BucketInv, NeverConcurrent
<1> QED
  BY <1>1, <1>2 DEF BucketInv, QueueCoherent

\* Every step keeps the invariant.
LEMMA InvNext == BucketInv /\ [Next]_vars => BucketInv'
<1> SUFFICES ASSUME BucketInv, [Next]_vars PROVE BucketInv'
  OBVIOUS
<1>0. TypeOK'
  BY TypeNext
<1> USE BucketAssumption
    DEF BucketInv, TypeOK, WorkQueueTypeOK, OneBucket, QueueCoherent, ThreadsCoherent,
        Threads, Holds, Serves, Locked
<1>1. ASSUME NEW t \in Adders, NEW i \in Items, AddWithData(t, i) PROVE BucketInv'
  <2>1. NeverConcurrent'
    BY <1>1 DEF AddWithData, Goto, QueueAdd, Added, Lock, bucketVars, NeverConcurrent
  <2>2. ItemsConserved'
    BY <1>1 DEF AddWithData, Goto, QueueAdd, Added, Lock, bucketVars, ItemsConserved, Pending
  <2>3. OneBucket'
    BY <1>1 DEF AddWithData, Goto, QueueAdd, Added, Lock, bucketVars
  <2>4. NoStrandedWork'
    BY <1>1 DEF AddWithData, Goto, QueueAdd, Added, Lock, bucketVars, NoStrandedWork, Pending, Scheduled
  <2>5. QueueCoherent'
    BY <1>1 DEF AddWithData, Goto, QueueAdd, Added, Lock, bucketVars, NeverConcurrent
  <2>6. ThreadsCoherent'
    BY <1>1 DEF AddWithData, Goto, QueueAdd, Added, Lock, bucketVars, Scheduled, WorkerSteps, AdderSteps
  <2> QED
    BY <1>0, <2>1, <2>2, <2>3, <2>4, <2>5, <2>6
<1>2. ASSUME NEW t \in Adders, AddWithDataEnd(t) PROVE BucketInv'
  <2>1. NeverConcurrent'
    BY <1>2 DEF AddWithDataEnd, Goto, AppendData, Unlock, wqVars, NeverConcurrent
  <2>2. ItemsConserved'
    BY <1>2 DEF AddWithDataEnd, Goto, AppendData, Unlock, wqVars, ItemsConserved, Pending
  <2>3. OneBucket'
    BY <1>2 DEF AddWithDataEnd, Goto, AppendData, Unlock, wqVars
  <2>4. NoStrandedWork'
    BY <1>2 DEF AddWithDataEnd, Goto, AppendData, Unlock, wqVars, NoStrandedWork, Pending, Scheduled
  <2>5. QueueCoherent'
    BY <1>2 DEF AddWithDataEnd, Goto, AppendData, Unlock, wqVars, NeverConcurrent
  <2>6. ThreadsCoherent'
    BY <1>2 DEF AddWithDataEnd, Goto, AppendData, Unlock, wqVars, Scheduled, WorkerSteps, AdderSteps
  <2> QED
    BY <1>0, <2>1, <2>2, <2>3, <2>4, <2>5, <2>6
<1>3. ASSUME NEW t \in Workers, NEW k \in Keys, Get(t, k) PROVE BucketInv'
  <2>1. NeverConcurrent'
    BY <1>3 DEF Get, Goto, QueueGet, bucketVars, NeverConcurrent
  <2>2. ItemsConserved'
    BY <1>3 DEF Get, Goto, QueueGet, bucketVars, ItemsConserved, Pending
  <2>3. OneBucket'
    BY <1>3 DEF Get, Goto, QueueGet, bucketVars
  <2>4. NoStrandedWork'
    BY <1>3 DEF Get, Goto, QueueGet, bucketVars, NoStrandedWork, Pending, Scheduled
  <2>5. QueueCoherent'
    BY <1>3 DEF Get, Goto, QueueGet, bucketVars, NeverConcurrent
  <2>6. ThreadsCoherent'
    BY <1>3 DEF Get, Goto, QueueGet, bucketVars, Scheduled, WorkerSteps, AdderSteps
  <2> QED
    BY <1>0, <2>1, <2>2, <2>3, <2>4, <2>5, <2>6
<1>4. ASSUME NEW t \in Workers, Quit(t) PROVE BucketInv'
  <2>1. NeverConcurrent'
    BY <1>4 DEF Quit, Goto, wqVars, bucketVars, NeverConcurrent
  <2>2. ItemsConserved'
    BY <1>4 DEF Quit, Goto, wqVars, bucketVars, ItemsConserved, Pending
  <2>3. OneBucket'
    BY <1>4 DEF Quit, Goto, wqVars, bucketVars
  <2>4. NoStrandedWork'
    BY <1>4 DEF Quit, Goto, wqVars, bucketVars, NoStrandedWork, Pending, Scheduled
  <2>5. QueueCoherent'
    BY <1>4 DEF Quit, Goto, wqVars, bucketVars, NeverConcurrent
  <2>6. ThreadsCoherent'
    BY <1>4 DEF Quit, Goto, wqVars, bucketVars, Scheduled, WorkerSteps, AdderSteps
  <2> QED
    BY <1>0, <2>1, <2>2, <2>3, <2>4, <2>5, <2>6
<1>5. ASSUME NEW t \in Workers, GetWithData(t) PROVE BucketInv'
  <2>0. key[t] \in Keys /\ key[t] \notin inProgress
    BY <1>5, GotIsFree DEF GetWithData, Goto
  <2>1. NeverConcurrent'
    BY <1>5, <2>0 DEF GetWithData, Goto, wqVars, NeverConcurrent
  <2>2. ItemsConserved'
    BY <1>5, <2>0 DEF GetWithData, Goto, wqVars, ItemsConserved, Pending
  <2>3. OneBucket'
    BY <1>5, <2>0 DEF GetWithData, Goto, wqVars
  <2>4. NoStrandedWork'
    BY <1>5, <2>0 DEF GetWithData, Goto, wqVars, NoStrandedWork, Pending, Scheduled
  <2>5. QueueCoherent'
    BY <1>5, <2>0 DEF GetWithData, Goto, wqVars, NeverConcurrent
  <2>6. ThreadsCoherent'
    BY <1>5, <2>0 DEF GetWithData, Goto, wqVars, Scheduled, WorkerSteps, AdderSteps
  <2> QED
    BY <1>0, <2>1, <2>2, <2>3, <2>4, <2>5, <2>6
<1>6. ASSUME NEW t \in Workers, SyncSucceeds(t) PROVE BucketInv'
  <2>1. NeverConcurrent'
    BY <1>6 DEF SyncSucceeds, Goto, wqVars, bucketVars, NeverConcurrent
  <2>2. ItemsConserved'
    BY <1>6 DEF SyncSucceeds, Goto, wqVars, bucketVars, ItemsConserved, Pending
  <2>3. OneBucket'
    BY <1>6 DEF SyncSucceeds, Goto, wqVars, bucketVars
  <2>4. NoStrandedWork'
    BY <1>6 DEF SyncSucceeds, Goto, wqVars, bucketVars, NoStrandedWork, Pending, Scheduled
  <2>5. QueueCoherent'
    BY <1>6 DEF SyncSucceeds, Goto, wqVars, bucketVars, NeverConcurrent
  <2>6. ThreadsCoherent'
    BY <1>6 DEF SyncSucceeds, Goto, wqVars, bucketVars, Scheduled, WorkerSteps, AdderSteps
  <2> QED
    BY <1>0, <2>1, <2>2, <2>3, <2>4, <2>5, <2>6
<1>7. ASSUME NEW t \in Workers, SyncFails(t) PROVE BucketInv'
  <2>1. NeverConcurrent'
    BY <1>7 DEF SyncFails, Goto, QueueAddRateLimited, Lock, bucketVars, NeverConcurrent
  <2>2. ItemsConserved'
    BY <1>7 DEF SyncFails, Goto, QueueAddRateLimited, Lock, bucketVars, ItemsConserved, Pending
  <2>3. OneBucket'
    BY <1>7 DEF SyncFails, Goto, QueueAddRateLimited, Lock, bucketVars
  <2>4. NoStrandedWork'
    BY <1>7 DEF SyncFails, Goto, QueueAddRateLimited, Lock, bucketVars, NoStrandedWork, Pending, Scheduled
  <2>5. QueueCoherent'
    BY <1>7 DEF SyncFails, Goto, QueueAddRateLimited, Lock, bucketVars, NeverConcurrent
  <2>6. ThreadsCoherent'
    BY <1>7 DEF SyncFails, Goto, QueueAddRateLimited, Lock, bucketVars, Scheduled, WorkerSteps, AdderSteps
  <2> QED
    BY <1>0, <2>1, <2>2, <2>3, <2>4, <2>5, <2>6
<1>8. ASSUME NEW t \in Workers, AddRateLimitedEnd(t) PROVE BucketInv'
  <2>1. NeverConcurrent'
    BY <1>8 DEF AddRateLimitedEnd, Goto, AppendData, Unlock, wqVars, NeverConcurrent
  <2>2. ItemsConserved'
    BY <1>8 DEF AddRateLimitedEnd, Goto, AppendData, Unlock, wqVars, ItemsConserved, Pending
  <2>3. OneBucket'
    BY <1>8 DEF AddRateLimitedEnd, Goto, AppendData, Unlock, wqVars
  <2>4. NoStrandedWork'
    BY <1>8 DEF AddRateLimitedEnd, Goto, AppendData, Unlock, wqVars, NoStrandedWork, Pending, Scheduled
  <2>5. QueueCoherent'
    BY <1>8 DEF AddRateLimitedEnd, Goto, AppendData, Unlock, wqVars, NeverConcurrent
  <2>6. ThreadsCoherent'
    BY <1>8 DEF AddRateLimitedEnd, Goto, AppendData, Unlock, wqVars, Scheduled, WorkerSteps, AdderSteps
  <2> QED
    BY <1>0, <2>1, <2>2, <2>3, <2>4, <2>5, <2>6
<1>9. ASSUME NEW t \in Workers, Done(t) PROVE BucketInv'
  <2>1. NeverConcurrent'
    BY <1>9 DEF Done, Goto, QueueDone, Lock, bucketVars, NeverConcurrent
  <2>2. ItemsConserved'
    BY <1>9 DEF Done, Goto, QueueDone, Lock, bucketVars, ItemsConserved, Pending
  <2>3. OneBucket'
    BY <1>9 DEF Done, Goto, QueueDone, Lock, bucketVars
  <2>4. NoStrandedWork'
    BY <1>9 DEF Done, Goto, QueueDone, Lock, bucketVars, NoStrandedWork, Pending, Scheduled
  <2>5. QueueCoherent'
    BY <1>9 DEF Done, Goto, QueueDone, Lock, bucketVars, NeverConcurrent
  <2>6. ThreadsCoherent'
    BY <1>9 DEF Done, Goto, QueueDone, Lock, bucketVars, Scheduled, WorkerSteps, AdderSteps
  <2> QED
    BY <1>0, <2>1, <2>2, <2>3, <2>4, <2>5, <2>6
<1>10. ASSUME NEW t \in Workers, DoneEnd(t) PROVE BucketInv'
  <2>1. NeverConcurrent'
    BY <1>10, SMTT(30) DEF DoneEnd, Goto, Unlock, wqVars, NeverConcurrent
  <2>2. ItemsConserved'
    BY <1>10, SMTT(30) DEF DoneEnd, Goto, Unlock, wqVars, ItemsConserved, Pending
  <2>3. OneBucket'
    BY <1>10 DEF DoneEnd, Goto, Unlock, wqVars
  <2>4. NoStrandedWork'
    BY <1>10 DEF DoneEnd, Goto, Unlock, wqVars, NoStrandedWork, Pending, Scheduled
  <2>5. QueueCoherent'
    BY <1>10 DEF DoneEnd, Goto, Unlock, wqVars, NeverConcurrent
  <2>6. ThreadsCoherent'
    BY <1>10 DEF DoneEnd, Goto, Unlock, wqVars, Scheduled, WorkerSteps, AdderSteps
  <2> QED
    BY <1>0, <2>1, <2>2, <2>3, <2>4, <2>5, <2>6
<1>11. ASSUME NEW k \in Keys, DelayOver(k) PROVE BucketInv'
  <2>1. NeverConcurrent'
    BY <1>11 DEF DelayOver, QueueDelayOver, Added, bucketVars, NeverConcurrent
  <2>2. ItemsConserved'
    BY <1>11, SMTT(30) DEF DelayOver, QueueDelayOver, Added, bucketVars, ItemsConserved, Pending
  <2>3. OneBucket'
    BY <1>11 DEF DelayOver, QueueDelayOver, Added, bucketVars
  <2>4. NoStrandedWork'
    BY <1>11 DEF DelayOver, QueueDelayOver, Added, bucketVars, NoStrandedWork, Pending, Scheduled
  <2>5. QueueCoherent'
    BY <1>11 DEF DelayOver, QueueDelayOver, Added, bucketVars, NeverConcurrent
  <2>6. ThreadsCoherent'
    BY <1>11 DEF DelayOver, QueueDelayOver, Added, bucketVars, Scheduled, WorkerSteps, AdderSteps
  <2> QED
    BY <1>0, <2>1, <2>2, <2>3, <2>4, <2>5, <2>6, Zenon
<1>12. ASSUME ShutDown PROVE BucketInv'
  <2>1. NeverConcurrent'
    BY <1>12 DEF ShutDown, QueueShutDown, bucketVars, NeverConcurrent
  <2>2. ItemsConserved'
    BY <1>12 DEF ShutDown, QueueShutDown, bucketVars, ItemsConserved, Pending
  <2>3. OneBucket'
    BY <1>12 DEF ShutDown, QueueShutDown, bucketVars
  <2>4. NoStrandedWork'
    BY <1>12 DEF ShutDown, QueueShutDown, bucketVars, NoStrandedWork, Pending, Scheduled
  <2>5. QueueCoherent'
    BY <1>12 DEF ShutDown, QueueShutDown, bucketVars, NeverConcurrent
  <2>6. ThreadsCoherent'
    BY <1>12 DEF ShutDown, QueueShutDown, bucketVars, Scheduled, WorkerSteps, AdderSteps
  <2> QED
    BY <1>0, <2>1, <2>2, <2>3, <2>4, <2>5, <2>6
<1>13. CASE UNCHANGED vars
  BY <1>13, SMTT(30) DEF vars, wqVars, bucketVars, NeverConcurrent, ItemsConserved, NoStrandedWork,
          Pending, Scheduled
<1> QED
  BY <1>1, <1>2, <1>3, <1>4, <1>5, <1>6, <1>7, <1>8, <1>9, <1>10, <1>11, <1>12, <1>13, Zenon DEF Next, Worker

\* The bucketing queue keeps its invariant: with any number of workers and
\* handlers no key is served twice at a time, no item is lost or duplicated
\* and no item waits under a key that the inner queue has forgotten.
THEOREM Correctness == Spec => []BucketInv
<1> QED
  BY InvInit, InvNext, PTL DEF Spec

\* The comment on worker: the sync handler is never run concurrently with the
\* same key.
THEOREM Exclusion == Spec => []NeverConcurrent
<1>1. BucketInv => NeverConcurrent
  BY DEF BucketInv
<1> QED
  BY <1>1, Correctness, PTL

\* Nothing is lost or duplicated between AddWithData and the end of the sync.
THEOREM Conservation == Spec => []ItemsConserved
<1>1. BucketInv => ItemsConserved
  BY DEF BucketInv
<1> QED
  BY <1>1, Correctness, PTL

\* Until shutdown the inner queue knows of every key that has items.
THEOREM NothingStranded == Spec => []NoStrandedWork
<1>1. BucketInv => NoStrandedWork
  BY DEF BucketInv
<1> QED
  BY <1>1, Correctness, PTL

\* Appending to either map adds to the items that wait under the key.
LEMMA AppendPending ==
  ASSUME TypeOK, NEW k \in Keys, NEW items, AppendData(k, items)
  PROVE  \A l \in Keys : Pending(l)' = IF l = k THEN Pending(l) \cup items ELSE Pending(l)
<1>1. CASE k \in inProgress
  BY <1>1 DEF AppendData, Pending, TypeOK
<1>2. CASE k \notin inProgress
  BY <1>2 DEF AppendData, Pending, TypeOK
<1> QED
  BY <1>1, <1>2

\* The bucketing queue implements its abstract specification: the steps that
\* a user can see are the second halves of the two-step methods.
THEOREM Implementation == Spec => KeepsPromise
<1>1. Init => Promise!Init
  <2> SUFFICES ASSUME Init PROVE Promise!Init
    OBVIOUS
  <2>1. UNION {data[t] : t \in Adders} = {}
    BY DEF Init, Threads
  <2> QED
    BY <2>1 DEF Init, Promise!Init, Pending, Threads
<1>2. BucketInv /\ [Next]_vars => [Promise!Next]_(Promise!specVars)
  <2> SUFFICES ASSUME BucketInv, [Next]_vars
               PROVE  Promise!Next \/ UNCHANGED Promise!specVars
    OBVIOUS
  <2> DEFINE added     == UNION {data[t] : t \in Adders}
             serving   == [t \in Workers |-> IF pc[t] \in {"busy", "retrying", "done", "finishing"}
                                               THEN key[t] ELSE NoKey]
             batch     == [t \in Workers |-> data[t]]
             pending   == [k \in Keys |-> Pending(k)]
  <2> USE BucketAssumption
      DEF BucketInv, TypeOK, WorkQueueTypeOK, ThreadsCoherent, Threads, Locked
  <2>a. ASSUME UNCHANGED <<unused, finished, work, dirtyWork, data>>, serving' = serving
        PROVE  UNCHANGED Promise!specVars
    BY <2>a DEF Promise!specVars, Pending
  <2>b. ASSUME NEW t \in Workers, \A u \in Threads \ {t} : data'[u] = data[u]
        PROVE  added' = added
    BY <2>b, SMTT(30)
  <2>1. ASSUME NEW t \in Adders, NEW i \in Items, AddWithData(t, i)
        PROVE  UNCHANGED Promise!specVars
    <3>1. data[t] = {} /\ data' = [data EXCEPT ![t] = {i}] /\ i \in unused /\ unused' = unused \ {i}
      BY <2>1 DEF AddWithData, Goto
    <3>2. unused' \cup added' = unused \cup added
      BY <3>1
    <3>3. serving' = serving /\ batch' = batch /\ pending' = pending
      BY <2>1, SMTT(30) DEF AddWithData, Goto, bucketVars, Pending
    <3> QED
      BY <3>2, <3>3, <2>1 DEF Promise!specVars, AddWithData
  <2>2. ASSUME NEW t \in Adders, AddWithDataEnd(t) PROVE Promise!Next
    <3>1. key[t] \in Keys /\ pc[t] = "adding"
      BY <2>2 DEF AddWithDataEnd, Goto
    <3>2. \A i \in data[t] : KeyOf[i] = key[t] /\ i \notin unused
      BY DEF ItemsConserved
    <3>3. data' = [data EXCEPT ![t] = {}] /\ UNCHANGED <<unused, finished>>
      BY <2>2 DEF AddWithDataEnd
    <3>4. (unused \cup added)' = (unused \cup added) \ data[t]
      BY <3>2, <3>3 DEF ItemsConserved
    <3>5. pending' = [pending EXCEPT ![key[t]] = @ \cup data[t]]
      BY <3>1, <2>2, AppendPending, Zenon DEF AddWithDataEnd
    <3>6. serving' = serving /\ batch' = batch
      BY <2>2 DEF AddWithDataEnd, Goto
    <3>7. Promise!Submit(key[t], data[t])
      BY <3>2, <3>3, <3>4, <3>5, <3>6, Zenon DEF Promise!Submit
    <3>8. \E items \in SUBSET (unused \cup added) : Promise!Submit(key[t], items)
      <4>1. data[t] \in SUBSET (unused \cup added)
        OBVIOUS
      <4> HIDE DEF added, serving, batch, pending
      <4> QED
        BY <3>7, <4>1, Zenon DEF Promise!Submit
    <3>9. \E k \in Keys, items \in SUBSET (unused \cup added) : Promise!Submit(k, items)
      BY <3>1, <3>8
    <3> QED
      BY <3>9 DEF Promise!Next
  <2>3. ASSUME NEW t \in Workers, NEW k \in Keys, Get(t, k) PROVE UNCHANGED Promise!specVars
    <3>1. serving' = serving
      BY <2>3 DEF Get, Goto
    <3> QED
      BY <2>3, <2>a, <3>1 DEF Get, bucketVars
  <2>4. ASSUME NEW t \in Workers, Quit(t) PROVE UNCHANGED Promise!specVars
    <3>1. serving' = serving
      BY <2>4 DEF Quit, Goto
    <3> QED
      BY <2>4, <2>a, <3>1 DEF Quit, bucketVars
  <2>5. ASSUME NEW t \in Workers, GetWithData(t) PROVE Promise!Next
    <3>1. key[t] \in Keys /\ key[t] \notin inProgress
      BY <2>5, GotIsFree, Zenon DEF GetWithData, Goto
    <3>2. Pending(key[t]) = work[key[t]]
      BY <3>1 DEF Pending, OneBucket
    <3>3. \A u \in Workers : serving[u] # key[t]
      BY <3>1 DEF QueueCoherent, Serves
    <3>4. serving[t] = NoKey /\ serving' = [serving EXCEPT ![t] = key[t]]
      BY <2>5, Zenon DEF GetWithData, Goto
    <3>5. batch' = [batch EXCEPT ![t] = pending[key[t]]]
      BY <2>5, <3>1, <3>2, Zenon DEF GetWithData
    <3>6. pending' = [pending EXCEPT ![key[t]] = {}]
      BY <2>5, <3>1, Zenon DEF GetWithData, Pending
    <3>7. PICK k \in Keys : k = key[t]
      BY <3>1
    <3>8. Promise!Start(t, k)
      BY <2>5, <2>b, <3>1, <3>3, <3>4, <3>5, <3>6, <3>7, SMTT(30) DEF Promise!Start, GetWithData
    <3> QED
      BY <3>8 DEF Promise!Next
  <2>6. ASSUME NEW t \in Workers, SyncSucceeds(t) PROVE Promise!Next
    <3>1. serving' = serving /\ pending' = pending
      BY <2>6 DEF SyncSucceeds, Goto, bucketVars, Pending
    <3>2. batch' = [batch EXCEPT ![t] = @ \ data[t]]
      BY <2>6, Zenon DEF SyncSucceeds
    <3> QED
      BY <2>6, <2>b, <3>1, <3>2, Zenon DEF Promise!Finish, Promise!Next, SyncSucceeds
  <2>7. ASSUME NEW t \in Workers, SyncFails(t) PROVE Promise!Next
    <3>1. PICK retry \in SUBSET data[t] :
            /\ data' = [data EXCEPT ![t] = retry]
            /\ finished' = finished \cup (data[t] \ retry)
      BY <2>7, Zenon DEF SyncFails
    <3>2. serving' = serving /\ pending' = pending
      BY <2>7, Zenon DEF SyncFails, Goto, bucketVars, Pending
    <3>3. batch' = [batch EXCEPT ![t] = @ \ (data[t] \ retry)]
      BY <3>1, Zenon
    <3> QED
      BY <2>7, <2>b, <3>1, <3>2, <3>3, Zenon DEF Promise!Finish, Promise!Next, SyncFails
  <2>8. ASSUME NEW t \in Workers, AddRateLimitedEnd(t) PROVE Promise!Next
    <3>1. key[t] \in Keys /\ serving[t] = key[t] /\ serving' = serving
      BY <2>8 DEF AddRateLimitedEnd, Goto
    <3>2. pending' = [pending EXCEPT ![key[t]] = @ \cup data[t]]
      <4>1. AppendData(key[t], data[t])
        BY <2>8 DEF AddRateLimitedEnd
      <4>2. \A l \in Keys :
              Pending(l)' = IF l = key[t] THEN Pending(l) \cup data[t] ELSE Pending(l)
        BY <3>1, <4>1, AppendPending, Zenon
      <4> QED
        BY <3>1, <4>2, Zenon
    <3>3. batch' = [batch EXCEPT ![t] = {}]
      BY <2>8, Zenon DEF AddRateLimitedEnd
    <3> QED
      BY <2>8, <2>b, <3>1, <3>2, <3>3, Zenon DEF Promise!GiveBack, Promise!Next, AddRateLimitedEnd
  <2>9. ASSUME NEW t \in Workers, Done(t) PROVE UNCHANGED Promise!specVars
    <3>1. serving' = serving
      BY <2>9 DEF Done, Goto
    <3> QED
      BY <2>9, <2>a, <3>1, Zenon DEF Done, bucketVars
  <2>10. ASSUME NEW t \in Workers, DoneEnd(t) PROVE Promise!Next
    <3>1. key[t] \in Keys /\ serving[t] = key[t] /\ data[t] = {}
      BY <2>10, Zenon DEF DoneEnd, Goto
    <3>2. serving' = [serving EXCEPT ![t] = NoKey]
      BY <2>10, Zenon DEF DoneEnd, Goto
    <3>3. work[key[t]] = {}
      BY <2>10, <3>1, Zenon DEF DoneEnd, Goto, OneBucket, QueueCoherent, Serves
    <3>4. pending' = pending
      BY <2>10, <3>1, <3>3, Zenon DEF DoneEnd, Pending
    <3>5. Promise!Release(t)
      BY <2>10, <3>1, <3>2, <3>4, SMTT(30) DEF Promise!Release, DoneEnd
    <3> QED
      BY <3>5 DEF Promise!Next
  <2>11. ASSUME NEW k \in Keys, DelayOver(k) PROVE UNCHANGED Promise!specVars
    BY <2>11, <2>a DEF DelayOver, bucketVars
  <2>12. CASE ShutDown
    BY <2>12, <2>a DEF ShutDown, bucketVars
  <2>13. CASE UNCHANGED vars
    BY <2>13, <2>a, Zenon DEF vars, bucketVars
  <2> QED
    BY <2>1, <2>2, <2>3, <2>4, <2>5, <2>6, <2>7, <2>8, <2>9, <2>10, <2>11, <2>12, <2>13
    DEF Next, Worker
<1> QED
  BY <1>1, <1>2, Correctness, PTL DEF Spec, Promise!Spec, KeepsPromise
=============================================================================
