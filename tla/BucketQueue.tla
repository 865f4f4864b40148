---------------------------- MODULE BucketQueue ----------------------------
(***************************************************************************)
(* The bucketing work queue of the cluster quota reconciliation controller *)
(* (src/pkg/quota/clusterquotareconciliation/workqueuebucket.go) and the   *)
(* threads that use it: informer handlers and timers that add work items   *)
(* under a quota's name, and the controller's workers, which take all the  *)
(* items of a quota at once and give back those they could not finish.     *)
(*                                                                         *)
(* The bucket's methods call the inner work queue while they hold          *)
(* workLock, but GetWithData calls it before: a method that makes such a   *)
(* call is two steps, so that a Get of another thread falls in between.    *)
(***************************************************************************)
EXTENDS WorkQueue

CONSTANTS
  Items,      \* work items; each is added once by a handler
  KeyOf,      \* the quota each item is for
  Workers,    \* goroutines running worker
  Adders      \* goroutines running handlers and timers

VARIABLES
  work, dirtyWork,   \* the items of each key
  inProgress,        \* keys given out by GetWithData and not Done
  workLock,          \* the goroutine holding the lock, or Free
  pc,                \* pc[t]: where goroutine t is
  key,               \* key[t]: the key it works on or adds to
  data,              \* data[t]: the items it holds
  unused,            \* items not yet added (bounds the handlers)
  finished           \* history: items the workers are through with

bucketVars == <<work, dirtyWork, inProgress>>
vars == <<wqVars, bucketVars, workLock, pc, key, data, unused, finished>>

Threads == Workers \cup Adders
Free    == "free"
NoKey   == "none"

ASSUME BucketAssumption ==
  /\ Workers \cap Adders = {}
  /\ Free \notin Threads
  /\ NoKey \notin Keys
  /\ KeyOf \in [Items -> Keys]

WorkerSteps == {"idle", "got", "busy", "retrying", "done", "finishing", "stopped"}
AdderSteps  == {"idle", "adding"}

TypeOK ==
  /\ WorkQueueTypeOK
  /\ work \in [Keys -> SUBSET Items]
  /\ dirtyWork \in [Keys -> SUBSET Items]
  /\ inProgress \subseteq Keys
  /\ workLock \in Threads \cup {Free}
  /\ pc \in [Threads -> WorkerSteps \cup AdderSteps]
  /\ key \in [Threads -> Keys \cup {NoKey}]
  /\ data \in [Threads -> SUBSET Items]
  /\ unused \subseteq Items
  /\ finished \subseteq Items

Init ==
  /\ WorkQueueInit
  /\ work = [k \in Keys |-> {}]
  /\ dirtyWork = [k \in Keys |-> {}]
  /\ inProgress = {}
  /\ workLock = Free
  /\ pc = [t \in Threads |-> "idle"]
  /\ key = [t \in Threads |-> NoKey]
  /\ data = [t \in Threads |-> {}]
  /\ unused = Items
  /\ finished = {}

Goto(t, from, to) == pc[t] = from /\ pc' = [pc EXCEPT ![t] = to]
Lock(t)   == workLock = Free /\ workLock' = t
Unlock(t) == workLock = t /\ workLock' = Free

\* Faulty: items for a key in progress join those that Done will overwrite.
AppendToWork(k, items) ==
  /\ work' = [work EXCEPT ![k] = @ \cup items]
  /\ UNCHANGED <<dirtyWork, inProgress>>

\* The second half of AddWithData and AddWithDataRateLimited.
AppendData(k, items) ==
  /\ IF k \in inProgress
       THEN /\ dirtyWork' = [dirtyWork EXCEPT ![k] = @ \cup items]
            /\ UNCHANGED work
       ELSE /\ work' = [work EXCEPT ![k] = @ \cup items]
            /\ UNCHANGED dirtyWork
  /\ UNCHANGED inProgress

-----------------------------------------------------------------------------
(* Handlers and timers.                                                    *)
AddWithData(t, i) ==
  /\ i \in unused
  /\ Goto(t, "idle", "adding")
  /\ Lock(t)
  /\ QueueAdd(KeyOf[i])
  /\ key' = [key EXCEPT ![t] = KeyOf[i]]
  /\ data' = [data EXCEPT ![t] = {i}]
  /\ unused' = unused \ {i}
  /\ UNCHANGED <<bucketVars, finished>>

AddWithDataEnd(t) ==
  /\ Goto(t, "adding", "idle")
  /\ AppendData(key[t], data[t])
  /\ Unlock(t)
  /\ key' = [key EXCEPT ![t] = NoKey]
  /\ data' = [data EXCEPT ![t] = {}]
  /\ UNCHANGED <<wqVars, unused, finished>>

-----------------------------------------------------------------------------
(* Workers.                                                                *)

\* GetWithData: the Get of the inner queue, without the lock.
Get(t, k) ==
  /\ Goto(t, "idle", "got")
  /\ QueueGet(k)
  /\ key' = [key EXCEPT ![t] = k]
  /\ UNCHANGED <<bucketVars, workLock, data, unused, finished>>

Quit(t) ==
  /\ QueueQuits
  /\ Goto(t, "idle", "stopped")
  /\ UNCHANGED <<wqVars, bucketVars, workLock, key, data, unused, finished>>

\* Faulty: the items taken stay in work.
GetKeepsWork(t) ==
  /\ Goto(t, "got", "busy")
  /\ workLock = Free
  /\ data' = [data EXCEPT ![t] = work[key[t]]]
  /\ dirtyWork' = [dirtyWork EXCEPT ![key[t]] = {}]
  /\ inProgress' = inProgress \cup {key[t]}
  /\ UNCHANGED <<wqVars, work, workLock, key, unused, finished>>

\* GetWithData: the rest of it, under the lock.
GetWithData(t) ==
  /\ Goto(t, "got", "busy")
  /\ workLock = Free
  /\ data' = [data EXCEPT ![t] = work[key[t]]]
  /\ work' = [work EXCEPT ![key[t]] = {}]
  /\ dirtyWork' = [dirtyWork EXCEPT ![key[t]] = {}]
  /\ inProgress' = inProgress \cup {key[t]}
  /\ UNCHANGED <<wqVars, workLock, key, unused, finished>>

\* The sync succeeds, or the quota is gone.
SyncSucceeds(t) ==
  /\ Goto(t, "busy", "done")
  /\ data' = [data EXCEPT ![t] = {}]
  /\ finished' = finished \cup data[t]
  /\ UNCHANGED <<wqVars, bucketVars, workLock, key, unused>>

\* The sync fails: AddWithDataRateLimited with the items to retry.
SyncFails(t) ==
  /\ Goto(t, "busy", "retrying")
  /\ Lock(t)
  /\ QueueAddRateLimited(key[t])
  /\ \E retry \in SUBSET data[t] :
       /\ data' = [data EXCEPT ![t] = retry]
       /\ finished' = finished \cup (data[t] \ retry)
  /\ UNCHANGED <<bucketVars, key, unused>>

AddRateLimitedEnd(t) ==
  /\ Goto(t, "retrying", "done")
  /\ AppendData(key[t], data[t])
  /\ Unlock(t)
  /\ data' = [data EXCEPT ![t] = {}]
  /\ UNCHANGED <<wqVars, key, unused, finished>>

\* Done: the inner queue may hand the key to another worker at once.
Done(t) ==
  /\ Goto(t, "done", "finishing")
  /\ Lock(t)
  /\ QueueDone(key[t])
  /\ UNCHANGED <<bucketVars, key, data, unused, finished>>

DoneEnd(t) ==
  /\ Goto(t, "finishing", "idle")
  /\ Unlock(t)
  /\ work' = [work EXCEPT ![key[t]] = dirtyWork[key[t]]]
  /\ dirtyWork' = [dirtyWork EXCEPT ![key[t]] = {}]
  /\ inProgress' = inProgress \ {key[t]}
  /\ key' = [key EXCEPT ![t] = NoKey]
  /\ UNCHANGED <<wqVars, data, unused, finished>>

DelayOver(k) ==
  /\ QueueDelayOver(k)
  /\ UNCHANGED <<bucketVars, workLock, pc, key, data, unused, finished>>

ShutDown ==
  /\ QueueShutDown
  /\ UNCHANGED <<bucketVars, workLock, pc, key, data, unused, finished>>

-----------------------------------------------------------------------------
Worker(t) ==
  \/ \E k \in Keys : Get(t, k)
  \/ Quit(t) \/ GetWithData(t) \/ SyncSucceeds(t) \/ SyncFails(t)
  \/ AddRateLimitedEnd(t) \/ Done(t) \/ DoneEnd(t)

Next ==
  \/ \E t \in Workers : Worker(t)
  \/ \E t \in Adders : \/ \E i \in Items : AddWithData(t, i)
                       \/ AddWithDataEnd(t)
  \/ \E k \in Keys : DelayOver(k)
  \/ ShutDown

Spec == Init /\ [][Next]_vars

\* The inner queue is first in, first out, and a mutex of Go lets no goroutine
\* wait for ever, hence strong fairness for Get and for the steps that lock.
Fairness ==
  /\ \A k \in Keys : /\ SF_vars(\E t \in Workers : Get(t, k))
                     /\ WF_vars(DelayOver(k))
  /\ \A t \in Workers :
       /\ SF_vars(GetWithData(t)) /\ SF_vars(Done(t))
       /\ SF_vars(SyncSucceeds(t) \/ SyncFails(t))
       /\ WF_vars(AddRateLimitedEnd(t)) /\ WF_vars(DoneEnd(t))
  /\ \A t \in Adders : WF_vars(AddWithDataEnd(t))

FairSpec == Spec /\ Fairness

-----------------------------------------------------------------------------
(* Properties.                                                             *)

Pending(k) == work[k] \cup dirtyWork[k]

\* The goroutines that have taken key k from the inner queue, and those whose
\* items GetWithData has given out.
Holds(t, k)  == key[t] = k /\ pc[t] \in {"got", "busy", "retrying", "done"}
Serves(t, k) == key[t] = k /\ pc[t] \in {"busy", "retrying", "done", "finishing"}
Locked(t)    == pc[t] \in {"adding", "retrying", "finishing"}

\* The comment on worker (reconciliation_controller.go:321) says that the sync
\* handler never runs concurrently for one key.
NeverConcurrent ==
  \A t, u \in Workers : \A k \in Keys :
    t # u => ~ (Holds(t, k) /\ Holds(u, k)) /\ ~ (Serves(t, k) /\ Serves(u, k))

\* No item is lost, duplicated or moved to another quota: the deletions of
\* GetWithData and the overwriting of work in Done never drop an item.
ItemsConserved ==
  /\ \A i \in Items :
       \/ i \in unused \/ i \in finished \/ i \in Pending(KeyOf[i])
       \/ \E t \in Threads : i \in data[t] /\ key[t] = KeyOf[i]
  /\ \A k \in Keys : \A i \in Pending(k) :
       KeyOf[i] = k /\ i \notin unused \cup finished
  /\ \A t \in Threads : \A i \in data[t] :
       KeyOf[i] = key[t] /\ i \notin unused \cup finished \cup Pending(key[t])
  /\ \A t, u \in Threads : t # u => data[t] \cap data[u] = {}
  /\ unused \cap finished = {}

\* The items of a key are in work, or, while a worker serves it, in dirtyWork:
\* never in both, where GetWithData or Done would delete half of them.
OneBucket ==
  \A k \in Keys : IF k \in inProgress THEN work[k] = {} ELSE dirtyWork[k] = {}

\* A key is going to be returned by Get, or a Get has returned it and the
\* worker is about to collect the items.
Scheduled(k) ==
  \/ k \in dirty \cup delayed
  \/ \E t \in Workers : key[t] = k /\ pc[t] = "got"

\* Until shutdown no item waits under a key the inner queue has forgotten.
NoStrandedWork ==
  ~ shuttingDown => \A k \in Keys : Scheduled(k) \/ Pending(k) = {}

\* The inner queue's sets and inProgress follow from where the workers are.
QueueCoherent ==
  /\ queue = dirty \ processing
  /\ \A k \in Keys : /\ (k \in processing <=> \E t \in Workers : Holds(t, k))
                     /\ (k \in inProgress <=> \E t \in Workers : Serves(t, k))

\* The lock is held exactly inside the bucket's methods, a goroutine has a key
\* and items exactly where the code has them in hand, and the key of a method
\* that is about to append is already known to the inner queue.
ThreadsCoherent ==
  \A t \in Threads :
       /\ (workLock = t <=> Locked(t))
       /\ pc[t] \in IF t \in Workers THEN WorkerSteps ELSE AdderSteps
       /\ (pc[t] \notin {"idle", "stopped"} <=> key[t] \in Keys)
       /\ (data[t] # {} => pc[t] \in {"adding", "busy", "retrying"})
       /\ (pc[t] \in {"adding", "retrying"} /\ ~ shuttingDown => Scheduled(key[t]))

\* The inductive invariant of the bucketing queue.
BucketInv ==
  /\ TypeOK
  /\ NeverConcurrent /\ ItemsConserved /\ OneBucket /\ NoStrandedWork
  /\ QueueCoherent /\ ThreadsCoherent

\* An item that waits, whether a handler added it or a worker gave it back, is
\* in the end handed to a worker, unless the queue is shut down.
EveryItemServed ==
  \A i \in Items :
    i \in Pending(KeyOf[i]) ~> \/ \E t \in Workers : i \in data[t] /\ pc[t] = "busy"
                               \/ shuttingDown

\* What a user of the bucketing queue sees: an item is added when AddWithData
\* returns, and a worker has a key from GetWithData to the return of Done.
Promise == INSTANCE BucketSpec WITH
  unused   <- unused \cup UNION {data[t] : t \in Adders},
  pending  <- [k \in Keys |-> Pending(k)],
  serving  <- [t \in Workers |-> IF pc[t] \in {"busy", "retrying", "done", "finishing"}
                                   THEN key[t] ELSE NoKey],
  batch    <- [t \in Workers |-> data[t]]

\* The bucketing queue implements its abstract specification: whatever the
\* interleaving of the inner queue's calls with the bucket's own bookkeeping,
\* a worker gets all the items of a key at once and has the key to itself.
KeepsPromise == Promise!Spec
=============================================================================
