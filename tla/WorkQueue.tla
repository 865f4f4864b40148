----------------------------- MODULE WorkQueue -----------------------------
(***************************************************************************)
(* The rate-limited work queue of client-go                                *)
(* (src/vendor/k8s.io/client-go/util/workqueue), as the calls the          *)
(* controllers make on it.  Each operator is one call, atomic under the    *)
(* queue's own lock.  The queue is a set: that it is first in, first out   *)
(* is a fairness assumption of the modules that use it.                    *)
(***************************************************************************)
EXTENDS FiniteSets

CONSTANT Keys

VARIABLES
  queue,         \* keys a Get can return
  dirty,         \* keys that need processing
  processing,    \* keys between Get and Done
  delayed,       \* keys waiting out a rate limit
  shuttingDown

wqVars == <<queue, dirty, processing, delayed, shuttingDown>>

WorkQueueTypeOK ==
  /\ queue \subseteq Keys /\ dirty \subseteq Keys /\ processing \subseteq Keys
  /\ delayed \subseteq Keys
  /\ shuttingDown \in BOOLEAN

WorkQueueInit ==
  /\ queue = {} /\ dirty = {} /\ processing = {} /\ delayed = {}
  /\ shuttingDown = FALSE

\* Faulty: a key that is being processed is queued at once.
AddedAtOnce(K) ==
  IF shuttingDown
    THEN UNCHANGED <<dirty, queue>>
    ELSE dirty' = dirty \cup K /\ queue' = queue \cup (K \ dirty)

\* Add: a key that is being processed is only marked dirty; Done queues it.
\* The next value of dirty and queue when the keys of K are added.
Added(K) ==
  IF shuttingDown
    THEN UNCHANGED <<dirty, queue>>
    ELSE /\ dirty' = dirty \cup K
         /\ queue' = queue \cup (K \ (dirty \cup processing))

QueueAdd(k) == Added({k}) /\ UNCHANGED <<processing, delayed, shuttingDown>>

\* Faulty: a key that is being processed is not added again.
NotWhileProcessing(k) ==
  /\ delayed' = IF k \in processing THEN delayed ELSE delayed \cup {k}
  /\ UNCHANGED <<queue, dirty, processing, shuttingDown>>

\* AddRateLimited: the key is added when its delay is over.
QueueAddRateLimited(k) ==
  /\ delayed' = IF shuttingDown THEN delayed ELSE delayed \cup {k}
  /\ UNCHANGED <<queue, dirty, processing, shuttingDown>>

QueueDelayOver(k) ==
  /\ k \in delayed
  /\ delayed' = delayed \ {k}
  /\ Added({k})
  /\ UNCHANGED <<processing, shuttingDown>>

\* Get, when it returns a key; it blocks on an empty queue.
QueueGet(k) ==
  /\ k \in queue
  /\ queue' = queue \ {k}
  /\ processing' = processing \cup {k}
  /\ dirty' = dirty \ {k}
  /\ UNCHANGED <<delayed, shuttingDown>>

\* Get, when it tells its caller to quit.
QueueQuits == queue = {} /\ shuttingDown

\* Faulty: a key that became dirty in the meantime is not queued.
DoneForgetsDirty(k) ==
  /\ processing' = processing \ {k}
  /\ UNCHANGED <<queue, dirty, delayed, shuttingDown>>

\* Done: a key that was added while it was processed is queued now.
QueueDone(k) ==
  /\ processing' = processing \ {k}
  /\ queue' = queue \cup ({k} \cap dirty)
  /\ UNCHANGED <<dirty, delayed, shuttingDown>>

\* ShutDown: keys still waiting out a delay are dropped.
QueueShutDown ==
  /\ shuttingDown' = TRUE
  /\ delayed' = {}
  /\ UNCHANGED <<queue, dirty, processing>>
=============================================================================
