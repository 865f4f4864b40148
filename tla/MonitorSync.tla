---------------------------- MODULE MonitorSync ----------------------------
(***************************************************************************)
(* How the cluster quota reconciliation controller follows API discovery   *)
(* (Sync in src/pkg/quota/clusterquotareconciliation/                      *)
(* reconciliation_controller.go): a loop compares the resources the server *)
(* offers with those it last saw and restarts the quota monitors, while    *)
(* workerLock keeps the workers out.                                       *)
(***************************************************************************)
EXTENDS Naturals, FiniteSets

CONSTANTS
  Resources,     \* resources that quota can count
  Ignored,       \* the ones it is told not to
  Workers,
  MaxChanges     \* bound on changes of what is served and discovery faults

ASSUME MonitorAssumption == MaxChanges \in Nat

\* The server always serves some resource that is not ignored.
Offers == {S \in SUBSET Resources : ~ S \subseteq Ignored}

VARIABLES
  served,        \* what the API server offers
  monitors,      \* the resources that are monitored
  informers,     \* the resources that have a shared informer, once and for all
  synced,        \* the ones whose informer has synced
  started,       \* Run has seen the caches synced and started the workers
  reading,       \* the workers that hold workerLock for reading
  pc,            \* Sync: waiting for the next period, for workerLock, resyncing
                 \* the monitors, waiting for their caches
  oldResources, newResources,
  partial,       \* discovery failed for some groups
  timedOut,      \* history: a wait for the caches has timed out
  budget

loop == <<pc, oldResources, newResources, partial>>
vars == <<served, monitors, informers, synced, started, reading, loop, timedOut, budget>>

TypeOK ==
  /\ served \in Offers
  /\ monitors \subseteq informers /\ synced \subseteq informers
  /\ informers \subseteq Resources \ Ignored
  /\ started \in BOOLEAN
  /\ reading \subseteq Workers
  /\ pc \in {"wait", "lock", "resync", "caches"}
  /\ oldResources \subseteq Resources /\ newResources \subseteq Resources
  /\ partial \in BOOLEAN /\ timedOut \in BOOLEAN
  /\ budget \in 0 .. MaxChanges

\* The constructor has set up monitors for what discovery returned, which may
\* lack groups that failed; Sync knows nothing of them.
Init ==
  /\ served \in Offers
  /\ monitors \in SUBSET (served \ Ignored)
  /\ informers = monitors
  /\ synced = {}
  /\ started = FALSE
  /\ reading = {}
  /\ pc = "wait"
  /\ oldResources = {} /\ newResources = {}
  /\ partial = FALSE
  /\ timedOut = FALSE
  /\ budget = MaxChanges

Disturb == budget > 0 /\ budget' = budget - 1

\* quotaMonitor.IsSynced
IsSynced == monitors # {} /\ monitors \subseteq synced

\* Faulty: an empty list is taken for a change.
AnyChange(res) == res # oldResources

\* An empty list of resources is never acted on.
Changed(res) == res # {} /\ res # oldResources

\* Faulty: Sync remembers the list before it has resynced.
RememberedEarly(res, groupsFailed) ==
  /\ pc = "wait"
  /\ IF Changed(res)
       THEN pc' = "lock" /\ newResources' = res /\ oldResources' = res /\ partial' = groupsFailed
       ELSE UNCHANGED loop
  /\ UNCHANGED <<served, monitors, informers, synced, started, reading, timedOut>>

\* Sync has the list res from discovery.
Discovered(res, groupsFailed) ==
  /\ pc = "wait"
  /\ IF Changed(res)
       THEN pc' = "lock" /\ newResources' = res /\ partial' = groupsFailed
       ELSE UNCHANGED <<pc, newResources, partial>>
  /\ UNCHANGED <<served, monitors, informers, synced, started, reading, oldResources, timedOut>>

Discover == Discovered(served, FALSE) /\ UNCHANGED budget

\* Faulty: what Sync saw before is dropped.
DiscoverPartlyAnew ==
  Disturb /\ \E res \in SUBSET served \ {{}} : Discovered(res, TRUE)

\* Some groups fail: what Sync saw before is kept.
DiscoverPartly ==
  Disturb /\ \E res \in SUBSET served \ {{}} : Discovered(res \cup oldResources, TRUE)

\* The server answers with an empty list and no error.
DiscoverNothing == Disturb /\ Discovered({}, FALSE)

\* workerLock.Lock: the workers in it leave, and none enters meanwhile.
LockWorkers ==
  /\ pc = "lock"
  /\ reading = {}
  /\ pc' = "resync"
  /\ UNCHANGED <<served, monitors, informers, synced, started, reading, oldResources, newResources,
                 partial, timedOut, budget>>

\* A monitor for every resource but the ignored ones.  Informers are shared and
\* outlive the monitor.  The factory has one for every resource, the one for
\* metadata if no other, so that this does not fail.
ResyncMonitors ==
  /\ pc = "resync"
  /\ monitors' = newResources \ Ignored
  /\ informers' = informers \cup monitors'
  /\ pc' = "caches"
  /\ UNCHANGED <<served, synced, started, reading, oldResources, newResources, partial,
                 timedOut, budget>>

Resynced ==
  /\ pc = "caches"
  /\ oldResources' = newResources
  /\ pc' = "wait"
  /\ UNCHANGED <<served, monitors, informers, synced, started, reading, newResources, partial, budget>>

\* Faulty: the wait for the caches ends only when they are synced.
WaitForever ==
  \/ Resynced /\ IsSynced /\ UNCHANGED timedOut
  \/ pc = "caches" /\ ~ IsSynced /\ UNCHANGED vars

\* The wait for the caches ends when they are synced, or after one period.
CachesSynced   == Resynced /\ IsSynced /\ UNCHANGED timedOut
CachesTimedOut == Resynced /\ ~ IsSynced /\ timedOut' = TRUE

-----------------------------------------------------------------------------
(* Run and its workers.                                                    *)
StartWorkers ==
  /\ ~ started
  /\ IsSynced
  /\ started' = TRUE
  /\ UNCHANGED <<served, monitors, informers, synced, reading, loop, timedOut, budget>>

\* Faulty: the worker does not take workerLock.
EnterUnlocked(w) ==
  /\ started
  /\ w \notin reading
  /\ reading' = reading \cup {w}
  /\ UNCHANGED <<served, monitors, informers, synced, started, loop, timedOut, budget>>

\* workerLock.RLock waits for a writer that has the lock or waits for it.
EnterWorker(w) ==
  /\ started
  /\ w \notin reading
  /\ pc = "wait"
  /\ reading' = reading \cup {w}
  /\ UNCHANGED <<served, monitors, informers, synced, started, loop, timedOut, budget>>

LeaveWorker(w) ==
  /\ w \in reading
  /\ reading' = reading \ {w}
  /\ UNCHANGED <<served, monitors, informers, synced, started, loop, timedOut, budget>>

-----------------------------------------------------------------------------
(* The server: informers of what it serves sync, and what it serves may    *)
(* change.                                                                 *)
InformerSyncs(r) ==
  /\ r \in (informers \cap served) \ synced
  /\ synced' = synced \cup {r}
  /\ UNCHANGED <<served, monitors, informers, started, reading, loop, timedOut, budget>>

ServerChanges ==
  /\ Disturb
  /\ served' \in Offers
  /\ UNCHANGED <<monitors, informers, synced, started, reading, loop, timedOut>>

Next ==
  \/ Discover \/ DiscoverPartly \/ DiscoverNothing
  \/ LockWorkers \/ ResyncMonitors \/ CachesSynced \/ CachesTimedOut
  \/ StartWorkers
  \/ \E w \in Workers : EnterWorker(w) \/ LeaveWorker(w)
  \/ \E r \in Resources : InformerSyncs(r)
  \/ ServerChanges

Spec == Init /\ [][Next]_vars

\* The loop and the workers keep going, and the informers of served resources
\* sync.  The lock needs no strong fairness: no worker enters while it waits.
Fairness ==
  /\ WF_vars(Discover) /\ WF_vars(LockWorkers) /\ WF_vars(ResyncMonitors)
  /\ WF_vars(CachesSynced \/ CachesTimedOut)
  /\ WF_vars(StartWorkers)
  /\ \A w \in Workers : WF_vars(LeaveWorker(w))
  /\ \A r \in Resources : WF_vars(InformerSyncs(r))

FairSpec == Spec /\ Fairness

-----------------------------------------------------------------------------
(* Properties.                                                             *)

\* workerLock keeps workers out while monitors are not synced: a worker processes
\* a quota then only if a wait for the caches in Sync timed out.
ProcessesOnlySyncedInTime == reading # {} => IsSynced \/ timedOut

\* What Sync remembers is what is monitored, once it has resynced: a list that
\* it skips as unchanged is indeed monitored.
RemembersMonitors ==
  oldResources # {} /\ pc # "caches" => monitors = oldResources \ Ignored

\* The inductive invariant: resyncing excludes the workers, and until they
\* start, or after a timeout, nothing is said about the caches.
MonitorInv ==
  /\ TypeOK
  /\ ProcessesOnlySyncedInTime /\ RemembersMonitors
  /\ pc # "wait" => newResources # {}
  /\ pc \in {"lock", "resync"} /\ partial => oldResources \subseteq newResources
  /\ pc = "caches" => monitors = newResources \ Ignored
  /\ pc \in {"resync", "caches"} => reading = {}
  /\ started /\ pc # "caches" => IsSynced \/ timedOut

\* Whatever discovery answers, the monitors are never all removed unless every
\* resource it lists is ignored: with no monitor the caches would never sync.
Emptied == monitors # {} /\ monitors' = {}
NeverEmptied == [][Emptied => newResources # {} /\ newResources \subseteq Ignored]_vars

\* A comment in Sync: in partial discovery cases, don't remove any existing
\* informers, just add new ones.
PartialOnlyAdds == [][partial => monitors \subseteq monitors']_vars

\* From its second resync on, Sync removes no monitor when discovery failed for
\* some groups.
KeepsWhenPartial ==
  partial /\ oldResources # {} => monitors \subseteq monitors'
PartialOnlyAddsLater == [][KeepsWhenPartial]_vars

\* Once the server's resources stop changing, they are what is monitored, in
\* spite of partial answers and timeouts on the way.
MonitorsConverge == <>[](monitors = served \ Ignored)

\* The workers are not kept out for ever.
WorkersRun == []<>(started /\ pc = "wait")
=============================================================================
