---------------------------- MODULE StartUpProofs ----------------------------
(***************************************************************************)
(* Proofs about MonitorSync, for every set of resources and of workers,    *)
(* and about StartUp, for every set of controllers too.                    *)
(***************************************************************************)
EXTENDS StartUp, TLAPS

\* The invariant holds when the constructor has set up the monitors.
LEMMA InvInit == Init => MonitorInv
<1> SUFFICES ASSUME Init PROVE MonitorInv
  OBVIOUS
<1>1. TypeOK
  <2>1. informers \subseteq Resources \ Ignored
    BY DEF Init, Offers
  <2>2. budget \in 0 .. MaxChanges
    BY MonitorAssumption DEF Init
  <2> QED
    BY <2>1, <2>2, Zenon DEF Init, TypeOK
<1> QED
  BY <1>1 DEF Init, MonitorInv, ProcessesOnlySyncedInTime, RemembersMonitors

\* Every step of Sync, of Run, of the workers and of the server preserves it.
LEMMA InvNext == MonitorInv /\ [Next]_vars => MonitorInv'
<1> SUFFICES ASSUME MonitorInv, [Next]_vars PROVE MonitorInv'
  OBVIOUS
<1> USE MonitorAssumption DEF MonitorInv, TypeOK, ProcessesOnlySyncedInTime,
        RemembersMonitors, IsSynced, loop
<1>1. CASE Discover
  BY <1>1, Zenon DEF Discover, Discovered, Changed, Offers
<1>2. CASE DiscoverPartly
  <2>1. PICK res \in SUBSET served : Discovered(res \cup oldResources, TRUE)
    BY <1>2, Zenon DEF DiscoverPartly
  <2>2. res \cup oldResources \subseteq Resources /\ budget' \in 0 .. MaxChanges
    BY <1>2 DEF DiscoverPartly, Disturb, Offers
  <2> QED
    BY <2>1, <2>2, Zenon DEF Discovered, Changed
<1>3. CASE DiscoverNothing
  BY <1>3 DEF DiscoverNothing, Disturb, Discovered, Changed
<1>4. CASE LockWorkers
  BY <1>4 DEF LockWorkers
<1>5. CASE ResyncMonitors
  BY <1>5 DEF ResyncMonitors
<1>6. CASE CachesSynced
  BY <1>6 DEF CachesSynced, Resynced
<1>7. CASE CachesTimedOut
  BY <1>7 DEF CachesTimedOut, Resynced
<1>8. CASE StartWorkers
  BY <1>8 DEF StartWorkers
<1>9. ASSUME NEW w \in Workers, EnterWorker(w) PROVE MonitorInv'
  BY <1>9 DEF EnterWorker
<1>10. ASSUME NEW w \in Workers, LeaveWorker(w) PROVE MonitorInv'
  BY <1>10 DEF LeaveWorker
<1>11. ASSUME NEW r \in Resources, InformerSyncs(r) PROVE MonitorInv'
  BY <1>11 DEF InformerSyncs
<1>12. CASE ServerChanges
  BY <1>12 DEF ServerChanges, Disturb
<1>13. CASE UNCHANGED vars
  BY <1>13 DEF vars
<1> QED
  BY <1>1, <1>2, <1>3, <1>4, <1>5, <1>6, <1>7, <1>8, <1>9, <1>10, <1>11, <1>12, <1>13, Zenon
     DEF Next

\* A list that Sync skips as unchanged is monitored, and resyncing excludes the
\* workers.
THEOREM Correctness == Spec => []MonitorInv
BY InvInit, InvNext, PTL DEF Spec

\* Workers process quotas with monitors that are not synced only after a wait
\* of Sync for the caches has timed out.
THEOREM SyncedInTime == Spec => []ProcessesOnlySyncedInTime
<1>1. MonitorInv => ProcessesOnlySyncedInTime
  BY DEF MonitorInv
<1> QED
  BY <1>1, Correctness, PTL

\* Only ResyncMonitors changes the monitors.
LEMMA OnlyResync == ASSUME [Next]_vars, ~ ResyncMonitors PROVE monitors' = monitors
BY Zenon DEF Next, vars, loop, Discover, DiscoverPartly, DiscoverNothing, Discovered, LockWorkers,
   CachesSynced, CachesTimedOut, Resynced, StartWorkers, EnterWorker, LeaveWorker,
   InformerSyncs, ServerChanges

\* An empty or failed discovery does not remove the monitors.
THEOREM NotEmptied == Spec => NeverEmptied
<1>1. MonitorInv /\ [Next]_vars
        => [Emptied => newResources # {} /\ newResources \subseteq Ignored]_vars
  <2> SUFFICES ASSUME MonitorInv, [Next]_vars, Emptied
               PROVE newResources # {} /\ newResources \subseteq Ignored
    OBVIOUS
  <2>1. ResyncMonitors
    BY OnlyResync DEF Emptied
  <2> QED
    BY <2>1 DEF ResyncMonitors, MonitorInv, Emptied
<1> QED
  BY <1>1, Correctness, PTL DEF Spec, NeverEmptied

\* A partial discovery removes no monitor, from the second resync on.
THEOREM PartialKeeps == Spec => PartialOnlyAddsLater
<1>1. MonitorInv /\ [Next]_vars => [KeepsWhenPartial]_vars
  <2> SUFFICES ASSUME MonitorInv, [Next]_vars, partial, oldResources # {}
               PROVE monitors \subseteq monitors'
    BY DEF KeepsWhenPartial
  <2>1. CASE ResyncMonitors
    BY <2>1 DEF ResyncMonitors, MonitorInv, RemembersMonitors
  <2> QED
    BY <2>1, OnlyResync
<1> QED
  BY <1>1, Correctness, PTL DEF Spec, PartialOnlyAddsLater

-----------------------------------------------------------------------------
(* The start of the process.                                               *)

\* Every step of the process is a step of MonitorSync, or none that it sees.
LEMMA StartStep == StartNext => [Next]_vars
<1> SUFFICES ASSUME StartNext PROVE [Next]_vars
  OBVIOUS
<1>1. ASSUME NEW c \in Controllers, startController(c) PROVE UNCHANGED vars
  BY <1>1 DEF startController
<1>2. CASE StartFactories \/ FinishStart \/ MonitorRuns \/ RunLocks \/ RunStarts
             \/ SyncLocks \/ SyncStarts \/ SyncSkips
  BY <1>2 DEF StartFactories, FinishStart, MonitorRuns, RunLocks, RunStarts, SyncLocks,
              SyncStarts, SyncSkips, LockMonitors, StartMonitors
<1>3. CASE SyncMonitors
  BY <1>3 DEF SyncMonitors, Next
<1>4. CASE LoopProceeds \/ DiscoveryFaults \/ LooksAtCaches \/ WorkersStart \/ ServerChangesLater
  BY <1>4 DEF LoopProceeds, DiscoveryFaults, LooksAtCaches, WorkersStart, ServerChangesLater, Next
<1>5. ASSUME NEW w \in Workers, WorkerMoves(w) PROVE Next
  BY <1>5 DEF WorkerMoves, Next
<1>6. ASSUME NEW r \in Resources, LiveSyncs(r) PROVE Next
  BY <1>6 DEF LiveSyncs, Next
<1> QED
  BY <1>1, <1>2, <1>3, <1>4, <1>5, <1>6 DEF StartNext

\* The process as it starts implements MonitorSync, where everything has been
\* started: what is proved of Sync and its workers holds of it.
THEOREM StartImplementsSync == StartSpec => Spec
<1>1. StartInit => Init
  BY DEF StartInit
<1>2. [StartNext]_allVars => [Next]_vars
  BY StartStep DEF allVars
<1> QED
  BY <1>1, <1>2, PTL DEF StartSpec, Spec

\* So it does: the workers' monitors are synced in time, no failed discovery
\* removes the monitors, and from the second resync on no partial one removes any.
THEOREM StartKeepsPromises ==
  StartSpec => []ProcessesOnlySyncedInTime /\ NeverEmptied /\ PartialOnlyAddsLater
BY StartImplementsSync, SyncedInTime, NotEmptied, PartialKeeps, PTL

\* The invariant of the start holds initially.
LEMMA StartInvInit == StartInit => StartInv
<1> SUFFICES ASSUME StartInit PROVE StartInv
  OBVIOUS
<1>1. StartTypeOK
  BY Zenon DEF StartInit, StartTypeOK
<1>2. InformersAfterInit
  BY DEF StartInit, InformersAfterInit
<1> QED
  BY <1>1, <1>2 DEF StartInit, StartInv

\* Every step preserves it, if the monitors have informers.
LEMMA StartInvNext == StartInv /\ MonitorInv /\ [StartNext]_allVars => StartInv'
<1> SUFFICES ASSUME StartInv, MonitorInv, [StartNext]_allVars PROVE StartInv'
  OBVIOUS
<1> USE DEF StartInv, StartTypeOK, InformersAfterInit
<1>m. monitors \subseteq informers
  BY DEF MonitorInv, TypeOK
<1>1. ASSUME NEW c \in Controllers, startController(c) PROVE StartInv'
  BY <1>1 DEF startController, vars
<1>2. CASE StartFactories
  BY <1>2 DEF StartFactories, vars
<1>3. CASE FinishStart
  BY <1>3 DEF FinishStart, CloseInformersStarted, vars
<1>4. CASE MonitorRuns
  BY <1>4 DEF MonitorRuns, vars
<1>5. CASE RunLocks
  BY <1>5 DEF RunLocks, LockMonitors, vars
<1>6. CASE RunStarts
  BY <1>6, <1>m DEF RunStarts, StartMonitors, CloseInformersStarted, vars
<1>7. CASE SyncMonitors
  BY <1>7 DEF SyncMonitors, ResyncMonitors, MonitorInv
<1>8. CASE SyncLocks
  BY <1>8 DEF SyncLocks, LockMonitors, vars
<1>9. CASE SyncStarts
  BY <1>9, <1>m DEF SyncStarts, StartMonitors, CloseInformersStarted, vars
<1>10. CASE SyncSkips
  BY <1>10 DEF SyncSkips, vars
<1>11. CASE LoopProceeds
  BY <1>11 DEF LoopProceeds, Discover, Discovered, LockWorkers, start
<1>12. CASE DiscoveryFaults
  BY <1>12, Zenon DEF DiscoveryFaults, DiscoverPartly, DiscoverNothing, Discovered, start
<1>13. CASE LooksAtCaches
  BY <1>13 DEF LooksAtCaches, CachesSynced, CachesTimedOut, Resynced, start
<1>14. CASE WorkersStart
  BY <1>14 DEF WorkersStart, StartWorkers, start
<1>15. ASSUME NEW w \in Workers, WorkerMoves(w) PROVE StartInv'
  BY <1>15 DEF WorkerMoves, EnterWorker, LeaveWorker, start
<1>16. ASSUME NEW r \in Resources, LiveSyncs(r) PROVE StartInv'
  BY <1>16 DEF LiveSyncs, InformerSyncs, start
<1>17. CASE ServerChangesLater
  BY <1>17 DEF ServerChangesLater, ServerChanges, start
<1>18. CASE UNCHANGED allVars
  BY <1>18 DEF allVars, vars, start
<1> QED
  BY <1>1, <1>2, <1>3, <1>4, <1>5, <1>6, <1>7, <1>8, <1>9, <1>10, <1>11, <1>12, <1>13, <1>14,
     <1>15, <1>16, <1>17, <1>18, Zenon DEF StartNext

\* No informer is started before every controller is initialized, and the channel
\* is closed once, in whatever order goroutines and controllers start.
THEOREM StartsInOrder == StartSpec => []InformersAfterInit
<1>1. StartSpec => []MonitorInv
  BY StartImplementsSync, InvInit, InvNext, PTL DEF Spec
<1>2. StartInv => InformersAfterInit
  BY DEF StartInv
<1> QED
  BY <1>1, <1>2, StartInvInit, StartInvNext, PTL DEF StartSpec
=============================================================================
