------------------------------ MODULE StartUp ------------------------------
(***************************************************************************)
(* Starting the process around the cluster quota controller:               *)
(* RunClusterPolicyController initializes the controllers one by one, in   *)
(* whatever order, then starts the shared informers and closes             *)
(* InformersStarted (src/pkg/cmd/controller/interfaces.go).  The quota     *)
(* controller's goroutines run as soon as it is initialized: Run and its   *)
(* quota monitor, and Sync, which is MonitorSync here, with the calls to   *)
(* StartMonitors that wait for the channel taken apart.                    *)
(***************************************************************************)
EXTENDS MonitorSync

CONSTANTS
  Controllers,     \* the enabled controllers
  QuotaController  \* the one with the quota monitor

ASSUME ControllersAssumption == QuotaController \in Controllers

VARIABLES
  toInit,       \* the controllers that are not initialized
  main,         \* the main goroutine: "init", "close", "done"
  closed,       \* InformersStarted: how often it was closed
  live,         \* the informers that were started
  running,      \* quotaMonitor.running
  stopChs,      \* the monitors that were started, by having a stopCh
  runPc, syncPc, \* StartMonitors, called by Run and by Sync: "no", "call" before
                 \* it has monitorLock, "wait" for the channel, "done"
  monitorLock   \* which of the two holds it while waiting

start   == <<toInit, main, closed, live, running, stopChs, runPc, syncPc, monitorLock>>
allVars == <<vars, start>>

Initialized == QuotaController \notin toInit

StartTypeOK ==
  /\ toInit \subseteq Controllers
  /\ main \in {"init", "close", "done"}
  /\ closed \in Nat
  /\ live \subseteq informers /\ stopChs \subseteq monitors
  /\ running \in BOOLEAN
  /\ runPc \in {"no", "call", "wait", "done"} /\ syncPc \in {"no", "call", "wait"}
  /\ monitorLock \in {"none", "run", "sync"}

StartInit ==
  /\ Init
  /\ toInit = Controllers /\ main = "init"
  /\ closed = 0 /\ live = {}
  /\ running = FALSE /\ stopChs = {}
  /\ runPc = "no" /\ syncPc = "no" /\ monitorLock = "none"

-----------------------------------------------------------------------------
(* The main goroutine.                                                     *)
startController(c) ==
  /\ main = "init" /\ c \in toInit
  /\ toInit' = toInit \ {c}
  /\ UNCHANGED <<vars, main, closed, live, running, stopChs, runPc, syncPc, monitorLock>>

\* Under informersStartedLock.
CloseInformersStarted == closed' = IF closed = 0 THEN 1 ELSE closed

\* Faulty: the informers are started as soon as the quota controller is there.
StartFactoriesEarly ==
  /\ main = "init" /\ Initialized
  /\ main' = "close" /\ live' = informers
  /\ UNCHANGED <<vars, toInit, closed, running, stopChs, runPc, syncPc, monitorLock>>

\* StartInformers: every factory starts the informers it has by now ...
StartFactories ==
  /\ main = "init" /\ toInit = {}
  /\ main' = "close" /\ live' = informers
  /\ UNCHANGED <<vars, toInit, closed, running, stopChs, runPc, syncPc, monitorLock>>

\* ... and the channel is closed.
FinishStart ==
  /\ main = "close"
  /\ main' = "done" /\ CloseInformersStarted
  /\ UNCHANGED <<vars, toInit, live, running, stopChs, runPc, syncPc, monitorLock>>

-----------------------------------------------------------------------------
(* The quota monitor.  StartMonitors does nothing until Run has set        *)
(* running; then it waits for the channel, keeping monitorLock, and starts *)
(* the informers if there is a monitor that is not started.                *)
LockMonitors(caller, rest) ==
  /\ monitorLock = "none"
  /\ monitorLock' = caller
  /\ UNCHANGED <<vars, toInit, main, closed, live, running, stopChs, rest>>

StartMonitors(rest) ==
  /\ closed > 0
  /\ IF monitors = stopChs THEN UNCHANGED <<live, closed>>
                           ELSE live' = informers /\ CloseInformersStarted
  /\ stopChs' = monitors
  /\ monitorLock' = "none"
  /\ UNCHANGED <<vars, toInit, main, running, rest>>

\* Faulty: the monitors are left to Sync.
MonitorRunsOnly ==
  /\ Initialized /\ runPc = "no" /\ monitorLock = "none"
  /\ running' = TRUE /\ runPc' = "done"
  /\ UNCHANGED <<vars, toInit, main, closed, live, stopChs, syncPc, monitorLock>>

\* quotaMonitor.Run
MonitorRuns ==
  /\ Initialized /\ runPc = "no" /\ monitorLock = "none"
  /\ running' = TRUE /\ runPc' = "call"
  /\ UNCHANGED <<vars, toInit, main, closed, live, stopChs, syncPc, monitorLock>>

RunLocks  == runPc = "call" /\ runPc' = "wait" /\ LockMonitors("run", syncPc)
RunStarts == runPc = "wait" /\ runPc' = "done" /\ StartMonitors(syncPc)

\* resyncMonitors: the monitors are set, then started.
SyncMonitors ==
  /\ monitorLock = "none" /\ ResyncMonitors
  /\ syncPc' = "call" /\ stopChs' = stopChs \cap monitors'
  /\ UNCHANGED <<toInit, main, closed, live, running, runPc, monitorLock>>

SyncLocks  == syncPc = "call" /\ running /\ syncPc' = "wait" /\ LockMonitors("sync", runPc)
SyncStarts == syncPc = "wait" /\ syncPc' = "no" /\ StartMonitors(runPc)
SyncSkips ==
  /\ syncPc = "call" /\ ~ running /\ monitorLock = "none"
  /\ syncPc' = "no"
  /\ UNCHANGED <<vars, toInit, main, closed, live, running, stopChs, runPc, monitorLock>>

-----------------------------------------------------------------------------
(* The steps of MonitorSync: none of the controller before it is           *)
(* initialized, no look at the monitors while their lock is held, and no   *)
(* informer syncs before it is started.                                    *)
LoopProceeds ==
  /\ Initialized /\ syncPc = "no"
  /\ Discover \/ LockWorkers
  /\ UNCHANGED start

DiscoveryFaults ==
  /\ Initialized /\ syncPc = "no"
  /\ DiscoverPartly \/ DiscoverNothing
  /\ UNCHANGED start

LooksAtCaches ==
  /\ Initialized /\ syncPc = "no" /\ monitorLock = "none"
  /\ CachesSynced \/ CachesTimedOut
  /\ UNCHANGED start

WorkersStart == Initialized /\ monitorLock = "none" /\ StartWorkers /\ UNCHANGED start

WorkerMoves(w) == (EnterWorker(w) \/ LeaveWorker(w)) /\ UNCHANGED start

LiveSyncs(r) == r \in live /\ InformerSyncs(r) /\ UNCHANGED start

\* What was served before the controller asked does not matter.
ServerChangesLater == Initialized /\ ServerChanges /\ UNCHANGED start

StartNext ==
  \/ \E c \in Controllers : startController(c)
  \/ StartFactories \/ FinishStart
  \/ MonitorRuns \/ RunLocks \/ RunStarts
  \/ SyncMonitors \/ SyncLocks \/ SyncStarts \/ SyncSkips
  \/ LoopProceeds \/ DiscoveryFaults \/ LooksAtCaches \/ WorkersStart
  \/ \E w \in Workers : WorkerMoves(w)
  \/ \E r \in Resources : LiveSyncs(r)
  \/ ServerChangesLater

StartSpec == StartInit /\ [][StartNext]_allVars

\* Every goroutine keeps going unless it waits for a lock or the channel; as in
\* MonitorSync, workers leave and the informers of what is served sync.
StartFairness ==
  /\ WF_allVars((\E c \in Controllers : startController(c)) \/ StartFactories \/ FinishStart)
  /\ WF_allVars(MonitorRuns \/ RunLocks \/ RunStarts)
  /\ WF_allVars(SyncMonitors \/ SyncLocks \/ SyncStarts \/ SyncSkips)
  /\ WF_allVars(LoopProceeds)
  /\ WF_allVars(LooksAtCaches) /\ WF_allVars(WorkersStart)
  /\ \A w \in Workers : WF_allVars(LeaveWorker(w) /\ UNCHANGED start)
  /\ \A r \in Resources : WF_allVars(LiveSyncs(r))

StartFairSpec == StartSpec /\ StartFairness

-----------------------------------------------------------------------------
(* Properties.                                                             *)

\* The comment on InformersStarted: it is closed after all of the controllers
\* have been initialized, and before that no controller starts the informers.
\* It is closed once: a second time would panic.
InformersAfterInit ==
  /\ toInit # {} => live = {} /\ closed = 0
  /\ closed <= 1

\* What makes it inductive: who waits with monitorLock, and how far main is.
StartInv ==
  /\ StartTypeOK
  /\ InformersAfterInit
  /\ IF main = "init" THEN live = {} ELSE toInit = {}
  /\ closed > 0 <=> main = "done"
  /\ monitorLock = "run" <=> runPc = "wait"
  /\ monitorLock = "sync" <=> syncPc = "wait"

\* No monitor waits for ever on an informer that nobody starts, although Sync may
\* create informers after main has started the others and before StartMonitors
\* does anything.
MonitorsStarted == <>[](monitors \subseteq live)
=============================================================================
