# TLA+ specifications of the cluster policy controller

The cluster policy controller (`src/`) runs several Kubernetes controllers in
one process.  They share informers (caches fed by watches) and otherwise meet
only in the API server's objects.  This directory models them in TLA+, checks
the models with TLC and proves part of the results with TLAPS.

## The system

| Part | Source | Module |
|---|---|---|
| Namespace SCC allocation: a UID block and an MCS label for every namespace, the blocks in use kept as a bitmap in a RangeAllocation | `pkg/security/controller` | `SCCAllocation` |
| In-memory allocator of UID blocks, and MCS labels: what the allocation is computed with | `pkg/security/uidallocator`, `pkg/security/mcs` | `UIDAllocator`, `MCSLabels`, `SecurityRanges` |
| Bucketing work queue: items are collected per key and handed out together | `pkg/quota/clusterquotareconciliation/workqueuebucket.go` | `WorkQueue`, `BucketQueue`, `BucketSpec` |
| Cluster quota reconciliation: usage per namespace and in total in the status of a ClusterResourceQuota | `pkg/quota/clusterquotareconciliation/reconciliation_controller.go` | `ClusterQuota` |
| Quota monitors: following API discovery, keeping workers out meanwhile | the same file, `Sync` and `Run` | `MonitorSync` |
| Start-up: controllers are initialized, then informers started | `pkg/cmd/cluster-policy-controller`, `pkg/cmd/controller`, `pkg/client/genericinformers` | `StartUp` (with `MonitorSync`) |
| Cache from roles to the SCCs they allow | `pkg/psalabelsyncer/sccrolecache.go` | `SCCRoleCache` |
| Conversion of an SCC to a pod security level | `pkg/psalabelsyncer/scctopsamapping.go` | `SCCConversion` |
| Pod security label synchronization | `pkg/psalabelsyncer/podsecurity_label_sync_controller.go` | `PSALabelSync` |
| Controller of the privileged namespaces | `pkg/psalabelsyncer/privileged_namespaces_controller.go` | `PrivilegedNamespaces` (with `PSALabelSync`) |

How they meet: the reconciliation controller's workers take their keys from the
bucketing queue and hold `workerLock`, which the discovery loop takes to resync
the monitors; `ClusterQuota` uses of the queue what `BucketQueue` shows.  The
label synchronization waits for the UID range that the allocation controller
writes, reads the role cache for the SCCs whose level it sets, and is queued by
it.  The controller of the privileged namespaces writes the same labels of other
namespaces under another field manager.  All of them are initialized one after
the other before any informer starts.

For each module `Foo`, `MCFoo` instantiates it for TLC,
`Foo*.cfg` are the runs, and `FooProofs` has the theorems (`StartUpProofs` those
on `MonitorSync` too, `PSALabelSyncProofs` those on `PrivilegedNamespaces`,
`SecurityRangesProofs` those on what it is built from).  Definitions marked
*Faulty* are mutated forms of the definition that follows them: each property
of a passing run is violated once its mutant is put in.

## Modelling conventions

* A step is what a goroutine does up to and including one call or one critical
  section; everybody else may act between two steps.
* A resource version is abstracted to what it is compared for: whether a copy
  is still the object the server stores.  A write that changes nothing keeps it.
* An informer's cache lags behind the server: `versions` (the state the lister
  shows, followed by those still to be delivered) or `cached`/`cachedCurrent`.
* Users, faults and crashes draw on a budget (`MaxDisturbances`, `MaxChanges`),
  so that "once they stop" is a matter of every behaviour.  Each fault has two
  forms where the code can meet both: the call had no effect, or it had and its
  answer was lost.
* History variables (`assigned`, `wiped`, `timedOut`, `raced`, `missed`,
  `unnoticed`, `edited`) record what a property needs and are read by no action.

## The modules

### SCCAllocation

One worker takes keys from the queue: the initial repair, the periodic repair
and namespaces.  `SyncNamespace`, `GetRange`, `RangeUnusable`, `ReserveBlock`
and `ApplyNamespace` are `syncNamespace` and `allocate`, cut at their calls;
`RepairGet`, `RepairList` and `RepairWrite` are `Repair`, and `RepairFails` its
error returns: the initial repair is polled again until it times out, which ends
the process, and the periodic one is queued again.  `cur` is the cached
RangeAllocation, which a failed allocation clears (`AllocateFails`).

* `scc_allocation` (2 namespaces, 2 blocks, 1 disturbance): `SafetyInv`,
  `DistinctUnlessWiped`, `AnnotationsKept`, `EventuallyAnnotated`,
  `BitmapConverges`.  Two namespaces are what sharing a block takes, and two
  blocks make the range run full.  One disturbance is a user's write, a lost
  answer or a crash at any point; watch lag, resyncs and repairs cost none.
  The theorems cover the three safety properties for any number of them.
  Fairness: the informer delivers, the worker goes on, the schedule of the
  repair fires, and a key that is queued again and again is taken in the end,
  because the queue is first in, first out.  Foreign supplemental groups are
  left out of the run: with them the apply conflicts for ever.  The two liveness
  properties except annotations that Repair cannot take (`RepairBlocked`): a
  block that wraps around 2^32 (`Refused`) makes every repair fail for as long
  as a user leaves it there.  Then the bitmap is not repaired, and a process
  that starts dies at its initial repair again and again and annotates nothing;
  one that is past it goes on annotating while blocks are free.
* `scc_stale_repair` is violated: a repair that lists namespaces from a cache
  behind the server clears the bit of a block in use, and the next namespace
  gets the same block.

The labels are a constant function of the block here.  One process at a time is
modelled, also across restarts.

### UIDAllocator, MCSLabels, SecurityRanges

`UIDAllocator` has the allocator's operations over UID ranges and a bitmap
(library code, external).  UIDs are unsigned and wrap around at `MaxUint`.
`MCSLabels` has the pure functions of labels: `binomial`, the co-lexicographic
rank and unrank of categories, ranges and their tests.  `SecurityRanges` lets
Repair's loop and other clients of the allocator act, with restarts that may
change the range, and labels blocks by `DefaultMCSAllocation`.

* `security_ranges` (3 namespaces, UIDs below 32, 6 categories): `DisjointUIDs`,
  `FreeIsExact`, `RepairExact`, `DistinctLabels`, `LabelsRanked`.  One UID range
  leaves a UID over after its last block, one has blocks of another size, and
  one is all the UIDs, whose number wraps to 0, so that it has no blocks at
  all; users write blocks that are misaligned, too short, of the other range,
  past the last block, or wrap around. The MCS settings take one to three
  categories and up to five labels per project, and one of them has fewer labels
  than blocks.  `Before` is the reference definition of the order of labels.

What the run shows beside this: `Allocate` documents `ErrFull` but never returns
it; a block that wraps around 2^32 is answered with the bitmap's own error, over
which Repair gives up, as it does over a range of all UIDs (`RepairExact` says
that it gives up over nothing else);
labels are distinct only where the MCS range has enough of them
(`EnoughLabels`), and a range over fewer categories than all does not contain
the labels it gives, since `LabelAt` passes `maxCategories` on, whatever the
range's `n`.  The code compares nothing of this.  For the categories it is not
what the comments on `NewRange` and `ParseRange` say (`mcs/label.go:147-149`,
`165-168`): there `n` is the highest category to use.  That a range contains its labels
`LabelsRanked` says of ranges of all categories only.  Ranges with a negative
number of labels or categories, which `ParseRange` accepts as huge unsigned
ones, are not modelled.

### WorkQueue, BucketQueue, BucketSpec

`WorkQueue` is client-go's rate limited queue as far as the bucketing queue
uses it (external to the repository).  `BucketQueue` adds `work`, `dirtyWork`,
`inProgress` and `workLock`; operations are split at the inner queue's calls,
since a worker's `Get` does not hold `workLock`.  `BucketSpec` is the promise:
pending items per key, one worker per key, items finished or given back.

* `bucket_queue` (2 keys, 3 items, 2 workers, 2 adders): the invariants,
  `KeepsPromise` (refinement of `BucketSpec`) and `EveryItemServed`.  Two items
  of one key make them meet in a bucket, two workers make the key move between
  them.  Fairness: threads go on and delays end; `Get` takes keys first in,
  first out; a lock that keeps being free is obtained.

Deadlock is not checked: when the queue is shut down or all items are served
nothing is left to do.

### ClusterQuota

One quota.  `Take`, `GetNamespacesFor`, `SyncItem` and `UpdateStatus` are the
worker and `syncQuotaForNamespaces`; `CalculateAll`, `EnqueueClusterQuota` and
`ReplenishQuota` what queues items.  The mapper of library-go is environment: it
follows the lister's selector one namespace at a time and reports each change.
Usage is a number per namespace, a list of hard limits is a value.  Items are a
set: repeating an item changes nothing but the moment its usage is read.

* `cluster_quota` (2 namespaces, 2 overlapping selectors, 2 hard values, 1
  disturbance): `TypeOK`, `TotalIsSum`, `StoresForStoredSpec`,
  `StatusConverges`.  A quota may be there at first or be created later.  Two
  namespaces make a total that differs from each of its parts; the theorems
  cover the first three for any number of disturbances.  Fairness: worker,
  informer, mapper and the recalculation timer go on.  A quota that selects no
  namespace is excepted from `totalHard = hard`, since `calculate` does nothing
  for it.

Deadlock is not checked: a deleted quota leaves nothing to do.

### MonitorSync

`Discover`, `DiscoverPartly` and `DiscoverNothing` are the answers of discovery,
`LockWorkers`, `ResyncMonitors`, `CachesSynced` and `CachesTimedOut` the rest of
`Sync`; `EnterWorker` and `LeaveWorker` a worker's read lock, which waits for a
waiting writer.  Shared informers outlive monitors.

`StartUp` puts the start of the process around it.  The main goroutine
initializes the controllers in whatever order (`startController`), starts the
informers there are (`StartFactories`) and closes `InformersStarted`
(`FinishStart`).  The quota controller's goroutines run from its initialization
on.  `StartMonitors` (vendored) is called by `Run` and by `Sync`; it does nothing
until the quota monitor runs, then waits for the channel with the monitors' lock
held, and starts the informers again if a monitor is not started.

* `monitor_sync` (3 resources, one ignored, 2 workers, 3 changes, 2
  controllers): `MonitorInv`, `ProcessesOnlySyncedInTime`, `InformersAfterInit`,
  `NeverEmptied`, `PartialOnlyAddsLater`, `MonitorsConverge`, `WorkersRun`,
  `MonitorsStarted`.  A second controller keeps the channel open while the quota
  controller already works.  Fairness: the main goroutine, the loop and the
  workers go on, and informers of served resources sync once they are started.
* `monitor_sync_partial` is violated: the first pass of `Sync` does not know the
  monitors of the constructor, so a partial answer removes some.

After a timed-out wait `Sync` releases the lock, so that the comment on
`workerLock` ("ensures that all monitors are synced before the controller can
process quotas") holds only as `ProcessesOnlySyncedInTime` states it.

### SCCRoleCache

Two informers call the handlers, each from a goroutine of its own.  A handler
lists the other's store first (`ListSCCs`, `ListRoles`) and takes the lock
afterwards (`handleRoleModified`, `handleSCCAdded`).  The rules of a role are
the set of SCCs they allow, an SCC's users and groups whether they name the
service account.  The stores are what the informers have seen.  `Sync` lists
bindings and SCCs, `SCCsFor` looks up one bound role after the other, taking the
lock for each, and `SyncEnds` gets the SCCs found.

* `scc_role_cache` (2 roles, one of them bound from the start, 1 SCC, 4 changes,
  tombstones of roles, SCCs and bindings): `CurrentUnlessRaced`,
  `SyncedOrQueued`, `ExistingRolesConverge`, `SyncConverges`.  Four changes are
  a role and an SCC, and both gone again, or a binding of the other role as
  well.  The theorems cover the first two for any roles, SCCs and changes.
  Fairness: handlers and worker go on and informers resync (every ten minutes,
  `pkg/cmd/controller/interfaces.go`).  `SyncConverges` excepts a removed role
  that a dropped tombstone leaves in the cache (`Ghosts`): if its SCC is deleted
  unnoticed too, every sync fails to find that SCC.
* `scc_role_cache_ghost` is violated: a role removed while `handleSCCAdded` is
  between its list and the lock comes back into the cache for good.

`CurrentUnlessRaced` and `SyncedOrQueued` except what the code does not cover:
overlapping handlers, of which the second writes from an outdated list (healed
for existing roles by the next resync); tombstones, which are dropped, those of
bindings by the event filter; and updated SCCs, for which no handler is registered, although
`src/ARCHITECTURE.md` has an SCC change start a synchronization.

### SCCConversion

`convert_hostDir` to `convert_runAsUser` and `convertSCCToPSALevel` are the
functions of that name.  Names of capabilities, volumes, profiles and the like
are sorted into the classes the code tells apart; volumes stay a sequence,
since the conversion returns at the first one it does not know.  `Begin`,
`Convert` and `End` are the loop of `syncNamespace` over the SCCs, which users
edit and delete meanwhile.  `Admits` is the reference: what a level admits,
after the comments on the conversions, of what an SCC lets a pod do.

* `scc_conversion` (2 SCCs out of three typical ones, each edited in one or two
  settings to any value): `TightestLevel`, `HighestLevel`, `EditsMonotone`.  One
  edit at any point of a pass; the theorems cover all SCCs and any number.

### PSALabelSync, PrivilegedNamespaces

One namespace, with the managers of each label.  `Take` is the first part of
`sync`; `RemoveHistoricalLabels` and `OwnHistoricalLabels` are the two writes of
`forceHistoricalLabelsOwnership`; `Compute`, `NotYet`, `UnknownLevel` and
`ApplyLabels` are `syncNamespace`.  `Picks` are the answers that
`getManagerForLabel` may give, since it ranges over a map.  Update and
server-side apply are modelled as far as labels, managers and the annotation go
(external).

`PrivilegedNamespaces` adds the second controller: `NamesFilter` and `enqueueNS`
are its handlers, `PrivTake` its look at the informer's copy, `PrivApply` the
forced apply, which may fail or lose its answer.  Events of the informer and
crashes concern both controllers.  The kind "default" stands for the three
namespaces; for the label synchronization they are exempted ones.

* `psa_label_sync` (a label with its version, 2 levels, 3 kinds of namespace,
  2 changes): `LabelsManaged`, `AppliesBackOff`, `LabelsConverge`, `Settles`,
  `PrivilegedConverges`.
  Two changes allow a user to take over a label and a crash or another change
  around it; the theorems cover the first two properties for any labels, any
  choice of synced ones and any number of changes.  Fairness: workers and
  informer go on, resync included; a map's random order does not answer the
  same way for ever (`FoundForeign`).
* `psa_annotation` is violated: an apply that changes labels only gives up the
  annotation, until the next sync sets it again.

`AppliesBackOff` is about applies.  The update that moves the former manager's
labels removes one that a user manages as well.

## Proofs

TLC checks the instances above; the theorems hold for all values of the
constants that satisfy the modules' assumptions.

* `SCCAllocationProofs`: `SafetyInv` is inductive.  `DistinctUnlessWiped` alone
  is not: reserving a block is right only because the bitmap covers the blocks
  in use (`BitmapCoversHeld`) and the update goes through only if the cached
  copy is the stored one (`CacheCoherent`); applying it only because the block
  is still nobody's (`ReservedIsFree`) and the namespace still without one
  (`WorkerCoherent`).  `Uniqueness` and `AnnotationsAreKept` follow.
* `BucketQueueProofs`: `BucketInv` is inductive and gives `Exclusion`,
  `Conservation` and `NothingStranded`.  It says where each item is, which of
  `work` and `dirtyWork` a key may have, and what a thread between two halves of
  an operation holds.  `Implementation` shows that every step is a step of
  `BucketSpec` or a stutter.
* `PSALabelSyncProofs`: `LabelsManaged` is inductive, by lemmas on what
  server-side apply does to labels and managers; `ApplyBacksOff` follows from
  the absence of conflicts.  The composition with the controller of the
  privileged namespaces keeps both (`ComposedCorrectness`, `ComposedBacksOff`):
  a step of it is one of `PSALabelSync`, a forced apply of the other manager,
  which the same lemmas cover, or leaves labels and managers alone.
  `WritersApart`: the two are never about to write the same namespace.
* `StartUpProofs`: `MonitorInv` of `MonitorSync` is inductive: resyncing excludes
  the workers, and what `Sync` remembers is what is monitored.  `StartInv` of
  `StartUp` is inductive: how far the main goroutine is says
  whether informers are started and the channel closed, and who waits in
  `StartMonitors` holds the monitors' lock.  `StartsInOrder` follows.
  `StartImplementsSync` shows that each step is one of `MonitorSync` or leaves
  its variables alone, so that the theorems about it hold of the composition
  (`StartKeepsPromises`).
* `ClusterQuotaProofs`: the total is kept by subtracting and adding, and is the
  sum again only if the entry subtracted is the one that was added.  The
  invariant `QuotaInv` says that of every version and of the worker's copy, that
  a copy with the stored resource version differs from it in the status only
  (`FreshCopy`), and that a finished sync leaves no items behind
  (`IdleIsClean`).  `SumFacts` says what is used of the sum, a fold over a finite
  set: it is 0 for zeros, and follows the change of one entry, since a sum is
  the same whichever element the fold takes first (`SumsAnyOrder`).
* `SCCRoleCacheProofs`: `CacheInv` says, while no handlers overlapped and no
  deletion was missed, that the cache is right for every role and SCC for which
  no event waits, that the waiting events end with what the stores have, and
  that what a handler has listed is current but for events to come.  `SyncInv`
  adds the namespace: it is queued, or what its last and its running sync saw is
  outdated only by changes whose calls are still to be made.  Bindings count
  there only for roles the cache has something for (`Relevant`): the filter of
  role bindings drops the event of any other, and this is right only because the
  role's own event, still to come, queues the namespace.
* `SCCConversionProofs`: lemmas relate the conversion of the settings to what
  `Admits` says of them; `LevelsAreTight` puts them together, and
  `EditsAreMonotone` adds the conversions that fail.
  `PassFindsHighest` rests on the invariant of the loop (`PassInv`): the level
  so far is the highest of the SCCs looked at, unless one was edited.

* `SecurityRangesProofs`: `RangesInv` is inductive.  Its parts are the types, the
  bitmap with its count (`BitmapInv`), that what was granted is marked and was
  granted once (`GrantsInv`), and how far Repair is (`RepairInv`).  From it
  follow `UIDsDisjoint` (the blocks of two numbers do not overlap, and `Contains`
  and `Offset` invert `BlockAt`, with sizes and ends that wrap around),
  `FreeExact` and `RepairMarksExactly`.
  The labels take facts about `binomial`: that it is defined by Pascal's rule
  (`Binomial`), that the greedy loop of the unrank finds descending categories
  whose rank is the offset (`StepsUnrank`, `UnrankRank`), that there are
  `binomial(n, k)` sets of k out of n (`SubsetsCount`), and that the rank of a
  set is the number of sets before it (`RankCounts`: split by the first category
  in which they differ).  `LabelsDistinct` and `LabelsAreRanked` follow.

Induction in these proofs is over a set in place of a predicate (`SetInduction`,
`SubsetInduction`), from the fact that a set of naturals has a least element:
the library's induction rules take a predicate as parameter, which the installed
provers cannot instantiate.  That a recursive function has the values its
definition says is proved in the same way, by building it up from its first
values.

Every invariant and every action property that a run checks is proved, except
those of the runs that are violated.  Only model-checked: the liveness
properties, since temporal reasoning under fairness is out of the prover's reach.

## Disagreements with documentation and comments

The runs that are violated show where the code does not do what a document or
comment says; `PROJECT.json` quotes the lines under `findings`.

## Not modelled

* The Kubernetes resource quota manager and the CSR approver: vendored
  controllers that are only constructed here.  The one piece of code of its own,
  the filter on discovery (`resourceQuotaDiscoveryWrapper`), drops the error of a
  partial answer; what that does is decided in the vendored loop.
* The image quota evaluators and the variable expansion: pure functions of their
  input without protocol.  `ClusterQuota` takes what evaluators count as data.
* The text of MCS labels (`ParseLabel`, `String`), configuration parsing, the
  construction of clients, the health check before the start and the command
  line.  An error while controllers are initialized ends the process.
* The label synchronization takes the level as an input rather than from
  `SCCConversion` and `SCCRoleCache`.  The three are not composed: what passes
  between them is the set of SCCs the cache names and one level, and the label
  synchronization is checked for every level at any time.
* Two leaders at a time, a call that arrives after its process died, and a cache
  that goes back in time on a restart.
