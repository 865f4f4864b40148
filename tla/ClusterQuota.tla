---------------------------- MODULE ClusterQuota ----------------------------
(***************************************************************************)
(* The cluster quota reconciliation controller                             *)
(* (src/pkg/quota/clusterquotareconciliation/reconciliation_controller.go):*)
(* it keeps, in the status of a ClusterResourceQuota, the usage of every   *)
(* namespace the quota selects and the total.                              *)
(*                                                                         *)
(* One quota.  The bucketing queue serves a quota with one worker at a     *)
(* time and loses no items (BucketQueue), so its state here is what waits  *)
(* for the quota: the set work, and whether the key is queued.  A step of  *)
(* the worker reads one cache or makes one call.  Usage is the amount of   *)
(* one resource, and a resource list of a quota is a version of it.        *)
(***************************************************************************)
EXTENDS Integers, Sequences, FiniteSets, Functions

CONSTANTS
  Namespaces,
  Selectors,
  Selects,          \* the namespaces each selector selects, once they exist
  Hards,            \* values of spec.quota.hard
  MaxUsage,
  InitialUsage,     \* what a namespace may use when the controller starts
  MaxLag,           \* users let at most this many watch events pile up
  MaxDisturbances   \* bound on the steps of users and faults

NoSelector == "none"
NoHard     == "none"

ASSUME QuotaAssumption ==
  /\ IsFiniteSet(Namespaces)
  /\ Selects \in [Selectors -> SUBSET Namespaces]
  /\ NoSelector \notin Selectors /\ NoHard \notin Hards
  /\ InitialUsage \subseteq 0 .. MaxUsage
  /\ {MaxUsage, MaxLag, MaxDisturbances} \subseteq Nat

\* A namespace's entry in status.namespaces, and the lack of one.
Entry    == [used : 0 .. MaxUsage, hard : Hards \cup {NoHard}]
NotThere == [used |-> 0, hard |-> NoHard]

NewQuota(s, h) ==
  [live |-> TRUE, sel |-> s, hard |-> h, totalHard |-> NoHard, total |-> 0,
   status |-> [n \in Namespaces |-> NotThere]]
NoQuota == [NewQuota(NoSelector, NoHard) EXCEPT !.live = FALSE]

\* workItem
Items == [ns : Namespaces, force : BOOLEAN]

VARIABLES
  versions,    \* the quota: what the lister shows, then what the watch has
               \* still to deliver; the last one is stored
  exists,      \* the namespaces there are
  usage,       \* their usage, as the registry's listers have it
  mapped,      \* the mapper: the namespaces it has mapped to the quota,
  mappedSel,   \* and the selector it last finished a scan for
  notify,      \* the handler of the quota's informer has yet to run
  queued, work,              \* the bucketing queue
  pc, orig, quota, fresh,    \* the worker: the quota it got, its copy of it,
                             \* whether its version is still the stored one,
  matching, left, batch, retry,
  budget

cluster == <<versions, exists, usage>>
mapper  == <<mapped, mappedSel, notify>>
bucket  == <<queued, work>>
worker  == <<pc, orig, quota, fresh, matching, left, batch, retry>>
vars    == <<cluster, mapper, bucket, worker, budget>>

Lister == Head(versions)
Stored == versions[Len(versions)]

Loaded(q, n) == q.status[n] # NotThere
Sum(q)       == SumFunction([n \in Namespaces |-> q.status[n].used])

Quotas ==
  [live : BOOLEAN, sel : Selectors \cup {NoSelector}, hard : Hards \cup {NoHard},
   totalHard : Hards \cup {NoHard}, total : Int, status : [Namespaces -> Entry]]

TypeOK ==
  /\ versions \in Seq(Quotas) /\ versions # <<>>
  /\ exists \subseteq Namespaces
  /\ usage \in [Namespaces -> 0 .. MaxUsage]
  /\ mapped \subseteq Namespaces
  /\ mappedSel \in Selectors \cup {NoSelector}
  /\ notify \in BOOLEAN
  /\ queued \in BOOLEAN /\ work \subseteq Items
  /\ pc \in {"idle", "mapping", "items"}
  /\ orig \in Quotas /\ quota \in Quotas /\ fresh \in BOOLEAN
  /\ matching \subseteq Namespaces
  /\ retry \subseteq batch /\ left \subseteq batch /\ batch \subseteq Items
  /\ budget \in 0 .. MaxDisturbances

Init ==
  /\ \/ \E s \in Selectors, h \in Hards : versions = <<NewQuota(s, h)>>
     \/ versions = <<NoQuota>>
  /\ exists = Namespaces
  /\ usage \in [Namespaces -> InitialUsage]
  /\ mapped = {} /\ mappedSel = NoSelector
  /\ notify = Lister.live
  /\ queued = FALSE /\ work = {}
  /\ pc = "idle"
  /\ orig = NoQuota /\ quota = NoQuota /\ fresh = FALSE
  /\ matching = {} /\ left = {} /\ batch = {} /\ retry = {}
  /\ budget = MaxDisturbances

Disturb == budget > 0 /\ budget' = budget - 1

\* AddWithData
Enqueue(items) == queued' = TRUE /\ work' = work \cup items

\* calculate and forceCalculation: without namespaces they do nothing.
Calculate(names, force) ==
  IF names = {} THEN UNCHANGED bucket
                ELSE Enqueue({[ns |-> n, force |-> force] : n \in names})

-----------------------------------------------------------------------------
(* What makes the controller recalculate.                                  *)

\* addClusterQuota, updateClusterQuota
EnqueueClusterQuota ==
  /\ notify
  /\ notify' = FALSE
  /\ Calculate(mapped, FALSE)
  /\ UNCHANGED <<cluster, mapped, mappedSel, worker, budget>>

\* Faulty: the periodic recalculation does not force one.
CalculateAllUnforced ==
  /\ Lister.live
  /\ Calculate(mapped, FALSE)
  /\ UNCHANGED <<cluster, mapper, worker, budget>>

\* The periodic recalculation of all quotas.
CalculateAll ==
  /\ Lister.live
  /\ IF mapped # {}
       THEN Calculate(mapped, TRUE)
       ELSE IF \E n \in Namespaces : Loaded(Lister, n) THEN Enqueue({})
                                                       ELSE UNCHANGED bucket
  /\ UNCHANGED <<cluster, mapper, worker, budget>>

\* replenishQuota: only for a quota that its namespace is mapped to and whose
\* status already names the resource.
ReplenishQuota(n) ==
  Calculate({n} \cap IF Lister.live /\ Lister.totalHard # NoHard THEN mapped ELSE {}, TRUE)

-----------------------------------------------------------------------------
(* The worker, and syncQuotaForNamespaces.                                 *)

\* Faulty: the items to retry are kept for the next sync.
ReturnKeepsRetry(again, items) ==
  /\ pc' = "idle"
  /\ orig' = NoQuota /\ quota' = NoQuota /\ fresh' = FALSE
  /\ matching' = {} /\ left' = {} /\ batch' = {} /\ UNCHANGED retry
  /\ IF again THEN Enqueue(items) ELSE UNCHANGED bucket

\* The sync is over; what it could not do goes back to the queue, which gets
\* the key again.
Return(again, items) ==
  /\ pc' = "idle"
  /\ orig' = NoQuota /\ quota' = NoQuota /\ fresh' = FALSE
  /\ matching' = {} /\ left' = {} /\ batch' = {} /\ retry' = {}
  /\ IF again THEN Enqueue(items) ELSE UNCHANGED bucket

\* GetWithData, and the quota from the lister.
Take ==
  /\ pc = "idle"
  /\ queued
  /\ queued' = FALSE /\ work' = {}
  /\ IF Lister.live
       THEN /\ pc' = "mapping"
            /\ orig' = Lister /\ quota' = Lister
            /\ fresh' = (Len(versions) = 1)
            /\ batch' = work
            /\ UNCHANGED <<matching, left, retry>>
       ELSE UNCHANGED worker
  /\ UNCHANGED <<cluster, mapper, budget>>

\* The namespaces of the quota, unless the mapper is behind or ahead.
GetNamespacesFor ==
  /\ pc = "mapping"
  /\ IF mappedSel = quota.sel
       THEN /\ pc' = "items"
            /\ matching' = mapped
            /\ left' = batch
            /\ UNCHANGED <<orig, quota, fresh, batch, retry, bucket>>
       ELSE Return(TRUE, batch)
  /\ UNCHANGED <<cluster, mapper, budget>>

\* Faulty: the usage counted before is not subtracted.
OnlyAdded(q, n) ==
  [q EXCEPT !.total = @ + usage[n],
            !.status[n] = [used |-> usage[n], hard |-> q.hard]]

\* q without the entry of n, and with a new one: the total follows.
Removed(q, n) ==
  [q EXCEPT !.total = @ - q.status[n].used, !.status[n] = NotThere]
Recalculated(q, n) ==
  [q EXCEPT !.total = (@ - q.status[n].used) + usage[n],
            !.status[n] = [used |-> usage[n], hard |-> q.hard]]

SyncItem(i) ==
  /\ pc = "items"
  /\ i \in left
  /\ left' = left \ {i}
  /\ IF i.ns \notin matching
       THEN quota' = Removed(quota, i.ns) /\ UNCHANGED <<retry, budget>>
     ELSE IF ~ i.force /\ quota.status[i.ns].hard = quota.hard
       THEN UNCHANGED <<quota, retry, budget>>
     ELSE \/ quota' = Recalculated(quota, i.ns) /\ UNCHANGED <<retry, budget>>
          \/ Disturb /\ retry' = retry \cup {i} /\ UNCHANGED quota
  /\ UNCHANGED <<cluster, mapper, bucket, pc, orig, fresh, matching, batch>>

\* Namespaces that no longer match are removed even without a work item.
Finished(q) ==
  LET status == [n \in Namespaces |-> IF n \in matching THEN q.status[n] ELSE NotThere]
  IN  [q EXCEPT !.status = status, !.totalHard = q.hard,
                !.total = @ - (Sum(q) - Sum([q EXCEPT !.status = status]))]

\* UpdateStatus, if anything changed.  It is refused when the version is not
\* the stored one; its answer may be lost.
UpdateStatus ==
  /\ pc = "items" /\ left = {}
  /\ IF Finished(quota) = orig
       THEN Return(retry # {}, retry) /\ UNCHANGED <<versions, budget>>
     ELSE IF fresh
       THEN /\ versions' = Append(versions, Finished(quota))
            /\ \/ Return(retry # {}, retry) /\ UNCHANGED budget
               \/ Disturb /\ Return(TRUE, batch)
       ELSE Return(TRUE, batch) /\ UNCHANGED <<versions, budget>>
  /\ UNCHANGED <<exists, usage, mapper>>

\* UpdateStatus fails without an effect.
UpdateFails ==
  /\ pc = "items" /\ left = {} /\ Finished(quota) # orig
  /\ Disturb
  /\ Return(TRUE, batch)
  /\ UNCHANGED <<cluster, mapper>>

-----------------------------------------------------------------------------
(* The quota informer, and the mapping controller, which is not in this    *)
(* repository: it scans the namespaces with the selector the lister shows  *)
(* and tells the controller of every change through AddMapping and         *)
(* RemoveMapping, which recalculate that namespace.                        *)

\* The handlers of a deletion unmap the namespaces.
WatchQuota ==
  /\ Len(versions) > 1
  /\ versions' = Tail(versions)
  /\ IF versions[2].live
       THEN notify' = TRUE /\ UNCHANGED <<mapped, mappedSel, bucket>>
       ELSE /\ mapped' = {} /\ mappedSel' = NoSelector
            /\ Calculate(mapped, FALSE)
            /\ UNCHANGED notify
  /\ UNCHANGED <<exists, usage, worker, budget>>

ShouldMap == IF Lister.live THEN exists \cap Selects[Lister.sel] ELSE {}

\* AddMapping, RemoveMapping
SetMapping(n) ==
  /\ (n \in mapped) # (n \in ShouldMap)
  /\ mapped' = IF n \in mapped THEN mapped \ {n} ELSE mapped \cup {n}
  /\ Calculate({n}, FALSE)
  /\ UNCHANGED <<cluster, mappedSel, notify, worker, budget>>

CompleteQuota ==
  /\ Lister.live /\ mappedSel # Lister.sel
  /\ mapped = ShouldMap
  /\ mappedSel' = Lister.sel
  /\ UNCHANGED <<cluster, mapped, notify, bucket, worker, budget>>

-----------------------------------------------------------------------------
(* Users.                                                                  *)
UserStep == Disturb /\ UNCHANGED <<pc, orig, quota, matching, left, batch, retry, mapper>>

\* Faulty: the controller's update is not tied to the version it read.
WriteUnnoticed(q) ==
  /\ UserStep
  /\ Len(versions) <= MaxLag
  /\ versions' = Append(versions, q)
  /\ UNCHANGED <<exists, usage, fresh, bucket>>

WriteQuota(q) ==
  /\ UserStep
  /\ Len(versions) <= MaxLag
  /\ versions' = Append(versions, q)
  /\ fresh' = FALSE
  /\ UNCHANGED <<exists, usage, bucket>>

EditQuota ==
  /\ Stored.live
  /\ \E s \in Selectors, h \in Hards :
       WriteQuota([Stored EXCEPT !.sel = s, !.hard = h])

DeleteQuota == Stored.live /\ WriteQuota(NoQuota)

CreateQuota ==
  /\ ~ Stored.live
  /\ \E s \in Selectors, h \in Hards : WriteQuota(NewQuota(s, h))

\* Objects come and go; only the update and the deletion of one replenish.
UseMore(n) ==
  /\ UserStep
  /\ n \in exists /\ usage[n] < MaxUsage
  /\ usage' = [usage EXCEPT ![n] = @ + 1]
  /\ UNCHANGED <<versions, exists, fresh, bucket>>

UseLess(n) ==
  /\ UserStep
  /\ usage[n] > 0
  /\ usage' = [usage EXCEPT ![n] = @ - 1]
  /\ ReplenishQuota(n)
  /\ UNCHANGED <<versions, exists, fresh>>

DeleteNamespace(n) ==
  /\ UserStep
  /\ n \in exists
  /\ exists' = exists \ {n}
  /\ usage' = [usage EXCEPT ![n] = 0]
  /\ UNCHANGED <<versions, fresh, bucket>>

-----------------------------------------------------------------------------
Worker ==
  \/ Take \/ GetNamespacesFor \/ UpdateStatus \/ UpdateFails
  \/ \E i \in Items : SyncItem(i)

Next ==
  \/ Worker
  \/ EnqueueClusterQuota \/ CalculateAll
  \/ WatchQuota \/ CompleteQuota
  \/ \E n \in Namespaces : SetMapping(n) \/ UseMore(n) \/ UseLess(n) \/ DeleteNamespace(n)
  \/ EditQuota \/ DeleteQuota \/ CreateQuota

Spec == Init /\ [][Next]_vars

\* The worker, the informer with its handler and the mapper keep going, and
\* the recalculation timer keeps firing.
Fairness ==
  /\ WF_vars(Take) /\ WF_vars(GetNamespacesFor) /\ WF_vars(UpdateStatus)
  /\ WF_vars(\E i \in Items : SyncItem(i))
  /\ WF_vars(WatchQuota) /\ WF_vars(EnqueueClusterQuota)
  /\ \A n \in Namespaces : WF_vars(SetMapping(n))
  /\ WF_vars(CompleteQuota)
  /\ WF_vars(CalculateAll)

FairSpec == Spec /\ Fairness

-----------------------------------------------------------------------------
(* Properties.                                                             *)

\* In every version of the quota the total is the sum over the namespaces:
\* the increments of syncQuotaForNamespaces never drift, whatever items are
\* repeated, dropped, retried or computed from an old copy.
TotalIsSum ==
  /\ \A i \in DOMAIN versions : versions[i].total = Sum(versions[i])
  /\ quota.total = Sum(quota)

\* A status is stored only over the specification it was computed for, although
\* the sync worked from the lister's copy and the mapper's selector.
StoresForStoredSpec ==
  [][pc # pc' /\ Len(versions') > Len(versions) =>
       /\ Stored.live /\ Stored'.live
       /\ Stored'.sel = Stored.sel /\ Stored'.totalHard = Stored.hard
       /\ \A n \in Namespaces \ matching : ~ Loaded(Stored', n)]_vars

\* The status q has the usage of the namespaces the quota selects and no other.
\* For a quota that selects none, calculate never queues a change of hard.
Accurate(q) ==
  LET N == exists \cap Selects[q.sel]
  IN  /\ \A n \in Namespaces :
           q.status[n] = IF n \in N THEN [used |-> usage[n], hard |-> q.hard] ELSE NotThere
      /\ q.totalHard = q.hard \/ N = {}

\* Once users and faults stop, the stored status becomes accurate and stays so,
\* although syncs that found nothing to change in an old copy were dropped: the
\* periodic recalculation makes up for them.
StatusConverges == <>[](Stored.live => Accurate(Stored))
=============================================================================
