---------------------------- MODULE PSALabelSync ----------------------------
(***************************************************************************)
(* The pod security admission label synchronization of one namespace,      *)
(* src/pkg/psalabelsyncer/podsecurity_label_sync_controller.go.  A worker  *)
(* takes the namespace from the informer's cache, moves labels that the    *)
(* former field manager owns to its own, and applies the level that the    *)
(* service accounts' SCCs call for to the labels nobody else manages.      *)
(* Meanwhile others write the namespace, calls fail and the process        *)
(* crashes.                                                                *)
(*                                                                         *)
(* The level is an input here.  The API server's Update and server-side    *)
(* apply are modelled as far as labels and their managers go.              *)
(***************************************************************************)
EXTENDS Naturals, FiniteSets

CONSTANTS
  TypeLabels, VersionLabels,  \* the pod security labels, allPSaLabels
  syncedLabels,  \* the ones this controller sets: all, or only the logging ones
  Levels,
  Latest, Versions,
  None,
  Kinds,         \* names the namespace may have: "plain", "openshift", "exempted", "default"
  MaxChanges     \* bound on others' writes, changes of the level and faults

PSaLabels == TypeLabels \cup VersionLabels

ASSUME LabelAssumption ==
  /\ TypeLabels \cap VersionLabels = {} /\ syncedLabels \subseteq PSaLabels
  /\ Latest \in Versions
  /\ None \notin Levels \cup Versions
  /\ Kinds \subseteq {"plain", "openshift", "exempted", "default"}
  /\ MaxChanges \in Nat

controllerName == "pod-security-admission-label-synchronization-controller"
CPC            == "cluster-policy-controller"
privilegedControllerName == "privileged-namespaces-psa-label-syncer"
Managers       == {controllerName, CPC, privilegedControllerName, "user"}

Values(l) == IF l \in TypeLabels THEN Levels ELSE Versions

NamespaceObject ==
  [labels     : [PSaLabels -> Levels \cup Versions \cup {None}],
   owners     : [PSaLabels -> SUBSET Managers],  \* managedFields
   annotation : Levels \cup {None},              \* MinimallySufficientPodSecurityStandard
   control    : {"true", "false", "none"},       \* labelSyncControlLabel
   uidRange   : BOOLEAN,
   terminating : BOOLEAN]

Blank ==
  [labels |-> [l \in PSaLabels |-> None], owners |-> [l \in PSaLabels |-> {}],
   annotation |-> None, control |-> "none", uidRange |-> FALSE, terminating |-> FALSE]

Config == [labels : [PSaLabels -> Levels \cup Versions \cup {None}], annotation : Levels \cup {None}]

NoConfig == [labels |-> [l \in PSaLabels |-> None], annotation |-> None]

VARIABLES
  kind,
  ns,            \* the namespace, in the API server
  cached,        \* the informer's copy ...
  cachedCurrent, \* ... and whether it has the current resourceVersion
  level,         \* what SCCs call for; "unknown" if there are none, "no accounts"
  queued,
  pc,            \* the worker: idle, about to update or to apply for the labels of the
                 \* former manager, about to compute labels, about to apply them
  obj, objCurrent,  \* the worker's copy
  config,        \* what it is about to apply
  budget

worker == <<pc, obj, config>>
vars   == <<kind, ns, cached, cachedCurrent, level, queued, worker, objCurrent, budget>>

TypeOK ==
  /\ kind \in Kinds
  /\ ns \in NamespaceObject /\ cached \in NamespaceObject /\ obj \in NamespaceObject
  /\ cachedCurrent \in BOOLEAN /\ objCurrent \in BOOLEAN
  /\ level \in Levels \cup {"unknown", "no accounts"}
  /\ queued \in BOOLEAN
  /\ pc \in {"idle", "update", "own", "sync", "apply"}
  /\ config \in Config
  /\ budget \in 0 .. MaxChanges

\* A label is there exactly if someone manages it.
Managed(o) == \A l \in PSaLabels : o.labels[l] # None <=> o.owners[l] # {}

-----------------------------------------------------------------------------
(* Field managers.                                                         *)

\* getManagerForLabel: the first manager in a map's random order.
First(owners) == IF owners = {} THEN {None} ELSE owners

Picks(o) ==
  {f \in [PSaLabels -> UNION {First(o.owners[l]) : l \in PSaLabels}] :
     \A l \in PSaLabels : f[l] \in First(o.owners[l])}

isNSControlled(o, getManagerForLabel) ==
  /\ kind \notin {"exempted", "default"}
  /\ \/ o.control = "true"
     \/ /\ kind # "openshift"
        /\ \E l \in PSaLabels :
             o.labels[l] # None => getManagerForLabel[l] \in {None, CPC, controllerName}
        /\ o.control # "false"

\* What the controller may find, depending on the map's order.
Findings(o) == {isNSControlled(o, pick) : pick \in Picks(o)}

\* Server-side apply by the controller: a conflict is a label with another value
\* that another manager owns.
Conflicts(o, c) ==
  {l \in PSaLabels : c.labels[l] \notin {None, o.labels[l]} /\ o.owners[l] \ {controllerName} # {}}

\* What the controller owned and does not apply again is given up, and removed
\* if nobody else owns it.
Applied(o, c) ==
  [o EXCEPT
     !.labels = [l \in PSaLabels |->
       IF c.labels[l] # None THEN c.labels[l]
       ELSE IF o.owners[l] = {controllerName} THEN None ELSE o.labels[l]],
     !.owners = [l \in PSaLabels |->
       IF c.labels[l] = None THEN o.owners[l] \ {controllerName}
       ELSE IF c.labels[l] = o.labels[l] THEN o.owners[l] \cup {controllerName}
       ELSE {controllerName}],
     !.annotation = c.annotation]

\* A write that changes nothing keeps the resourceVersion.
Write(o) ==
  /\ ns' = o
  /\ cachedCurrent' = (cachedCurrent /\ o = ns)
  /\ objCurrent' = (objCurrent /\ o = ns)

\* The labels were set by whoever, and the controller starts.
Init ==
  /\ kind \in Kinds
  /\ \E owners \in [PSaLabels -> {{}, {CPC}, {"user"}}], uid \in BOOLEAN :
       ns \in {[Blank EXCEPT !.owners = owners, !.labels = values, !.uidRange = uid] :
                 values \in {f \in [PSaLabels -> Levels \cup Versions \cup {None}] :
                   \A l \in PSaLabels :
                     IF owners[l] = {} THEN f[l] = None ELSE f[l] \in Values(l)}}
  /\ cached = ns /\ cachedCurrent = TRUE
  /\ level \in Levels \cup {"unknown", "no accounts"}
  /\ queued \in Findings(ns)
  /\ pc = "idle" /\ obj = Blank /\ objCurrent = FALSE /\ config = NoConfig
  /\ budget = MaxChanges

Disturb == budget > 0 /\ budget' = budget - 1

-----------------------------------------------------------------------------
(* sync                                                                    *)

\* The labels of the former manager, whether synced or not.
cpcOwned(o) == {l \in PSaLabels : CPC \in o.owners[l]}

Finish  == pc' = "idle" /\ obj' = Blank /\ config' = NoConfig
Requeue == Finish /\ queued' = TRUE

Take ==
  /\ pc = "idle" /\ queued
  /\ queued' = FALSE
  /\ \E pick \in Picks(cached) :
       IF isNSControlled(cached, pick) /\ ~ cached.terminating
         THEN /\ pc' = IF cpcOwned(cached) # {} THEN "update" ELSE "sync"
              /\ obj' = cached /\ objCurrent' = cachedCurrent
              /\ UNCHANGED config
         ELSE Finish /\ objCurrent' = FALSE
  /\ UNCHANGED <<kind, ns, cached, cachedCurrent, level, budget>>

\* forceHistoricalLabelsOwnership: the former manager removes its labels, which
\* fails if the copy is outdated ...
UpdateAsCPC ==
  /\ pc = "update" /\ objCurrent
  /\ Write([ns EXCEPT
       !.labels = [l \in PSaLabels |-> IF l \in cpcOwned(obj) THEN None ELSE @[l]],
       !.owners = [l \in PSaLabels |-> IF l \in cpcOwned(obj) THEN {} ELSE @[l]]])
  /\ UNCHANGED <<kind, cached, level>>

\* ... and the controller applies them together with what it owns.
ourOwned ==
  [labels |-> [l \in PSaLabels |->
     IF obj.owners[l] \cap {CPC, controllerName} # {} THEN obj.labels[l] ELSE None],
   annotation |-> obj.annotation]

RemoveHistoricalLabels ==
  /\ UpdateAsCPC
  /\ pc' = "own" /\ config' = ourOwned
  /\ UNCHANGED <<queued, obj, budget>>

\* The answer is lost: the labels are gone, and the key is queued again.
RemoveHistoricalLabelsLost == UpdateAsCPC /\ Disturb /\ Requeue

UpdateConflicts ==
  /\ pc = "update" /\ ~ objCurrent
  /\ Requeue
  /\ UNCHANGED <<kind, ns, cached, cachedCurrent, level, objCurrent, budget>>

OwnHistoricalLabels ==
  /\ pc = "own"
  /\ IF Conflicts(ns, config) # {}
       THEN Requeue /\ UNCHANGED <<ns, cachedCurrent, objCurrent>>
       ELSE /\ Write(Applied(ns, config))
            /\ pc' = "sync" /\ obj' = ns' /\ config' = NoConfig
            /\ UNCHANGED queued
  /\ UNCHANGED <<kind, cached, level, budget>>

-----------------------------------------------------------------------------
(* syncNamespace                                                           *)
Wanted(l) == IF l \in TypeLabels THEN level ELSE Latest

\* Which labels are applied, given the managers found for them.
Applicable(pick) ==
  {l \in syncedLabels : pick[l] \in {None, controllerName} \/ obj.control = "true"}

\* Faulty: the labels that have their value already are left out.
OnlyOutdated(labels) ==
  [labels |-> [l \in PSaLabels |-> IF l \in labels /\ obj.labels[l] # Wanted(l) THEN Wanted(l) ELSE None],
   annotation |-> IF obj.annotation # level THEN level ELSE None]

\* The annotation is in the configuration only if it has to change.
Configured(labels) ==
  [labels |-> [l \in PSaLabels |-> IF l \in labels THEN Wanted(l) ELSE None],
   annotation |-> IF obj.annotation # level THEN level ELSE None]

\* Faulty: an annotation that is outdated alone is not.
OnlyLabels(labels) == \E l \in labels : obj.labels[l] # Wanted(l)

shouldUpdate(labels) == obj.annotation # level \/ \E l \in labels : obj.labels[l] # Wanted(l)

\* Faulty: the level is not checked.
ComputeAnyLevel(pick) ==
  /\ pc = "sync" /\ obj.uidRange
  /\ pc' = "apply" /\ config' = Configured(Applicable(pick))
  /\ UNCHANGED <<kind, ns, cached, cachedCurrent, level, queued, obj, objCurrent, budget>>

Compute(pick) ==
  /\ pc = "sync" /\ obj.uidRange /\ level \in Levels
  /\ IF shouldUpdate(Applicable(pick))
       THEN /\ pc' = "apply" /\ config' = Configured(Applicable(pick))
            /\ UNCHANGED obj
       ELSE Finish
  /\ UNCHANGED <<kind, ns, cached, cachedCurrent, level, queued, objCurrent, budget>>

\* Nothing to do until there is a UID range and a service account.
NotYet ==
  /\ pc = "sync" /\ (~ obj.uidRange \/ level = "no accounts")
  /\ Finish
  /\ UNCHANGED <<kind, ns, cached, cachedCurrent, level, queued, objCurrent, budget>>

UnknownLevel ==
  /\ pc = "sync" /\ obj.uidRange /\ level = "unknown"
  /\ Requeue
  /\ UNCHANGED <<kind, ns, cached, cachedCurrent, level, objCurrent, budget>>

\* Faulty: every apply is forced.
AlwaysForce == pc = "apply"

\* The apply is forced if the namespace asks to be synced.
mustSync == pc = "apply" /\ obj.control = "true"

\* A conflict is taken for someone else's management of the labels, not an error.
ApplyLabels ==
  /\ pc = "apply"
  /\ IF mustSync \/ Conflicts(ns, config) = {}
       THEN Write(Applied(ns, config))
       ELSE UNCHANGED <<ns, cachedCurrent, objCurrent>>
  /\ Finish
  /\ UNCHANGED <<kind, cached, level, queued, budget>>

\* The call fails, having been carried out or not.
ApplyLost ==
  /\ pc \in {"own", "apply"}
  /\ mustSync \/ Conflicts(ns, config) = {}
  /\ Write(Applied(ns, config))
  /\ Disturb /\ Requeue
  /\ UNCHANGED <<kind, cached, level>>

CallFails ==
  /\ pc \in {"update", "own", "apply"}
  /\ Disturb /\ Requeue
  /\ UNCHANGED <<kind, ns, cached, cachedCurrent, level, objCurrent>>

-----------------------------------------------------------------------------
(* The queue is fed by the namespace's informer, its filter being asked    *)
(* about the old and the new copy, by its resync, and by the informers of  *)
(* what the level depends on.                                              *)
Notify(old, new) ==
  queued' \in {queued \/ was \/ is : was \in Findings(old), is \in Findings(new)}

WatchNamespace ==
  /\ ~ cachedCurrent
  /\ cached' = ns /\ cachedCurrent' = TRUE
  /\ Notify(cached, ns)
  /\ UNCHANGED <<kind, ns, level, worker, objCurrent, budget>>

Resync ==
  /\ Notify(cached, cached)
  /\ UNCHANGED <<kind, ns, cached, cachedCurrent, level, worker, objCurrent, budget>>

\* Nothing is queued if the level changes as an SCC is updated.
LevelChanges ==
  /\ Disturb
  /\ level' \in (Levels \cup {"unknown", "no accounts"}) \ {level}
  /\ Notify(cached, cached) \/ UNCHANGED queued
  /\ UNCHANGED <<kind, ns, cached, cachedCurrent, worker, objCurrent>>

-----------------------------------------------------------------------------
(* Others write the namespace, and the process restarts.                   *)
UserWrites(o) ==
  /\ Disturb /\ o # ns
  /\ Write(o)
  /\ UNCHANGED <<kind, cached, level, queued, worker>>

\* A user who applies the value that is there already becomes a manager too.
UserSets(l, v) ==
  UserWrites([ns EXCEPT !.labels[l] = v,
                        !.owners[l] = IF v = ns.labels[l] THEN @ \cup {"user"} ELSE {"user"}])

UserRemoves(l) == UserWrites([ns EXCEPT !.labels[l] = None, !.owners[l] = {}])
UserControls(c) == UserWrites([ns EXCEPT !.control = c])
GetsUIDRange == UserWrites([ns EXCEPT !.uidRange = TRUE])
Terminates == UserWrites([ns EXCEPT !.terminating = TRUE])

Restart ==
  /\ Disturb
  /\ Finish
  /\ cached' = ns /\ cachedCurrent' = TRUE /\ objCurrent' = FALSE
  /\ queued' \in Findings(ns)
  /\ UNCHANGED <<kind, ns, level>>

Crash == pc # "idle" /\ Restart

Others ==
  \/ \E l \in PSaLabels : (\E v \in Values(l) : UserSets(l, v)) \/ UserRemoves(l)
  \/ \E c \in {"true", "false", "none"} : UserControls(c)
  \/ GetsUIDRange \/ Terminates

SyncNamespace == (\E pick \in Picks(obj) : Compute(pick)) \/ NotYet \/ UnknownLevel

Step ==
  \/ Take \/ RemoveHistoricalLabels \/ UpdateConflicts \/ OwnHistoricalLabels
  \/ SyncNamespace \/ ApplyLabels

Next ==
  \/ Step
  \/ RemoveHistoricalLabelsLost \/ ApplyLost \/ CallFails \/ Crash
  \/ WatchNamespace \/ Resync \/ LevelChanges
  \/ Others

Spec == Init /\ [][Next]_vars

\* The worker and the informers keep going.  A map's order is random, so that a
\* label with several managers is not found to be the controller's every time.
FoundForeign ==
  \E pick \in Picks(obj) :
    /\ \A l \in PSaLabels : obj.owners[l] # {controllerName} => pick[l] # controllerName
    /\ Compute(pick)

Fairness ==
  /\ WF_vars(Step) /\ WF_vars(WatchNamespace) /\ WF_vars(Resync)
  /\ SF_vars(FoundForeign)

FairSpec == Spec /\ Fairness

-----------------------------------------------------------------------------
(* Properties.                                                             *)

\* Type correctness of every variable, and a label is there exactly if someone
\* manages it, whatever is updated, applied or given up.
LabelsManaged == TypeOK /\ Managed(ns) /\ Managed(cached) /\ Managed(obj)

\* The labels that a user manages keep their value and their manager.
KeepsUserLabels ==
  \A l \in PSaLabels : "user" \in ns.owners[l] =>
    ns'.labels[l] = ns.labels[l] /\ "user" \in ns'.owners[l]

\* Applying backs off from the labels that others manage, even those they took
\* after the controller had looked, unless the namespace had asked to be synced,
\* and also if the answer of the call is lost.
\* (The update in forceHistoricalLabelsOwnership does not: it removes a label of
\* the former manager also if a user manages it too.)
Applies == OwnHistoricalLabels \/ ApplyLabels \/ ApplyLost
AppliesBackOff == [][Applies /\ obj.control # "true" => KeepsUserLabels]_vars

\* Comments in syncNamespace and forceHistoricalLabelsOwnership say that what
\* the controller owns is extracted so as not to delete it by an apply.
AnnotationKept == [][ns.annotation # None => ns'.annotation # None]_vars

Syncable ==
  /\ \A pick \in Picks(ns) : isNSControlled(ns, pick)
  /\ ~ ns.terminating /\ ns.uidRange /\ level \in Levels

\* Once others stop, every synced label that is not somebody else's, and the
\* annotation, say the level, if the namespace is the controller's in whatever
\* order the managers are looked at; a crash or failure between the two writes that
\* move the former manager's labels is repaired.
LabelsConverge ==
  <>[](Syncable =>
         /\ ns.annotation = level
         /\ \A l \in syncedLabels :
              ns.control = "true" \/ "user" \notin ns.owners[l] => ns.labels[l] = Wanted(l))

\* The controller does not write for ever: its own events settle.
Settles == <>[][ns' = ns]_vars
=============================================================================
