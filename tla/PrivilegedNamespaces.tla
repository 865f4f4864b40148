------------------------ MODULE PrivilegedNamespaces ------------------------
(***************************************************************************)
(* The controller that keeps default, kube-system and kube-public          *)
(* privileged, src/pkg/psalabelsyncer/privileged_namespaces_controller.go, *)
(* and its composition with the label synchronization of PSALabelSync: two *)
(* controllers of one process, two field managers, fed by one informer.    *)
(***************************************************************************)
EXTENDS PSALabelSync

CONSTANT Privileged

ASSUME PrivilegedAssumption == Privileged \in Levels

VARIABLES
  privQueued,   \* its work queue has the namespace
  privApplying  \* its worker has found a label that is not privileged

priv    == <<privQueued, privApplying>>
allVars == <<vars, priv>>

\* Faulty: only the Add event is handled.
FilterAdds(update) == kind = "default" /\ ~ update

\* The handler's filter: the informer's Add and Update events of the three names.
NamesFilter(update) == kind = "default"

enqueueNS(update) == privQueued' = (privQueued \/ NamesFilter(update))

AllPrivileged(o) == \A l \in TypeLabels : o.labels[l] = Privileged

\* The forced apply takes over the labels that have another value.
ForcedPrivileged(o) ==
  [o EXCEPT
     !.labels = [l \in PSaLabels |-> IF l \in TypeLabels THEN Privileged ELSE @[l]],
     !.owners = [l \in PSaLabels |->
       IF l \notin TypeLabels THEN @[l]
       ELSE IF o.labels[l] = Privileged THEN @[l] \cup {privilegedControllerName}
       ELSE {privilegedControllerName}]]

\* sync, up to the call: it looks at the informer's copy.
PrivTake ==
  /\ privQueued /\ ~ privApplying
  /\ privQueued' = FALSE
  /\ privApplying' = ~ AllPrivileged(cached)
  /\ UNCHANGED vars

PrivWrite ==
  /\ privApplying /\ privApplying' = FALSE
  /\ Write(ForcedPrivileged(ns))
  /\ UNCHANGED <<kind, cached, level, queued, worker>>

PrivApply == PrivWrite /\ UNCHANGED <<privQueued, budget>>

\* The call fails, having been carried out or not, and is tried again.
PrivApplyLost == PrivWrite /\ Disturb /\ privQueued' = TRUE

PrivApplyFails ==
  /\ privApplying /\ privApplying' = FALSE
  /\ Disturb /\ privQueued' = TRUE
  /\ UNCHANGED <<kind, ns, cached, cachedCurrent, level, queued, worker, objCurrent>>

-----------------------------------------------------------------------------
(* The composition.  The informer's events reach both controllers, and a   *)
(* crash is one of both.                                                   *)
ComposedInit ==
  /\ Init
  /\ privQueued = (kind = "default") /\ privApplying = FALSE

Informed == (WatchNamespace \/ Resync) /\ enqueueNS(TRUE) /\ UNCHANGED privApplying

CrashBoth ==
  /\ pc # "idle" \/ privApplying
  /\ Restart
  /\ privQueued' = NamesFilter(FALSE) /\ privApplying' = FALSE

LabelSync ==
  /\ \/ Step \/ RemoveHistoricalLabelsLost \/ ApplyLost \/ CallFails \/ LevelChanges \/ Others
  /\ UNCHANGED priv

ComposedNext ==
  \/ LabelSync \/ Informed \/ CrashBoth
  \/ PrivTake \/ PrivApply \/ PrivApplyLost \/ PrivApplyFails

ComposedSpec == ComposedInit /\ [][ComposedNext]_allVars

\* Both workers and the informer keep going, and the order of a map is random, as
\* in PSALabelSync.
ComposedFairness ==
  /\ WF_allVars(Step /\ UNCHANGED priv)
  /\ WF_allVars(WatchNamespace /\ enqueueNS(TRUE) /\ UNCHANGED privApplying)
  /\ WF_allVars(Resync /\ enqueueNS(TRUE) /\ UNCHANGED privApplying)
  /\ SF_allVars(FoundForeign /\ UNCHANGED priv)
  /\ WF_allVars(PrivTake \/ PrivApply)

ComposedFairSpec == ComposedSpec /\ ComposedFairness

-----------------------------------------------------------------------------
(* Properties.                                                             *)

\* Once users stop, the type labels of the three namespaces are privileged, and
\* stay so, even if they had been set back while an apply was failing or the
\* process was down.
PrivilegedConverges == <>[](kind = "default" => AllPrivileged(ns))
=============================================================================
