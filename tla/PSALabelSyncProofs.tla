------------------------- MODULE PSALabelSyncProofs -------------------------
(***************************************************************************)
(* Proofs about PSALabelSync, for every set of labels, levels and names    *)
(* and any number of changes.                                              *)
(***************************************************************************)
EXTENDS PrivilegedNamespaces, TLAPS

\* Applying a configuration keeps a namespace's type and the agreement between
\* its labels and their managers.
LEMMA AppliedManaged ==
  ASSUME NEW o \in NamespaceObject, NEW c \in Config, Managed(o)
  PROVE  Applied(o, c) \in NamespaceObject /\ Managed(Applied(o, c))
<1> DEFINE p == Applied(o, c)
<1>1. \A l \in PSaLabels :
        /\ p.labels[l] = IF c.labels[l] # None THEN c.labels[l]
                         ELSE IF o.owners[l] = {controllerName} THEN None ELSE o.labels[l]
        /\ p.owners[l] = IF c.labels[l] = None THEN o.owners[l] \ {controllerName}
                         ELSE IF c.labels[l] = o.labels[l]
                                THEN o.owners[l] \cup {controllerName} ELSE {controllerName}
  BY DEF Applied, NamespaceObject
<1>2. p \in NamespaceObject
  BY Zenon DEF Applied, NamespaceObject, Config, Managers
<1>3. Managed(p)
  <2> HIDE DEF p
  <2>1. \A S : S \ {controllerName} = {} <=> S = {} \/ S = {controllerName}
    OBVIOUS
  <2>2. \A S : S \cup {controllerName} # {} /\ {controllerName} # {}
    OBVIOUS
  <2>3. ASSUME NEW l \in PSaLabels PROVE p.labels[l] # None <=> p.owners[l] # {}
    <3>1. o.labels[l] # None <=> o.owners[l] # {}
      BY DEF Managed
    <3>2. CASE c.labels[l] # None
      BY <1>1, <2>2, <3>2, Zenon
    <3>3. CASE c.labels[l] = None
      <4>1. /\ p.owners[l] = o.owners[l] \ {controllerName}
            /\ p.labels[l] = IF o.owners[l] = {controllerName} THEN None ELSE o.labels[l]
        BY <1>1, <3>3, Zenon
      <4> QED
        BY <2>1, <3>1, <4>1
    <3> QED
      BY <3>2, <3>3
  <2> QED
    BY <2>3 DEF Managed
<1> QED
  BY <1>2, <1>3

\* Without a conflict, applying keeps the labels that a user manages.
LEMMA AppliedKeepsUser ==
  ASSUME NEW o \in NamespaceObject, NEW c \in Config, Conflicts(o, c) = {},
         NEW l \in PSaLabels, "user" \in o.owners[l]
  PROVE  /\ Applied(o, c).labels[l] = o.labels[l]
         /\ "user" \in Applied(o, c).owners[l]
<1>1. "user" # controllerName
  BY DEF controllerName
<1>2. c.labels[l] = None \/ c.labels[l] = o.labels[l]
  BY <1>1 DEF Conflicts
<1>3. o.owners[l] # {controllerName}
  BY <1>1
<1> QED
  BY <1>1, <1>2, <1>3 DEF Applied, NamespaceObject

\* The worker's initial copy and configuration have their types.
LEMMA BlankType == Blank \in NamespaceObject /\ Managed(Blank) /\ NoConfig \in Config
BY DEF Blank, NamespaceObject, Managed, NoConfig, Config

\* The invariant holds initially.
LEMMA ManagedInit == Init => LabelsManaged
<1> SUFFICES ASSUME Init PROVE LabelsManaged
  OBVIOUS
<1>1. PICK owners \in [PSaLabels -> {{}, {CPC}, {"user"}}], uid \in BOOLEAN,
           values \in [PSaLabels -> Levels \cup Versions \cup {None}] :
        /\ ns = [Blank EXCEPT !.owners = owners, !.labels = values, !.uidRange = uid]
        /\ \A l \in PSaLabels :
             IF owners[l] = {} THEN values[l] = None ELSE values[l] \in Values(l)
  BY Zenon DEF Init
<1>2. owners \in [PSaLabels -> SUBSET Managers]
  BY DEF Managers
<1>3. ns \in NamespaceObject
  BY <1>1, <1>2, BlankType, Zenon DEF Blank, NamespaceObject
<1>4. Managed(ns)
  <2>1. ns.labels = values /\ ns.owners = owners
    BY <1>1 DEF Blank
  <2>2. \A l \in PSaLabels : None \notin Values(l)
    BY LabelAssumption DEF Values
  <2> QED
    BY <1>1, <2>1, <2>2 DEF Managed
<1>5. queued \in BOOLEAN
  <2>1. PICK pick \in Picks(ns) : queued = isNSControlled(ns, pick)
    BY Zenon DEF Init, Findings
  <2>2. isNSControlled(ns, pick) \in BOOLEAN
    BY Zenon DEF isNSControlled
  <2> QED
    BY <2>1, <2>2
<1>6. budget \in 0 .. MaxChanges
  <2>1. budget = MaxChanges /\ MaxChanges \in Nat
    BY LabelAssumption, Zenon DEF Init
  <2> QED
    BY <2>1
<1> QED
  BY <1>3, <1>4, <1>5, <1>6, BlankType, Zenon DEF Init, LabelsManaged, TypeOK

\* The worker ends with nothing left over.
LEMMA FinishType ==
  Finish => /\ pc' = "idle"
            /\ obj' \in NamespaceObject /\ Managed(obj)' /\ config' \in Config
BY BlankType DEF Finish, Managed

\* What the queue is told is a Boolean.
LEMMA NotifyType == ASSUME queued \in BOOLEAN, NEW o, NEW p, Notify(o, p)
                    PROVE  queued' \in BOOLEAN
<1>1. PICK was \in Findings(o), is \in Findings(p) : queued' = (queued \/ was \/ is)
  BY DEF Notify
<1> QED
  BY <1>1, Zenon

\* The number of changes left stays in its range.
LEMMA DisturbType == ASSUME budget \in 0 .. MaxChanges, Disturb PROVE budget' \in 0 .. MaxChanges
<1>1. MaxChanges \in Nat
  BY LabelAssumption
<1> QED
  BY <1>1 DEF Disturb

\* So does a restart, whatever was going on.
LEMMA RestartManaged == ASSUME LabelsManaged, Restart PROVE LabelsManaged'
<1>1. queued' \in BOOLEAN
  <2>1. PICK pick \in Picks(ns) : queued' = isNSControlled(ns, pick)
    BY DEF Restart, Findings
  <2>2. isNSControlled(ns, pick) \in BOOLEAN
    BY Zenon DEF isNSControlled
  <2> QED
    BY <2>1, <2>2
<1>2. budget' \in 0 .. MaxChanges
  BY DisturbType, Zenon DEF Restart, LabelsManaged, TypeOK
<1> QED
  BY <1>1, <1>2, FinishType, Zenon DEF Restart, LabelsManaged, TypeOK, Managed

\* Every step keeps the types and the agreement between labels and managers.
LEMMA ManagedNext == LabelsManaged /\ [Next]_vars => LabelsManaged'
<1> SUFFICES ASSUME LabelsManaged, [Next]_vars PROVE LabelsManaged'
  OBVIOUS
<1> USE DEF LabelsManaged, TypeOK
<1>d. Disturb => budget' \in 0 .. MaxChanges
  BY DisturbType, Zenon
<1>1. CASE Take
  <2>1. PICK pick \in Picks(cached) :
          IF isNSControlled(cached, pick) /\ ~ cached.terminating
            THEN /\ pc' = IF cpcOwned(cached) # {} THEN "update" ELSE "sync"
                 /\ obj' = cached /\ objCurrent' = cachedCurrent
                 /\ UNCHANGED config
            ELSE Finish /\ objCurrent' = FALSE
    BY <1>1, Zenon DEF Take
  <2>2. pc' \in {"idle", "update", "sync"} /\ objCurrent' \in BOOLEAN /\ config' \in Config
    BY <2>1, FinishType, Zenon
  <2>3. obj' \in NamespaceObject /\ Managed(obj)'
    BY <2>1, FinishType, Zenon DEF Managed
  <2> QED
    BY <1>1, <2>2, <2>3, Zenon DEF Take, Managed
<1>2. ASSUME UpdateAsCPC PROVE ns' \in NamespaceObject /\ Managed(ns)'
  <2>1. ns' = [ns EXCEPT
          !.labels = [l \in PSaLabels |-> IF l \in cpcOwned(obj) THEN None ELSE ns.labels[l]],
          !.owners = [l \in PSaLabels |-> IF l \in cpcOwned(obj) THEN {} ELSE ns.owners[l]]]
    BY <1>2, Zenon DEF UpdateAsCPC, Write, NamespaceObject
  <2>2. ns' \in NamespaceObject
    BY <2>1, Zenon DEF NamespaceObject
  <2>3. \A l \in PSaLabels :
          /\ ns'.labels[l] = IF l \in cpcOwned(obj) THEN None ELSE ns.labels[l]
          /\ ns'.owners[l] = IF l \in cpcOwned(obj) THEN {} ELSE ns.owners[l]
    BY <2>1, Zenon DEF NamespaceObject
  <2> QED
    BY <2>2, <2>3, Zenon DEF Managed
<1>3. CASE RemoveHistoricalLabels
  <2>1. config' \in Config
    BY <1>3, Zenon DEF RemoveHistoricalLabels, ourOwned, Config, NamespaceObject
  <2> QED
    BY <1>2, <1>3, <2>1, Zenon DEF RemoveHistoricalLabels, UpdateAsCPC, Write, Managed
<1>4. CASE RemoveHistoricalLabelsLost
  BY <1>2, <1>4, <1>d, FinishType, Zenon
     DEF RemoveHistoricalLabelsLost, UpdateAsCPC, Write, Requeue, Managed
<1>5. CASE UpdateConflicts
  BY <1>5, FinishType, Zenon DEF UpdateConflicts, Requeue, Managed
<1>6. CASE OwnHistoricalLabels
  <2>1. CASE Conflicts(ns, config) # {}
    BY <1>6, <2>1, FinishType, Zenon DEF OwnHistoricalLabels, Requeue, Managed
  <2>2. CASE Conflicts(ns, config) = {}
    <3>1. ns' = Applied(ns, config) /\ obj' = ns' /\ config' = NoConfig /\ pc' = "sync"
      BY <1>6, <2>2, Zenon DEF OwnHistoricalLabels, Write
    <3>2. ns' \in NamespaceObject /\ Managed(ns)' /\ Managed(obj)'
      BY <3>1, AppliedManaged, Zenon DEF Managed
    <3>3. cachedCurrent' \in BOOLEAN /\ objCurrent' \in BOOLEAN
      BY <1>6, <2>2, Zenon DEF OwnHistoricalLabels, Write
    <3> QED
      BY <1>6, <2>2, <3>1, <3>2, <3>3, BlankType, Zenon DEF OwnHistoricalLabels, Managed
  <2> QED
    BY <2>1, <2>2, Zenon
<1>7. ASSUME NEW pick \in Picks(obj), Compute(pick) PROVE LabelsManaged'
  <2>1. config' \in Config /\ pc' \in {"idle", "apply"} /\ obj' \in NamespaceObject /\ Managed(obj)'
    <3>1. Configured(Applicable(pick)) \in Config
      BY <1>7, LabelAssumption, Zenon DEF Compute, Configured, Config, Wanted
    <3> QED
      BY <1>7, <3>1, FinishType, Zenon DEF Compute, Managed
  <2> QED
    BY <1>7, <2>1, Zenon DEF Compute, Managed
<1>8. CASE NotYet
  BY <1>8, FinishType, Zenon DEF NotYet, Managed
<1>9. CASE UnknownLevel
  BY <1>9, FinishType DEF UnknownLevel, Requeue, Managed
<1>10. CASE ApplyLabels
  <2>1. ns' \in NamespaceObject /\ Managed(ns)'
    BY <1>10, AppliedManaged, Zenon DEF ApplyLabels, Write, Managed
  <2>2. cachedCurrent' \in BOOLEAN /\ objCurrent' \in BOOLEAN
    BY <1>10, Zenon DEF ApplyLabels, Write
  <2> QED
    BY <1>10, <2>1, <2>2, FinishType, Zenon DEF ApplyLabels, Managed
<1>11. CASE ApplyLost
  <2>1. ns' \in NamespaceObject /\ Managed(ns)'
    BY <1>11, AppliedManaged, Zenon DEF ApplyLost, Write, Managed
  <2> QED
    BY <1>11, <1>d, <2>1, FinishType, Zenon DEF ApplyLost, Write, Requeue, Managed
<1>12. CASE CallFails
  BY <1>12, <1>d, FinishType, Zenon DEF CallFails, Requeue, Managed
<1>13. CASE WatchNamespace
  BY <1>13, NotifyType, Zenon DEF WatchNamespace, worker, Managed
<1>14. CASE Resync
  BY <1>14, NotifyType, Zenon DEF Resync, worker, Managed
<1>15. CASE LevelChanges
  BY <1>15, <1>d, NotifyType, Zenon DEF LevelChanges, worker, Managed
<1>16. ASSUME NEW o \in NamespaceObject, Managed(o), UserWrites(o) PROVE LabelsManaged'
  BY <1>16, <1>d, Zenon DEF UserWrites, Write, worker, Managed
<1>17. CASE Others
  <2>1. ASSUME NEW l \in PSaLabels, NEW v \in Values(l), UserSets(l, v) PROVE LabelsManaged'
    <3> DEFINE o == [ns EXCEPT !.labels[l] = v,
                       !.owners[l] = IF v = ns.labels[l] THEN @ \cup {"user"} ELSE {"user"}]
    <3>1. v \in Levels \cup Versions /\ v # None
      BY LabelAssumption, Zenon DEF Values
    <3>2. o \in NamespaceObject
      BY <3>1, Zenon DEF NamespaceObject, Managers
    <3>3. \A m \in PSaLabels :
            /\ o.labels[m] = IF m = l THEN v ELSE ns.labels[m]
            /\ m # l => o.owners[m] = ns.owners[m]
            /\ m = l => "user" \in o.owners[m]
      BY Zenon DEF NamespaceObject
    <3>4. Managed(o)
      BY <3>1, <3>3, Zenon DEF Managed
    <3>5. UserWrites(o)
      BY <2>1, Zenon DEF UserSets
    <3> QED
      BY <1>16, <3>2, <3>4, <3>5, Zenon
  <2>2. ASSUME NEW l \in PSaLabels, UserRemoves(l) PROVE LabelsManaged'
    <3> DEFINE o == [ns EXCEPT !.labels[l] = None, !.owners[l] = {}]
    <3>1. o \in NamespaceObject
      BY Zenon DEF NamespaceObject
    <3>2. \A m \in PSaLabels :
            /\ o.labels[m] = IF m = l THEN None ELSE ns.labels[m]
            /\ o.owners[m] = IF m = l THEN {} ELSE ns.owners[m]
      BY Zenon DEF NamespaceObject
    <3>3. Managed(o)
      BY <3>2, Zenon DEF Managed
    <3> QED
      BY <1>16, <2>2, <3>1, <3>3, Zenon DEF UserRemoves
  <2>3. ASSUME NEW c \in {"true", "false", "none"}, UserControls(c) PROVE LabelsManaged'
    <3>1. [ns EXCEPT !.control = c] \in NamespaceObject /\ Managed([ns EXCEPT !.control = c])
      BY Zenon DEF NamespaceObject, Managed
    <3> QED
      BY <1>16, <2>3, <3>1, Zenon DEF UserControls
  <2>4. CASE GetsUIDRange
    <3>1. /\ [ns EXCEPT !.uidRange = TRUE] \in NamespaceObject
          /\ Managed([ns EXCEPT !.uidRange = TRUE])
      BY Zenon DEF NamespaceObject, Managed
    <3> QED
      BY <1>16, <2>4, <3>1, Zenon DEF GetsUIDRange
  <2>5. CASE Terminates
    <3>1. /\ [ns EXCEPT !.terminating = TRUE] \in NamespaceObject
          /\ Managed([ns EXCEPT !.terminating = TRUE])
      BY Zenon DEF NamespaceObject, Managed
    <3> QED
      BY <1>16, <2>5, <3>1, Zenon DEF Terminates
  <2> QED
    BY <1>17, <2>1, <2>2, <2>3, <2>4, <2>5, Zenon DEF Others
<1>18. CASE Crash
  BY <1>18, RestartManaged, Zenon DEF Crash
<1>19. CASE UNCHANGED vars
  BY <1>19, Zenon DEF vars, worker, Managed
<1> QED
  BY <1>1, <1>3, <1>4, <1>5, <1>6, <1>7, <1>8, <1>9, <1>10, <1>11, <1>12, <1>13, <1>14,
     <1>15, <1>17, <1>18, <1>19, Zenon DEF Next, Step, SyncNamespace

\* Labels and their managers agree in every state.
THEOREM Correctness == Spec => []LabelsManaged
BY ManagedInit, ManagedNext, PTL DEF Spec

\* No apply of the controller touches a label that a user manages.
LEMMA AppliesKeep == LabelsManaged => [Applies /\ obj.control # "true" => KeepsUserLabels]_vars
<1> SUFFICES ASSUME LabelsManaged, Applies, obj.control # "true", NEW l \in PSaLabels,
                    "user" \in ns.owners[l]
             PROVE  ns'.labels[l] = ns.labels[l] /\ "user" \in ns'.owners[l]
  BY DEF KeepsUserLabels
<1>1. ns' = ns \/ (Conflicts(ns, config) = {} /\ ns' = Applied(ns, config))
  BY DEF Applies, OwnHistoricalLabels, ApplyLabels, ApplyLost, mustSync, Write
<1>2. ns \in NamespaceObject /\ config \in Config
  BY Zenon DEF LabelsManaged, TypeOK
<1> QED
  BY <1>1, <1>2, AppliedKeepsUser

\* No apply of the controller touches a label that a user manages, whenever the
\* user took it, on a namespace that did not ask to be synced.
THEOREM ApplyBacksOff == Spec => AppliesBackOff
BY AppliesKeep, Correctness, PTL DEF AppliesBackOff

-----------------------------------------------------------------------------
(* The composition with the controller of the privileged namespaces.       *)

\* The forced apply keeps the types and the agreement.
LEMMA ForcedManaged ==
  ASSUME NEW o \in NamespaceObject, Managed(o)
  PROVE  ForcedPrivileged(o) \in NamespaceObject /\ Managed(ForcedPrivileged(o))
<1> DEFINE p == ForcedPrivileged(o)
<1>1. /\ p.labels = [l \in PSaLabels |-> IF l \in TypeLabels THEN Privileged ELSE o.labels[l]]
      /\ p.owners = [l \in PSaLabels |->
           IF l \notin TypeLabels THEN o.owners[l]
           ELSE IF o.labels[l] = Privileged THEN o.owners[l] \cup {privilegedControllerName}
           ELSE {privilegedControllerName}]
      /\ p = [o EXCEPT !.labels = p.labels, !.owners = p.owners]
  BY DEF ForcedPrivileged, NamespaceObject
<1> HIDE DEF p
<1>2. p.labels \in [PSaLabels -> Levels \cup Versions \cup {None}]
  BY <1>1, PrivilegedAssumption DEF NamespaceObject
<1>3. p.owners \in [PSaLabels -> SUBSET Managers]
  <2>1. \A l \in PSaLabels : p.owners[l] \in SUBSET Managers
    BY <1>1 DEF NamespaceObject, Managers
  <2> QED
    BY <1>1, <2>1
<1>4. p \in NamespaceObject
  BY <1>1, <1>2, <1>3, Zenon DEF NamespaceObject
<1>5. ASSUME NEW l \in PSaLabels PROVE p.labels[l] # None <=> p.owners[l] # {}
  <2>1. CASE l \in TypeLabels
    <3>1. p.labels[l] = Privileged /\ Privileged # None
      BY <1>1, <2>1, PrivilegedAssumption, LabelAssumption
    <3>2. privilegedControllerName \in p.owners[l]
      BY <1>1, <2>1
    <3> QED
      BY <3>1, <3>2
  <2>2. CASE l \notin TypeLabels
    BY <1>1, <2>2 DEF Managed
  <2> QED
    BY <2>1, <2>2
<1> QED
  BY <1>4, <1>5 DEF Managed, p

\* Every step of the two controllers keeps the types and the agreement.
LEMMA ComposedManagedNext == LabelsManaged /\ [ComposedNext]_allVars => LabelsManaged'
<1> SUFFICES ASSUME LabelsManaged, [ComposedNext]_allVars PROVE LabelsManaged'
  OBVIOUS
<1>1. CASE LabelSync \/ Informed
  BY <1>1, ManagedNext, Zenon DEF LabelSync, Informed, Next
<1>2. CASE CrashBoth
  BY <1>2, RestartManaged DEF CrashBoth
<1>3. CASE PrivTake \/ UNCHANGED allVars
  BY <1>3, ManagedNext DEF PrivTake, allVars
<1>4. CASE PrivApply \/ PrivApplyLost
  <2>1. PrivWrite /\ budget' \in 0 .. MaxChanges
    BY <1>4, DisturbType, Zenon DEF PrivApply, PrivApplyLost, LabelsManaged, TypeOK
  <2>2. ns' \in NamespaceObject /\ Managed(ns)'
    BY <2>1, ForcedManaged, Zenon DEF PrivWrite, Write, LabelsManaged, TypeOK, Managed
  <2> QED
    BY <2>1, <2>2, Zenon DEF PrivWrite, Write, LabelsManaged, TypeOK, worker, Managed
<1>5. CASE PrivApplyFails
  BY <1>5, DisturbType, Zenon DEF PrivApplyFails, LabelsManaged, TypeOK, worker, Managed
<1> QED
  BY <1>1, <1>2, <1>3, <1>4, <1>5 DEF ComposedNext

\* Labels and their managers agree also with both controllers at work.
THEOREM ComposedCorrectness == ComposedSpec => []LabelsManaged
<1>1. ComposedInit => LabelsManaged
  BY ManagedInit DEF ComposedInit
<1> QED
  BY <1>1, ComposedManagedNext, PTL DEF ComposedSpec

\* Beside the other controller too, no apply of the label synchronization touches a
\* label that a user manages on a namespace that did not ask to be synced.
THEOREM ComposedBacksOff == ComposedSpec => AppliesBackOff
BY AppliesKeep, ComposedCorrectness, PTL DEF AppliesBackOff

\* The label synchronization is never past its check on the three namespaces that
\* are kept privileged, and the other controller never has any other namespace
\* queued: no namespace has both as writers.
OneWriter ==
  /\ kind = "default" => pc = "idle"
  /\ kind # "default" => ~ privQueued /\ ~ privApplying

\* In no state can both controllers be about to write the namespace, so that they
\* do not undo each other's labels for ever.
THEOREM WritersApart == ComposedSpec => []OneWriter
<1>1. ComposedInit => OneWriter
  BY Zenon DEF ComposedInit, Init, OneWriter
<1>2. OneWriter /\ [ComposedNext]_allVars => OneWriter'
  <2> SUFFICES ASSUME OneWriter, [ComposedNext]_allVars PROVE OneWriter'
    OBVIOUS
  <2> USE DEF OneWriter
  <2>1. CASE LabelSync
    <3>1. kind' = kind /\ UNCHANGED priv
      BY <2>1, Zenon DEF LabelSync, Step, Take, RemoveHistoricalLabels, UpdateAsCPC, UpdateConflicts,
         OwnHistoricalLabels, SyncNamespace, Compute, NotYet, UnknownLevel, ApplyLabels,
         RemoveHistoricalLabelsLost, ApplyLost, CallFails, LevelChanges, Others, UserSets,
         UserRemoves, UserControls, GetsUIDRange, Terminates, UserWrites
    <3>2. CASE kind = "default"
      <4>1. pc = "idle"
        BY <3>2
      <4>2. Take => pc' = "idle"
        BY <3>2 DEF Take, isNSControlled, Finish
      <4>3. LevelChanges \/ Others => pc' = "idle"
        BY <4>1, Zenon DEF LevelChanges, Others, UserSets, UserRemoves, UserControls,
           GetsUIDRange, Terminates, UserWrites, worker
      <4>4. ~ (RemoveHistoricalLabels \/ UpdateConflicts \/ OwnHistoricalLabels \/ ApplyLabels
                \/ RemoveHistoricalLabelsLost \/ ApplyLost \/ CallFails)
        BY <4>1 DEF RemoveHistoricalLabels, UpdateAsCPC, UpdateConflicts, OwnHistoricalLabels,
           ApplyLabels, RemoveHistoricalLabelsLost, ApplyLost, CallFails
      <4>5. ~ SyncNamespace
        BY <4>1 DEF SyncNamespace, Compute, NotYet, UnknownLevel
      <4>6. pc' = "idle"
        BY <2>1, <4>2, <4>3, <4>4, <4>5 DEF LabelSync, Step
      <4> QED
        BY <3>1, <3>2, <4>6
    <3> QED
      BY <3>1, <3>2 DEF priv
  <2>2. CASE Informed
    BY <2>2, Zenon DEF Informed, WatchNamespace, Resync, enqueueNS, NamesFilter, worker
  <2>3. CASE CrashBoth
    BY <2>3, Zenon DEF CrashBoth, Restart, Finish, NamesFilter
  <2>4. CASE PrivTake
    BY <2>4 DEF PrivTake, vars, worker
  <2>5. CASE PrivApply \/ PrivApplyLost
    BY <2>5 DEF PrivApply, PrivApplyLost, PrivWrite, worker
  <2>6. CASE PrivApplyFails
    BY <2>6 DEF PrivApplyFails, worker
  <2>7. CASE UNCHANGED allVars
    BY <2>7 DEF allVars, vars, worker, priv
  <2> QED
    BY <2>1, <2>2, <2>3, <2>4, <2>5, <2>6, <2>7 DEF ComposedNext
<1> QED
  BY <1>1, <1>2, PTL DEF ComposedSpec
=============================================================================
