------------------------ MODULE SCCAllocationProofs ------------------------
(***************************************************************************)
(* Proofs about SCCAllocation, for any set of namespaces, any number of    *)
(* blocks, any users' objects and any number of disturbances.              *)
(***************************************************************************)
EXTENDS SCCAllocation, SequenceTheorems, TLAPS

\* What a write to a namespace does to what is stored: n becomes o, the other
\* namespaces stay.
LEMMA StoreStored ==
  ASSUME TypeOK, NEW n \in Namespaces, NEW o \in NamespaceState, Store(n, o)
  PROVE  /\ versions' \in [Namespaces -> Seq(NamespaceState) \ {<<>>}]
         /\ \A m \in Namespaces : Stored(m)' = IF m = n THEN o ELSE Stored(m)
<1>1. versions[n] \in Seq(NamespaceState) /\ versions[n] # <<>>
  BY DEF TypeOK
<1>2. /\ Append(versions[n], o) \in Seq(NamespaceState) \ {<<>>}
      /\ Len(Append(versions[n], o)) = Len(versions[n]) + 1
      /\ Append(versions[n], o)[Len(versions[n]) + 1] = o
  BY <1>1
<1>3. versions' = [versions EXCEPT ![n] = Append(versions[n], o)]
  BY DEF Store
<1> QED
  BY <1>1, <1>2, <1>3 DEF TypeOK, Stored

\* The delivery of a watch event changes nothing that is stored.
LEMMA WatchStored ==
  ASSUME TypeOK, NEW n \in Namespaces, WatchEvent(n)
  PROVE  /\ versions' \in [Namespaces -> Seq(NamespaceState) \ {<<>>}]
         /\ \A m \in Namespaces : Stored(m)' = Stored(m)
<1>1. versions[n] \in Seq(NamespaceState) /\ Len(versions[n]) > 1
  BY DEF TypeOK, WatchEvent
<1>2. /\ Tail(versions[n]) \in Seq(NamespaceState)
      /\ Len(Tail(versions[n])) = Len(versions[n]) - 1
      /\ Tail(versions[n])[Len(versions[n]) - 1] = versions[n][Len(versions[n])]
  BY <1>1
<1>3. versions' = [versions EXCEPT ![n] = Tail(versions[n])]
  BY DEF WatchEvent
<1>4. Tail(versions[n]) # <<>>
  <2>1. Len(<< >>) = 0
    BY EmptySeq, Zenon
  <2>2. Len(Tail(versions[n])) # 0
    BY <1>1, <1>2
  <2> QED
    BY <2>1, <2>2, Zenon
<1> QED
  BY <1>1, <1>2, <1>3, <1>4 DEF TypeOK, Stored

\* What is listed and what is stored are namespace states, and equal when the
\* watch has delivered everything.
LEMMA StoredType ==
  ASSUME TypeOK, NEW n \in Namespaces
  PROVE  /\ Stored(n) \in NamespaceState
         /\ Lister(n) \in NamespaceState
         /\ Len(versions[n]) = 1 => Lister(n) = Stored(n)
<1>1. versions[n] \in Seq(NamespaceState) /\ versions[n] # <<>>
  BY DEF TypeOK
<1>2. Len(versions[n]) \in Nat /\ Len(versions[n]) > 0
  BY <1>1
<1> QED
  BY <1>1, <1>2 DEF Stored, Lister

\* What a user may write in a namespace is a namespace state.
LEMMA UserObjectType ==
  UserObjects \subseteq NamespaceState /\ AbsentNamespace \in NamespaceState
BY ConstantsAssumption DEF NamespaceState, AbsentNamespace, NoUID, NoLabel

\* TypeOK in the parts that actions change together.
VersionsOK == versions \in [Namespaces -> Seq(NamespaceState) \ {<<>>}]
RangeOK    == ra \in [live : BOOLEAN, match : BOOLEAN, data : SUBSET Blocks]
QueueOK    == queue \subseteq Namespaces \cup {initialRepairKey, DefaultQueueKey}
CurOK      == cur \in [live : BOOLEAN, fresh : BOOLEAN, match : BOOLEAN,
                       data : SUBSET Blocks]
LocalsOK   ==
  /\ pc \in {"idle", "get", "update", "apply",
             "repairGet", "repairList", "repairWrite"}
  /\ key \in Namespaces \cup {initialRepairKey, DefaultQueueKey, NoKey}
  /\ nsCopy \in [mcs : Labels \cup {NoLabel}, fresh : BOOLEAN]
  /\ block \in Blocks \cup {NoBlock}
  /\ pin \in {"none", "absent", "fresh", "stale"}
  /\ view \subseteq Blocks
BudgetOK   == budget \in 0 .. MaxDisturbances
HistoryOK  == assigned \subseteq Namespaces /\ wiped \subseteq Blocks

\* TypeOK is the conjunction of its parts, now and after a step.
LEMMA TypeParts ==
  /\ TypeOK <=> /\ VersionsOK /\ RangeOK /\ QueueOK /\ CurOK /\ LocalsOK
                /\ BudgetOK /\ HistoryOK
  /\ TypeOK' <=> /\ VersionsOK' /\ RangeOK' /\ QueueOK' /\ CurOK' /\ LocalsOK'
                 /\ BudgetOK' /\ HistoryOK'
BY DEF TypeOK, VersionsOK, RangeOK, QueueOK, CurOK, LocalsOK, BudgetOK, HistoryOK

\* A part whose variables do not change keeps its type.
LEMMA TypeUnchanged ==
  /\ VersionsOK /\ UNCHANGED versions => VersionsOK'
  /\ RangeOK /\ UNCHANGED ra => RangeOK'
  /\ QueueOK /\ UNCHANGED queue => QueueOK'
  /\ CurOK /\ UNCHANGED cur => CurOK'
  /\ LocalsOK /\ UNCHANGED <<pc, key, nsCopy, block, pin, view>> => LocalsOK'
  /\ BudgetOK /\ UNCHANGED budget => BudgetOK'
  /\ HistoryOK /\ UNCHANGED <<assigned, wiped>> => HistoryOK'
BY DEF VersionsOK, RangeOK, QueueOK, CurOK, LocalsOK, BudgetOK, HistoryOK

\* The process starts in a state of the right types.
LEMMA TypeInit == Init => TypeOK
<1> SUFFICES ASSUME Init PROVE TypeOK
  OBVIOUS
<1>1. VersionsOK
  <2>1. ASSUME NEW o \in UserObjects \cup {AbsentNamespace}
        PROVE  <<o>> \in Seq(NamespaceState) \ {<<>>}
    BY UserObjectType
  <2> DEFINE V == {<<o>> : o \in UserObjects \cup {AbsentNamespace}}
  <2>2. V \subseteq Seq(NamespaceState) \ {<<>>}
    BY <2>1, Zenon
  <2>3. versions \in [Namespaces -> V]
    BY DEF Init
  <2> HIDE DEF V
  <2> QED
    BY <2>2, <2>3 DEF VersionsOK
<1>2. QueueOK
  BY DEF Init, StartQueue, QueueOK
<1>3. RangeOK
  <2>1. ra = AbsentRange \/ ra = [live |-> TRUE, match |-> FALSE, data |-> {}]
    BY DEF Init
  <2> QED
    <3>1. CASE ra = AbsentRange
      BY <3>1 DEF RangeOK, AbsentRange
    <3>2. CASE ra = [live |-> TRUE, match |-> FALSE, data |-> {}]
      BY <3>2 DEF RangeOK
    <3> QED
      BY <2>1, <3>1, <3>2
<1>4. CurOK
  BY DEF Init, CurOK, NilRange
<1>5. LocalsOK
  BY DEF Init, LocalsOK, NoCopy
<1>6. BudgetOK /\ HistoryOK
  BY ConstantsAssumption DEF Init, BudgetOK, HistoryOK
<1> QED
  BY <1>1, <1>2, <1>3, <1>4, <1>5, <1>6, TypeParts

\* The types of what the shared parts of the actions assign.
LEMMA ReturnLocalsType == ReturnLocals => LocalsOK'
BY DEF ReturnLocals, LocalsOK, NoCopy

\* A failing allocate leaves its locals, the cache and the queue well typed.
LEMMA AllocateFailsType ==
  ASSUME QueueOK, key \in Namespaces, AllocateFails
  PROVE  QueueOK' /\ CurOK' /\ LocalsOK'
<1>1. LocalsOK'
  BY ReturnLocalsType DEF AllocateFails
<1>2. CurOK'
  BY DEF AllocateFails, CurOK, NilRange
<1> QED
  BY <1>1, <1>2 DEF AllocateFails, QueueOK

\* So does a failing Repair.
LEMMA RepairFailsType ==
  ASSUME QueueOK, LocalsOK, key \in {initialRepairKey, DefaultQueueKey}, RepairFails
  PROVE  QueueOK' /\ LocalsOK'
<1>1. CASE /\ pc' = "repairGet" /\ pin' = "none" /\ view' = {}
           /\ UNCHANGED <<queue, key, nsCopy, block>>
  BY <1>1 DEF QueueOK, LocalsOK
<1>2. CASE ReturnLocals /\ queue' = StartQueue
  BY <1>2, ReturnLocalsType DEF StartQueue, QueueOK
<1>3. CASE ReturnLocals /\ queue' = queue \cup {key}
  BY <1>3, ReturnLocalsType DEF QueueOK
<1> QED
  BY <1>1, <1>2, <1>3 DEF RepairFails

\* The bound on disturbances stays a bound.
LEMMA DisturbType == BudgetOK /\ Disturb => BudgetOK'
BY ConstantsAssumption DEF BudgetOK, Disturb

\* A user's step on a namespace writes one state of it, and never makes it a
\* namespace the controller annotated.
UserStep(n) ==
  \/ CreateNamespace(n) \/ DeleteNamespace(n) \/ TouchNamespace(n) \/ StripUID(n)

\* A step of a user writes one namespace; it stays one of the controller's only
\* if what is written is what was stored.
LEMMA UserStepWrites ==
  ASSUME TypeOK, NEW n \in Namespaces, UserStep(n)
  PROVE  /\ assigned' \subseteq assigned
         /\ \E o \in NamespaceState :
              /\ UserWrites(n, o)
              /\ n \in assigned' => ~Stored(n).live \/ o = Stored(n)
<1>1. [Stored(n) EXCEPT !.uid = NoUID] \in NamespaceState
  BY StoredType DEF NamespaceState
<1>2. CASE CreateNamespace(n)
  BY <1>2, UserObjectType DEF CreateNamespace
<1>3. CASE DeleteNamespace(n)
  BY <1>3, UserObjectType DEF DeleteNamespace
<1>4. CASE TouchNamespace(n)
  BY <1>4, StoredType DEF TouchNamespace
<1>5. CASE StripUID(n)
  BY <1>5, <1>1 DEF StripUID
<1> QED
  BY <1>2, <1>3, <1>4, <1>5 DEF UserStep

\* Types are preserved.  AllocationInv gives the types of the worker's key and
\* of the block it reserved at each of its steps, and of the blocks in use.
LEMMA TypeNext == TypeOK /\ AllocationInv /\ [Next]_vars => TypeOK'
<1> SUFFICES ASSUME TypeOK, AllocationInv, [Next]_vars PROVE TypeOK'
  OBVIOUS
<1> USE TypeParts, TypeUnchanged
<1> USE DEF locals, history
<1>1. ASSUME NEW k \in {initialRepairKey, DefaultQueueKey}, StartRepair(k)
      PROVE  TypeOK'
  <2>1. QueueOK' /\ LocalsOK'
    BY <1>1 DEF StartRepair, QueueOK, LocalsOK
  <2> QED
    BY <1>1, <2>1 DEF StartRepair
<1>2. ASSUME NEW n \in Namespaces, SyncNamespace(n) PROVE TypeOK'
  <2>1. QueueOK'
    BY <1>2 DEF SyncNamespace, QueueOK
  <2>2. LocalsOK'
    <3>1. [mcs |-> Lister(n).mcs, fresh |-> Len(versions[n]) = 1]
            \in [mcs : Labels \cup {NoLabel}, fresh : BOOLEAN]
      BY StoredType DEF NamespaceState
    <3> QED
      BY <1>2, <3>1, Zenon DEF SyncNamespace, LocalsOK
  <2> QED
    BY <1>2, <2>1, <2>2 DEF SyncNamespace
<1>3. CASE GetRange
  <2>1. CASE ra.live
    <3>1. CurOK'
      <4>1. cur' = [live |-> TRUE, fresh |-> TRUE,
                    match |-> ra.match, data |-> ra.data]
        BY <1>3, <2>1 DEF GetRange
      <4> QED
        BY <4>1 DEF CurOK, RangeOK
    <3>2. QueueOK' /\ LocalsOK'
      BY <1>3, <2>1 DEF GetRange, LocalsOK, QueueOK
    <3> QED
      BY <1>3, <3>1, <3>2 DEF GetRange
  <2>2. CASE ~ra.live
    BY <1>3, <2>2, AllocateFailsType DEF GetRange, AllocationInv, WorkerCoherent, ReservedIsFree
  <2> QED
    BY <2>1, <2>2
<1>4. CASE RangeUnusable
  BY <1>4, AllocateFailsType DEF RangeUnusable, AllocationInv, WorkerCoherent, ReservedIsFree
<1>5. CASE ReserveBlock
  <2>1. PICK b \in Blocks :
          IF cur.fresh
            THEN /\ ra' = [ra EXCEPT !.data = cur.data \cup {b}]
                 /\ \/ /\ cur' = [cur EXCEPT !.data = @ \cup {b}]
                       /\ block' = b
                       /\ pc' = "apply"
                       /\ UNCHANGED <<queue, key, nsCopy, pin, view, budget>>
                    \/ Disturb /\ AllocateFails
            ELSE AllocateFails /\ UNCHANGED <<ra, budget>>
    BY <1>5 DEF ReserveBlock
  <2>2. UNCHANGED versions /\ UNCHANGED <<assigned, wiped>> /\ key \in Namespaces
    BY <1>5 DEF ReserveBlock, AllocationInv, WorkerCoherent, ReservedIsFree
  <2>3. CASE ~cur.fresh
    BY <2>1, <2>2, <2>3, AllocateFailsType
  <2>4. CASE cur.fresh
    <3>1. RangeOK'
      BY <2>1, <2>4 DEF RangeOK, CurOK
    <3>2. CASE Disturb /\ AllocateFails
      BY <2>2, <3>1, <3>2, AllocateFailsType, DisturbType
    <3>3. CASE ~(Disturb /\ AllocateFails)
      <4>1. CurOK'
        BY <2>1, <2>4, <3>3 DEF CurOK
      <4>2. LocalsOK'
        BY <2>1, <2>4, <3>3 DEF LocalsOK
      <4> QED
        BY <2>1, <2>2, <2>4, <3>1, <3>3, <4>1, <4>2
    <3> QED
      BY <3>2, <3>3
  <2> QED
    BY <2>3, <2>4
<1>6. CASE ApplyNamespace
  <2>1. key \in Namespaces /\ block \in Blocks /\ UNCHANGED ra
    BY <1>6 DEF ApplyNamespace, AllocationInv, WorkerCoherent, ReservedIsFree
  <2>2. CASE ReturnLocals /\ cur' = NilRange /\ UNCHANGED <<versions, queue, budget, history>>
    <3>1. CurOK'
      BY <2>2 DEF CurOK, NilRange
    <3> QED
      BY <2>1, <2>2, <3>1, ReturnLocalsType
  <2>3. CASE AllocateFails /\ UNCHANGED <<versions, budget, history>>
    BY <2>1, <2>3, AllocateFailsType
  <2>4. CASE /\ Store(key, Annotated(Stored(key)))
             /\ assigned' = assigned \cup {key}
             /\ \/ ReturnLocals /\ UNCHANGED <<cur, queue, budget>>
                \/ Disturb /\ AllocateFails
             /\ UNCHANGED wiped
    <3>1. Annotated(Stored(key)) \in NamespaceState
      BY <2>1, ConstantsAssumption DEF Annotated, NamespaceState, LocalsOK
    <3>2. VersionsOK'
      BY <2>1, <2>4, <3>1, StoreStored DEF VersionsOK
    <3>3. HistoryOK'
      BY <2>1, <2>4 DEF HistoryOK
    <3> QED
      BY <2>1, <2>4, <3>2, <3>3, AllocateFailsType, ReturnLocalsType, DisturbType
  <2> QED
    BY <1>6, <2>2, <2>3, <2>4 DEF ApplyNamespace
<1>7. CASE RepairGet
  <2>1. LocalsOK'
    BY <1>7 DEF RepairGet, LocalsOK
  <2> QED
    BY <1>7, <2>1 DEF RepairGet
<1>8. CASE RepairList
  <2>1. /\ key \in {initialRepairKey, DefaultQueueKey}
        /\ UNCHANGED <<versions, ra, cur, budget, history>>
    BY <1>8 DEF RepairList, AllocationInv, WorkerCoherent
  <2>2. CASE RepairFails
    BY <2>1, <2>2, RepairFailsType
  <2>3. CASE /\ view' = ListedUIDs \cap Blocks
             /\ pc' = "repairWrite"
             /\ UNCHANGED <<queue, key, nsCopy, block, pin>>
    <3>1. LocalsOK'
      BY <2>3 DEF LocalsOK
    <3> QED
      BY <2>1, <2>3, <3>1
  <2> QED
    BY <1>8, <2>2, <2>3 DEF RepairList
<1>9. CASE RepairWrite
  <2>1. key \in {initialRepairKey, DefaultQueueKey} /\ view \subseteq Blocks
    BY <1>9 DEF RepairWrite, AllocationInv, WorkerCoherent, ReservedIsFree, LocalsOK
  <2>2. CASE RepairFails /\ UNCHANGED <<ra, cur, wiped, budget, versions, assigned>>
    BY <2>1, <2>2, RepairFailsType
  <2>3. CASE /\ ra' = RepairedRange
             /\ cur' = [cur EXCEPT !.fresh = @ /\ ra = RepairedRange]
             /\ wiped' = wiped \cup (HeldBlocks \ view)
             /\ \/ ReturnLocals /\ UNCHANGED <<queue, budget>>
                \/ Disturb /\ RepairFails
             /\ UNCHANGED <<versions, assigned>>
    <3>1. RangeOK'
      BY <2>1, <2>3 DEF RangeOK, RepairedRange
    <3>2. CurOK'
      BY <2>3, Zenon DEF CurOK
    <3>3. HistoryOK'
      BY <2>3 DEF HistoryOK, HeldBlocks, AllocationInv, BitmapCoversHeld
    <3> QED
      BY <2>1, <2>3, <3>1, <3>2, <3>3, RepairFailsType, ReturnLocalsType, DisturbType
  <2> QED
    BY <1>9, <2>2, <2>3 DEF RepairWrite
<1>10. CASE CallFails
  <2>1. BudgetOK' /\ UNCHANGED <<versions, ra>> /\ UNCHANGED <<assigned, wiped>>
    BY <1>10, DisturbType DEF CallFails
  <2>2. CASE pc \in {"get", "update", "apply"} /\ AllocateFails
    BY <2>1, <2>2, AllocateFailsType DEF AllocationInv, WorkerCoherent, ReservedIsFree
  <2>3. CASE pc \in {"repairGet", "repairWrite"} /\ RepairFails /\ UNCHANGED cur
    BY <2>1, <2>3, RepairFailsType DEF AllocationInv, WorkerCoherent, ReservedIsFree
  <2> QED
    BY <1>10, <2>2, <2>3 DEF CallFails
<1>11. ASSUME NEW n \in Namespaces, WatchEvent(n) PROVE TypeOK'
  <2>1. VersionsOK' /\ QueueOK'
    BY <1>11, WatchStored, Zenon DEF VersionsOK, QueueOK, WatchEvent
  <2> QED
    BY <1>11, <2>1 DEF WatchEvent
<1>12. ASSUME NEW n \in Namespaces, Resync(n) PROVE TypeOK'
  <2>1. QueueOK'
    BY <1>12 DEF QueueOK, Resync
  <2> QED
    BY <1>12, <2>1 DEF Resync
<1>13. CASE RepairTick
  <2>1. QueueOK'
    BY <1>13 DEF QueueOK, RepairTick
  <2> QED
    BY <1>13, <2>1 DEF RepairTick
<1>14. ASSUME NEW n \in Namespaces, UserStep(n) PROVE TypeOK'
  <2>1. PICK o \in NamespaceState : UserWrites(n, o)
    BY <1>14, UserStepWrites
  <2>2. HistoryOK'
    BY <1>14, <2>1, UserStepWrites DEF HistoryOK, UserWrites
  <2>3. VersionsOK'
    BY <2>1, StoreStored DEF UserWrites, VersionsOK
  <2>4. LocalsOK'
    BY <2>1, Zenon DEF UserWrites, Outdate, LocalsOK
  <2> QED
    BY <2>1, <2>2, <2>3, <2>4, DisturbType DEF UserWrites
<1>15. CASE DeleteRange
  <2>1. RangeOK' /\ CurOK'
    BY <1>15, Zenon DEF DeleteRange, RangeOK, CurOK, AbsentRange
  <2>2. LocalsOK'
    BY <1>15 DEF DeleteRange, LocalsOK
  <2> QED
    BY <1>15, <2>1, <2>2, DisturbType DEF DeleteRange
<1>16. CASE Crash
  <2>1. CurOK' /\ QueueOK'
    BY <1>16 DEF Crash, CurOK, QueueOK, NilRange, StartQueue
  <2> QED
    BY <1>16, <2>1, DisturbType, ReturnLocalsType DEF Crash
<1>17. CASE UNCHANGED vars
  BY <1>17 DEF vars
<1> QED
  BY <1>1, <1>2, <1>3, <1>4, <1>5, <1>6, <1>7, <1>8, <1>9, <1>10, <1>11, <1>12,
     <1>13, <1>14, <1>15, <1>16, <1>17
  DEF Next, Worker, UserStep

-----------------------------------------------------------------------------
\* No block is in use when the process first starts.
LEMMA InvInit == Init => AllocationInv
BY DEF Init, AllocationInv, DistinctUnlessWiped, BitmapCoversHeld, CacheCoherent,
   WorkerCoherent, ReservedIsFree, HeldBlocks, NilRange, AbsentRange

\* A step that changes nothing stored in the namespaces of the controller
\* changes nothing about the blocks in use.
LEMMA HeldFrame ==
  ASSUME TypeOK, AllocationInv, assigned' \subseteq assigned, wiped' = wiped,
         \A m \in assigned' : Stored(m)' = Stored(m)
  PROVE  /\ HeldBlocks' \subseteq HeldBlocks
         /\ DistinctUnlessWiped'
         /\ \A m \in assigned' : Stored(m).live' /\ Stored(m).uid' \in Blocks
<1>1. HeldBlocks' \subseteq HeldBlocks
  BY DEF HeldBlocks
<1>2. DistinctUnlessWiped'
  BY DEF AllocationInv, DistinctUnlessWiped
<1> QED
  BY <1>1, <1>2 DEF AllocationInv, BitmapCoversHeld

\* The same when the RangeAllocation stays too, or is deleted.
LEMMA BitmapFrame ==
  ASSUME TypeOK, AllocationInv, assigned' \subseteq assigned, wiped' = wiped,
         \A m \in assigned' : Stored(m)' = Stored(m),
         ra'.live => ra.live /\ ra.data \subseteq ra'.data
  PROVE  DistinctUnlessWiped' /\ BitmapCoversHeld'
BY HeldFrame DEF AllocationInv, BitmapCoversHeld

\* A worker that returns has no obligations left.
LEMMA IdleFrame ==
  pc' = "idle" => WorkerCoherent' /\ ReservedIsFree'
BY DEF WorkerCoherent, ReservedIsFree

\* A step that writes no namespace leaves every stored namespace as it is.
LEMMA StoredUnchanged == UNCHANGED versions => \A m : Stored(m)' = Stored(m)
BY DEF Stored

\* A failed allocate leaves no cached RangeAllocation and an idle worker.
LEMMA AllocateFailsFrame ==
  AllocateFails => CacheCoherent' /\ WorkerCoherent' /\ ReservedIsFree'
BY IdleFrame DEF AllocateFails, ReturnLocals, CacheCoherent, NilRange

\* A failed repair leaves an idle worker, or one that starts over.
LEMMA RepairFailsFrame ==
  RepairFails => WorkerCoherent' /\ ReservedIsFree'
<1>1. CASE key = initialRepairKey /\ pc' = "repairGet" /\ UNCHANGED key
  BY <1>1 DEF WorkerCoherent, ReservedIsFree
<1>2. CASE pc' = "idle"
  BY <1>2, IdleFrame
<1> QED
  BY <1>1, <1>2 DEF RepairFails, ReturnLocals

\* The one step that adds a block in use: the applied namespace was not one of
\* the controller's, and its new block is nobody else's or was wiped.
LEMMA ApplyHeld ==
  ASSUME TypeOK, AllocationInv, pc = "apply", nsCopy.fresh,
         Store(key, Annotated(Stored(key))),
         assigned' = assigned \cup {key}, wiped' = wiped, ra' = ra
  PROVE  DistinctUnlessWiped' /\ BitmapCoversHeld'
<1>1. key \in Namespaces /\ Stored(key).uid = NoUID /\ block \in Blocks
  BY DEF AllocationInv, WorkerCoherent, ReservedIsFree
<1>2. key \notin assigned
  BY <1>1, ConstantsAssumption DEF AllocationInv, BitmapCoversHeld, Blocks, NoUID
<1>3. Annotated(Stored(key)) \in NamespaceState
  BY <1>1, ConstantsAssumption DEF Annotated, NamespaceState, TypeOK
<1>4. \A m \in Namespaces :
        Stored(m)' = IF m = key THEN Annotated(Stored(key)) ELSE Stored(m)
  BY <1>1, <1>3, StoreStored
<1>5. Annotated(Stored(key)).uid = block /\ Annotated(Stored(key)).live
  BY DEF Annotated
<1>6. assigned \subseteq Namespaces
  BY DEF TypeOK
<1>7. HeldBlocks' = HeldBlocks \cup {block}
  BY <1>1, <1>2, <1>4, <1>5, <1>6 DEF HeldBlocks
<1>8. DistinctUnlessWiped'
  <2> SUFFICES ASSUME NEW m \in assigned', NEW n \in assigned', m # n,
                      Stored(m)'.uid = Stored(n)'.uid
               PROVE  Stored(m)'.uid \in wiped
    BY DEF DistinctUnlessWiped
  <2>1. CASE m # key /\ n # key
    BY <2>1, <1>4, <1>6 DEF AllocationInv, DistinctUnlessWiped
  <2>2. CASE m = key \/ n = key
    <3>1. Stored(m)'.uid = block
      BY <2>2, <1>1, <1>4, <1>5
    <3>2. block \in HeldBlocks
      BY <2>2, <3>1, <1>4, <1>6, Zenon DEF HeldBlocks
    <3> QED
      BY <3>1, <3>2 DEF AllocationInv, ReservedIsFree
  <2> QED
    BY <2>1, <2>2
<1>9. \A n \in assigned' : Stored(n)'.live /\ Stored(n)'.uid \in Blocks
  BY <1>1, <1>4, <1>5, <1>6 DEF AllocationInv, BitmapCoversHeld
<1>10. ra'.live => HeldBlocks' \subseteq ra'.data \cup wiped'
  BY <1>7 DEF AllocationInv, BitmapCoversHeld, ReservedIsFree
<1> QED
  BY <1>8, <1>9, <1>10 DEF BitmapCoversHeld

\* Every step keeps the invariant; reserving and applying are the steps that
\* need all of it.
LEMMA InvNext == TypeOK /\ AllocationInv /\ [Next]_vars => AllocationInv'
<1> SUFFICES ASSUME TypeOK, AllocationInv, [Next]_vars PROVE AllocationInv'
  OBVIOUS
<1> USE StoredUnchanged DEF locals, history
<1>1. ASSUME NEW k \in {initialRepairKey, DefaultQueueKey}, StartRepair(k)
      PROVE  AllocationInv'
  <2>1. DistinctUnlessWiped' /\ BitmapCoversHeld'
    BY <1>1, BitmapFrame DEF StartRepair
  <2>2. CacheCoherent' /\ WorkerCoherent' /\ ReservedIsFree'
    BY <1>1, Zenon DEF StartRepair, AllocationInv, CacheCoherent, WorkerCoherent, ReservedIsFree
  <2> QED
    BY <2>1, <2>2 DEF AllocationInv
<1>2. ASSUME NEW n \in Namespaces, SyncNamespace(n) PROVE AllocationInv'
  <2>1. DistinctUnlessWiped' /\ BitmapCoversHeld' /\ CacheCoherent'
    BY <1>2, BitmapFrame, Zenon DEF SyncNamespace, AllocationInv, CacheCoherent
  <2>2. CASE Lister(n).live /\ Lister(n).uid = NoUID
    <3>1. /\ key' = n
          /\ nsCopy' = [mcs |-> Lister(n).mcs, fresh |-> Len(versions[n]) = 1]
          /\ pc' \in {"get", "update"}
          /\ UNCHANGED versions
      BY <1>2, <2>2, Zenon DEF SyncNamespace
    <3>2. nsCopy'.fresh => Lister(n) = Stored(n)
      BY <3>1, StoredType, Zenon
    <3>3. WorkerCoherent' /\ ReservedIsFree'
      BY <2>2, <3>1, <3>2, Zenon DEF WorkerCoherent, ReservedIsFree
    <3> QED
      BY <2>1, <3>3 DEF AllocationInv
  <2>3. CASE ~(Lister(n).live /\ Lister(n).uid = NoUID)
    BY <1>2, <2>1, <2>3, IdleFrame DEF SyncNamespace, Take, AllocationInv
  <2> QED
    BY <2>2, <2>3
<1>3. CASE GetRange
  <2>1. DistinctUnlessWiped' /\ BitmapCoversHeld'
    BY <1>3, BitmapFrame DEF GetRange
  <2>2. CASE ra.live
    <3>1. /\ cur' = [live |-> TRUE, fresh |-> TRUE, match |-> ra.match, data |-> ra.data]
          /\ pc = "get" /\ pc' = "update"
          /\ UNCHANGED <<ra, key, nsCopy, versions>>
      BY <1>3, <2>2 DEF GetRange, locals
    <3>2. CacheCoherent'
      BY <2>2, <3>1 DEF CacheCoherent
    <3>3. WorkerCoherent'
      BY <3>1 DEF AllocationInv, WorkerCoherent, Stored
    <3>4. ReservedIsFree'
      BY <3>1 DEF ReservedIsFree
    <3> QED
      BY <2>1, <3>2, <3>3, <3>4, Zenon DEF AllocationInv
  <2>3. CASE ~ra.live
    BY <1>3, <2>1, <2>3, AllocateFailsFrame DEF GetRange, AllocationInv
  <2> QED
    BY <2>2, <2>3
<1>4. CASE RangeUnusable
  BY <1>4, BitmapFrame, AllocateFailsFrame, Zenon DEF RangeUnusable, AllocationInv
<1>5. CASE ReserveBlock
  <2>1. PICK b \in Blocks :
          /\ allocateNextContiguousBit(b, cur.data)
          /\ IF cur.fresh
               THEN /\ ra' = [ra EXCEPT !.data = cur.data \cup {b}]
                    /\ \/ /\ cur' = [cur EXCEPT !.data = @ \cup {b}]
                          /\ block' = b
                          /\ pc' = "apply"
                          /\ UNCHANGED <<queue, key, nsCopy, pin, view, budget>>
                       \/ Disturb /\ AllocateFails
               ELSE AllocateFails /\ UNCHANGED <<ra, budget>>
    BY <1>5 DEF ReserveBlock
  <2>2. UNCHANGED versions /\ UNCHANGED <<assigned, wiped>> /\ pc = "update"
    BY <1>5 DEF ReserveBlock
  <2>3. CASE ~cur.fresh
    BY <2>1, <2>2, <2>3, BitmapFrame, AllocateFailsFrame DEF AllocationInv
  <2>4. CASE cur.fresh
    <3>1. /\ ra' = [ra EXCEPT !.data = ra.data \cup {b}]
          /\ ra.live /\ cur.data = ra.data /\ cur.match = ra.match
      BY <2>1, <2>4 DEF AllocationInv, CacheCoherent
    <3>2. /\ ra'.data = ra.data \cup {b}
          /\ ra'.live = ra.live
          /\ ra'.match = ra.match
      BY <3>1, Zenon DEF TypeOK
    <3>3. DistinctUnlessWiped' /\ BitmapCoversHeld' /\ HeldBlocks' \subseteq HeldBlocks
      BY <2>2, <3>1, <3>2, BitmapFrame, HeldFrame
    <3>4. CASE AllocateFails
      BY <3>3, <3>4, AllocateFailsFrame DEF AllocationInv
    <3>5. CASE ~AllocateFails
      <4>1. /\ cur' = [cur EXCEPT !.data = @ \cup {b}]
            /\ block' = b /\ pc' = "apply" /\ UNCHANGED <<key, nsCopy>>
        BY <2>1, <2>4, <3>5
      <4>2. CacheCoherent'
        BY <3>1, <3>2, <4>1 DEF CacheCoherent, TypeOK
      <4>3. WorkerCoherent'
        BY <2>2, <4>1 DEF AllocationInv, WorkerCoherent
      <4>4. b \in HeldBlocks => b \in wiped
        BY <2>1, <3>1 DEF AllocationInv, BitmapCoversHeld, allocateNextContiguousBit
      <4>5. ReservedIsFree'
        BY <2>2, <3>2, <3>3, <4>1, <4>4 DEF ReservedIsFree
      <4> QED
        BY <3>3, <4>2, <4>3, <4>5 DEF AllocationInv
    <3> QED
      BY <3>4, <3>5
  <2> QED
    BY <2>3, <2>4
<1>6. CASE ApplyNamespace
  <2>1. pc = "apply" /\ UNCHANGED ra
    BY <1>6 DEF ApplyNamespace
  <2>2. CASE ReturnLocals /\ cur' = NilRange /\ UNCHANGED <<versions, queue, budget, history>>
    BY <2>1, <2>2, BitmapFrame, IdleFrame, Zenon
    DEF ReturnLocals, AllocationInv, CacheCoherent, NilRange
  <2>3. CASE AllocateFails /\ UNCHANGED <<versions, budget, history>>
    BY <2>1, <2>3, BitmapFrame, AllocateFailsFrame DEF AllocationInv
  <2>4. CASE /\ nsCopy.fresh
             /\ Store(key, Annotated(Stored(key)))
             /\ assigned' = assigned \cup {key}
             /\ \/ ReturnLocals /\ UNCHANGED <<cur, queue, budget>>
                \/ Disturb /\ AllocateFails
             /\ UNCHANGED wiped
    <3>1. DistinctUnlessWiped' /\ BitmapCoversHeld'
      BY <2>1, <2>4, ApplyHeld
    <3>2. CacheCoherent' /\ WorkerCoherent' /\ ReservedIsFree'
      BY <2>1, <2>4, IdleFrame, AllocateFailsFrame
      DEF ReturnLocals, AllocationInv, CacheCoherent
    <3> QED
      BY <3>1, <3>2 DEF AllocationInv
  <2> QED
    BY <1>6, <2>2, <2>3, <2>4 DEF ApplyNamespace
<1>7. CASE RepairGet \/ RepairList
  <2>1. DistinctUnlessWiped' /\ BitmapCoversHeld' /\ CacheCoherent'
    BY <1>7, BitmapFrame, Zenon DEF RepairGet, RepairList, AllocationInv, CacheCoherent
  <2>2. CASE RepairFails
    BY <2>1, <2>2, RepairFailsFrame DEF AllocationInv
  <2>3. CASE pc \in {"repairGet", "repairList"} /\ pc' \in {"repairList", "repairWrite"}
             /\ UNCHANGED key
    <3>1. WorkerCoherent' /\ ReservedIsFree'
      BY <2>3 DEF AllocationInv, WorkerCoherent, ReservedIsFree
    <3> QED
      BY <2>1, <3>1 DEF AllocationInv
  <2> QED
    BY <1>7, <2>2, <2>3 DEF RepairGet, RepairList
<1>8. CASE RepairWrite
  <2>1. pc = "repairWrite" /\ UNCHANGED <<versions, assigned>>
    BY <1>8 DEF RepairWrite
  <2>2. CASE RepairFails /\ UNCHANGED <<ra, cur, wiped, budget>>
    BY <2>1, <2>2, BitmapFrame, RepairFailsFrame, Zenon DEF AllocationInv, CacheCoherent
  <2>3. CASE /\ ra' = RepairedRange
             /\ cur' = [cur EXCEPT !.fresh = @ /\ ra = RepairedRange]
             /\ wiped' = wiped \cup (HeldBlocks \ view)
             /\ \/ ReturnLocals /\ UNCHANGED <<queue, budget>>
                \/ Disturb /\ RepairFails
    <3>1. HeldBlocks' = HeldBlocks
      BY <2>1 DEF HeldBlocks
    <3>2. DistinctUnlessWiped'
      BY <2>1, <2>3 DEF AllocationInv, DistinctUnlessWiped
    <3>3. BitmapCoversHeld'
      BY <2>1, <2>3, <3>1 DEF AllocationInv, BitmapCoversHeld, RepairedRange
    <3>4. CacheCoherent'
      BY <2>3, Zenon DEF AllocationInv, CacheCoherent, TypeOK
    <3>5. WorkerCoherent' /\ ReservedIsFree'
      BY <2>3, IdleFrame, RepairFailsFrame DEF ReturnLocals
    <3> QED
      BY <3>2, <3>3, <3>4, <3>5 DEF AllocationInv
  <2> QED
    BY <1>8, <2>2, <2>3 DEF RepairWrite
<1>9. CASE CallFails
  <2>1. DistinctUnlessWiped' /\ BitmapCoversHeld'
    BY <1>9, BitmapFrame DEF CallFails
  <2>2. CASE AllocateFails
    BY <2>1, <2>2, AllocateFailsFrame DEF AllocationInv
  <2>3. CASE RepairFails /\ UNCHANGED cur
    BY <1>9, <2>1, <2>3, RepairFailsFrame, Zenon DEF CallFails, AllocationInv, CacheCoherent
  <2> QED
    BY <1>9, <2>2, <2>3 DEF CallFails
<1>10. ASSUME NEW n \in Namespaces, WatchEvent(n) PROVE AllocationInv'
  <2>1. \A m \in Namespaces : Stored(m)' = Stored(m)
    BY <1>10, WatchStored
  <2>2. assigned' = assigned /\ wiped' = wiped /\ ra' = ra /\ assigned \subseteq Namespaces
    BY <1>10 DEF WatchEvent, TypeOK
  <2>3. DistinctUnlessWiped' /\ BitmapCoversHeld' /\ HeldBlocks' \subseteq HeldBlocks
    BY <2>1, <2>2, BitmapFrame, HeldFrame
  <2>4. CacheCoherent' /\ WorkerCoherent' /\ ReservedIsFree'
    BY <1>10, <2>1, <2>3, Zenon
    DEF WatchEvent, AllocationInv, CacheCoherent, WorkerCoherent, ReservedIsFree
  <2> QED
    BY <2>3, <2>4 DEF AllocationInv
<1>11. CASE RepairTick \/ (\E n \in Namespaces : Resync(n)) \/ UNCHANGED vars
  <2>1. UNCHANGED <<versions, ra, cur, pc, key, nsCopy, block, assigned, wiped>>
    BY <1>11 DEF RepairTick, Resync, vars
  <2>2. DistinctUnlessWiped' /\ BitmapCoversHeld' /\ HeldBlocks' \subseteq HeldBlocks
    BY <2>1, BitmapFrame, HeldFrame, Zenon
  <2> QED
    BY <2>1, <2>2 DEF AllocationInv, CacheCoherent, WorkerCoherent, ReservedIsFree
<1>12. ASSUME NEW n \in Namespaces, UserStep(n) PROVE AllocationInv'
  <2>1. PICK o \in NamespaceState :
          UserWrites(n, o) /\ (n \in assigned' => ~Stored(n).live \/ o = Stored(n))
    BY <1>12, UserStepWrites
  <2>2. assigned' \subseteq assigned /\ assigned \subseteq Namespaces
    BY <1>12, UserStepWrites DEF TypeOK
  <2>3. \A m \in Namespaces : Stored(m)' = IF m = n THEN o ELSE Stored(m)
    BY <2>1, StoreStored DEF UserWrites
  <2>4. \A m \in assigned' : Stored(m)' = Stored(m)
    BY <2>1, <2>2, <2>3 DEF AllocationInv, BitmapCoversHeld
  <2>5. UNCHANGED <<ra, cur, pc, key, block, wiped>>
    BY <2>1 DEF UserWrites
  <2>6. DistinctUnlessWiped' /\ BitmapCoversHeld' /\ HeldBlocks' \subseteq HeldBlocks
    BY <2>2, <2>4, <2>5, BitmapFrame, HeldFrame
  <2>7. nsCopy'.mcs = nsCopy.mcs /\ (nsCopy'.fresh => nsCopy.fresh /\ key # n)
    BY <2>1, Zenon DEF UserWrites, Outdate, TypeOK
  <2>8. CacheCoherent' /\ WorkerCoherent' /\ ReservedIsFree'
    BY <2>3, <2>5, <2>6, <2>7, Zenon
    DEF AllocationInv, CacheCoherent, WorkerCoherent, ReservedIsFree
  <2> QED
    BY <2>6, <2>8 DEF AllocationInv
<1>13. CASE DeleteRange
  <2>1. UNCHANGED <<versions, pc, key, nsCopy, block, assigned, wiped>> /\ ~ra'.live
    BY <1>13 DEF DeleteRange, AbsentRange
  <2>2. DistinctUnlessWiped' /\ BitmapCoversHeld' /\ HeldBlocks' \subseteq HeldBlocks
    BY <2>1, BitmapFrame, HeldFrame, Zenon
  <2>3. CacheCoherent'
    BY <1>13 DEF DeleteRange, CacheCoherent, TypeOK
  <2> QED
    BY <2>1, <2>2, <2>3, Zenon DEF AllocationInv, WorkerCoherent, ReservedIsFree
<1>14. CASE Crash
  BY <1>14, BitmapFrame, IdleFrame, Zenon
  DEF Crash, ReturnLocals, AllocationInv, CacheCoherent, NilRange
<1> QED
  BY <1>1, <1>2, <1>3, <1>4, <1>5, <1>6, <1>7, <1>8, <1>9, <1>10, <1>11, <1>12,
     <1>13, <1>14
  DEF Next, Worker, UserStep

-----------------------------------------------------------------------------
\* Types and the inductive invariant hold in every reachable state.
THEOREM Correctness == Spec => []SafetyInv
<1>1. Init => SafetyInv
  BY TypeInit, InvInit DEF SafetyInv
<1>2. SafetyInv /\ [Next]_vars => SafetyInv'
  BY TypeNext, InvNext DEF SafetyInv
<1> QED
  BY <1>1, <1>2, PTL DEF Spec

\* Two namespaces annotated by allocate share a UID block only if a Repair
\* dropped that block from the bitmap while it was in use; so they never do if
\* every Repair sees all the annotations that were written before it.
THEOREM Uniqueness == Spec => []DistinctUnlessWiped
<1>1. SafetyInv => DistinctUnlessWiped
  BY DEF SafetyInv, AllocationInv
<1> QED
  BY <1>1, Correctness, PTL

\* A step of the worker never changes a uid-range or MCS annotation of a stored
\* namespace: only ApplyNamespace writes one, and only over the version that
\* syncNamespace found without a uid-range and took the label from.
THEOREM AnnotationsAreKept == Spec => AnnotationsKept
<1>1. SafetyInv /\ [Next]_vars => [KeepsAnnotations]_vars
  <2> SUFFICES ASSUME TypeOK, AllocationInv, Next PROVE KeepsAnnotations
    BY DEF SafetyInv
  <2>1. CASE UNCHANGED versions
    BY <2>1, StoredUnchanged DEF KeepsAnnotations
  <2>2. CASE pc' = pc
    BY <2>2 DEF KeepsAnnotations
  <2>3. CASE ApplyNamespace /\ ~UNCHANGED versions
    <3>1. /\ pc = "apply" /\ nsCopy.fresh
          /\ Store(key, Annotated(Stored(key)))
      BY <2>3 DEF ApplyNamespace
    <3>2. /\ key \in Namespaces /\ block \in Blocks
          /\ Stored(key).uid = NoUID /\ Stored(key).mcs = nsCopy.mcs
      BY <3>1, Zenon DEF AllocationInv, WorkerCoherent, ReservedIsFree
    <3>3. Annotated(Stored(key)) \in NamespaceState
      BY <3>2, ConstantsAssumption, Zenon DEF Annotated, NamespaceState, TypeOK
    <3>4. \A m \in Namespaces :
            Stored(m)' = IF m = key THEN Annotated(Stored(key)) ELSE Stored(m)
      BY <3>1, <3>2, <3>3, StoreStored, Zenon
    <3>5. /\ Annotated(Stored(key)).live
          /\ nsCopy.mcs # NoLabel => Annotated(Stored(key)).mcs = nsCopy.mcs
      BY Zenon DEF Annotated
    <3> QED
      BY <3>2, <3>4, <3>5 DEF KeepsAnnotations
  <2>4. UNCHANGED versions \/ pc' = pc \/ ApplyNamespace
    BY Zenon DEF Next, Worker, StartRepair, SyncNamespace, GetRange, RangeUnusable,
       ReserveBlock, RepairGet, RepairList, RepairWrite, CallFails, WatchEvent,
       Resync, RepairTick, CreateNamespace, DeleteNamespace, TouchNamespace,
       StripUID, UserWrites, DeleteRange, Crash
  <2> QED
    BY <2>1, <2>2, <2>3, <2>4
<1> QED
  BY <1>1, Correctness, PTL DEF Spec, AnnotationsKept
=============================================================================
