--------------------------- MODULE SCCAllocation ---------------------------
(***************************************************************************)
(* The namespace SCC allocation controller                                 *)
(* (src/pkg/security/controller/namespace_scc_allocation_controller.go):   *)
(* it gives every namespace a block of UIDs and an MCS label, keeping the  *)
(* blocks in use as a bitmap in one RangeAllocation object.                *)
(*                                                                         *)
(* One worker takes keys from a work queue.  A step of the worker is what  *)
(* it does up to and including one call to the API server, so that users,  *)
(* watch events and crashes fall between any two calls.  A resource        *)
(* version is abstracted to what it is compared for: whether a copy is     *)
(* still the object the server stores.                                     *)
(***************************************************************************)
EXTENDS Integers, Sequences, FiniteSets

CONSTANTS
  Namespaces,       \* names of namespaces
  NumBlocks,        \* requiredUIDRange.Size()
  Labels,           \* MCS labels
  mcsAllocator,     \* the label of each block (NoLabel: a nil label)
  UserObjects,      \* the namespace objects users create
  MaxLag,           \* users let at most this many watch events pile up
  MaxDisturbances   \* bound on the steps of users, faults and crashes

Blocks == 0 .. NumBlocks - 1

NoUID    == -1      \* no uid-range annotation
Unusable == -2      \* one that does not parse, or is outside the range
Refused  == -3      \* one whose block wraps around 2^32: the range's test lets
                    \* it pass, and the bitmap has no bit for it
NoLabel  == -1      \* no MCS annotation
NoBlock  == -1

\* The two keys of the work queue that are not namespaces.
initialRepairKey == "initialRepair"
DefaultQueueKey  == "key"
NoKey            == "none"

\* A namespace as an observer finds it: live is FALSE where there is none.
\* sg: who set the supplemental-groups annotation, this controller ("own") or
\* another field manager, to a value that is no block ("foreign").
NamespaceState ==
  [live : BOOLEAN, uid : Blocks \cup {NoUID, Unusable, Refused},
   mcs : Labels \cup {NoLabel}, sg : {"none", "own", "foreign"}]

AbsentNamespace ==
  [live |-> FALSE, uid |-> NoUID, mcs |-> NoLabel, sg |-> "none"]

ASSUME ConstantsAssumption ==
  /\ NumBlocks \in Nat
  /\ MaxLag \in Nat
  /\ MaxDisturbances \in Nat
  /\ Labels \subseteq Nat
  /\ mcsAllocator \in [Blocks -> Labels \cup {NoLabel}]
  /\ UserObjects \subseteq {o \in NamespaceState : o.live /\ o.sg # "own"}
  /\ {initialRepairKey, DefaultQueueKey, NoKey} \cap Namespaces = {}

VARIABLES
  versions,    \* versions[n]: what the lister shows, then the states of n the
               \* watch has still to deliver; the last one is what is stored
  ra,          \* the stored RangeAllocation; match: its Range is the required
  queue,       \* the keys waiting in the work queue
  cur,         \* c.currentUIDRangeAllocation (live = FALSE: nil)
  pc,          \* the next call of the worker
  key,         \* the key being synced
  nsCopy,      \* the worker's copy of namespace key: its label, and whether
               \* its resource version is still the stored one
  block,       \* the block reserved for it
  pin,         \* Repair's copy of the RangeAllocation
  view,        \* the blocks Repair found in the lister
  budget,      \* disturbances left
  assigned,    \* history: namespaces whose block this controller wrote
  wiped        \* history: blocks dropped from the bitmap while they were held

locals  == <<key, nsCopy, block, pin, view>>
history == <<assigned, wiped>>
vars    == <<versions, ra, queue, cur, pc, locals, budget, history>>

Lister(n) == Head(versions[n])
Stored(n) == versions[n][Len(versions[n])]

NilRange    == [live |-> FALSE, fresh |-> FALSE, match |-> FALSE, data |-> {}]
AbsentRange == [live |-> FALSE, match |-> FALSE, data |-> {}]
NoCopy      == [mcs |-> NoLabel, fresh |-> FALSE]

HeldBlocks == {Stored(n).uid : n \in assigned}

TypeOK ==
  /\ versions \in [Namespaces -> Seq(NamespaceState) \ {<<>>}]
  /\ ra \in [live : BOOLEAN, match : BOOLEAN, data : SUBSET Blocks]
  /\ queue \subseteq Namespaces \cup {initialRepairKey, DefaultQueueKey}
  /\ cur \in [live : BOOLEAN, fresh : BOOLEAN, match : BOOLEAN,
              data : SUBSET Blocks]
  /\ pc \in {"idle", "get", "update", "apply",
             "repairGet", "repairList", "repairWrite"}
  /\ key \in Namespaces \cup {initialRepairKey, DefaultQueueKey, NoKey}
  /\ nsCopy \in [mcs : Labels \cup {NoLabel}, fresh : BOOLEAN]
  /\ block \in Blocks \cup {NoBlock}
  /\ pin \in {"none", "absent", "fresh", "stale"}
  /\ view \subseteq Blocks
  /\ budget \in 0 .. MaxDisturbances
  /\ assigned \subseteq Namespaces
  /\ wiped \subseteq Blocks

-----------------------------------------------------------------------------
(* The process starts with the initial repair at the head of its queue and *)
(* an Add event for every namespace its informer lists.                    *)
StartQueue == {initialRepairKey} \cup {n \in Namespaces : Lister(n).live}

Init ==
  /\ versions \in [Namespaces -> {<<o>> : o \in UserObjects \cup {AbsentNamespace}}]
  /\ ra \in {AbsentRange, [live |-> TRUE, match |-> FALSE, data |-> {}]}
  /\ queue = StartQueue
  /\ cur = NilRange
  /\ pc = "idle"
  /\ key = NoKey /\ nsCopy = NoCopy /\ block = NoBlock
  /\ pin = "none" /\ view = {}
  /\ budget = MaxDisturbances
  /\ assigned = {} /\ wiped = {}

Disturb == budget > 0 /\ budget' = budget - 1

\* The handler returns and its locals are gone.
ReturnLocals ==
  /\ pc' = "idle"
  /\ key' = NoKey /\ nsCopy' = NoCopy /\ block' = NoBlock
  /\ pin' = "none" /\ view' = {}

\* Faulty: the failed key is not queued again.
ForgetKey ==
  /\ ReturnLocals
  /\ cur' = NilRange
  /\ UNCHANGED queue

\* allocate returns an error: the deferred function clears the cached
\* RangeAllocation, and the key goes back to the queue.
AllocateFails ==
  /\ ReturnLocals
  /\ cur' = NilRange
  /\ queue' = queue \cup {key}

\* Repair returns an error.  WaitForRepair polls it again until its time is
\* over, which is fatal: the process ends and another one starts.  A periodic
\* repair goes back to the queue.
RepairFails ==
  \/ /\ key = initialRepairKey
     /\ pc' = "repairGet" /\ pin' = "none" /\ view' = {}
     /\ UNCHANGED <<queue, key, nsCopy, block>>
  \/ /\ key = initialRepairKey
     /\ ReturnLocals
     /\ queue' = StartQueue
  \/ /\ key # initialRepairKey
     /\ ReturnLocals
     /\ queue' = queue \cup {key}

\* A new version of n is stored: the watch will deliver it, and the worker's
\* copy of n, if it has one, is no longer the stored object.
Store(n, o) == versions' = [versions EXCEPT ![n] = Append(@, o)]
Outdate(n)  == nsCopy' = [nsCopy EXCEPT !.fresh = @ /\ key # n]

-----------------------------------------------------------------------------
(* The worker takes a key.  The initial repair was queued before anything  *)
(* else and there is one worker, so no other key is taken before it.       *)
Take(k) ==
  /\ pc = "idle"
  /\ k \in queue
  /\ initialRepairKey \in queue => k = initialRepairKey

StartRepair(k) ==
  /\ Take(k)
  /\ k \in {initialRepairKey, DefaultQueueKey}
  /\ queue' = queue \ {k}
  /\ key' = k
  /\ pc' = "repairGet"
  /\ UNCHANGED <<versions, ra, cur, nsCopy, block, pin, view, budget, history>>

\* Faulty: the patch does not carry the resource version of the lister's copy.
SyncUnversioned(n) ==
  /\ Take(n)
  /\ queue' = queue \ {n}
  /\ IF Lister(n).live /\ Lister(n).uid = NoUID
       THEN /\ key' = n
            /\ nsCopy' = [mcs |-> Lister(n).mcs, fresh |-> TRUE]
            /\ pc' = IF cur.live THEN "update" ELSE "get"
       ELSE UNCHANGED <<pc, key, nsCopy>>
  /\ UNCHANGED <<versions, ra, cur, block, pin, view, budget, history>>

\* syncNamespace: nothing to do for a namespace the lister does not have, or
\* that is annotated; otherwise allocate, with a Get if nothing is cached.
SyncNamespace(n) ==
  /\ Take(n)
  /\ queue' = queue \ {n}
  /\ IF Lister(n).live /\ Lister(n).uid = NoUID
       THEN /\ key' = n
            /\ nsCopy' = [mcs |-> Lister(n).mcs, fresh |-> Len(versions[n]) = 1]
            /\ pc' = IF cur.live THEN "update" ELSE "get"
       ELSE UNCHANGED <<pc, key, nsCopy>>
  /\ UNCHANGED <<versions, ra, cur, block, pin, view, budget, history>>

\* allocate: Get of the RangeAllocation.
GetRange ==
  /\ pc = "get"
  /\ IF ra.live
       THEN /\ cur' = [live |-> TRUE, fresh |-> TRUE,
                       match |-> ra.match, data |-> ra.data]
            /\ pc' = "update"
            /\ UNCHANGED <<queue, locals>>
       ELSE AllocateFails
  /\ UNCHANGED <<versions, ra, budget, history>>

\* Faulty: the bit found may already be set.
AnyBit(b, data) ==
  /\ b \in Blocks
  /\ \A i \in Blocks : i < b => i \in data

\* The first free bit of the bitmap.
allocateNextContiguousBit(b, data) ==
  /\ b \in Blocks \ data
  /\ \A i \in Blocks : i < b => i \in data

\* allocate gives up on the cached bitmap before it writes anything: it is of
\* another range, or has no free bit.
RangeUnusable ==
  /\ pc = "update"
  /\ ~cur.match \/ Blocks \subseteq cur.data
  /\ AllocateFails
  /\ UNCHANGED <<versions, ra, budget, history>>

\* allocate: the bit is set and the RangeAllocation updated.  The update is
\* refused unless the cached copy is the stored one; when the answer is lost
\* the bit is set and the worker does not know.
ReserveBlock ==
  /\ pc = "update"
  /\ cur.match
  /\ \E b \in Blocks :
       /\ allocateNextContiguousBit(b, cur.data)
       /\ IF cur.fresh
            THEN /\ ra' = [ra EXCEPT !.data = cur.data \cup {b}]
                 /\ \/ /\ cur' = [cur EXCEPT !.data = @ \cup {b}]
                       /\ block' = b
                       /\ pc' = "apply"
                       /\ UNCHANGED <<queue, key, nsCopy, pin, view, budget>>
                    \/ Disturb /\ AllocateFails
            ELSE AllocateFails /\ UNCHANGED <<ra, budget>>
  /\ UNCHANGED <<versions, history>>

\* The namespace once the annotations are applied: a label it has is kept.
Annotated(o) ==
  [live |-> TRUE, uid |-> block, sg |-> "own",
   mcs |-> IF nsCopy.mcs # NoLabel THEN nsCopy.mcs ELSE mcsAllocator[block]]

\* allocate: server-side apply, refused when the namespace is not the version
\* the lister showed or when another manager owns the supplemental groups.
\* A namespace that is gone is not an error, but the cached range is dropped.
ApplyNamespace ==
  /\ pc = "apply"
  /\ LET o == Stored(key) IN
       \/ /\ ~o.live
          /\ ReturnLocals
          /\ cur' = NilRange
          /\ UNCHANGED <<versions, queue, budget, history>>
       \/ /\ o.live
          /\ ~nsCopy.fresh \/ o.sg = "foreign"
          /\ AllocateFails
          /\ UNCHANGED <<versions, budget, history>>
       \/ /\ o.live /\ nsCopy.fresh /\ o.sg # "foreign"
          /\ Store(key, Annotated(o))
          /\ assigned' = assigned \cup {key}
          /\ \/ ReturnLocals /\ UNCHANGED <<cur, queue, budget>>
             \/ Disturb /\ AllocateFails
          /\ UNCHANGED wiped
  /\ UNCHANGED ra

-----------------------------------------------------------------------------
(* Repair: get the RangeAllocation to pin its version, list the namespaces *)
(* from the lister, and write the bitmap of the blocks found there.        *)
RepairGet ==
  /\ pc = "repairGet"
  /\ pin' = IF ra.live THEN "fresh" ELSE "absent"
  /\ pc' = "repairList"
  /\ UNCHANGED <<versions, ra, queue, cur, key, nsCopy, block, view, budget, history>>

\* The annotations of the namespaces the lister has.
ListedUIDs == {Lister(n).uid : n \in {m \in Namespaces : Lister(m).live}}

\* An annotation the allocator answers with an error that Repair does not know
\* fails the whole repair; one that does not parse or is not in range is
\* skipped.
RepairList ==
  /\ pc = "repairList"
  /\ IF Refused \in ListedUIDs
       THEN RepairFails
       ELSE /\ view' = ListedUIDs \cap Blocks
            /\ pc' = "repairWrite"
            /\ UNCHANGED <<queue, key, nsCopy, block, pin>>
  /\ UNCHANGED <<versions, ra, cur, budget, history>>

\* Faulty: the blocks found are added to the bitmap instead of replacing it.
MergedRange == [live |-> TRUE, match |-> TRUE, data |-> view \cup ra.data]

\* What is stored once the write succeeds.
RepairedRange == [live |-> TRUE, match |-> TRUE, data |-> view]

\* The write is refused when the pinned version is no longer the stored one.
\* It changes nothing, the version included, if it writes what is there; the
\* cached RangeAllocation is not touched, but may now be out of date.
RepairWrite ==
  /\ pc = "repairWrite"
  /\ IF (pin = "absent" /\ ~ra.live) \/ pin = "fresh"
       THEN /\ ra' = RepairedRange
            /\ cur' = [cur EXCEPT !.fresh = @ /\ ra = RepairedRange]
            /\ wiped' = wiped \cup (HeldBlocks \ view)
            /\ \/ ReturnLocals /\ UNCHANGED <<queue, budget>>
               \/ Disturb /\ RepairFails
       ELSE RepairFails /\ UNCHANGED <<ra, cur, wiped, budget>>
  /\ UNCHANGED <<versions, assigned>>

\* A call of the worker fails and has no effect on the server.
CallFails ==
  /\ Disturb
  /\ \/ pc \in {"get", "update", "apply"} /\ AllocateFails
     \/ pc \in {"repairGet", "repairWrite"} /\ RepairFails /\ UNCHANGED cur
  /\ UNCHANGED <<versions, ra, history>>

-----------------------------------------------------------------------------
(* The rest of the process, and its environment.                           *)

\* The informer delivers the next state of n; its handler queues n unless the
\* event is a deletion.
WatchEvent(n) ==
  /\ Len(versions[n]) > 1
  /\ versions' = [versions EXCEPT ![n] = Tail(@)]
  /\ queue' = IF versions[n][2].live THEN queue \cup {n} ELSE queue
  /\ UNCHANGED <<ra, cur, pc, locals, budget, history>>

\* The informer's resync queues every namespace again.
Resync(n) ==
  /\ Lister(n).live
  /\ queue' = queue \cup {n}
  /\ UNCHANGED <<versions, ra, cur, pc, locals, budget, history>>

\* The schedule of the periodic repair.
RepairTick ==
  /\ queue' = queue \cup {DefaultQueueKey}
  /\ UNCHANGED <<versions, ra, cur, pc, locals, budget, history>>

\* Users create and delete namespaces, edit other fields of them, or remove
\* the uid-range annotation.
UserWrites(n, o) ==
  /\ Disturb
  /\ Len(versions[n]) <= MaxLag
  /\ Store(n, o)
  /\ Outdate(n)
  /\ UNCHANGED <<ra, queue, cur, pc, key, block, pin, view, wiped>>

CreateNamespace(n) ==
  /\ ~Stored(n).live
  /\ \E o \in UserObjects : UserWrites(n, o)
  /\ UNCHANGED assigned

DeleteNamespace(n) ==
  /\ Stored(n).live
  /\ UserWrites(n, AbsentNamespace)
  /\ assigned' = assigned \ {n}

TouchNamespace(n) ==
  /\ Stored(n).live
  /\ UserWrites(n, Stored(n))
  /\ UNCHANGED assigned

StripUID(n) ==
  /\ Stored(n).live /\ Stored(n).uid # NoUID
  /\ UserWrites(n, [Stored(n) EXCEPT !.uid = NoUID])
  /\ assigned' = assigned \ {n}

\* The RangeAllocation is deleted; every copy of it is out of date.
DeleteRange ==
  /\ Disturb
  /\ ra.live
  /\ ra' = AbsentRange
  /\ cur' = [cur EXCEPT !.fresh = FALSE]
  /\ pin' = IF pin = "fresh" THEN "stale" ELSE pin
  /\ UNCHANGED <<versions, queue, pc, key, nsCopy, block, view, history>>

\* The process dies and another one starts; what its informer lists may lag as
\* far as what the old one saw.
Crash ==
  /\ Disturb
  /\ ReturnLocals
  /\ cur' = NilRange
  /\ queue' = StartQueue
  /\ UNCHANGED <<versions, ra, history>>

-----------------------------------------------------------------------------
Worker ==
  \/ \E k \in {initialRepairKey, DefaultQueueKey} : StartRepair(k)
  \/ \E n \in Namespaces : SyncNamespace(n)
  \/ GetRange \/ RangeUnusable \/ ReserveBlock \/ ApplyNamespace
  \/ RepairGet \/ RepairList \/ RepairWrite \/ CallFails

Next ==
  \/ Worker
  \/ \E n \in Namespaces :
       \/ WatchEvent(n) \/ Resync(n)
       \/ CreateNamespace(n) \/ DeleteNamespace(n)
       \/ TouchNamespace(n) \/ StripUID(n)
  \/ RepairTick \/ DeleteRange \/ Crash

Spec == Init /\ [][Next]_vars

\* Informers keep delivering, the worker keeps going and the repair schedule
\* keeps firing.  The work queue is first in, first out, so a key that keeps
\* being queued is taken in the end (strong fairness).
Fairness ==
  /\ \A n \in Namespaces : WF_vars(WatchEvent(n)) /\ SF_vars(SyncNamespace(n))
  /\ SF_vars(StartRepair(DefaultQueueKey))
  /\ WF_vars(StartRepair(initialRepairKey)
               \/ GetRange \/ RangeUnusable \/ ReserveBlock \/ ApplyNamespace
               \/ RepairGet \/ RepairList \/ RepairWrite)
  /\ WF_vars(RepairTick)

FairSpec == Spec /\ Fairness

-----------------------------------------------------------------------------
(* Properties.                                                             *)

\* No two namespaces annotated by the controller have the same UID block.
DistinctBlocks ==
  \A m, n \in assigned : m # n => Stored(m).uid # Stored(n).uid

\* Two namespaces annotated by the controller (allocate) share a UID block
\* only if a Repair dropped that block from the bitmap while it was in use.
DistinctUnlessWiped ==
  \A m, n \in assigned :
    m # n /\ Stored(m).uid = Stored(n).uid => Stored(m).uid \in wiped

\* The bitmap covers the blocks in use, except those a Repair wiped.
BitmapCoversHeld ==
  /\ \A n \in assigned : Stored(n).live /\ Stored(n).uid \in Blocks
  /\ ra.live => HeldBlocks \subseteq ra.data \cup wiped

\* A cached RangeAllocation whose version is current equals the stored one.
CacheCoherent ==
  cur.fresh => ra.live /\ cur.data = ra.data /\ cur.match = ra.match

\* The worker's key fits its step, and a copy of the namespace whose version
\* is current equals the stored one.
WorkerCoherent ==
  /\ pc \in {"repairGet", "repairList", "repairWrite"} =>
       key \in {initialRepairKey, DefaultQueueKey}
  /\ pc \in {"get", "update", "apply"} =>
       /\ key \in Namespaces
       /\ nsCopy.fresh => /\ Stored(key).live /\ Stored(key).uid = NoUID
                          /\ Stored(key).mcs = nsCopy.mcs

\* Between the two writes of allocate the reserved block is marked in the
\* bitmap and is nobody's.
ReservedIsFree ==
  pc = "apply" => /\ block \in Blocks
                  /\ ra.live => block \in ra.data
                  /\ block \in HeldBlocks => block \in wiped

\* DistinctUnlessWiped with what makes it inductive: reserving relies on the
\* bitmap covering every block in use and on conditional updates, applying on
\* the reserved block being nobody's.
AllocationInv ==
  /\ DistinctUnlessWiped /\ BitmapCoversHeld
  /\ CacheCoherent /\ WorkerCoherent /\ ReservedIsFree

\* The inductive invariant: the types of the state and AllocationInv.
SafetyInv == TypeOK /\ AllocationInv

\* A step that moves the worker keeps the annotations a stored namespace has.
KeepsAnnotations ==
  \A n \in Namespaces :
    pc' # pc /\ Stored(n).live =>
      /\ Stored(n)'.live
      /\ Stored(n).uid # NoUID => Stored(n)'.uid = Stored(n).uid
      /\ Stored(n).mcs # NoLabel => Stored(n)'.mcs = Stored(n).mcs

\* A step of the worker never changes a uid-range or MCS annotation that the
\* stored namespace has, however old the copy allocate works from: the patch
\* carries the resource version of that copy.
AnnotationsKept == [][KeepsAnnotations]_vars

\* A namespace has an annotation that makes every Repair fail.
RepairBlocked == \E n \in Namespaces : Stored(n).live /\ Stored(n).uid = Refused

\* Nothing can be allocated before a Repair: the process has still to make its
\* initial one, or the RangeAllocation is gone, of another range, or full.
NeedsRepair ==
  \/ initialRepairKey \in queue \cup {key}
  \/ ~ra.live \/ ~ra.match
  \/ Blocks \subseteq ra.data

\* Once users, faults and crashes stop, every namespace gets its annotation,
\* whatever allocate lost on the way (retries of allocate, repairs of leaks).
\* The exception is a namespace whose block wraps around 2^32: while it is
\* there every Repair fails, and nothing is annotated for as long as that
\* takes a Repair first (a restarted process waits for one, and then ends).
EventuallyAnnotated ==
  <>[](\/ RepairBlocked /\ NeedsRepair
       \/ \A n \in Namespaces : Stored(n).live => Stored(n).uid # NoUID)

\* Once they stop, repairs bring the bitmap to the blocks in use and no other:
\* blocks that failed allocations and deleted namespaces left are reclaimed,
\* unless a namespace whose block wraps around 2^32 makes every Repair fail.
BitmapConverges ==
  <>[](\/ RepairBlocked
       \/ /\ ra.live /\ ra.match
          /\ ra.data = {Stored(n).uid : n \in {m \in Namespaces : Stored(m).live}}
                         \cap Blocks)
=============================================================================
