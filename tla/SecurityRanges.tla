--------------------------- MODULE SecurityRanges ---------------------------
(***************************************************************************)
(* UID blocks and MCS labels together: Repair's loop over the annotated    *)
(* namespaces (namespace_scc_allocation_controller.go) and the other       *)
(* clients of the allocator's interface, with the labels that              *)
(* DefaultMCSAllocation gives the blocks.                                  *)
(***************************************************************************)
EXTENDS UIDAllocator, MCSLabels

CONSTANTS
  Namespaces,
  UIDRanges,    \* the UID ranges a process may be configured with
  MCSSettings,  \* the MCS range and the labels per project it may be given
  UserBlocks    \* the blocks that users annotate namespaces with

ASSUME RangesAssumption ==
  /\ UIDRanges \subseteq UIDRange
  /\ UserBlocks \subseteq Block
  /\ MCSSettings \subseteq [range : MCSRanges({"", "s0", "s0:"}), perProject : Int]

NoBlock == [Start |-> 1, End |-> 0]  \* no annotation, or one that does not parse

VARIABLES
  setting,     \* the MCS range and the labels per project
  annotation,  \* the uid-range annotation of each namespace
  assigned,    \* the namespaces whose block the allocator granted
  phase,       \* of the process: "starting", "repair", "failed" or "serving"
  todo,        \* the namespaces Repair has still to look at
  saved        \* the last snapshot

vars == <<allocator, setting, annotation, assigned, phase, todo, saved>>

\* Faulty: neighbouring blocks are given neighbouring labels.
NextLabel(from, to, blockSize, b) == {LabelAt(to, o) : o \in Offset(from, b)}

\* The label of a block; none for a block outside the range.
DefaultMCSAllocation(from, to, blockSize, b) ==
  {LabelAt(to, IF blockSize > 0 THEN (o * blockSize) % MaxUint ELSE o) : o \in Offset(from, b)}

-----------------------------------------------------------------------------
\* A process starts, perhaps with another range, by repairing what is stored.
BeginRepair(r) ==
  /\ phase' = "repair"
  /\ uidRange' = r
  /\ NewInMemory
  /\ todo' = {n \in Namespaces : annotation[n] # NoBlock}
  /\ assigned' = {}
  /\ UNCHANGED <<setting, annotation, saved>>

Init ==
  /\ phase = "starting"
  /\ uidRange \in UIDRanges
  /\ setting \in MCSSettings
  /\ annotation \in [Namespaces -> UserBlocks \cup {NoBlock}]
  /\ allocated = {} /\ count = 0
  /\ assigned = {} /\ todo = {}
  /\ saved = Snapshot

\* Faulty: a block that is found twice ends the repair too.
RepairStrict(n) ==
  /\ phase = "repair" /\ n \in todo
  /\ Allocate(annotation[n])
  /\ LET answer == AllocateAnswer(annotation[n]) IN
       /\ phase' = IF answer \in {"out of range", "ErrAllocated"} THEN "failed" ELSE phase
       /\ assigned' = IF answer = "nil" THEN assigned \cup {n} ELSE assigned
  /\ todo' = todo \ {n}
  /\ UNCHANGED <<uidRange, setting, annotation, saved>>

\* Repair passes over a block that is not in the range or was found before; any
\* other error ends it.
RepairNamespace(n) ==
  /\ phase = "repair" /\ n \in todo
  /\ Allocate(annotation[n])
  /\ LET answer == AllocateAnswer(annotation[n]) IN
       /\ phase' = IF answer = "out of range" THEN "failed" ELSE phase
       /\ assigned' = IF answer = "nil" THEN assigned \cup {n} ELSE assigned
  /\ todo' = todo \ {n}
  /\ UNCHANGED <<uidRange, setting, annotation, saved>>

EndRepair ==
  /\ phase = "repair" /\ todo = {}
  /\ phase' = "serving"
  /\ saved' = Snapshot
  /\ UNCHANGED <<allocator, setting, annotation, assigned, todo>>

-----------------------------------------------------------------------------
(* Clients of the interface, and users.                                    *)
Serving == phase = "serving" /\ UNCHANGED <<uidRange, setting, phase, todo>>

Grant(n, b) ==
  /\ annotation' = [annotation EXCEPT ![n] = b]
  /\ assigned' = assigned \cup {n}

ClientNext(n) ==
  /\ Serving /\ annotation[n] = NoBlock
  /\ \E o \in 0 .. Size(uidRange) - 1 : LET b == BlockAt(uidRange, o) IN
       AllocateNext(b) /\ Grant(n, b)
  /\ UNCHANGED saved

ClientAllocate(n, b) ==
  /\ Serving /\ annotation[n] = NoBlock
  /\ Allocate(b)
  /\ IF AllocateAnswer(b) = "nil" THEN Grant(n, b) ELSE UNCHANGED <<annotation, assigned>>
  /\ UNCHANGED saved

\* The block of a namespace that goes away is released if it was granted.
DeleteNamespace(n) ==
  /\ Serving /\ annotation[n] # NoBlock
  /\ IF n \in assigned THEN Release(annotation[n]) ELSE UNCHANGED <<allocated, count>>
  /\ annotation' = [annotation EXCEPT ![n] = NoBlock]
  /\ assigned' = assigned \ {n}
  /\ UNCHANGED saved

\* A block is released that nobody was granted.
ReleaseStray(b) ==
  /\ Serving /\ \A n \in assigned : annotation[n] # b
  /\ Release(b)
  /\ UNCHANGED <<annotation, assigned, saved>>

UserAnnotates(n, b) ==
  /\ Serving /\ annotation[n] = NoBlock
  /\ annotation' = [annotation EXCEPT ![n] = b]
  /\ UNCHANGED <<allocated, count, assigned, saved>>

TakeSnapshot ==
  /\ Serving
  /\ saved' = Snapshot
  /\ UNCHANGED <<allocated, count, annotation, assigned>>

\* Grants made since the snapshot are forgotten.
RestoreSnapshot ==
  /\ Serving
  /\ Restore(saved)
  /\ assigned' = {n \in assigned : Offset(uidRange, annotation[n]) \subseteq saved.data}
  /\ UNCHANGED <<annotation, saved>>

Next ==
  \/ \E r \in UIDRanges : BeginRepair(r)
  \/ EndRepair \/ TakeSnapshot \/ RestoreSnapshot
  \/ \E n \in Namespaces :
       \/ RepairNamespace(n) \/ ClientNext(n) \/ DeleteNamespace(n)
       \/ \E b \in UserBlocks : ClientAllocate(n, b) \/ UserAnnotates(n, b)
  \/ \E b \in UserBlocks : ReleaseStray(b)

Spec == Init /\ [][Next]_vars

-----------------------------------------------------------------------------
(* Properties.                                                             *)

\* The blocks the allocator granted (Allocate, AllocateNext) lie in the range
\* and no two namespaces share a UID, whatever blocks users write, those that
\* wrap around the largest UID included, and whatever is released or restored.
DisjointUIDs ==
  /\ \A n \in assigned :
       UIDs(annotation[n]) # {} /\ UIDs(annotation[n]) \subseteq UIDs(uidRange)
  /\ \A m, n \in assigned : m # n => UIDs(annotation[m]) \cap UIDs(annotation[n]) = {}

\* The count kept beside the bitmap never drifts: Free() is the number of blocks
\* that Allocate would grant, and Has(block) is TRUE exactly when Allocate(block)
\* would fail with ErrAllocated.
FreeIsExact ==
  /\ Free = Cardinality({o \in 0 .. Size(uidRange) - 1 :
                           AllocateAnswer(BlockAt(uidRange, o)) = "nil"})
  /\ \A b \in UserBlocks : Has(b) <=> AllocateAnswer(b) = "ErrAllocated"

\* In whatever order Repair meets the namespaces, it marks exactly the blocks of
\* the range that some namespace has, and it gives up only over a block that
\* wraps around the largest UID, or if the range is all the UIDs there are, whose
\* number wraps to 0.
RepairExact ==
  /\ phase = "repair" /\ todo = {} =>
       allocated = {o \in 0 .. Size(uidRange) - 1 :
                      \E n \in Namespaces : annotation[n] = BlockAt(uidRange, o)}
  /\ phase = "failed" =>
       \/ Size(uidRange) = 0
       \/ \E n \in Namespaces :
            annotation[n] # NoBlock /\ annotation[n].End < annotation[n].Start

\* There are enough labels for every block, and the arithmetic does not wrap.
EnoughLabels ==
  LET needed == Size(uidRange) * Max({1, setting.perProject})
  IN  needed <= binomial(maxCategories, setting.range.k) /\ needed < MaxUint

\* The labels of a block: the one DefaultMCSAllocation gives it and those it
\* jumps past.
LabelsOf(b) ==
  UNION {LET first == CategoriesOffset(label.Categories)
         IN  {LabelAt(setting.range, first + i) : i \in 0 .. Max({1, setting.perProject}) - 1} :
         label \in DefaultMCSAllocation(uidRange, setting.range, setting.perProject, b)}

\* Where the range has labels enough, no label belongs to two namespaces that
\* were granted blocks (DefaultMCSAllocation, LabelAt).
DistinctLabels ==
  EnoughLabels =>
    \A m, n \in assigned :
      m # n => LabelsOf(annotation[m]) \cap LabelsOf(annotation[n]) = {}

\* The sets of k categories that come before S: the largest category in which
\* they differ is in S.
Before(S, k) ==
  {T \in kSubset(k, 0 .. maxCategories - 1) :
     T # S /\ Max((S \ T) \cup (T \ S)) \in S}

\* Where the range has labels enough, categoriesForOffset finds k different
\* categories that exist, with exactly offset sets of k before them, and a range
\* of all the categories whose prefix ends in a colon contains the label and
\* finds its offset back.
LabelsRanked ==
  EnoughLabels =>
    \A n \in assigned :
      \A label \in DefaultMCSAllocation(uidRange, setting.range, setting.perProject, annotation[n]) :
        LET S == Range(label.Categories)
            rank == CategoriesOffset(label.Categories)
        IN  /\ Cardinality(S) = setting.range.k /\ S \subseteq 0 .. maxCategories - 1
            /\ rank = Cardinality(Before(S, setting.range.k))
            /\ {rank} = {o * Max({1, setting.perProject}) : o \in Offset(uidRange, annotation[n])}
            /\ setting.range.n = maxCategories /\ setting.range.prefix # "s0" =>
                 LabelOffset(setting.range, label) = {rank}
=============================================================================
