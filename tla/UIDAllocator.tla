---------------------------- MODULE UIDAllocator ----------------------------
(***************************************************************************)
(* The in-memory allocator of UID blocks, src/pkg/security/uidallocator,   *)
(* over the UID ranges and the bitmap of the libraries it is built on.     *)
(* UIDs are unsigned integers below MaxUint, 2^32 in the code, and all     *)
(* arithmetic on them wraps around.                                        *)
(***************************************************************************)
EXTENDS Integers, FiniteSets

CONSTANT MaxUint

ASSUME MaxUintAssumption == MaxUint \in Nat \ {0}

UInt == 0 .. MaxUint - 1
Block == [Start : UInt, End : UInt]

\* What uid.NewRange accepts.
UIDRange == {r \in [Start : UInt, End : UInt, size : UInt \ {0}] :
               r.Start + r.size <= r.End}

BlockSize(b) == (b.End - b.Start + 1) % MaxUint

Size(r) == BlockSize(r) \div r.size

BlockAt(r, offset) ==
  LET start == (r.Start + offset * r.size) % MaxUint
  IN  [Start |-> start, End |-> (start + r.size - 1) % MaxUint]

\* The number of the block in the range; no answer if it is not in it.
Offset(r, b) ==
  IF /\ b.Start >= r.Start
     /\ b.End <= r.End
     /\ BlockSize(b) = r.size
     /\ (b.Start - r.Start) % r.size = 0
    THEN {(b.Start - r.Start) \div r.size}
    ELSE {}

\* The UIDs of a block.
UIDs(b) == b.Start .. b.End

VARIABLES
  uidRange,   \* the range the allocator is over
  allocated,  \* the bitmap: the numbers of the blocks taken
  count       \* what the allocator believes to be their number

allocator == <<uidRange, allocated, count>>

NewInMemory == allocated' = {} /\ count' = 0

Free == Size(uidRange) - count

\* Faulty: the answer of the bitmap is not looked at.
AnswerUnchecked(b) ==
  LET at == Offset(uidRange, b) IN
    IF at = {} THEN "ErrNotInRange"
    ELSE IF \A o \in at : o >= Size(uidRange) THEN "out of range"
    ELSE "nil"

\* What Allocate answers for a block.
AllocateAnswer(b) ==
  LET at == Offset(uidRange, b) IN
    IF at = {} THEN "ErrNotInRange"
    ELSE IF \A o \in at : o >= Size(uidRange) THEN "out of range"
    ELSE IF at \subseteq allocated THEN "ErrAllocated"
    ELSE "nil"

\* Allocate: the bit is set if the answer is nil.
Allocate(b) ==
  IF AllocateAnswer(b) = "nil"
    THEN allocated' = allocated \cup Offset(uidRange, b) /\ count' = count + 1
    ELSE UNCHANGED <<allocated, count>>

\* AllocateNext: any free block, unless the count says there is none (ErrFull).
AllocateNext(b) ==
  /\ count < Size(uidRange)
  /\ \E o \in (0 .. Size(uidRange) - 1) \ allocated :
       /\ b = BlockAt(uidRange, o)
       /\ allocated' = allocated \cup {o}
       /\ count' = count + 1

\* Faulty: a block that is not taken is counted as given back.
ReleaseUnchecked(b) ==
  /\ allocated' = allocated \ Offset(uidRange, b)
  /\ count' = count - Cardinality(Offset(uidRange, b))

\* Release: no effect on a block that is not in the range or not taken.
Release(b) ==
  /\ allocated' = allocated \ Offset(uidRange, b)
  /\ count' = count - Cardinality(Offset(uidRange, b) \cap allocated)

Has(b) == Offset(uidRange, b) # {} /\ Offset(uidRange, b) \subseteq allocated

Snapshot == [range |-> uidRange, data |-> allocated]

\* Restore: refused (ErrMismatchedRange) unless the snapshot is of this range.
Restore(snapshot) ==
  /\ snapshot.range = uidRange
  /\ allocated' = snapshot.data
  /\ count' = Cardinality(snapshot.data)
=============================================================================
