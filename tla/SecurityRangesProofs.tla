------------------------ MODULE SecurityRangesProofs ------------------------
(***************************************************************************)
(* Proofs about SecurityRanges, for every set of namespaces, UID ranges,   *)
(* settings and blocks, and for every width of the UIDs and number of      *)
(* categories.                                                             *)
(***************************************************************************)
EXTENDS SecurityRanges, FiniteSetTheorems, FunctionTheorems, TLAPS

-----------------------------------------------------------------------------
(* Arithmetic.                                                             *)

\* A number below the modulus is its own remainder, one just below 0 wraps.
LEMMA ModSmall ==
  ASSUME NEW m \in Nat \ {0}, NEW a \in Int
  PROVE  /\ 0 <= a /\ a < m => a % m = a
         /\ 0 - m <= a /\ a < 0 => a % m = a + m
OBVIOUS

\* Quotient and remainder of a multiple.
LEMMA Multiple ==
  ASSUME NEW m \in Nat \ {0}, NEW a \in Nat
  PROVE  (a * m) % m = 0 /\ (a * m) \div m = a
OBVIOUS

\* A set of naturals that is not empty has a least one.
LEMMA Least ==
  ASSUME NEW T \in SUBSET Nat, T # {}
  PROVE  \E x \in T : \A y \in T : x <= y
<1> DEFINE R == OpToRel(<, Nat)
<1>1. IsWellFoundedOn(R, Nat)
  BY NatLessThanWellFounded, Zenon
<1>2. \A x, y \in Nat : <<y, x>> \in R <=> y < x
  BY DEF OpToRel
<1> HIDE DEF R
<1>3. PICK x \in T : \A y \in T : ~ (<<y, x>> \in R)
  BY <1>1, WFMin, Zenon
<1>4. \A y \in T : y \in Nat /\ x \in Nat /\ ~ (y < x)
  BY <1>2, <1>3, Zenon
<1>5. \A y \in T : x <= y
  BY <1>4
<1> QED
  BY <1>3, <1>5

\* Induction, over a set of naturals in place of a predicate.
LEMMA SetInduction ==
  ASSUME NEW S, 0 \in S, \A n \in Nat : n \in S => n + 1 \in S
  PROVE  Nat \subseteq S
<1> SUFFICES ASSUME Nat \ S # {} PROVE FALSE
  OBVIOUS
<1>1. PICK x \in Nat \ S : \A y \in Nat \ S : x <= y
  BY Least, Zenon
<1>2. x # 0 /\ x - 1 \in Nat /\ x = (x - 1) + 1
  BY <1>1
<1>3. x - 1 \in S
  BY <1>1, <1>2
<1> QED
  BY <1>1, <1>2, <1>3

-----------------------------------------------------------------------------
(* UID blocks and ranges.                                                  *)

\* The fields of a range, and how many blocks there is room for.  The number of
\* UIDs wraps to 0 only for the range of all UIDs.
LEMMA RangeFacts ==
  ASSUME NEW r \in UIDRange
  PROVE  /\ r.Start \in Nat /\ r.End \in Nat /\ r.size \in Nat \ {0}
         /\ MaxUint \in Nat /\ r.End < MaxUint /\ r.size < MaxUint
         /\ r.Start + r.size <= r.End
         /\ Size(r) \in Nat
         /\ Size(r) * r.size <= r.End - r.Start + 1
         /\ Size(r) = 0 \/ r.End - r.Start + 1 < (Size(r) + 1) * r.size
<1>1. /\ r.Start \in Nat /\ r.End \in Nat /\ r.size \in Nat \ {0}
      /\ MaxUint \in Nat /\ r.End < MaxUint /\ r.size < MaxUint
      /\ r.Start + r.size <= r.End
  BY MaxUintAssumption DEF UIDRange, UInt
<1> DEFINE uids == r.End - r.Start + 1
<1>2. BlockSize(r) = IF uids = MaxUint THEN 0 ELSE uids
  BY <1>1 DEF BlockSize
<1>3. BlockSize(r) \in Nat
  BY <1>1, <1>2
<1>4. /\ Size(r) \in Nat
      /\ Size(r) * r.size <= BlockSize(r) /\ BlockSize(r) < (Size(r) + 1) * r.size
  BY <1>1, <1>3 DEF Size
<1>5. BlockSize(r) = 0 => Size(r) = 0
  BY <1>1 DEF Size
<1> QED
  BY <1>1, <1>2, <1>4, <1>5

\* A block below the size of its range does not wrap, and has the number it was
\* made for.
LEMMA BlockAtFacts ==
  ASSUME NEW r \in UIDRange, NEW o \in 0 .. Size(r) - 1
  PROVE  /\ BlockAt(r, o) \in Block
         /\ BlockAt(r, o).Start = r.Start + (o * r.size)
         /\ BlockAt(r, o).End = r.Start + (o * r.size) + r.size - 1
         /\ BlockAt(r, o).End <= r.End
         /\ Offset(r, BlockAt(r, o)) = {o}
<1> USE RangeFacts
<1> DEFINE b == BlockAt(r, o)
           first == r.Start + (o * r.size)
<1>0. o \in Nat /\ o * r.size \in Nat /\ first \in Nat
  OBVIOUS
<1>1. (o * r.size) + r.size <= Size(r) * r.size
  <2>1. o + 1 <= Size(r)
    OBVIOUS
  <2>2. (o + 1) * r.size <= Size(r) * r.size
    BY <1>0, <2>1
  <2> QED
    BY <1>0, <2>2
<1>2. first + r.size - 1 <= r.End
  BY <1>0, <1>1
<1>3. first % MaxUint = first /\ (first + r.size - 1) % MaxUint = first + r.size - 1
  BY <1>0, <1>2
<1>4. b = [Start |-> first, End |-> first + r.size - 1]
  BY <1>3 DEF BlockAt
<1>5. b \in Block
  BY <1>0, <1>2, <1>4 DEF Block, UInt
<1> HIDE DEF b
<1>6. Offset(r, b) = {o}
  <2>1. b.Start >= r.Start /\ b.End <= r.End
    BY <1>0, <1>2, <1>4
  <2>2. BlockSize(b) = r.size
    <3>1. b.End - b.Start + 1 = r.size
      BY <1>0, <1>4
    <3> QED
      BY <3>1, ModSmall DEF BlockSize
  <2>3. b.Start - r.Start = o * r.size
    BY <1>0, <1>4
  <2>4. (o * r.size) % r.size = 0 /\ (o * r.size) \div r.size = o
    BY <1>0, Multiple, Zenon
  <2> QED
    BY <2>1, <2>2, <2>3, <2>4 DEF Offset
<1> QED
  BY <1>2, <1>4, <1>5, <1>6 DEF b

\* A block that has a number below the size is the block of that number; one that
\* has another number wraps, or the range is all UIDs.
LEMMA OffsetFacts ==
  ASSUME NEW r \in UIDRange, NEW b \in Block, NEW o \in Offset(r, b)
  PROVE  /\ o \in Nat /\ Offset(r, b) = {o}
         /\ o < Size(r) => b = BlockAt(r, o)
         /\ o >= Size(r) => Size(r) = 0 \/ b.End < b.Start
<1> USE RangeFacts
<1>1. b.Start \in Nat /\ b.End \in Nat /\ b.Start < MaxUint /\ b.End < MaxUint
  BY DEF Block, UInt
<1>2. /\ b.Start >= r.Start /\ b.End <= r.End
      /\ BlockSize(b) = r.size /\ (b.Start - r.Start) % r.size = 0
      /\ o = (b.Start - r.Start) \div r.size /\ Offset(r, b) = {o}
  BY DEF Offset
<1>3. o \in Nat /\ b.Start = r.Start + (o * r.size)
  BY <1>1, <1>2
<1>4. \/ b.End - b.Start + 1 = r.size
      \/ b.End < b.Start /\ b.End - b.Start + 1 = r.size - MaxUint
  <2>1. CASE b.End - b.Start + 1 >= 0
    <3>1. b.End - b.Start + 1 = MaxUint => BlockSize(b) = 0
      BY <1>1 DEF BlockSize
    <3>2. b.End - b.Start + 1 < MaxUint => BlockSize(b) = b.End - b.Start + 1
      BY <1>1, <2>1, ModSmall DEF BlockSize
    <3>3. b.End - b.Start + 1 <= MaxUint
      BY <1>1
    <3>4. b.End - b.Start + 1 \in Int /\ BlockSize(b) = r.size
      BY <1>1, <1>2
    <3> QED
      BY <3>1, <3>2, <3>3, <3>4
  <2>2. CASE b.End - b.Start + 1 < 0
    <3>1. BlockSize(b) = b.End - b.Start + 1 + MaxUint
      BY <1>1, <2>2, ModSmall DEF BlockSize
    <3> QED
      BY <1>1, <1>2, <2>2, <3>1
  <2> QED
    BY <1>1, <2>1, <2>2
<1>5. ASSUME o < Size(r) PROVE b = BlockAt(r, o)
  <2>1. /\ BlockAt(r, o) \in Block
        /\ BlockAt(r, o).Start = b.Start
        /\ BlockAt(r, o).End = b.Start + r.size - 1 /\ BlockAt(r, o).End <= r.End
    BY <1>3, <1>5, BlockAtFacts
  <2>2. b.End = b.Start + r.size - 1
    BY <1>1, <1>4, <2>1
  <2> QED
    BY <2>1, <2>2 DEF Block
<1>6. ASSUME o >= Size(r), Size(r) # 0 PROVE b.End < b.Start
  <2>1. (Size(r) + 1) * r.size <= (o + 1) * r.size
    BY <1>3, <1>6
  <2>2. r.End - r.Start + 1 < (o * r.size) + r.size
    BY <1>3, <1>6, <2>1
  <2> QED
    BY <1>1, <1>2, <1>3, <1>4, <2>2
<1> QED
  BY <1>2, <1>3, <1>5, <1>6

\* No two numbers below the size are of one block.
LEMMA BlockAtInjective ==
  ASSUME NEW r \in UIDRange, NEW o \in 0 .. Size(r) - 1, NEW p \in 0 .. Size(r) - 1,
         BlockAt(r, o) = BlockAt(r, p)
  PROVE  o = p
<1>1. Offset(r, BlockAt(r, o)) = {o} /\ Offset(r, BlockAt(r, p)) = {p}
  BY BlockAtFacts
<1> QED
  BY <1>1

\* Where there is a range, the mark of no annotation is a block, and one that no
\* range has room for.
LEMMA NoBlockFacts ==
  ASSUME NEW r \in UIDRange
  PROVE  /\ NoBlock \in Block /\ Offset(r, NoBlock) = {}
         /\ \A o \in 0 .. Size(r) - 1 : BlockAt(r, o) # NoBlock
<1>1. NoBlock \in Block
  BY RangeFacts DEF NoBlock, Block, UInt
<1>2. BlockSize(NoBlock) = 0
  BY RangeFacts, ModSmall DEF NoBlock, BlockSize
<1>3. Offset(r, NoBlock) = {}
  BY <1>2, RangeFacts DEF Offset
<1> QED
  BY <1>1, <1>3, BlockAtFacts

-----------------------------------------------------------------------------
(* The inductive invariant.                                                *)

RangesType ==
  /\ uidRange \in UIDRanges /\ setting \in MCSSettings
  /\ annotation \in [Namespaces -> Block]
  /\ assigned \subseteq Namespaces /\ todo \subseteq Namespaces
  /\ saved \in [range : UIDRanges, data : SUBSET Nat]

\* The bitmap and the snapshot have numbers of blocks only, and the count is the
\* bitmap's.
BitmapInv ==
  /\ allocated \subseteq 0 .. Size(uidRange) - 1
  /\ count = Cardinality(allocated)
  /\ saved.data \subseteq 0 .. Size(saved.range) - 1

\* What was granted is marked, and was granted once.
GrantsInv ==
  /\ \A n \in assigned : \E o \in allocated : annotation[n] = BlockAt(uidRange, o)
  /\ \A m, n \in assigned : annotation[m] = annotation[n] => m = n

\* Repair has marked what it has looked at, and no more.
RepairInv ==
  /\ phase = "repair" =>
       allocated = {o \in 0 .. Size(uidRange) - 1 :
                      \E n \in Namespaces \ todo : annotation[n] = BlockAt(uidRange, o)}
  /\ phase = "failed" =>
       \/ Size(uidRange) = 0
       \/ \E n \in Namespaces :
            annotation[n] # NoBlock /\ annotation[n].End < annotation[n].Start

RangesInv == RangesType /\ BitmapInv /\ GrantsInv /\ RepairInv

\* A set of block numbers is finite, and counts one more or one less when a number
\* is added or taken away.
LEMMA BitmapCount ==
  ASSUME NEW N \in Nat, NEW S \in SUBSET (0 .. N - 1), NEW o \in 0 .. N - 1
  PROVE  /\ IsFiniteSet(S) /\ Cardinality(S) \in Nat
         /\ o \notin S => Cardinality(S \cup {o}) = Cardinality(S) + 1
         /\ o \in S => Cardinality(S \ {o}) = Cardinality(S) - 1
<1>1. IsFiniteSet(0 .. N - 1)
  BY FS_Interval
<1>2. IsFiniteSet(S)
  BY <1>1, FS_Subset, Zenon
<1> QED
  BY <1>2, FS_AddElement, FS_RemoveElement, FS_CardinalityType, Zenon

\* What each answer of Allocate says of the block.
LEMMA AnswerFacts ==
  ASSUME RangesType, BitmapInv, NEW b \in Block
  PROVE  LET answer == AllocateAnswer(b)
             numbers == 0 .. Size(uidRange) - 1
         IN  /\ answer \in {"nil", "ErrAllocated", "out of range", "ErrNotInRange"}
             /\ answer = "nil" <=>
                  \E o \in numbers \ allocated : b = BlockAt(uidRange, o)
             /\ answer = "ErrAllocated" <=>
                  \E o \in allocated : b = BlockAt(uidRange, o)
             /\ answer = "out of range" =>
                  Size(uidRange) = 0 \/ (b # NoBlock /\ b.End < b.Start)
<1> DEFINE r == uidRange
           numbers == 0 .. Size(r) - 1
<1>0. r \in UIDRange /\ Size(r) \in Nat /\ allocated \subseteq numbers
  BY RangesAssumption, RangeFacts, Zenon DEF RangesType, BitmapInv
<1>1. \A o \in numbers : Offset(r, BlockAt(r, o)) = {o}
  BY <1>0, BlockAtFacts
<1> HIDE DEF r
<1>2. CASE Offset(r, b) = {}
  <2>1. AllocateAnswer(b) = "ErrNotInRange"
    BY <1>2 DEF AllocateAnswer, r
  <2> QED
    BY <1>0, <1>1, <1>2, <2>1 DEF r
<1>3. CASE Offset(r, b) # {}
  <2>1. PICK o \in Offset(r, b) : TRUE
    BY <1>3
  <2>2. /\ o \in Nat /\ Offset(r, b) = {o}
        /\ o < Size(r) => b = BlockAt(r, o)
        /\ o >= Size(r) => Size(r) = 0 \/ b.End < b.Start
    BY <1>0, OffsetFacts
  <2>3. b # NoBlock
    BY <1>0, <1>3, NoBlockFacts
  <2>4. CASE o >= Size(r)
    <3>1. AllocateAnswer(b) = "out of range"
      BY <2>2, <2>4 DEF AllocateAnswer, r
    <3>2. \A p \in numbers : b # BlockAt(r, p)
      BY <1>0, <1>1, <2>2, <2>4
    <3> QED
      BY <1>0, <2>2, <2>3, <2>4, <3>1, <3>2, Zenon DEF r
  <2>5. CASE o < Size(r)
    <3>1. AllocateAnswer(b) = IF o \in allocated THEN "ErrAllocated" ELSE "nil"
      <4>1. Offset(r, b) # {} /\ ~ \A p \in Offset(r, b) : p >= Size(r)
        BY <1>0, <2>2, <2>5
      <4>2. Offset(r, b) \subseteq allocated <=> o \in allocated
        BY <2>2
      <4> QED
        BY <4>1, <4>2 DEF AllocateAnswer, r
    <3>2. o \in numbers /\ b = BlockAt(r, o)
      BY <1>0, <2>2, <2>5
    <3>3. \A p \in numbers : b = BlockAt(r, p) => p = o
      BY <1>1, <2>2
    <3> QED
      BY <1>0, <3>1, <3>2, <3>3 DEF r
  <2>6. o >= Size(r) \/ o < Size(r)
    BY <1>0, <2>2
  <2> QED
    BY <2>4, <2>5, <2>6, Zenon
<1> QED
  BY <1>2, <1>3, Zenon

\* Facts of every state and the next one that the proofs below share.
LEMMA Basics ==
  ASSUME RangesType, BitmapInv
  PROVE  /\ uidRange \in UIDRange /\ Size(uidRange) \in Nat
         /\ UserBlocks \subseteq Block /\ UIDRanges \subseteq UIDRange
         /\ NoBlock \in Block
         /\ allocated \in SUBSET (0 .. Size(uidRange) - 1)
         /\ count \in Nat
<1>1. /\ uidRange \in UIDRange
      /\ UserBlocks \subseteq Block /\ UIDRanges \subseteq UIDRange
  BY RangesAssumption, Zenon DEF RangesType
<1>2. Size(uidRange) \in Nat /\ NoBlock \in Block
  BY <1>1, RangeFacts, NoBlockFacts
<1>3. allocated \in SUBSET (0 .. Size(uidRange) - 1)
  BY DEF BitmapInv
<1>4. IsFiniteSet(allocated)
  <2>1. 0 \in Int /\ Size(uidRange) - 1 \in Int
    BY <1>2
  <2>2. IsFiniteSet(0 .. Size(uidRange) - 1)
    BY <2>1, FS_Interval
  <2> QED
    BY <1>3, <2>2, FS_Subset, Zenon
<1>5. Cardinality(allocated) \in Nat
  BY <1>4, FS_CardinalityType
<1> QED
  BY <1>1, <1>2, <1>3, <1>5 DEF BitmapInv

\* Allocate keeps the count exact and sets the bit of the block if it answers nil.
LEMMA AllocateKeeps ==
  ASSUME RangesType, BitmapInv, NEW b \in Block, Allocate(b),
         UNCHANGED <<uidRange, saved>>
  PROVE  /\ BitmapInv'
         /\ AllocateAnswer(b) = "nil" =>
              \E o \in (0 .. Size(uidRange) - 1) \ allocated :
                b = BlockAt(uidRange, o) /\ allocated' = allocated \cup {o}
         /\ AllocateAnswer(b) # "nil" => allocated' = allocated
<1>0. uidRange \in UIDRange /\ Size(uidRange) \in Nat
      /\ allocated \in SUBSET (0 .. Size(uidRange) - 1)
  BY Basics
<1>1. CASE AllocateAnswer(b) # "nil"
  BY <1>1, Zenon DEF Allocate, BitmapInv
<1>2. CASE AllocateAnswer(b) = "nil"
  <2>1. PICK o \in (0 .. Size(uidRange) - 1) \ allocated : b = BlockAt(uidRange, o)
    BY <1>2, AnswerFacts, Zenon
  <2>2. Offset(uidRange, b) = {o}
    BY <1>0, <2>1, BlockAtFacts
  <2>3. allocated' = allocated \cup {o} /\ count' = count + 1
    BY <1>2, <2>2 DEF Allocate
  <2>4. Cardinality(allocated \cup {o}) = Cardinality(allocated) + 1
    BY <1>0, BitmapCount
  <2>5. BitmapInv'
    BY <1>0, <2>3, <2>4 DEF BitmapInv
  <2> QED
    BY <1>2, <2>1, <2>3, <2>5
<1> QED
  BY <1>1, <1>2

\* Release keeps the count exact, whatever block it is asked to release.
LEMMA ReleaseKeeps ==
  ASSUME RangesType, BitmapInv, NEW b \in Block, Release(b),
         UNCHANGED <<uidRange, saved>>
  PROVE  BitmapInv'
<1> DEFINE at == Offset(uidRange, b)
<1>0. uidRange \in UIDRange /\ Size(uidRange) \in Nat
      /\ allocated \in SUBSET (0 .. Size(uidRange) - 1) /\ count \in Nat
  BY Basics
<1>1. allocated' = allocated \ at /\ count' = count - Cardinality(at \cap allocated)
  BY DEF Release
<1> HIDE DEF at
<1>2. CASE at \cap allocated = {}
  <2>1. allocated' = allocated /\ count' = count
    BY <1>0, <1>1, <1>2, FS_EmptySet
  <2> QED
    BY <2>1 DEF BitmapInv
<1>3. CASE at \cap allocated # {}
  <2>1. PICK o \in at \cap allocated : TRUE
    BY <1>3
  <2>2. at = {o}
    BY <1>0, <2>1, OffsetFacts DEF at
  <2>3. allocated' = allocated \ {o} /\ count' = count - Cardinality({o})
    <3>1. at \cap allocated = {o}
      BY <2>1, <2>2
    <3> QED
      BY <1>1, <2>2, <3>1
  <2>4. Cardinality({o}) = 1 /\ Cardinality(allocated \ {o}) = Cardinality(allocated) - 1
    BY <1>0, <2>1, BitmapCount, FS_Singleton, Zenon
  <2> QED
    BY <1>0, <2>3, <2>4, Zenon DEF BitmapInv
<1> QED
  BY <1>2, <1>3

\* A grant of a block whose number is not marked is the only grant of it.
LEMMA GrantKeeps ==
  ASSUME RangesType, BitmapInv, GrantsInv, UNCHANGED uidRange,
         NEW n \in Namespaces, NEW o \in (0 .. Size(uidRange) - 1) \ allocated,
         allocated' = allocated \cup {o}, assigned' = assigned \cup {n},
         annotation'[n] = BlockAt(uidRange, o),
         \A m \in Namespaces \ {n} : annotation'[m] = annotation[m]
  PROVE  GrantsInv'
<1>0. uidRange \in UIDRange /\ allocated \in SUBSET (0 .. Size(uidRange) - 1)
  BY Basics
<1>1. \A m \in assigned \ {n} :
        annotation'[m] = annotation[m] /\ annotation'[m] # annotation'[n]
  <2>1. SUFFICES ASSUME NEW m \in assigned \ {n}
                 PROVE  annotation'[m] = annotation[m] /\ annotation'[m] # annotation'[n]
    OBVIOUS
  <2>2. annotation'[m] = annotation[m]
    BY DEF RangesType
  <2>3. PICK p \in allocated : annotation[m] = BlockAt(uidRange, p)
    BY DEF GrantsInv
  <2>4. BlockAt(uidRange, p) # BlockAt(uidRange, o)
    BY <1>0, BlockAtInjective
  <2> QED
    BY <2>2, <2>3, <2>4
<1>2. \A m \in assigned' : \E p \in allocated' : annotation'[m] = BlockAt(uidRange', p)
  BY <1>1 DEF GrantsInv
<1>3. \A l, m \in assigned' : annotation'[l] = annotation'[m] => l = m
  BY <1>1 DEF GrantsInv
<1> QED
  BY <1>2, <1>3 DEF GrantsInv

\* The invariant holds at the start.
LEMMA RangesInvInit == Init => RangesInv
<1> SUFFICES ASSUME Init PROVE RangesInv
  OBVIOUS
<1>1. uidRange \in UIDRange /\ UserBlocks \subseteq Block
  BY RangesAssumption, Zenon DEF Init
<1>2. NoBlock \in Block
  BY <1>1, NoBlockFacts
<1>3. RangesType
  BY <1>1, <1>2 DEF Init, RangesType, Snapshot
<1>4. BitmapInv
  BY FS_EmptySet DEF Init, BitmapInv, Snapshot
<1>5. GrantsInv /\ RepairInv
  BY DEF Init, GrantsInv, RepairInv
<1> QED
  BY <1>3, <1>4, <1>5 DEF RangesInv

\* A process that starts has marked nothing and looked at the namespaces without
\* a block only.
LEMMA BeginRepairKeeps ==
  ASSUME RangesInv, NEW r \in UIDRanges, BeginRepair(r)
  PROVE  RangesInv'
<1>0. RangesType /\ BitmapInv /\ r \in UIDRange
  BY RangesAssumption, Zenon DEF RangesInv
<1>1. RangesType'
  BY <1>0 DEF BeginRepair, RangesType
<1>2. BitmapInv'
  BY <1>0, FS_EmptySet DEF BeginRepair, NewInMemory, BitmapInv
<1>3. GrantsInv'
  BY DEF BeginRepair, GrantsInv
<1>4. RepairInv'
  <2>1. \A n \in Namespaces \ todo' : annotation'[n] = NoBlock
    BY DEF BeginRepair
  <2>2. \A o \in 0 .. Size(uidRange') - 1 : BlockAt(uidRange', o) # NoBlock
    BY <1>0, NoBlockFacts DEF BeginRepair
  <2> QED
    BY <2>1, <2>2 DEF BeginRepair, NewInMemory, RepairInv
<1> QED
  BY <1>1, <1>2, <1>3, <1>4 DEF RangesInv

\* Repair's step marks the namespace's block, if it is a block of the range.
LEMMA RepairNamespaceKeeps ==
  ASSUME RangesInv, NEW n \in Namespaces, RepairNamespace(n)
  PROVE  RangesInv'
<1> DEFINE b == annotation[n]
           answer == AllocateAnswer(b)
           numbers == 0 .. Size(uidRange) - 1
<1>0. RangesType /\ BitmapInv /\ GrantsInv /\ RepairInv /\ b \in Block
  BY DEF RangesInv, RangesType
<1>1. /\ phase = "repair" /\ n \in todo /\ Allocate(b)
      /\ phase' = IF answer = "out of range" THEN "failed" ELSE phase
      /\ assigned' = IF answer = "nil" THEN assigned \cup {n} ELSE assigned
      /\ todo' = todo \ {n}
      /\ UNCHANGED <<uidRange, setting, annotation, saved>>
  BY Zenon DEF RepairNamespace
<1>2. /\ answer \in {"nil", "ErrAllocated", "out of range", "ErrNotInRange"}
      /\ answer = "nil" <=> \E o \in numbers \ allocated : b = BlockAt(uidRange, o)
      /\ answer = "ErrAllocated" <=> \E o \in allocated : b = BlockAt(uidRange, o)
      /\ answer = "out of range" =>
           Size(uidRange) = 0 \/ (b # NoBlock /\ b.End < b.Start)
  BY <1>0, AnswerFacts, Zenon
<1>3. /\ BitmapInv'
      /\ answer = "nil" =>
           \E o \in numbers \ allocated :
             b = BlockAt(uidRange, o) /\ allocated' = allocated \cup {o}
      /\ answer # "nil" => allocated' = allocated
  BY <1>0, <1>1, AllocateKeeps, Zenon
<1>4. /\ uidRange \in UIDRange /\ allocated \in SUBSET numbers
      /\ todo \subseteq Namespaces
  BY <1>0, Basics DEF RangesType
<1>5. \A o, p \in numbers : BlockAt(uidRange, o) = BlockAt(uidRange, p) => o = p
  BY <1>4, BlockAtInjective
<1> HIDE DEF answer, numbers
<1>6. RangesType'
  BY <1>0, <1>1, Zenon DEF RangesType
<1>7. GrantsInv'
  <2>1. CASE answer = "nil"
    <3>1. PICK o \in numbers \ allocated :
            b = BlockAt(uidRange, o) /\ allocated' = allocated \cup {o}
      BY <1>3, <2>1
    <3>2. assigned' = assigned \cup {n} /\ annotation' = annotation /\ uidRange' = uidRange
      BY <1>1, <2>1
    <3> QED
      BY <1>0, <3>1, <3>2, GrantKeeps DEF numbers
  <2>2. CASE answer # "nil"
    BY <1>0, <1>1, <1>3, <2>2, Zenon DEF GrantsInv
  <2> QED
    BY <2>1, <2>2
<1>8. RepairInv'
  <2>1. allocated = {o \in numbers :
                       \E m \in Namespaces \ todo : annotation[m] = BlockAt(uidRange, o)}
    BY <1>0, <1>1, Zenon DEF RepairInv, numbers
  <2>2. Namespaces \ todo' = (Namespaces \ todo) \cup {n}
    BY <1>1, <1>4, Zenon
  <2>3. allocated' = allocated \cup {o \in numbers : b = BlockAt(uidRange, o)}
    <3>1. CASE answer = "nil"
      BY <1>3, <1>5, <3>1
    <3>2. CASE answer # "nil"
      <4>1. \A o \in numbers : b = BlockAt(uidRange, o) => o \in allocated
        BY <1>2, <3>2, Zenon
      <4> QED
        BY <1>3, <3>2, <4>1
    <3> QED
      BY <3>1, <3>2
  <2>4. allocated' = {o \in numbers :
                        \E m \in Namespaces \ todo' : annotation[m] = BlockAt(uidRange, o)}
    BY <2>1, <2>2, <2>3
  <2>5. phase' = "failed" => Size(uidRange) = 0 \/ (b # NoBlock /\ b.End < b.Start)
    BY <1>1, <1>2, Zenon
  <2> QED
    BY <1>1, <2>4, <2>5, Zenon DEF RepairInv, numbers
<1> QED
  BY <1>3, <1>6, <1>7, <1>8 DEF RangesInv

\* Only the snapshot is new when Repair is done.
LEMMA SnapshotKeeps ==
  ASSUME RangesInv, EndRepair \/ TakeSnapshot
  PROVE  RangesInv'
<1>0. RangesType /\ BitmapInv /\ GrantsInv /\ RepairInv
  BY DEF RangesInv
<1>1. /\ phase' = "serving" /\ saved' = [range |-> uidRange, data |-> allocated]
      /\ UNCHANGED <<uidRange, allocated, count, setting, annotation, assigned, todo>>
  BY DEF EndRepair, TakeSnapshot, Serving, Snapshot, allocator
<1>2. allocated \in SUBSET Nat
  BY <1>0, Basics
<1>3. RangesType' /\ BitmapInv'
  BY <1>0, <1>1, <1>2 DEF RangesType, BitmapInv
<1>4. GrantsInv' /\ RepairInv'
  BY <1>0, <1>1 DEF GrantsInv, RepairInv
<1> QED
  BY <1>3, <1>4 DEF RangesInv

\* A client is granted a free block.
LEMMA ClientNextKeeps ==
  ASSUME RangesInv, NEW n \in Namespaces, ClientNext(n)
  PROVE  RangesInv'
<1>0. RangesType /\ BitmapInv /\ GrantsInv
  BY DEF RangesInv
<1>1. PICK o \in 0 .. Size(uidRange) - 1 :
        AllocateNext(BlockAt(uidRange, o)) /\ Grant(n, BlockAt(uidRange, o))
  BY DEF ClientNext
<1>2. PICK p \in (0 .. Size(uidRange) - 1) \ allocated :
        /\ BlockAt(uidRange, o) = BlockAt(uidRange, p)
        /\ allocated' = allocated \cup {p} /\ count' = count + 1
  BY <1>1 DEF AllocateNext
<1>3. /\ annotation' = [annotation EXCEPT ![n] = BlockAt(uidRange, p)]
      /\ assigned' = assigned \cup {n}
      /\ UNCHANGED <<uidRange, setting, phase, todo, saved>> /\ phase = "serving"
  BY <1>1, <1>2, Zenon DEF ClientNext, Serving, Grant
<1>4. /\ uidRange \in UIDRange /\ Size(uidRange) \in Nat
      /\ allocated \in SUBSET (0 .. Size(uidRange) - 1)
  BY <1>0, Basics
<1>5. RangesType'
  <2>1. BlockAt(uidRange, p) \in Block
    BY <1>4, BlockAtFacts
  <2> QED
    BY <1>0, <1>3, <2>1 DEF RangesType
<1>6. BitmapInv'
  <2>1. Cardinality(allocated \cup {p}) = Cardinality(allocated) + 1
    BY <1>4, BitmapCount
  <2> QED
    BY <1>0, <1>2, <1>3, <1>4, <2>1 DEF BitmapInv
<1>7. GrantsInv'
  <2>1. /\ annotation'[n] = BlockAt(uidRange, p)
        /\ \A m \in Namespaces \ {n} : annotation'[m] = annotation[m]
    BY <1>0, <1>3 DEF RangesType
  <2> QED
    BY <1>0, <1>2, <1>3, <2>1, GrantKeeps
<1>8. RepairInv'
  BY <1>3 DEF RepairInv
<1> QED
  BY <1>5, <1>6, <1>7, <1>8 DEF RangesInv

\* A client is granted the block it asks for, or nothing changes.
LEMMA ClientAllocateKeeps ==
  ASSUME RangesInv, NEW n \in Namespaces, NEW b \in UserBlocks, ClientAllocate(n, b)
  PROVE  RangesInv'
<1>0. RangesType /\ BitmapInv /\ GrantsInv
  BY DEF RangesInv
<1>1. /\ Allocate(b) /\ phase = "serving"
      /\ UNCHANGED <<uidRange, setting, phase, todo, saved>>
      /\ IF AllocateAnswer(b) = "nil"
           THEN /\ annotation' = [annotation EXCEPT ![n] = b]
                /\ assigned' = assigned \cup {n}
           ELSE UNCHANGED <<annotation, assigned>>
  BY DEF ClientAllocate, Serving, Grant
<1>2. b \in Block
  BY <1>0, Basics
<1>3. /\ BitmapInv'
      /\ AllocateAnswer(b) = "nil" =>
           \E o \in (0 .. Size(uidRange) - 1) \ allocated :
             b = BlockAt(uidRange, o) /\ allocated' = allocated \cup {o}
      /\ AllocateAnswer(b) # "nil" => allocated' = allocated
  BY <1>0, <1>1, <1>2, AllocateKeeps
<1>4. RangesType'
  BY <1>0, <1>1, <1>2 DEF RangesType
<1>5. GrantsInv'
  <2>1. CASE AllocateAnswer(b) = "nil"
    <3>1. PICK o \in (0 .. Size(uidRange) - 1) \ allocated :
            b = BlockAt(uidRange, o) /\ allocated' = allocated \cup {o}
      BY <1>3, <2>1
    <3>2. /\ annotation'[n] = BlockAt(uidRange, o) /\ assigned' = assigned \cup {n}
          /\ \A m \in Namespaces \ {n} : annotation'[m] = annotation[m]
      BY <1>0, <1>1, <2>1, <3>1 DEF RangesType
    <3> QED
      BY <1>0, <1>1, <3>1, <3>2, GrantKeeps
  <2>2. CASE AllocateAnswer(b) # "nil"
    BY <1>0, <1>1, <1>3, <2>2 DEF GrantsInv
  <2> QED
    BY <2>1, <2>2
<1>6. RepairInv'
  BY <1>1 DEF RepairInv
<1> QED
  BY <1>3, <1>4, <1>5, <1>6 DEF RangesInv

\* The block that a deleted namespace was granted is nobody else's.
LEMMA DeleteNamespaceKeeps ==
  ASSUME RangesInv, NEW n \in Namespaces, DeleteNamespace(n)
  PROVE  RangesInv'
<1>0. RangesType /\ BitmapInv /\ GrantsInv
  BY DEF RangesInv
<1>1. /\ annotation' = [annotation EXCEPT ![n] = NoBlock] /\ assigned' = assigned \ {n}
      /\ phase = "serving" /\ UNCHANGED <<uidRange, setting, phase, todo, saved>>
      /\ IF n \in assigned THEN Release(annotation[n]) ELSE UNCHANGED <<allocated, count>>
  BY DEF DeleteNamespace, Serving
<1>2. /\ uidRange \in UIDRange /\ NoBlock \in Block /\ annotation[n] \in Block
      /\ allocated \in SUBSET (0 .. Size(uidRange) - 1)
  BY <1>0, Basics DEF RangesType
<1>3. RangesType'
  BY <1>0, <1>1, <1>2 DEF RangesType
<1>4. BitmapInv'
  <2>1. CASE n \in assigned
    BY <1>0, <1>1, <1>2, <2>1, ReleaseKeeps
  <2>2. CASE n \notin assigned
    BY <1>0, <1>1, <2>2, Zenon DEF BitmapInv
  <2> QED
    BY <2>1, <2>2
<1>5. GrantsInv'
  <2>1. \A m \in assigned' : annotation'[m] = annotation[m] /\ m \in assigned /\ m # n
    BY <1>0, <1>1 DEF RangesType
  <2>2. \A m \in assigned' : \E o \in allocated' : annotation[m] = BlockAt(uidRange, o)
    <3>1. CASE n \in assigned
      <4>1. PICK o \in allocated : annotation[n] = BlockAt(uidRange, o)
        BY <1>0, <3>1 DEF GrantsInv
      <4>2. allocated' = allocated \ {o}
        BY <1>1, <1>2, <3>1, <4>1, BlockAtFacts DEF Release
      <4> QED
        BY <1>0, <2>1, <3>1, <4>1, <4>2 DEF GrantsInv
    <3>2. CASE n \notin assigned
      BY <1>0, <1>1, <2>1, <3>2 DEF GrantsInv
    <3> QED
      BY <3>1, <3>2
  <2> QED
    BY <1>0, <1>1, <2>1, <2>2 DEF GrantsInv
<1>6. RepairInv'
  BY <1>1 DEF RepairInv
<1> QED
  BY <1>3, <1>4, <1>5, <1>6 DEF RangesInv

\* Releasing a block that nobody was granted takes no granted block's mark.
LEMMA ReleaseStrayKeeps ==
  ASSUME RangesInv, NEW b \in UserBlocks, ReleaseStray(b)
  PROVE  RangesInv'
<1>0. RangesType /\ BitmapInv /\ GrantsInv
  BY DEF RangesInv
<1>1. /\ phase = "serving" /\ Release(b) /\ \A n \in assigned : annotation[n] # b
      /\ UNCHANGED <<uidRange, setting, phase, todo, annotation, assigned, saved>>
  BY DEF ReleaseStray, Serving
<1>2. /\ b \in Block /\ uidRange \in UIDRange /\ Size(uidRange) \in Nat
      /\ allocated \in SUBSET (0 .. Size(uidRange) - 1)
  BY <1>0, Basics
<1>3. BitmapInv'
  BY <1>0, <1>1, <1>2, ReleaseKeeps
<1>4. GrantsInv'
  <2>1. \A o \in allocated : o \in Offset(uidRange, b) => b = BlockAt(uidRange, o)
    BY <1>2, OffsetFacts
  <2>2. \A n \in assigned : \E o \in allocated' : annotation[n] = BlockAt(uidRange, o)
    <3>1. SUFFICES ASSUME NEW n \in assigned
                   PROVE  \E o \in allocated' : annotation[n] = BlockAt(uidRange, o)
      OBVIOUS
    <3>2. PICK o \in allocated : annotation[n] = BlockAt(uidRange, o)
      BY <1>0 DEF GrantsInv
    <3>3. o \notin Offset(uidRange, b)
      BY <1>1, <2>1, <3>2
    <3> QED
      BY <1>1, <3>2, <3>3 DEF Release
  <2> QED
    BY <1>0, <1>1, <2>2 DEF GrantsInv
<1>5. RangesType' /\ RepairInv'
  BY <1>0, <1>1 DEF RangesType, RepairInv
<1> QED
  BY <1>3, <1>4, <1>5 DEF RangesInv

\* A namespace without a block was granted none, so a user's block changes no grant.
LEMMA UserAnnotatesKeeps ==
  ASSUME RangesInv, NEW n \in Namespaces, NEW b \in UserBlocks, UserAnnotates(n, b)
  PROVE  RangesInv'
<1>0. RangesType /\ BitmapInv /\ GrantsInv
  BY DEF RangesInv
<1>1. /\ phase = "serving" /\ annotation[n] = NoBlock
      /\ annotation' = [annotation EXCEPT ![n] = b]
      /\ UNCHANGED <<uidRange, setting, phase, todo, allocated, count, assigned, saved>>
  BY DEF UserAnnotates, Serving
<1>2. /\ b \in Block /\ uidRange \in UIDRange
      /\ allocated \in SUBSET (0 .. Size(uidRange) - 1)
  BY <1>0, Basics
<1>3. n \notin assigned
  BY <1>0, <1>1, <1>2, NoBlockFacts DEF GrantsInv
<1>4. \A m \in assigned : annotation'[m] = annotation[m]
  BY <1>0, <1>1, <1>3 DEF RangesType
<1>5. GrantsInv'
  BY <1>0, <1>1, <1>4 DEF GrantsInv
<1>6. RangesType' /\ BitmapInv' /\ RepairInv'
  BY <1>0, <1>1, <1>2 DEF RangesType, BitmapInv, RepairInv
<1> QED
  BY <1>5, <1>6 DEF RangesInv

\* A grant that is not forgotten when the snapshot is restored has its mark in it.
LEMMA RestoreSnapshotKeeps ==
  ASSUME RangesInv, RestoreSnapshot
  PROVE  RangesInv'
<1>0. RangesType /\ BitmapInv /\ GrantsInv
  BY DEF RangesInv
<1>1. /\ phase = "serving" /\ saved.range = uidRange
      /\ allocated' = saved.data /\ count' = Cardinality(saved.data)
      /\ assigned' = {n \in assigned : Offset(uidRange, annotation[n]) \subseteq saved.data}
      /\ UNCHANGED <<uidRange, setting, phase, todo, annotation, saved>>
  BY DEF RestoreSnapshot, Serving, Restore
<1>2. uidRange \in UIDRange /\ allocated \in SUBSET (0 .. Size(uidRange) - 1)
  BY <1>0, Basics
<1>3. RangesType' /\ BitmapInv' /\ RepairInv'
  BY <1>0, <1>1 DEF RangesType, BitmapInv, RepairInv
<1>4. GrantsInv'
  <2>1. \A n \in assigned' : \E o \in allocated' : annotation[n] = BlockAt(uidRange, o)
    <3>1. SUFFICES ASSUME NEW n \in assigned'
                   PROVE  \E o \in allocated' : annotation[n] = BlockAt(uidRange, o)
      OBVIOUS
    <3>2. n \in assigned /\ Offset(uidRange, annotation[n]) \subseteq allocated'
      BY <1>1
    <3>3. PICK o \in allocated : annotation[n] = BlockAt(uidRange, o)
      BY <1>0, <3>2 DEF GrantsInv
    <3>4. Offset(uidRange, annotation[n]) = {o}
      BY <1>2, <3>3, BlockAtFacts
    <3> QED
      BY <3>2, <3>3, <3>4
  <2>2. assigned' \subseteq assigned /\ annotation' = annotation /\ uidRange' = uidRange
    BY <1>1
  <2> QED
    BY <1>0, <2>1, <2>2 DEF GrantsInv
<1> QED
  BY <1>3, <1>4 DEF RangesInv

\* Every step keeps the invariant.
LEMMA RangesInvNext == RangesInv /\ [Next]_vars => RangesInv'
<1> SUFFICES ASSUME RangesInv, [Next]_vars PROVE RangesInv'
  OBVIOUS
<1>1. ASSUME NEW r \in UIDRanges, BeginRepair(r) PROVE RangesInv'
  BY <1>1, BeginRepairKeeps
<1>2. CASE EndRepair \/ TakeSnapshot
  BY <1>2, SnapshotKeeps
<1>3. CASE RestoreSnapshot
  BY <1>3, RestoreSnapshotKeeps
<1>4. ASSUME NEW n \in Namespaces, RepairNamespace(n) PROVE RangesInv'
  BY <1>4, RepairNamespaceKeeps
<1>5. ASSUME NEW n \in Namespaces, ClientNext(n) PROVE RangesInv'
  BY <1>5, ClientNextKeeps
<1>6. ASSUME NEW n \in Namespaces, DeleteNamespace(n) PROVE RangesInv'
  BY <1>6, DeleteNamespaceKeeps
<1>7. ASSUME NEW n \in Namespaces, NEW b \in UserBlocks, ClientAllocate(n, b) PROVE RangesInv'
  BY <1>7, ClientAllocateKeeps
<1>8. ASSUME NEW n \in Namespaces, NEW b \in UserBlocks, UserAnnotates(n, b) PROVE RangesInv'
  BY <1>8, UserAnnotatesKeeps
<1>9. ASSUME NEW b \in UserBlocks, ReleaseStray(b) PROVE RangesInv'
  BY <1>9, ReleaseStrayKeeps
<1>10. CASE UNCHANGED vars
  BY <1>10 DEF vars, allocator, RangesInv, RangesType, BitmapInv, GrantsInv, RepairInv
<1> QED
  BY <1>1, <1>2, <1>3, <1>4, <1>5, <1>6, <1>7, <1>8, <1>9, <1>10 DEF Next

-----------------------------------------------------------------------------
(* What the allocator promises.                                            *)

\* Two blocks of a range that have different numbers share no UID.
LEMMA BlocksApart ==
  ASSUME NEW r \in UIDRange, NEW o \in 0 .. Size(r) - 1, NEW p \in 0 .. Size(r) - 1, o # p
  PROVE  UIDs(BlockAt(r, o)) \cap UIDs(BlockAt(r, p)) = {}
<1>1. Size(r) \in Nat /\ r.Start \in Nat /\ r.size \in Nat \ {0}
  BY RangeFacts
<1>2. /\ BlockAt(r, o).Start = r.Start + (o * r.size)
      /\ BlockAt(r, o).End = r.Start + (o * r.size) + r.size - 1
      /\ BlockAt(r, p).Start = r.Start + (p * r.size)
      /\ BlockAt(r, p).End = r.Start + (p * r.size) + r.size - 1
  BY BlockAtFacts
<1>3. \A i, j \in Nat : i < j => (i * r.size) + r.size <= j * r.size
  <2>1. SUFFICES ASSUME NEW i \in Nat, NEW j \in Nat, i < j
                 PROVE  (i * r.size) + r.size <= j * r.size
    OBVIOUS
  <2>2. (i + 1) * r.size <= j * r.size
    BY <1>1, <2>1
  <2> QED
    BY <1>1, <2>2
<1>4. o \in Nat /\ p \in Nat /\ o * r.size \in Nat /\ p * r.size \in Nat
  BY <1>1
<1>5. \/ (o * r.size) + r.size <= p * r.size
      \/ (p * r.size) + r.size <= o * r.size
  <2>1. o < p \/ p < o
    BY <1>4
  <2> QED
    BY <1>3, <1>4, <2>1
<1> QED
  BY <1>1, <1>2, <1>4, <1>5 DEF UIDs

\* The blocks granted lie in the range and share no UID.
LEMMA RangesInvDisjoint == RangesInv => DisjointUIDs
<1> SUFFICES ASSUME RangesInv PROVE DisjointUIDs
  OBVIOUS
<1>0. RangesType /\ BitmapInv /\ GrantsInv
  BY DEF RangesInv
<1>1. uidRange \in UIDRange /\ allocated \in SUBSET (0 .. Size(uidRange) - 1)
  BY <1>0, Basics
<1>2. ASSUME NEW n \in assigned
      PROVE  UIDs(annotation[n]) # {} /\ UIDs(annotation[n]) \subseteq UIDs(uidRange)
  <2>1. PICK o \in allocated : annotation[n] = BlockAt(uidRange, o)
    BY <1>0 DEF GrantsInv
  <2> DEFINE first == o * uidRange.size
  <2>2. /\ annotation[n].Start = uidRange.Start + first
        /\ annotation[n].End = uidRange.Start + first + uidRange.size - 1
        /\ annotation[n].End <= uidRange.End
    BY <1>1, <2>1, BlockAtFacts
  <2>3. uidRange.Start \in Nat /\ uidRange.End \in Nat /\ uidRange.size \in Nat \ {0}
    BY <1>1, RangeFacts
  <2>4. first \in Nat
    BY <1>1, <2>3
  <2> HIDE DEF first
  <2>5. annotation[n].Start \in UIDs(annotation[n])
    BY <2>2, <2>3, <2>4 DEF UIDs
  <2>6. UIDs(annotation[n]) \subseteq UIDs(uidRange)
    BY <2>2, <2>3, <2>4 DEF UIDs
  <2> QED
    BY <2>5, <2>6
<1>3. ASSUME NEW m \in assigned, NEW n \in assigned, m # n
      PROVE  UIDs(annotation[m]) \cap UIDs(annotation[n]) = {}
  <2>1. PICK o \in allocated : annotation[m] = BlockAt(uidRange, o)
    BY <1>0 DEF GrantsInv
  <2>2. PICK p \in allocated : annotation[n] = BlockAt(uidRange, p)
    BY <1>0 DEF GrantsInv
  <2>3. o # p
    BY <1>0, <1>3, <2>1, <2>2 DEF GrantsInv
  <2> QED
    BY <1>1, <2>1, <2>2, <2>3, BlocksApart
<1> QED
  BY <1>2, <1>3 DEF DisjointUIDs

\* The free blocks are those that are not marked.
LEMMA RangesInvFree == RangesInv => FreeIsExact
<1> SUFFICES ASSUME RangesInv PROVE FreeIsExact
  OBVIOUS
<1> DEFINE numbers == 0 .. Size(uidRange) - 1
<1>0. RangesType /\ BitmapInv
  BY DEF RangesInv
<1>1. /\ uidRange \in UIDRange /\ Size(uidRange) \in Nat
      /\ allocated \in SUBSET numbers /\ UserBlocks \subseteq Block
  BY <1>0, Basics
<1>2. {o \in numbers : AllocateAnswer(BlockAt(uidRange, o)) = "nil"} = numbers \ allocated
  <2>1. SUFFICES ASSUME NEW o \in numbers
                 PROVE  AllocateAnswer(BlockAt(uidRange, o)) = "nil" <=> o \notin allocated
    BY <1>1
  <2>2. BlockAt(uidRange, o) \in Block
    BY <1>1, BlockAtFacts
  <2>3. AllocateAnswer(BlockAt(uidRange, o)) = "nil" <=>
          \E p \in numbers \ allocated : BlockAt(uidRange, o) = BlockAt(uidRange, p)
    BY <1>0, <2>2, AnswerFacts, Zenon
  <2>4. \A p \in numbers : BlockAt(uidRange, o) = BlockAt(uidRange, p) => o = p
    BY <1>1, BlockAtInjective
  <2> QED
    BY <2>3, <2>4
<1>3. Cardinality(numbers \ allocated) = Size(uidRange) - count
  <2>1. 0 \in Int /\ Size(uidRange) - 1 \in Int
    BY <1>1
  <2>2. IsFiniteSet(numbers) /\ Cardinality(numbers) = Size(uidRange)
    <3>1. /\ IsFiniteSet(numbers)
          /\ Cardinality(numbers) =
               IF 0 > Size(uidRange) - 1 THEN 0 ELSE Size(uidRange) - 1 - 0 + 1
      BY <2>1, FS_Interval
    <3> QED
      BY <1>1, <3>1
  <2>3. numbers \cap allocated = allocated
    BY <1>1, Zenon
  <2> HIDE DEF numbers
  <2>4. Cardinality(numbers \ allocated) = Cardinality(numbers) - Cardinality(numbers \cap allocated)
    BY <2>2, FS_Difference, Zenon
  <2> QED
    BY <1>0, <2>2, <2>3, <2>4 DEF BitmapInv
<1>4. ASSUME NEW b \in UserBlocks PROVE Has(b) <=> AllocateAnswer(b) = "ErrAllocated"
  <2>1. AllocateAnswer(b) = "ErrAllocated" <=> \E o \in allocated : b = BlockAt(uidRange, o)
    BY <1>0, <1>1, AnswerFacts, Zenon
  <2>2. ASSUME NEW o \in allocated, b = BlockAt(uidRange, o) PROVE Has(b)
    BY <1>1, <2>2, BlockAtFacts DEF Has
  <2>3. ASSUME Has(b) PROVE \E o \in allocated : b = BlockAt(uidRange, o)
    <3>1. PICK o \in Offset(uidRange, b) : o \in allocated
      BY <2>3 DEF Has
    <3>2. o < Size(uidRange)
      BY <1>1, <3>1
    <3> QED
      BY <1>1, <3>1, <3>2, OffsetFacts
  <2> QED
    BY <2>1, <2>2, <2>3
<1> QED
  BY <1>2, <1>3, <1>4, Zenon DEF FreeIsExact, Free

\* When Repair has looked at every namespace, it has marked what they have.
LEMMA RangesInvRepair == RangesInv => RepairExact
BY DEF RangesInv, RepairInv, RepairExact

\* The inductive invariant holds in every state, for every set of namespaces, UID
\* ranges, blocks and settings.
THEOREM RangesInvariant == Spec => []RangesInv
BY RangesInvInit, RangesInvNext, PTL DEF Spec

\* No UID is granted to two namespaces, and none outside the range (Allocate,
\* AllocateNext, Release, Restore, and Repair over whatever users wrote).
THEOREM UIDsDisjoint == Spec => []DisjointUIDs
BY RangesInvariant, RangesInvDisjoint, PTL

\* Free() never drifts from the bitmap, and Has agrees with Allocate.
THEOREM FreeExact == Spec => []FreeIsExact
BY RangesInvariant, RangesInvFree, PTL

\* Repair marks exactly the blocks that are there, in whatever order it meets them.
THEOREM RepairMarksExactly == Spec => []RepairExact
BY RangesInvariant, RangesInvRepair, PTL

-----------------------------------------------------------------------------
(* Binomials.                                                              *)

\* b is the n-th row of Pascal's triangle.
IsRow(n, b) ==
  /\ b \in [Nat -> Nat] /\ b[0] = 1 /\ b[n] = 1
  /\ \A d \in Nat : d > n => b[d] = 0
  /\ \A d \in Nat : (d + 1) * b[d + 1] = (n - d) * b[d]

NextRow(b) == [d \in Nat |-> IF d = 0 THEN 1 ELSE b[d] + b[d - 1]]

\* What follows a row is the next row.
LEMMA RowNext ==
  ASSUME NEW n \in Nat, NEW b, IsRow(n, b)
  PROVE  IsRow(n + 1, NextRow(b))
<1> DEFINE c == NextRow(b)
<1>0. /\ b \in [Nat -> Nat] /\ b[0] = 1 /\ b[n] = 1
      /\ \A d \in Nat : d > n => b[d] = 0
      /\ \A d \in Nat : (d + 1) * b[d + 1] = (n - d) * b[d]
  BY Zenon DEF IsRow
<1>1. /\ c \in [Nat -> Nat] /\ c[0] = 1
      /\ \A d \in Nat : c[d + 1] = b[d + 1] + b[d]
  <2>1. \A d \in Nat : d # 0 => d - 1 \in Nat
    OBVIOUS
  <2>2. \A d \in Nat : b[d] \in Nat
    BY <1>0, Zenon
  <2>3. \A d \in Nat : c[d] = IF d = 0 THEN 1 ELSE b[d] + b[d - 1]
    BY DEF NextRow
  <2>4. \A d \in Nat : c[d] \in Nat
    BY <2>1, <2>2, <2>3
  <2>5. c \in [Nat -> Nat]
    BY <2>4 DEF NextRow
  <2>6. \A d \in Nat : d + 1 \in Nat /\ d + 1 # 0 /\ (d + 1) - 1 = d
    OBVIOUS
  <2> QED
    BY <2>3, <2>5, <2>6
<1> HIDE DEF c
<1>2. c[n + 1] = 1
  <2>1. b[n + 1] = 0
    BY <1>0
  <2> QED
    BY <1>0, <1>1, <2>1
<1>3. ASSUME NEW d \in Nat, d > n + 1 PROVE c[d] = 0
  <2>1. d - 1 \in Nat /\ d = (d - 1) + 1 /\ d - 1 > n /\ d > n
    BY <1>3
  <2>2. c[d] = b[d] + b[d - 1]
    BY <1>1, <2>1
  <2> QED
    BY <1>0, <2>1, <2>2
<1>4. ASSUME NEW d \in Nat PROVE (d + 1) * c[d + 1] = ((n + 1) - d) * c[d]
  <2>1. CASE d = 0
    <3>1. (0 + 1) * b[0 + 1] = (n - 0) * b[0]
      BY <1>0
    <3>2. b[1] = n
      BY <1>0, <3>1
    <3>3. c[0 + 1] = b[0 + 1] + b[0]
      BY <1>1
    <3> QED
      BY <1>0, <1>1, <2>1, <3>2, <3>3
  <2>2. CASE d # 0
    <3> DEFINE x == b[d + 1]
               y == b[d]
               z == b[d - 1]
    <3>1. d - 1 \in Nat /\ (d - 1) + 1 = d
      BY <2>2
    <3>2. x \in Nat /\ y \in Nat /\ z \in Nat
      <4>1. d + 1 \in Nat
        OBVIOUS
      <4> QED
        BY <1>0, <3>1, <4>1, Zenon
    <3>3. (d + 1) * x = (n - d) * y
      BY <1>0
    <3>4. d * y = (n - (d - 1)) * z
      BY <1>0, <3>1
    <3>5. c[d + 1] = x + y /\ c[d] = y + z
      BY <1>1, <3>1
    <3> HIDE DEF x, y, z
    <3>6. (d + 1) * (x + y) = ((n + 1) - d) * (y + z)
      <4>1. (d + 1) * (x + y) = ((n - d) * y) + ((d + 1) * y)
        BY <3>2, <3>3
      <4>2. ((n + 1) - d) * (y + z) = (((n + 1) - d) * y) + (d * y)
        BY <3>2, <3>4
      <4> QED
        BY <3>2, <4>1, <4>2
    <3> QED
      BY <3>5, <3>6
  <2> QED
    BY <2>1, <2>2
<1> QED
  BY <1>1, <1>2, <1>3, <1>4, Zenon DEF IsRow, c

\* Every row exists.
LEMMA Rows == \A n \in Nat : \E b : IsRow(n, b)
<1> DEFINE S == {n \in Nat : \E b : IsRow(n, b)}
<1>1. 0 \in S
  <2> DEFINE b == [d \in Nat |-> IF d = 0 THEN 1 ELSE 0]
  <2>1. IsRow(0, b)
    <3>1. /\ b \in [Nat -> Nat] /\ b[0] = 1
          /\ \A d \in Nat : d > 0 => b[d] = 0
      OBVIOUS
    <3>2. ASSUME NEW d \in Nat PROVE (d + 1) * b[d + 1] = (0 - d) * b[d]
      <4>1. b[d + 1] = 0
        OBVIOUS
      <4>2. d = 0 \/ b[d] = 0
        OBVIOUS
      <4> QED
        BY <3>1, <4>1, <4>2
    <3> QED
      BY <3>1, <3>2 DEF IsRow
  <2> QED
    BY <2>1
<1>2. ASSUME NEW n \in Nat, n \in S PROVE n + 1 \in S
  <2>1. PICK b : IsRow(n, b)
    BY <1>2
  <2> QED
    BY <2>1, RowNext
<1> HIDE DEF S
<1>3. Nat \subseteq S
  BY <1>1, <1>2, SetInduction
<1> QED
  BY <1>3 DEF S

\* binomial computes the row.
LEMMA BinomialRow ==
  ASSUME NEW n \in Nat, NEW b, IsRow(n, b), NEW k \in Nat
  PROVE  binomial(n, k) = b[k]
<1> DEFINE Def(f) == [d \in 0 .. k |-> IF d = 0 THEN 1 ELSE (f[d - 1] * (n - d + 1)) \div d]
           r == CHOOSE f : f = Def(f)
<1>0. /\ b \in [Nat -> Nat] /\ b[0] = 1 /\ b[n] = 1
      /\ \A d \in Nat : d > n => b[d] = 0
      /\ \A d \in Nat : (d + 1) * b[d + 1] = (n - d) * b[d]
  BY Zenon DEF IsRow
<1>1. binomial(n, k) = IF n < k THEN 0 ELSE IF n = k THEN 1 ELSE r[k]
  BY DEF binomial
<1>2. ASSUME NEW d \in 1 .. k, k < n PROVE b[d] = (b[d - 1] * (n - d + 1)) \div d
  <2>1. d - 1 \in Nat /\ d \in Nat \ {0} /\ (d - 1) + 1 = d /\ n - (d - 1) = n - d + 1
    OBVIOUS
  <2>2. d * b[d] = (n - d + 1) * b[d - 1]
    BY <1>0, <2>1
  <2>3. b[d] \in Nat /\ b[d - 1] \in Nat /\ n - d + 1 \in Nat
    <3>1. n - d + 1 \in Nat
      BY <1>2
    <3> QED
      BY <1>0, <2>1, <3>1, Zenon
  <2>4. (b[d] * d) \div d = b[d]
    BY <2>1, <2>3
  <2>5. b[d] * d = b[d - 1] * (n - d + 1)
    BY <2>1, <2>2, <2>3
  <2> QED
    BY <2>4, <2>5
<1>3. k < n => r = Def(r)
  <2>1. SUFFICES ASSUME k < n PROVE r = Def(r)
    BY Zenon
  <2> DEFINE g == [d \in 0 .. k |-> b[d]]
  <2>2. \A d \in 0 .. k : d # 0 => d \in 1 .. k /\ d - 1 \in 0 .. k
    OBVIOUS
  <2>3. g = Def(g)
    BY <1>0, <1>2, <2>1, <2>2, Zenon
  <2> HIDE DEF Def
  <2> QED
    BY <2>3
<1> HIDE DEF r
<1>4. ASSUME k < n PROVE r[k] = b[k]
  <2> DEFINE S == {d \in Nat : d <= k => r[d] = b[d]}
  <2>1. 0 \in S
    BY <1>0, <1>3, <1>4
  <2>2. ASSUME NEW d \in Nat, d \in S PROVE d + 1 \in S
    <3>1. CASE d + 1 <= k
      <4>1. d + 1 \in 1 .. k /\ (d + 1) - 1 = d /\ d + 1 \in 0 .. k /\ d + 1 # 0
        BY <3>1
      <4>2. r[d + 1] = (r[d] * (n - (d + 1) + 1)) \div (d + 1)
        BY <1>3, <1>4, <4>1
      <4>3. b[d + 1] = (b[d] * (n - (d + 1) + 1)) \div (d + 1)
        BY <1>2, <1>4, <4>1
      <4> QED
        BY <2>2, <4>1, <4>2, <4>3
    <3>2. CASE ~ (d + 1 <= k)
      BY <3>2
    <3> QED
      BY <3>1, <3>2
  <2> HIDE DEF S
  <2>3. Nat \subseteq S
    BY <2>1, <2>2, SetInduction
  <2> QED
    BY <2>3 DEF S
<1>5. n < k => b[k] = 0
  BY <1>0
<1>6. n < k \/ n = k \/ (k < n /\ ~ n < k /\ n # k)
  OBVIOUS
<1> QED
  BY <1>0, <1>1, <1>4, <1>5, <1>6, Zenon

\* What is used of binomial: its values at the edges, and Pascal's rule.
LEMMA Binomial ==
  ASSUME NEW n \in Nat, NEW k \in Nat
  PROVE  /\ binomial(n, k) \in Nat /\ binomial(n, 0) = 1
         /\ k > n => binomial(n, k) = 0
         /\ binomial(n + 1, k + 1) = binomial(n, k + 1) + binomial(n, k)
<1>1. PICK b : IsRow(n, b)
  BY Rows
<1>2. IsRow(n + 1, NextRow(b))
  BY <1>1, RowNext
<1>3. /\ binomial(n, k) = b[k] /\ binomial(n, 0) = b[0] /\ binomial(n, k + 1) = b[k + 1]
      /\ binomial(n + 1, k + 1) = NextRow(b)[k + 1]
  BY <1>1, <1>2, BinomialRow
<1>4. NextRow(b)[k + 1] = b[k + 1] + b[k]
  BY DEF NextRow
<1> QED
  BY <1>1, <1>3, <1>4 DEF IsRow

-----------------------------------------------------------------------------
(* Ranking and unranking.                                                  *)

\* Max finds the greatest of a bounded set of naturals.
LEMMA MaxFacts ==
  ASSUME NEW S \in SUBSET Nat, S # {}, NEW N \in Nat, \A s \in S : s <= N
  PROVE  Max(S) \in S /\ \A s \in S : s <= Max(S)
<1> DEFINE T == {N - s : s \in S}
<1>1. T \in SUBSET Nat /\ T # {}
  <2>1. \A s \in S : N - s \in Nat
    OBVIOUS
  <2> QED
    BY <2>1
<1>2. PICK t \in T : \A u \in T : t <= u
  BY <1>1, Least, Zenon
<1>3. PICK x \in S : t = N - x
  BY <1>2
<1>4. \A y \in S : x \in Nat /\ y \in Nat /\ N - x <= N - y
  BY <1>2, <1>3, Zenon
<1>5. \A y \in S : x >= y
  BY <1>4
<1>6. /\ Max(S) \in S /\ \A y \in S : Max(S) >= y
  BY <1>5, Zenon DEF Max
<1> QED
  BY <1>6

\* The step of categoriesForOffset that finds a category with j still to find.
Step(before, j) ==
  LET c == Max({m \in 0 .. before.n : binomial(m, j) <= before.offset})
  IN  [n |-> c, offset |-> before.offset - binomial(c, j),
       categories |-> Append(before.categories, c)]

\* A step finds a category below the last, and leaves an offset that the lower
\* categories have sets for.
LEMMA StepFacts ==
  ASSUME NEW before, NEW j \in Nat, before.n \in Nat, before.offset \in Nat,
         before.offset < binomial(before.n, j + 1)
  PROVE  LET after == Step(before, j + 1)
         IN  /\ after.n \in Nat /\ after.n < before.n
             /\ after.offset \in Nat
             /\ after.offset + binomial(after.n, j + 1) = before.offset
             /\ after.offset < binomial(after.n, j)
             /\ after.categories = Append(before.categories, after.n)
<1> DEFINE N == before.n
           x == before.offset
           S == {m \in 0 .. N : binomial(m, j + 1) <= x}
           c == Max(S)
<1>0. N \in Nat /\ x \in Nat /\ x < binomial(N, j + 1)
  OBVIOUS
<1>1. /\ Step(before, j + 1).n = c
      /\ Step(before, j + 1).offset = x - binomial(c, j + 1)
      /\ Step(before, j + 1).categories = Append(before.categories, c)
  BY DEF Step
<1> HIDE DEF N, x
<1>2. \A m \in Nat : binomial(m, j + 1) \in Nat /\ binomial(m, j) \in Nat
  <2>1. j + 1 \in Nat
    OBVIOUS
  <2>2. \A m, i \in Nat : binomial(m, i) \in Nat
    BY Binomial, Zenon
  <2> QED
    BY <2>1, <2>2, Zenon
<1>3. 0 \in S
  <2>1. binomial(0, j + 1) = 0
    BY Binomial
  <2> QED
    BY <1>0, <2>1
<1>4. c \in S /\ \A m \in S : m <= c
  <2>1. S \in SUBSET Nat /\ \A m \in S : m <= N
    BY <1>0
  <2> HIDE DEF S
  <2> QED
    BY <1>0, <1>3, <2>1, MaxFacts, Zenon
<1> HIDE DEF c
<1>5. c \in 0 .. N /\ c \in Nat /\ binomial(c, j + 1) <= x
  BY <1>0, <1>4
<1>6. c # N
  BY <1>0, <1>2, <1>5
<1>7. c < N /\ c + 1 \in 0 .. N
  BY <1>0, <1>5, <1>6
<1>8. c + 1 \notin S
  <2>1. ~ (c + 1 <= c)
    BY <1>5
  <2> QED
    BY <1>4, <2>1
<1>9. x < binomial(c + 1, j + 1)
  <2>1. ~ (binomial(c + 1, j + 1) <= x)
    BY <1>7, <1>8
  <2>2. binomial(c + 1, j + 1) \in Nat
    BY <1>2, <1>5
  <2> QED
    BY <1>0, <2>1, <2>2
<1>10. binomial(c + 1, j + 1) = binomial(c, j + 1) + binomial(c, j)
  BY <1>5, Binomial
<1>11. binomial(c, j + 1) \in Nat /\ binomial(c, j) \in Nat
  BY <1>2, <1>5
<1>12. /\ x - binomial(c, j + 1) \in Nat
       /\ (x - binomial(c, j + 1)) + binomial(c, j + 1) = x
       /\ x - binomial(c, j + 1) < binomial(c, j)
  BY <1>0, <1>5, <1>9, <1>10, <1>11
<1> QED
  BY <1>1, <1>5, <1>7, <1>12 DEF N, x

\* The first m steps of categoriesForOffset.
Steps(f, m, offset, n, k) ==
  f = [i \in 0 .. m |-> IF i = 0 THEN [n |-> n, offset |-> offset, categories |-> <<>>]
                        ELSE Step(f[i - 1], k - i + 1)]

\* There are as many steps as one likes.
LEMMA StepsExist ==
  ASSUME NEW offset, NEW n, NEW k \in Nat
  PROVE  \E f : Steps(f, k, offset, n, k)
<1> DEFINE S == {m \in Nat : \E f : Steps(f, m, offset, n, k)}
           first == [n |-> n, offset |-> offset, categories |-> <<>>]
<1>1. 0 \in S
  <2>1. Steps([i \in 0 .. 0 |-> first], 0, offset, n, k)
    BY DEF Steps
  <2> QED
    BY <2>1
<1>2. ASSUME NEW m \in Nat, m \in S PROVE m + 1 \in S
  <2>1. PICK f : Steps(f, m, offset, n, k)
    BY <1>2
  <2> DEFINE g == [i \in 0 .. m + 1 |-> IF i = m + 1 THEN Step(f[m], k - i + 1) ELSE f[i]]
             h == [i \in 0 .. m + 1 |-> IF i = 0 THEN first ELSE Step(g[i - 1], k - i + 1)]
  <2>2. ASSUME NEW i \in 0 .. m + 1 PROVE g[i] = h[i]
    <3>1. CASE i = 0
      BY <2>1, <3>1 DEF Steps
    <3>2. CASE i \in 1 .. m
      <4>1. /\ i \in 0 .. m /\ i # 0 /\ i # m + 1
            /\ i - 1 \in 0 .. m + 1 /\ i - 1 # m + 1
        BY <3>2
      <4>2. g[i] = f[i] /\ g[i - 1] = f[i - 1]
        BY <4>1
      <4>3. f[i] = Step(f[i - 1], k - i + 1)
        BY <2>1, <4>1 DEF Steps
      <4>4. h[i] = Step(g[i - 1], k - i + 1)
        BY <4>1
      <4> QED
        BY <4>2, <4>3, <4>4, Zenon
    <3>3. CASE i = m + 1
      <4>1. i # 0 /\ i - 1 = m /\ m \in 0 .. m + 1 /\ m # m + 1
        BY <3>3
      <4>2. g[i] = Step(f[m], k - i + 1)
        BY <3>3
      <4>3. g[m] = f[m]
        BY <4>1
      <4>4. h[i] = Step(g[i - 1], k - i + 1)
        BY <4>1
      <4> QED
        BY <4>1, <4>2, <4>3, <4>4, Zenon
    <3>4. i = 0 \/ i \in 1 .. m \/ i = m + 1
      OBVIOUS
    <3> QED
      BY <3>1, <3>2, <3>3, <3>4, Zenon
  <2>3. g = h
    BY <2>2, Zenon
  <2>4. Steps(g, m + 1, offset, n, k)
    BY <2>3 DEF Steps
  <2> HIDE DEF g
  <2> QED
    BY <2>4
<1> HIDE DEF S
<1>3. Nat \subseteq S
  BY <1>1, <1>2, SetInduction
<1> QED
  BY <1>3 DEF S

\* After i steps: the categories so far descend, and what is left of the offset is
\* a number of sets of k - i categories below the last.
Unranking(f, k, i) ==
  /\ f[i].n \in Nat /\ f[i].offset \in Nat /\ f[i].offset < binomial(f[i].n, k - i)
  /\ f[i].categories \in Seq(Nat) /\ Len(f[i].categories) = i
  /\ \A j \in 1 .. i : f[i].categories[j] = f[j].n
  /\ \A j \in 0 .. i - 1 : f[j].n \in Nat /\ f[i].n < f[j].n
  /\ i > 0 => f[i].offset + binomial(f[i].n, k - i + 1) = f[i - 1].offset

LEMMA StepsUnrank ==
  ASSUME NEW N \in Nat, NEW k \in Nat, NEW x \in 0 .. binomial(N, k) - 1,
         NEW f, Steps(f, k, x, N, k)
  PROVE  \A i \in 0 .. k : Unranking(f, k, i)
<1> DEFINE S == {i \in Nat : i <= k => Unranking(f, k, i)}
<1>1. 0 \in S
  <2>1. f[0] = [n |-> N, offset |-> x, categories |-> <<>>]
    BY DEF Steps
  <2>2. binomial(N, k) \in Nat /\ k - 0 = k
    BY Binomial
  <2>3. f[0].n = N /\ f[0].offset = x /\ f[0].categories = <<>>
    BY <2>1
  <2>4. x \in Nat /\ x < binomial(N, k - 0)
    BY <2>2
  <2>5. \A j \in 1 .. 0 : FALSE
    OBVIOUS
  <2>6. \A j \in 0 .. 0 - 1 : FALSE
    OBVIOUS
  <2>7. <<>> \in Seq(Nat) /\ Len(<<>>) = 0 /\ ~ (0 > 0)
    OBVIOUS
  <2>8. Unranking(f, k, 0)
    BY <2>3, <2>4, <2>5, <2>6, <2>7 DEF Unranking
  <2> QED
    BY <2>8
<1>2. ASSUME NEW i \in Nat, i \in S PROVE i + 1 \in S
  <2>1. SUFFICES ASSUME i + 1 <= k PROVE Unranking(f, k, i + 1)
    OBVIOUS
  <2> DEFINE before == f[i]
             after == f[i + 1]
             j == k - (i + 1)
  <2>2. Unranking(f, k, i) /\ i <= k
    BY <1>2, <2>1
  <2>3. j \in Nat /\ j + 1 = k - i /\ k - (i + 1) + 1 = j + 1 /\ (i + 1) - 1 = i
    BY <2>1
  <2>4. after = Step(before, j + 1)
    <3>1. i + 1 \in 0 .. k /\ i + 1 # 0
      BY <2>1
    <3>2. f[i + 1] = Step(f[(i + 1) - 1], k - (i + 1) + 1)
      BY <3>1 DEF Steps
    <3> QED
      BY <2>3, <3>2
  <2>5. /\ before.n \in Nat /\ before.offset \in Nat
        /\ before.offset < binomial(before.n, j + 1)
        /\ before.categories \in Seq(Nat) /\ Len(before.categories) = i
        /\ \A l \in 1 .. i : before.categories[l] = f[l].n
        /\ \A l \in 0 .. i - 1 : f[l].n \in Nat /\ before.n < f[l].n
    BY <2>2, <2>3, Zenon DEF Unranking
  <2> HIDE DEF before, after, j
  <2>6. /\ after.n \in Nat /\ after.n < before.n /\ after.offset \in Nat
        /\ after.offset + binomial(after.n, j + 1) = before.offset
        /\ after.offset < binomial(after.n, j)
        /\ after.categories = Append(before.categories, after.n)
    BY <2>3, <2>4, <2>5, StepFacts, Zenon
  <2>7. /\ after.categories \in Seq(Nat) /\ Len(after.categories) = i + 1
        /\ \A l \in 1 .. i : after.categories[l] = before.categories[l]
        /\ after.categories[i + 1] = after.n
    BY <2>5, <2>6
  <2>8. \A l \in 1 .. i + 1 : after.categories[l] = f[l].n
    <3>1. \A l \in 1 .. i + 1 : l \in 1 .. i \/ l = i + 1
      OBVIOUS
    <3> QED
      BY <2>5, <2>7, <3>1, Zenon DEF after
  <2>9. \A l \in 0 .. (i + 1) - 1 : f[l].n \in Nat /\ after.n < f[l].n
    <3>1. SUFFICES ASSUME NEW l \in 0 .. (i + 1) - 1
                   PROVE  f[l].n \in Nat /\ after.n < f[l].n
      OBVIOUS
    <3>2. CASE l = i
      BY <2>5, <2>6, <3>2, Zenon DEF before
    <3>3. CASE l \in 0 .. i - 1
      <4>1. before.n < f[l].n /\ f[l].n \in Nat
        BY <2>5, <3>3, Zenon
      <4> QED
        BY <2>5, <2>6, <4>1
    <3>4. l = i \/ l \in 0 .. i - 1
      OBVIOUS
    <3> QED
      BY <3>2, <3>3, <3>4
  <2>10. /\ after.offset < binomial(after.n, k - (i + 1))
         /\ after.offset + binomial(after.n, k - (i + 1) + 1) = f[(i + 1) - 1].offset
    BY <2>3, <2>6 DEF before, j
  <2> QED
    BY <2>6, <2>7, <2>8, <2>9, <2>10, Zenon DEF Unranking, after
<1> HIDE DEF S
<1>3. Nat \subseteq S
  BY <1>1, <1>2, SetInduction
<1> QED
  BY <1>3 DEF S

\* What categoriesForOffset answers is what its k steps collect.
LEMMA CategoriesOfSteps ==
  ASSUME NEW offset, NEW n, NEW k \in Nat
  PROVE  \E f : Steps(f, k, offset, n, k)
                /\ categoriesForOffset(offset, n, k) = f[k].categories
<1> DEFINE Def(f) == [i \in 0 .. k |->
                        IF i = 0 THEN [n |-> n, offset |-> offset, categories |-> <<>>]
                        ELSE Step(f[i - 1], k - i + 1)]
           step == CHOOSE f : f = Def(f)
<1>1. categoriesForOffset(offset, n, k) = step[k].categories
  BY DEF categoriesForOffset, Step
<1>2. PICK f : Steps(f, k, offset, n, k)
  BY StepsExist
<1>3. f = Def(f)
  BY <1>2 DEF Steps
<1> HIDE DEF Def
<1>4. step = Def(step)
  BY <1>3
<1> HIDE DEF step
<1>5. Steps(step, k, offset, n, k)
  BY <1>4 DEF Steps, Def
<1> QED
  BY <1>1, <1>5

\* r adds up the binomials of the first m categories.
Ranks(r, m, c, k) ==
  r = [i \in 0 .. m |-> IF i = 0 THEN 0 ELSE r[i - 1] + binomial(c[i], k - i + 1)]

\* CategoriesOffset adds up the binomials of all categories.
LEMMA OffsetOfCategories ==
  ASSUME NEW c \in Seq(Nat), NEW k \in Nat, k = Len(c)
  PROVE  \E r : Ranks(r, k, c, k) /\ CategoriesOffset(c) = r[k]
<1> DEFINE S == {m \in Nat : \E r : Ranks(r, m, c, k)}
           Term(i) == binomial(c[i], k - i + 1)
           Def(r) == [i \in 0 .. k |-> IF i = 0 THEN 0 ELSE r[i - 1] + Term(i)]
           rank == CHOOSE r : r = Def(r)
<1>1. 0 \in S
  <2>1. Ranks([i \in 0 .. 0 |-> 0], 0, c, k)
    BY DEF Ranks
  <2> QED
    BY <2>1
<1>2. ASSUME NEW m \in Nat, m \in S PROVE m + 1 \in S
  <2>1. PICK f : Ranks(f, m, c, k)
    BY <1>2
  <2> DEFINE g == [i \in 0 .. m + 1 |-> IF i = m + 1 THEN f[m] + Term(i) ELSE f[i]]
             h == [i \in 0 .. m + 1 |-> IF i = 0 THEN 0 ELSE g[i - 1] + Term(i)]
  <2>2. f = [i \in 0 .. m |-> IF i = 0 THEN 0 ELSE f[i - 1] + Term(i)]
    BY <2>1 DEF Ranks
  <2> HIDE DEF Term
  <2>3. ASSUME NEW i \in 0 .. m + 1 PROVE g[i] = h[i]
    <3>1. CASE i = 0
      BY <2>2, <3>1
    <3>2. CASE i \in 1 .. m
      <4>1. /\ i \in 0 .. m /\ i # 0 /\ i # m + 1
            /\ i - 1 \in 0 .. m + 1 /\ i - 1 # m + 1
        BY <3>2
      <4>2. g[i] = f[i] /\ g[i - 1] = f[i - 1]
        BY <4>1
      <4>3. f[i] = f[i - 1] + Term(i)
        BY <2>2, <4>1
      <4>4. h[i] = g[i - 1] + Term(i)
        BY <4>1
      <4> QED
        BY <4>2, <4>3, <4>4
    <3>3. CASE i = m + 1
      <4>1. i # 0 /\ i - 1 = m /\ m \in 0 .. m + 1 /\ m # m + 1
        BY <3>3
      <4>2. g[i] = f[m] + Term(i)
        BY <3>3
      <4>3. g[m] = f[m]
        BY <4>1
      <4>4. h[i] = g[i - 1] + Term(i)
        BY <4>1
      <4> QED
        BY <4>1, <4>2, <4>3, <4>4
    <3>4. i = 0 \/ i \in 1 .. m \/ i = m + 1
      OBVIOUS
    <3> QED
      BY <3>1, <3>2, <3>3, <3>4, Zenon
  <2>4. g = h
    BY <2>3
  <2>5. Ranks(g, m + 1, c, k)
    BY <2>4, Zenon DEF Ranks, Term
  <2> HIDE DEF g
  <2> QED
    BY <2>5
<1> HIDE DEF S
<1>3. Nat \subseteq S
  BY <1>1, <1>2, SetInduction, Zenon
<1>4. PICK r : r = Def(r)
  BY <1>3 DEF S, Ranks
<1>5. CategoriesOffset(c) = rank[k]
  BY DEF CategoriesOffset
<1> HIDE DEF Def
<1>6. rank = Def(rank)
  BY <1>4
<1> HIDE DEF rank
<1>7. Ranks(rank, k, c, k)
  BY <1>6, Zenon DEF Ranks, Def
<1> QED
  BY <1>5, <1>7

\* Below the number of sets of k categories, categoriesForOffset finds k categories
\* that exist, in descending order, and CategoriesOffset finds the offset back.
LEMMA UnrankRank ==
  ASSUME NEW N \in Nat, NEW k \in Nat, NEW x \in 0 .. binomial(N, k) - 1
  PROVE  LET c == categoriesForOffset(x, N, k)
         IN  /\ c \in Seq(Nat) /\ Len(c) = k
             /\ \A i \in 1 .. k : c[i] < N
             /\ \A i, j \in 1 .. k : i < j => c[j] < c[i]
             /\ CategoriesOffset(c) = x
<1> DEFINE c == categoriesForOffset(x, N, k)
<1>1. PICK f : Steps(f, k, x, N, k) /\ c = f[k].categories
  BY CategoriesOfSteps
<1> HIDE DEF c
<1>2. \A i \in 0 .. k : Unranking(f, k, i)
  BY <1>1, StepsUnrank
<1>3. f[0].n = N /\ f[0].offset = x
  BY <1>1 DEF Steps
<1>4. c \in Seq(Nat) /\ Len(c) = k /\ \A i \in 1 .. k : c[i] = f[i].n
  <2>1. k \in 0 .. k
    OBVIOUS
  <2> QED
    BY <1>1, <1>2, <2>1 DEF Unranking
<1>5. ASSUME NEW i \in 0 .. k, NEW j \in 0 .. k, i < j PROVE f[j].n < f[i].n
  <2>1. i \in 0 .. j - 1
    BY <1>5
  <2> QED
    BY <1>2, <2>1 DEF Unranking
<1>6. \A i \in 1 .. k : c[i] < N
  <2>1. \A i \in 1 .. k : 0 \in 0 .. k /\ i \in 0 .. k /\ 0 < i
    OBVIOUS
  <2> QED
    BY <1>3, <1>4, <1>5, <2>1
<1>7. \A i, j \in 1 .. k : i < j => c[j] < c[i]
  <2>1. \A i \in 1 .. k : i \in 0 .. k
    OBVIOUS
  <2> QED
    BY <1>4, <1>5, <2>1
<1>8. PICK r : Ranks(r, k, c, k) /\ CategoriesOffset(c) = r[k]
  BY <1>4, OffsetOfCategories
<1>9. r[k] = x
  <2> DEFINE S == {i \in Nat : i <= k => r[i] = x - f[i].offset}
  <2>0. x \in Nat
    OBVIOUS
  <2>1. 0 \in S
    <3>1. r[0] = 0
      BY <1>8 DEF Ranks
    <3> QED
      BY <1>3, <2>0, <3>1
  <2>2. ASSUME NEW i \in Nat, i \in S PROVE i + 1 \in S
    <3>1. SUFFICES ASSUME i + 1 <= k PROVE r[i + 1] = x - f[i + 1].offset
      OBVIOUS
    <3>2. /\ i \in 0 .. k /\ i + 1 \in 0 .. k /\ i + 1 \in 1 .. k
          /\ i + 1 # 0 /\ (i + 1) - 1 = i /\ i + 1 > 0
          /\ k - (i + 1) + 1 \in Nat
      BY <3>1
    <3> DEFINE term == binomial(f[i + 1].n, k - (i + 1) + 1)
    <3>3. r[i + 1] = r[i] + term
      <4>1. r[i + 1] = r[(i + 1) - 1] + binomial(c[i + 1], k - (i + 1) + 1)
        BY <1>8, <3>2 DEF Ranks
      <4> QED
        BY <1>4, <3>2, <4>1
    <3>4. r[i] = x - f[i].offset
      BY <2>2, <3>1
    <3>5. f[i + 1].n \in Nat /\ f[i + 1].offset \in Nat /\ f[i].offset \in Nat
      BY <1>2, <3>2 DEF Unranking
    <3>6. f[i + 1].offset + term = f[i].offset
      BY <1>2, <3>2 DEF Unranking
    <3>7. term \in Nat
      BY <3>2, <3>5, Binomial, Zenon
    <3> HIDE DEF term
    <3> QED
      BY <2>0, <3>3, <3>4, <3>5, <3>6, <3>7
  <2> HIDE DEF S
  <2>3. Nat \subseteq S
    BY <2>1, <2>2, SetInduction
  <2>4. r[k] = x - f[k].offset
    BY <2>3 DEF S
  <2>5. f[k].n \in Nat /\ f[k].offset \in Nat /\ f[k].offset < binomial(f[k].n, k - k)
    <3>1. k \in 0 .. k
      OBVIOUS
    <3> QED
      BY <1>2, <3>1 DEF Unranking
  <2>6. k - k = 0 /\ binomial(f[k].n, 0) = 1
    <3>1. \A m \in Nat : binomial(m, 0) = 1
      BY Binomial
    <3> QED
      BY <2>5, <3>1
  <2>7. f[k].offset = 0
    BY <2>5, <2>6
  <2> QED
    BY <2>0, <2>4, <2>7
<1> QED
  BY <1>4, <1>6, <1>7, <1>8, <1>9 DEF c

-----------------------------------------------------------------------------
(* Counting sets of categories.                                            *)

\* The sets of k elements of X, with all of F added.
FixedSets(k, X, F) ==
  {T \in SUBSET (X \cup F) : F \subseteq T /\ Cardinality(T) = k + Cardinality(F)}

\* They are as many as the sets of k elements of X.
LEMMA FixedCount ==
  ASSUME NEW X, NEW F, IsFiniteSet(X), IsFiniteSet(F), X \cap F = {}, NEW k \in Nat,
         IsFiniteSet(kSubset(k, X))
  PROVE  /\ IsFiniteSet(FixedSets(k, X, F))
         /\ Cardinality(FixedSets(k, X, F)) = Cardinality(kSubset(k, X))
<1> DEFINE Q == {T \in SUBSET (X \cup F) : F \subseteq T /\ Cardinality(T) = k + Cardinality(F)}
           K == kSubset(k, X)
           f == [U \in K |-> U \cup F]
<1>1. \A U : U \in K <=> U \in SUBSET X /\ Cardinality(U) = k
  BY DEF kSubset
<1>2. Cardinality(F) \in Nat
  BY FS_CardinalityType
<1>3. ASSUME NEW U \in SUBSET X
      PROVE  /\ IsFiniteSet(U) /\ Cardinality(U) \in Nat
             /\ Cardinality(U \cup F) = Cardinality(U) + Cardinality(F)
  <2>1. IsFiniteSet(U) /\ Cardinality(U) \in Nat
    BY FS_Subset, FS_CardinalityType
  <2>2. U \cap F = {} /\ Cardinality({}) = 0
    BY FS_EmptySet
  <2>3. Cardinality(U \cup F) = Cardinality(U) + Cardinality(F) - Cardinality(U \cap F)
    BY <2>1, FS_Union
  <2>4. Cardinality(U \cap F) = 0
    BY <2>2
  <2> QED
    BY <1>2, <2>1, <2>3, <2>4
<1>4. f \in [K -> Q]
  <2>1. ASSUME NEW U \in K PROVE U \cup F \in Q
    <3>1. U \in SUBSET X /\ Cardinality(U) = k
      BY <1>1
    <3> QED
      BY <1>3, <3>1, Zenon
  <2> QED
    BY <2>1
<1>5. \A U, V \in K : f[U] = f[V] => U = V
  <2>1. SUFFICES ASSUME NEW U \in K, NEW V \in K, U \cup F = V \cup F PROVE U = V
    OBVIOUS
  <2>2. U \in SUBSET X /\ V \in SUBSET X
    BY <1>1
  <2>3. U = (U \cup F) \ F /\ V = (V \cup F) \ F
    BY <2>2
  <2> QED
    BY <2>1, <2>3
<1>6. \A T \in Q : \E U \in K : f[U] = T
  <2>1. SUFFICES ASSUME NEW T \in Q PROVE \E U \in K : f[U] = T
    OBVIOUS
  <2>2. T \ F \in SUBSET X /\ (T \ F) \cup F = T /\ Cardinality(T) = k + Cardinality(F)
    OBVIOUS
  <2>3. /\ Cardinality(T \ F) \in Nat
        /\ Cardinality((T \ F) \cup F) = Cardinality(T \ F) + Cardinality(F)
    BY <1>3, <2>2
  <2>4. Cardinality(T \ F) = k
    BY <1>2, <2>2, <2>3
  <2>5. T \ F \in K
    BY <1>1, <2>2, <2>4
  <2> QED
    BY <2>2, <2>5
<1> HIDE DEF f, K, Q
<1>7. f \in Bijection(K, Q)
  BY <1>4, <1>5, <1>6, Fun_IsBij
<1>8. ExistsBijection(K, Q)
  BY <1>7 DEF ExistsBijection
<1>9. IsFiniteSet(K)
  BY DEF K
<1> QED
  BY <1>8, <1>9, FS_Bijection DEF K, Q, FixedSets

\* There are binomial(n, k) sets of k of the numbers below n.
LEMMA SubsetsCount ==
  \A n, k \in Nat : /\ IsFiniteSet(kSubset(k, 0 .. n - 1))
                    /\ Cardinality(kSubset(k, 0 .. n - 1)) = binomial(n, k)
<1> DEFINE S == {n \in Nat : \A k \in Nat :
                   /\ IsFiniteSet(kSubset(k, 0 .. n - 1))
                   /\ Cardinality(kSubset(k, 0 .. n - 1)) = binomial(n, k)}
<1>0. ASSUME NEW X, IsFiniteSet(X)
      PROVE  IsFiniteSet(kSubset(0, X)) /\ Cardinality(kSubset(0, X)) = 1
  <2>1. \A U \in SUBSET X : Cardinality(U) = 0 <=> U = {}
    BY <1>0, FS_Subset, FS_EmptySet
  <2>2. kSubset(0, X) = {{}}
    BY <2>1 DEF kSubset
  <2> QED
    BY <2>2, FS_Singleton, Zenon
<1>1. 0 \in S
  <2>1. SUFFICES ASSUME NEW k \in Nat
                 PROVE  /\ IsFiniteSet(kSubset(k, 0 .. 0 - 1))
                        /\ Cardinality(kSubset(k, 0 .. 0 - 1)) = binomial(0, k)
    OBVIOUS
  <2>2. 0 .. 0 - 1 = {}
    OBVIOUS
  <2>3. CASE k = 0
    <3>1. binomial(0, 0) = 1
      BY Binomial
    <3> QED
      BY <1>0, <2>2, <2>3, <3>1, FS_EmptySet
  <2>4. CASE k # 0
    <3>1. binomial(0, k) = 0
      BY <2>4, Binomial
    <3>2. kSubset(k, {}) = {}
      BY <2>4, FS_EmptySet DEF kSubset
    <3> QED
      BY <2>2, <3>1, <3>2, FS_EmptySet
  <2> QED
    BY <2>3, <2>4
<1>2. ASSUME NEW n \in Nat, n \in S PROVE n + 1 \in S
  <2> DEFINE X == 0 .. n - 1
             Y == 0 .. (n + 1) - 1
  <2>0. X \cap {n} = {} /\ Y = X \cup {n} /\ n \notin X
    OBVIOUS
  <2>1. IsFiniteSet(X) /\ IsFiniteSet(Y) /\ IsFiniteSet({n}) /\ Cardinality({n}) = 1
    <3>1. IsFiniteSet(X)
      BY FS_Interval
    <3> HIDE DEF X, Y
    <3>2. IsFiniteSet(X \cup {n})
      BY <3>1, FS_AddElement
    <3>3. IsFiniteSet({n}) /\ Cardinality({n}) = 1
      BY FS_Singleton
    <3> QED
      BY <2>0, <3>1, <3>2, <3>3
  <2>2. \A k \in Nat : IsFiniteSet(kSubset(k, X)) /\ Cardinality(kSubset(k, X)) = binomial(n, k)
    BY <1>2
  <2> HIDE DEF X, Y
  <2>3. ASSUME NEW k \in Nat
        PROVE  IsFiniteSet(kSubset(k, Y)) /\ Cardinality(kSubset(k, Y)) = binomial(n + 1, k)
    <3>1. CASE k = 0
      <4>1. n + 1 \in Nat
        OBVIOUS
      <4>2. binomial(n + 1, 0) = 1
        BY <4>1, Binomial
      <4> QED
        BY <1>0, <2>1, <3>1, <4>2
    <3>2. CASE k # 0
      <4>1. PICK j \in Nat : k = j + 1
        <5>1. k - 1 \in Nat /\ k = (k - 1) + 1
          BY <3>2
        <5> QED
          BY <5>1
      <4> DEFINE A == kSubset(k, X)
                 B == FixedSets(j, X, {n})
      <4>2. IsFiniteSet(A) /\ Cardinality(A) = binomial(n, j + 1)
        BY <2>2, <4>1
      <4>3. IsFiniteSet(B) /\ Cardinality(B) = binomial(n, j)
        <5>1. IsFiniteSet(kSubset(j, X)) /\ Cardinality(kSubset(j, X)) = binomial(n, j)
          BY <2>2
        <5>2. IsFiniteSet(B) /\ Cardinality(B) = Cardinality(kSubset(j, X))
          BY <2>0, <2>1, <5>1, FixedCount
        <5> QED
          BY <5>1, <5>2
      <4>4. kSubset(k, Y) = A \cup B /\ A \cap B = {}
        BY <2>0, <2>1, <4>1 DEF kSubset, FixedSets
      <4> HIDE DEF A, B
      <4>5. /\ IsFiniteSet(A \cup B)
            /\ Cardinality(A \cup B) = Cardinality(A) + Cardinality(B) - Cardinality(A \cap B)
        BY <4>2, <4>3, FS_Union
      <4>6. Cardinality(A \cap B) = 0
        BY <4>4, FS_EmptySet
      <4>7. /\ binomial(n, j) \in Nat /\ binomial(n, j + 1) \in Nat
            /\ binomial(n + 1, j + 1) = binomial(n, j + 1) + binomial(n, j)
        BY Binomial
      <4>8. /\ IsFiniteSet(kSubset(k, Y))
            /\ Cardinality(kSubset(k, Y)) = Cardinality(A) + Cardinality(B) - Cardinality(A \cap B)
        BY <4>4, <4>5
      <4>9. Cardinality(kSubset(k, Y)) = binomial(n + 1, j + 1)
        BY <4>2, <4>3, <4>6, <4>7, <4>8
      <4> QED
        BY <4>1, <4>8, <4>9
    <3> QED
      BY <3>1, <3>2
  <2> QED
    BY <2>3 DEF Y
<1> HIDE DEF S
<1>3. Nat \subseteq S
  BY <1>1, <1>2, SetInduction
<1> QED
  BY <1>3 DEF S

\* The categories are k different ones that exist, in descending order.
Descending(c, k) ==
  /\ c \in Seq(Nat) /\ Len(c) = k
  /\ \A i \in 1 .. k : c[i] < maxCategories
  /\ \A i, j \in 1 .. k : i < j => c[j] < c[i]

\* The first i of the categories.
FirstOf(c, i) == {c[j] : j \in 1 .. i}

\* The sets of k categories that have the categories above c[i] and not c[i].
Lacking(c, k, i) ==
  {T \in kSubset(k, 0 .. maxCategories - 1) :
     /\ c[i] \notin T
     /\ \A m \in c[i] + 1 .. maxCategories - 1 : m \in T <=> m \in FirstOf(c, k)}

\* Categories in descending order are different.
LEMMA FirstOfCount ==
  ASSUME NEW k \in Nat, NEW c, Descending(c, k), NEW i \in 0 .. k
  PROVE  IsFiniteSet(FirstOf(c, i)) /\ Cardinality(FirstOf(c, i)) = i
<1> DEFINE f == [j \in 1 .. i |-> c[j]]
<1>1. \A j \in 1 .. i : j \in 1 .. k /\ j \in Nat /\ c[j] \in Nat
  BY DEF Descending
<1>2. \A j, l \in 1 .. i : c[j] = c[l] => j = l
  <2>1. SUFFICES ASSUME NEW j \in 1 .. i, NEW l \in 1 .. i, j # l PROVE c[j] # c[l]
    OBVIOUS
  <2>2. j < l \/ l < j
    BY <1>1, <2>1
  <2>3. c[l] < c[j] \/ c[j] < c[l]
    BY <1>1, <2>2 DEF Descending
  <2> QED
    BY <1>1, <2>3
<1>3. /\ f \in [1 .. i -> FirstOf(c, i)]
      /\ \A j, l \in 1 .. i : f[j] = f[l] => j = l
      /\ \A t \in FirstOf(c, i) : \E j \in 1 .. i : f[j] = t
  BY <1>2 DEF FirstOf
<1> HIDE DEF f
<1>4. f \in Bijection(1 .. i, FirstOf(c, i))
  BY <1>3, Fun_IsBij
<1>5. ExistsBijection(1 .. i, FirstOf(c, i))
  BY <1>4 DEF ExistsBijection
<1>6. IsFiniteSet(1 .. i) /\ Cardinality(1 .. i) = i
  <2>1. /\ IsFiniteSet(1 .. i)
        /\ Cardinality(1 .. i) = IF 1 > i THEN 0 ELSE i - 1 + 1
    <3>1. 1 \in Int /\ i \in Int
      OBVIOUS
    <3> QED
      BY <3>1, FS_Interval
  <2> QED
    BY <2>1
<1>7. IsFiniteSet(FirstOf(c, i)) /\ Cardinality(FirstOf(c, i)) = Cardinality(1 .. i)
  BY <1>5, <1>6, FS_Bijection
<1> QED
  BY <1>6, <1>7

\* As many sets lack c[i] as there are sets of the remaining number of categories
\* below it.
LEMMA LackingCount ==
  ASSUME NEW k \in Nat, NEW c, Descending(c, k), NEW i \in 1 .. k
  PROVE  /\ IsFiniteSet(Lacking(c, k, i))
         /\ Cardinality(Lacking(c, k, i)) = binomial(c[i], k - i + 1)
<1> DEFINE X == 0 .. c[i] - 1
           F == FirstOf(c, i - 1)
<1>0. /\ c[i] \in Nat /\ c[i] < maxCategories /\ maxCategories \in Nat
      /\ i - 1 \in 0 .. k /\ k - i + 1 \in Nat /\ i \in Nat
  BY CategoriesAssumption DEF Descending
<1>1. IsFiniteSet(F) /\ Cardinality(F) = i - 1
  BY <1>0, FirstOfCount
<1>2. IsFiniteSet(X)
  <2>1. 0 \in Int /\ c[i] - 1 \in Int
    BY <1>0
  <2> QED
    BY <2>1, FS_Interval, Zenon
<1>3. /\ IsFiniteSet(kSubset(k - i + 1, X))
      /\ Cardinality(kSubset(k - i + 1, X)) = binomial(c[i], k - i + 1)
  BY <1>0, SubsetsCount
<1>4. ASSUME NEW m \in Nat
      PROVE  m \in F <=> m \in FirstOf(c, k) /\ m > c[i]
  <2>1. ASSUME NEW j \in 1 .. i - 1, m = c[j] PROVE m \in FirstOf(c, k) /\ m > c[i]
    <3>1. j \in 1 .. k /\ j < i
      BY <1>0
    <3>2. c[i] < c[j]
      BY <3>1 DEF Descending
    <3> QED
      BY <1>0, <2>1, <3>1, <3>2 DEF FirstOf
  <2>2. ASSUME NEW j \in 1 .. k, m = c[j], m > c[i] PROVE m \in F
    <3>1. ~ (i < j) /\ i # j
      <4>1. i < j => c[j] < c[i]
        BY DEF Descending
      <4> QED
        BY <1>0, <2>2, <4>1
    <3>2. j \in 1 .. i - 1
      BY <1>0, <3>1
    <3> QED
      BY <2>2, <3>2 DEF FirstOf
  <2> QED
    BY <2>1, <2>2 DEF FirstOf
<1>5. F \in SUBSET (c[i] + 1 .. maxCategories - 1)
  <2>1. ASSUME NEW j \in 1 .. i - 1 PROVE c[j] \in c[i] + 1 .. maxCategories - 1
    <3>1. j \in 1 .. k /\ j < i
      BY <1>0
    <3>2. c[j] \in Nat /\ c[i] < c[j] /\ c[j] < maxCategories
      BY <3>1 DEF Descending
    <3> QED
      BY <1>0, <3>2
  <2> QED
    BY <2>1 DEF FirstOf
<1> HIDE DEF F
<1>6. X \cap F = {}
  BY <1>0, <1>5
<1>7. /\ IsFiniteSet(FixedSets(k - i + 1, X, F))
      /\ Cardinality(FixedSets(k - i + 1, X, F)) = Cardinality(kSubset(k - i + 1, X))
  <2> HIDE DEF X
  <2> QED
    BY <1>0, <1>1, <1>2, <1>3, <1>6, FixedCount
<1>8. (k - i + 1) + Cardinality(F) = k
  BY <1>0, <1>1
<1>9. ASSUME NEW T \in Lacking(c, k, i) PROVE T \in FixedSets(k - i + 1, X, F)
  <2>1. /\ T \in SUBSET (0 .. maxCategories - 1) /\ Cardinality(T) = k /\ c[i] \notin T
        /\ \A m \in c[i] + 1 .. maxCategories - 1 : m \in T <=> m \in FirstOf(c, k)
    BY DEF Lacking, kSubset
  <2>2. F \subseteq T
    <3>1. ASSUME NEW m \in F PROVE m \in T
      <4>1. m \in c[i] + 1 .. maxCategories - 1 /\ m \in Nat
        BY <1>0, <1>5
      <4> QED
        BY <1>4, <2>1, <4>1
    <3> QED
      BY <3>1
  <2>3. T \subseteq X \cup F
    <3>1. ASSUME NEW m \in T PROVE m \in X \cup F
      <4>1. m \in Nat /\ m < maxCategories /\ m # c[i]
        BY <1>0, <2>1
      <4>2. CASE m < c[i]
        BY <1>0, <4>1, <4>2
      <4>3. CASE m > c[i]
        <5>1. m \in c[i] + 1 .. maxCategories - 1
          BY <1>0, <4>1, <4>3
        <5> QED
          BY <1>4, <2>1, <4>1, <4>3, <5>1
      <4> QED
        BY <1>0, <4>1, <4>2, <4>3
    <3> QED
      BY <3>1
  <2> QED
    BY <1>8, <2>1, <2>2, <2>3 DEF FixedSets
<1>10. ASSUME NEW T \in FixedSets(k - i + 1, X, F) PROVE T \in Lacking(c, k, i)
  <2>1. T \subseteq X \cup F /\ F \subseteq T /\ Cardinality(T) = k
    BY <1>8 DEF FixedSets
  <2>2. T \in SUBSET (0 .. maxCategories - 1) /\ c[i] \notin T
    BY <1>0, <1>5, <2>1
  <2>3. ASSUME NEW m \in c[i] + 1 .. maxCategories - 1 PROVE m \in T <=> m \in FirstOf(c, k)
    <3>1. m \in Nat /\ m > c[i] /\ m \notin X
      BY <1>0
    <3>2. m \in F <=> m \in FirstOf(c, k)
      BY <1>4, <3>1
    <3> QED
      BY <2>1, <3>1, <3>2
  <2> QED
    BY <2>1, <2>2, <2>3 DEF Lacking, kSubset
<1>11. Lacking(c, k, i) = FixedSets(k - i + 1, X, F)
  BY <1>9, <1>10, Zenon
<1> QED
  BY <1>3, <1>7, <1>11

\* A set comes before the categories if the largest category in which they differ
\* is one that it lacks.
LEMMA BeforeLacks ==
  ASSUME NEW k \in Nat, NEW c, Descending(c, k)
  PROVE  \A T : T \in Before(FirstOf(c, k), k) <=> \E i \in 1 .. k : T \in Lacking(c, k, i)
<1> DEFINE S == FirstOf(c, k)
           N == maxCategories
<1>0. /\ N \in Nat /\ \A i \in 1 .. k : c[i] \in Nat /\ c[i] < N /\ c[i] \in S
      /\ S \subseteq 0 .. N - 1
  <2>1. N \in Nat /\ \A i \in 1 .. k : c[i] \in Nat /\ c[i] < N
    BY CategoriesAssumption DEF Descending
  <2>2. \A i \in 1 .. k : c[i] \in 0 .. N - 1
    BY <2>1
  <2> QED
    BY <2>1, <2>2 DEF FirstOf
<1>1. \A s \in S : \E i \in 1 .. k : s = c[i]
  BY DEF FirstOf
<1> HIDE DEF S, N
<1>2. ASSUME NEW T \in SUBSET (0 .. N - 1), T # S
      PROVE  LET D == (S \ T) \cup (T \ S)
             IN  Max(D) \in D /\ Max(D) \in 0 .. N - 1 /\ \A d \in D : d <= Max(D)
  <2> DEFINE D == (S \ T) \cup (T \ S)
  <2>1. D # {} /\ D \subseteq 0 .. N - 1
    BY <1>0, <1>2
  <2> HIDE DEF D
  <2>2. D \in SUBSET Nat /\ \A d \in D : d <= N
    BY <1>0, <2>1
  <2>3. Max(D) \in D /\ \A d \in D : d <= Max(D)
    BY <1>0, <2>1, <2>2, MaxFacts, Zenon
  <2> QED
    BY <2>1, <2>3 DEF D
<1>3. ASSUME NEW T \in Before(S, k) PROVE \E i \in 1 .. k : T \in Lacking(c, k, i)
  <2> DEFINE D == (S \ T) \cup (T \ S)
             d == Max(D)
  <2>1. T \in kSubset(k, 0 .. N - 1) /\ T \in SUBSET (0 .. N - 1) /\ T # S /\ d \in S
    BY DEF Before, kSubset, N
  <2>2. d \in D /\ d \in 0 .. N - 1 /\ \A e \in D : e <= d
    BY <1>2, <2>1, Zenon
  <2> HIDE DEF d
  <2>3. PICK i \in 1 .. k : d = c[i]
    BY <1>1, <2>1
  <2>4. c[i] \notin T
    BY <2>1, <2>2, <2>3
  <2>5. ASSUME NEW m \in c[i] + 1 .. N - 1 PROVE m \in T <=> m \in S
    <3>1. ~ (m <= d)
      BY <1>0, <2>3
    <3> QED
      BY <2>2, <3>1
  <2>6. T \in Lacking(c, k, i)
    BY <2>1, <2>4, <2>5 DEF Lacking, S, N
  <2> QED
    BY <2>6
<1>4. ASSUME NEW T, NEW i \in 1 .. k, T \in Lacking(c, k, i) PROVE T \in Before(S, k)
  <2> DEFINE D == (S \ T) \cup (T \ S)
             d == Max(D)
  <2>1. /\ T \in kSubset(k, 0 .. N - 1) /\ T \in SUBSET (0 .. N - 1) /\ c[i] \notin T
        /\ \A m \in c[i] + 1 .. N - 1 : m \in T <=> m \in S
    BY <1>4 DEF Lacking, kSubset, S, N
  <2>2. c[i] \in D /\ T # S
    BY <1>0, <2>1
  <2>3. d \in D /\ d \in 0 .. N - 1 /\ \A e \in D : e <= d
    BY <1>2, <2>1, <2>2, Zenon
  <2> HIDE DEF d
  <2>4. c[i] <= d
    BY <2>2, <2>3, Zenon
  <2>5. d \notin c[i] + 1 .. N - 1
    BY <2>1, <2>3
  <2>6. d = c[i]
    BY <1>0, <2>3, <2>4, <2>5
  <2>7. d \in S
    BY <1>0, <2>6
  <2> QED
    BY <2>1, <2>2, <2>7 DEF Before, d, N
<1> QED
  BY <1>3, <1>4 DEF S

\* The rank of the categories is the number of sets that come before them.
LEMMA RankCounts ==
  ASSUME NEW k \in Nat, NEW c, Descending(c, k)
  PROVE  CategoriesOffset(c) = Cardinality(Before(FirstOf(c, k), k))
<1> DEFINE Lack(i) == {T \in Before(FirstOf(c, k), k) : \E j \in 1 .. i : T \in Lacking(c, k, j)}
<1>0. c \in Seq(Nat) /\ k = Len(c) /\ \A i \in 1 .. k : c[i] \in Nat
  BY DEF Descending
<1>1. PICK r : Ranks(r, k, c, k) /\ CategoriesOffset(c) = r[k]
  BY <1>0, OffsetOfCategories
<1>2. \A T : T \in Before(FirstOf(c, k), k) <=> \E i \in 1 .. k : T \in Lacking(c, k, i)
  BY BeforeLacks
<1> DEFINE S == {i \in Nat : i <= k => IsFiniteSet(Lack(i)) /\ r[i] = Cardinality(Lack(i))}
<1>3. 0 \in S
  <2>1. r[0] = 0
    BY <1>1 DEF Ranks
  <2>2. Lack(0) = {}
    OBVIOUS
  <2> HIDE DEF Lack
  <2> QED
    BY <2>1, <2>2, FS_EmptySet
<1>4. ASSUME NEW i \in Nat, i \in S PROVE i + 1 \in S
  <2>1. SUFFICES ASSUME i + 1 <= k
                 PROVE  IsFiniteSet(Lack(i + 1)) /\ r[i + 1] = Cardinality(Lack(i + 1))
    OBVIOUS
  <2> DEFINE E == Lacking(c, k, i + 1)
  <2>2. /\ i + 1 \in 0 .. k /\ i + 1 \in 1 .. k /\ i + 1 # 0 /\ (i + 1) - 1 = i
        /\ \A j \in 1 .. i + 1 : j \in 1 .. i \/ j = i + 1
        /\ \A j \in 1 .. i : j \in 1 .. i + 1 /\ j \in 1 .. k /\ j < i + 1
    BY <2>1
  <2>3. IsFiniteSet(E) /\ Cardinality(E) = binomial(c[i + 1], k - (i + 1) + 1)
    BY <2>2, LackingCount
  <2>4. r[i + 1] = r[i] + binomial(c[i + 1], k - (i + 1) + 1)
    <3>1. r[i + 1] = r[(i + 1) - 1] + binomial(c[i + 1], k - (i + 1) + 1)
      BY <1>1, <2>2 DEF Ranks
    <3> QED
      BY <2>2, <3>1
  <2>5. IsFiniteSet(Lack(i)) /\ r[i] = Cardinality(Lack(i))
    BY <1>4, <2>1
  <2>6. Lack(i + 1) = Lack(i) \cup E
    BY <1>2, <2>2
  <2>7. Lack(i) \cap E = {}
    <3>1. SUFFICES ASSUME NEW T \in E, NEW j \in 1 .. i, T \in Lacking(c, k, j) PROVE FALSE
      OBVIOUS
    <3>2. /\ c[j] \in Nat /\ c[i + 1] \in Nat /\ c[i + 1] < c[j] /\ c[j] < maxCategories
          /\ c[j] \in FirstOf(c, k) /\ maxCategories \in Nat
      BY <1>0, <2>2, CategoriesAssumption DEF Descending, FirstOf
    <3>3. c[j] \in c[i + 1] + 1 .. maxCategories - 1
      BY <3>2
    <3>4. c[j] \in T
      BY <3>2, <3>3 DEF Lacking
    <3> QED
      BY <3>1, <3>4 DEF Lacking
  <2> HIDE DEF Lack, E
  <2>8. /\ IsFiniteSet(Lack(i) \cup E)
        /\ Cardinality(Lack(i) \cup E) =
             Cardinality(Lack(i)) + Cardinality(E) - Cardinality(Lack(i) \cap E)
    BY <2>3, <2>5, FS_Union
  <2>9. Cardinality(Lack(i) \cap E) = 0
    BY <2>7, FS_EmptySet
  <2>10. Cardinality(Lack(i)) \in Nat /\ Cardinality(E) \in Nat
    BY <2>3, <2>5, FS_CardinalityType
  <2>11. Cardinality(Lack(i) \cup E) = Cardinality(Lack(i)) + Cardinality(E)
    BY <2>8, <2>9, <2>10
  <2> QED
    BY <2>3, <2>4, <2>5, <2>6, <2>8, <2>11
<1> HIDE DEF S
<1>5. Nat \subseteq S
  BY <1>3, <1>4, SetInduction
<1>6. r[k] = Cardinality(Lack(k))
  BY <1>5 DEF S
<1>7. Lack(k) = Before(FirstOf(c, k), k)
  BY <1>2
<1> QED
  BY <1>1, <1>6, <1>7

-----------------------------------------------------------------------------
(* The labels of the namespaces.                                           *)

\* The number of labels of a project.
LEMMA PerProject ==
  ASSUME NEW x \in Int
  PROVE  Max({1, x}) = IF x > 0 THEN x ELSE 1
<1>1. CASE x > 0
  <2>1. x \in {1, x} /\ \A y \in {1, x} : x >= y
    BY <1>1
  <2>2. Max({1, x}) \in {1, x} /\ \A y \in {1, x} : Max({1, x}) >= y
    BY <2>1 DEF Max
  <2> QED
    BY <1>1, <2>2
<1>2. CASE ~ (x > 0)
  <2>1. 1 \in {1, x} /\ \A y \in {1, x} : 1 >= y
    BY <1>2
  <2>2. Max({1, x}) \in {1, x} /\ \A y \in {1, x} : Max({1, x}) >= y
    BY <2>1 DEF Max
  <2> QED
    BY <1>2, <2>2
<1> QED
  BY <1>1, <1>2

\* Where there are labels enough, the labels of block o are the numbers from
\* o times the labels per project on, none of which wraps or is too large.
LEMMA LabelFacts ==
  ASSUME RangesInv, EnoughLabels, NEW n \in assigned
  PROVE  LET to == setting.range
             P == Max({1, setting.perProject})
         IN  /\ P \in Nat \ {0} /\ to.k \in Nat
             /\ \E o \in allocated :
                  /\ annotation[n] = BlockAt(uidRange, o)
                  /\ o \in Nat /\ Offset(uidRange, annotation[n]) = {o}
                  /\ DefaultMCSAllocation(uidRange, to, setting.perProject, annotation[n])
                       = {LabelAt(to, o * P)}
                  /\ \A i \in 0 .. P - 1 :
                       (o * P) + i \in 0 .. binomial(maxCategories, to.k) - 1
<1> DEFINE to == setting.range
           x == setting.perProject
           P == Max({1, x})
           B == binomial(maxCategories, to.k)
<1>0. RangesType /\ BitmapInv /\ GrantsInv
  BY DEF RangesInv
<1>1. x \in Int
  BY <1>0, RangesAssumption, Zenon DEF RangesType
<1>2. to.k \in Nat
  <2>1. to \in MCSRanges({"", "s0", "s0:"})
    BY <1>0, RangesAssumption, Zenon DEF RangesType
  <2> HIDE DEF to
  <2>2. to.k \in 1 .. 5
    BY <2>1, Zenon DEF MCSRanges
  <2> QED
    BY <2>2
<1>3. P = IF x > 0 THEN x ELSE 1
  BY <1>1, PerProject
<1>4. P \in Nat \ {0}
  <2> HIDE DEF P, x
  <2> QED
    BY <1>1, <1>3
<1>5. /\ uidRange \in UIDRange /\ Size(uidRange) \in Nat
      /\ allocated \in SUBSET (0 .. Size(uidRange) - 1)
  BY <1>0, Basics
<1>6. PICK o \in allocated : annotation[n] = BlockAt(uidRange, o)
  BY <1>0 DEF GrantsInv
<1>7. o \in Nat /\ o + 1 <= Size(uidRange) /\ Offset(uidRange, annotation[n]) = {o}
  <2>1. o \in 0 .. Size(uidRange) - 1
    BY <1>5
  <2>2. Offset(uidRange, annotation[n]) = {o}
    BY <1>5, <1>6, <2>1, BlockAtFacts
  <2>3. o \in Nat /\ o + 1 <= Size(uidRange)
    BY <1>5, <2>1
  <2> QED
    BY <2>2, <2>3
<1>8. Size(uidRange) * P <= B /\ Size(uidRange) * P < MaxUint
  BY DEF EnoughLabels
<1>9. B \in Nat /\ MaxUint \in Nat \ {0}
  BY <1>2, CategoriesAssumption, MaxUintAssumption, Binomial, Zenon
<1> HIDE DEF P, B
<1>10. o * P \in Nat /\ (o * P) + P <= Size(uidRange) * P
  <2>1. (o + 1) * P <= Size(uidRange) * P
    BY <1>4, <1>5, <1>7
  <2> QED
    BY <1>4, <1>7, <2>1
<1>11. (IF x > 0 THEN (o * x) % MaxUint ELSE o) = o * P
  <2>1. CASE x > 0
    <3>1. P = x /\ o * P < MaxUint
      BY <1>3, <1>4, <1>5, <1>8, <1>9, <1>10, <2>1
    <3> QED
      BY <1>9, <1>10, <2>1, <3>1, ModSmall
  <2>2. CASE ~ (x > 0)
    BY <1>3, <1>7, <2>2
  <2> QED
    BY <2>1, <2>2
<1>12. DefaultMCSAllocation(uidRange, to, x, annotation[n]) = {LabelAt(to, o * P)}
  BY <1>7, <1>11 DEF DefaultMCSAllocation
<1>13. ASSUME NEW i \in 0 .. P - 1 PROVE (o * P) + i \in 0 .. B - 1
  <2>1. Size(uidRange) * P \in Nat
    BY <1>4, <1>5
  <2> QED
    BY <1>4, <1>8, <1>9, <1>10, <2>1
<1> QED
  BY <1>2, <1>4, <1>6, <1>7, <1>12, <1>13, Zenon DEF P, B

\* Below the number of labels there are, a label has descending categories, and
\* its number is found back.
LEMMA LabelAtFacts ==
  ASSUME NEW to, to.k \in Nat, NEW y \in 0 .. binomial(maxCategories, to.k) - 1
  PROVE  /\ Descending(LabelAt(to, y).Categories, to.k)
         /\ CategoriesOffset(LabelAt(to, y).Categories) = y
<1>1. LabelAt(to, y).Categories = categoriesForOffset(y, maxCategories, to.k)
  BY DEF LabelAt, NewLabel
<1>2. maxCategories \in Nat
  BY CategoriesAssumption
<1> DEFINE c == categoriesForOffset(y, maxCategories, to.k)
<1>3. /\ c \in Seq(Nat) /\ Len(c) = to.k
      /\ \A i \in 1 .. to.k : c[i] < maxCategories
      /\ \A i, j \in 1 .. to.k : i < j => c[j] < c[i]
      /\ CategoriesOffset(c) = y
  BY <1>2, UnrankRank
<1> HIDE DEF c
<1>4. Descending(c, to.k)
  BY <1>3 DEF Descending
<1> QED
  BY <1>1, <1>3, <1>4 DEF c

\* The labels of two granted blocks have different numbers.
LEMMA RangesInvLabels == RangesInv => DistinctLabels
<1> SUFFICES ASSUME RangesInv, EnoughLabels, NEW m \in assigned, NEW n \in assigned, m # n
             PROVE  LabelsOf(annotation[m]) \cap LabelsOf(annotation[n]) = {}
  BY DEF DistinctLabels
<1> DEFINE to == setting.range
           P == Max({1, setting.perProject})
           B == binomial(maxCategories, to.k)
           At(b) == DefaultMCSAllocation(uidRange, to, setting.perProject, b)
<1>1. P \in Nat \ {0} /\ to.k \in Nat
  BY LabelFacts, Zenon
<1>2. PICK o \in allocated :
        /\ annotation[m] = BlockAt(uidRange, o) /\ o \in Nat
        /\ At(annotation[m]) = {LabelAt(to, o * P)}
        /\ \A i \in 0 .. P - 1 : (o * P) + i \in 0 .. B - 1
  BY LabelFacts, Zenon
<1>3. PICK p \in allocated :
        /\ annotation[n] = BlockAt(uidRange, p) /\ p \in Nat
        /\ At(annotation[n]) = {LabelAt(to, p * P)}
        /\ \A i \in 0 .. P - 1 : (p * P) + i \in 0 .. B - 1
  BY LabelFacts, Zenon
<1>4. o # p
  BY <1>2, <1>3 DEF RangesInv, GrantsInv
<1>5. ASSUME NEW b, NEW q \in Nat, At(b) = {LabelAt(to, q * P)},
             \A i \in 0 .. P - 1 : (q * P) + i \in 0 .. B - 1
      PROVE  LabelsOf(b) = {LabelAt(to, (q * P) + i) : i \in 0 .. P - 1}
  <2>1. 0 \in 0 .. P - 1 /\ (q * P) + 0 = q * P
    BY <1>1
  <2>2. q * P \in 0 .. B - 1
    BY <1>5, <2>1, Zenon
  <2>3. CategoriesOffset(LabelAt(to, q * P).Categories) = q * P
    BY <1>1, <2>2, LabelAtFacts
  <2> DEFINE From(label) == {LabelAt(to, CategoriesOffset(label.Categories) + i) : i \in 0 .. P - 1}
  <2>4. LabelsOf(b) = UNION {From(label) : label \in At(b)}
    BY DEF LabelsOf
  <2>5. LabelsOf(b) = From(LabelAt(to, q * P))
    <3> HIDE DEF From, At
    <3> QED
      BY <1>5, <2>4
  <2> QED
    BY <2>3, <2>5, Zenon
<1> HIDE DEF P, B, At
<1>6. LabelsOf(annotation[m]) = {LabelAt(to, (o * P) + i) : i \in 0 .. P - 1}
  BY <1>2, <1>5
<1>7. LabelsOf(annotation[n]) = {LabelAt(to, (p * P) + i) : i \in 0 .. P - 1}
  BY <1>3, <1>5
<1>8. ASSUME NEW i \in 0 .. P - 1, NEW j \in 0 .. P - 1,
             LabelAt(to, (o * P) + i) = LabelAt(to, (p * P) + j)
      PROVE  FALSE
  <2>1. (o * P) + i \in 0 .. B - 1 /\ (p * P) + j \in 0 .. B - 1
    BY <1>2, <1>3
  <2>2. (o * P) + i = (p * P) + j
    <3>1. CategoriesOffset(LabelAt(to, (o * P) + i).Categories) = (o * P) + i
      BY <1>1, <2>1, LabelAtFacts DEF B
    <3>2. CategoriesOffset(LabelAt(to, (p * P) + j).Categories) = (p * P) + j
      BY <1>1, <2>1, LabelAtFacts DEF B
    <3> QED
      BY <1>8, <3>1, <3>2
  <2>0. o \in Nat /\ p \in Nat
    BY <1>2, <1>3
  <2>3. o < p \/ p < o
    BY <1>4, <2>0
  <2>4. ASSUME NEW a \in Nat, NEW b \in Nat, a < b PROVE (a * P) + P <= b * P
    <3>1. (a + 1) * P <= b * P
      BY <1>1, <2>4
    <3> QED
      BY <1>1, <3>1
  <2>5. o * P \in Nat /\ p * P \in Nat /\ i \in Nat /\ j \in Nat /\ i < P /\ j < P
    BY <1>1, <2>0
  <2>6. (o * P) + P <= p * P \/ (p * P) + P <= o * P
    BY <2>0, <2>3, <2>4
  <2> QED
    BY <1>1, <2>2, <2>5, <2>6
<1> QED
  BY <1>6, <1>7, <1>8

\* The label of a granted block has the categories that its number says.
LEMMA RangesInvRanked == RangesInv => LabelsRanked
<1> DEFINE to == setting.range
           P == Max({1, setting.perProject})
           k == to.k
           N == maxCategories
<1> SUFFICES ASSUME RangesInv, EnoughLabels, NEW n \in assigned,
                    NEW label \in DefaultMCSAllocation(uidRange, to, setting.perProject, annotation[n])
             PROVE  LET S == Range(label.Categories)
                        rank == CategoriesOffset(label.Categories)
                    IN  /\ Cardinality(S) = k /\ S \subseteq 0 .. N - 1
                        /\ rank = Cardinality(Before(S, k))
                        /\ {rank} = {o * P : o \in Offset(uidRange, annotation[n])}
                        /\ to.n = N /\ to.prefix # "s0" => LabelOffset(to, label) = {rank}
  BY Zenon DEF LabelsRanked
<1>1. P \in Nat \ {0} /\ k \in Nat
  BY LabelFacts, Zenon
<1>2. PICK o \in allocated :
        /\ o \in Nat /\ Offset(uidRange, annotation[n]) = {o}
        /\ DefaultMCSAllocation(uidRange, to, setting.perProject, annotation[n])
             = {LabelAt(to, o * P)}
        /\ \A i \in 0 .. P - 1 : (o * P) + i \in 0 .. binomial(N, k) - 1
  BY LabelFacts, Zenon
<1> DEFINE c == label.Categories
<1>3. label = LabelAt(to, o * P) /\ o * P \in 0 .. binomial(N, k) - 1
  <2>1. 0 \in 0 .. P - 1 /\ (o * P) + 0 = o * P
    <3>1. o \in Nat
      BY <1>2, Zenon
    <3> HIDE DEF P
    <3>2. 0 \in 0 .. P - 1
      BY <1>1
    <3>3. o * P \in Nat
      BY <1>1, <3>1
    <3>4. (o * P) + 0 = o * P
      BY <3>3
    <3> QED
      BY <3>2, <3>4, Zenon
  <2> QED
    BY <1>2, <2>1
<1>4. Descending(c, k) /\ CategoriesOffset(c) = o * P
  BY <1>1, <1>3, LabelAtFacts
<1> HIDE DEF c, k, N, P
<1>5. Range(c) = FirstOf(c, k)
  <2>1. DOMAIN c = 1 .. k
    BY <1>4 DEF Descending
  <2> QED
    BY <2>1 DEF Range, FirstOf
<1>6. Cardinality(FirstOf(c, k)) = k
  <2>1. k \in 0 .. k
    BY <1>1
  <2> QED
    BY <1>1, <1>4, <2>1, FirstOfCount
<1>7. FirstOf(c, k) \subseteq 0 .. N - 1
  <2>1. \A i \in 1 .. k : c[i] \in Nat /\ c[i] < N /\ N \in Nat
    BY <1>4, CategoriesAssumption DEF Descending, N
  <2>2. \A i \in 1 .. k : c[i] \in 0 .. N - 1
    BY <2>1
  <2> QED
    BY <2>2 DEF FirstOf
<1>8. CategoriesOffset(c) = Cardinality(Before(FirstOf(c, k), k))
  BY <1>1, <1>4, RankCounts
<1>9. {CategoriesOffset(c)} = {p * P : p \in Offset(uidRange, annotation[n])}
  BY <1>2, <1>4
<1>10. ASSUME to.n = N, to.prefix # "s0" PROVE LabelOffset(to, label) = {CategoriesOffset(c)}
  <2>1. label.Prefix = to.prefix
    BY <1>3, <1>10 DEF LabelAt, NewLabel
  <2>2. Len(c) = k /\ \A i \in 1 .. k : c[i] < to.n
    BY <1>4, <1>10 DEF Descending, N
  <2>3. ContainsLabel(to, label)
    BY <2>1, <2>2 DEF ContainsLabel, c, k
  <2> QED
    BY <2>3 DEF LabelOffset, c
<1> QED
  BY <1>5, <1>6, <1>7, <1>8, <1>9, <1>10, Zenon DEF c, k, N, P

\* Where the range has labels enough, no two namespaces with granted blocks share a
\* label (DefaultMCSAllocation, LabelAt, the co-lex unrank), however many
\* categories there are.
THEOREM LabelsDistinct == Spec => []DistinctLabels
BY RangesInvariant, RangesInvLabels, PTL

\* The label of a granted block is the k categories that exist with exactly as many
\* sets of k before them as its offset, and Offset finds that number back.
THEOREM LabelsAreRanked == Spec => []LabelsRanked
BY RangesInvariant, RangesInvRanked, PTL
=============================================================================
