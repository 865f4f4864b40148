-------------------------- MODULE MCSCCAllocation --------------------------
(***************************************************************************)
(* SCCAllocation for TLC: what the constants stand for in the runs.        *)
(***************************************************************************)
EXTENDS SCCAllocation

\* The label of block b is b; users pick a label of their own.
MCLabels       == 0 .. NumBlocks
MCmcsAllocator == [b \in Blocks |-> b]

Plain == [live |-> TRUE, uid |-> NoUID, mcs |-> NoLabel, sg |-> "none"]

\* Plain namespaces, and ones created with an annotation of the user's.  There are
\* no foreign supplemental groups, which allocate can never overwrite.
MCUserObjects ==
  {Plain, [Plain EXCEPT !.uid = Unusable], [Plain EXCEPT !.uid = Refused],
   [Plain EXCEPT !.mcs = NumBlocks]}
=============================================================================
