-------------------------- MODULE MCSecurityRanges --------------------------
(***************************************************************************)
(* SecurityRanges with UIDs below 32 and 6 categories.  One range has four *)
(* blocks and a UID to spare, one two blocks of another size, and one is   *)
(* all the UIDs.  The blocks users write: two of the first range, one past *)
(* its last block, one misaligned, one too short, one that wraps around,   *)
(* and one of the second range.                                            *)
(***************************************************************************)
EXTENDS SecurityRanges, TLC

CONSTANTS n1, n2, n3

MCNamespaces == {n1, n2, n3}

MCUIDRanges ==
  {[Start |-> 2, End |-> 18, size |-> 4], [Start |-> 6, End |-> 17, size |-> 6],
   [Start |-> 0, End |-> 31, size |-> 4]}

Setting(prefix, n, k, perProject) ==
  [range |-> [prefix |-> prefix, n |-> n, k |-> k], perProject |-> perProject]

MCSettings ==
  {Setting("s0:", 6, 2, 3), Setting("s0", 6, 3, 5), Setting("", 4, 3, 0), Setting("s0:", 6, 1, 2)}

MCUserBlocks ==
  {[Start |-> 2, End |-> 5], [Start |-> 14, End |-> 17], [Start |-> 18, End |-> 21],
   [Start |-> 4, End |-> 7], [Start |-> 6, End |-> 8],
   [Start |-> 30, End |-> 1], [Start |-> 6, End |-> 11]}

Symmetry == Permutations(MCNamespaces)
=============================================================================
