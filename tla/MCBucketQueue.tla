--------------------------- MODULE MCBucketQueue ---------------------------
(* Two quotas, a with two work items and b with one.                       *)
EXTENDS BucketQueue, TLC

CONSTANTS a, b, i1, i2, i3

MCKeyOf == (i1 :> a) @@ (i2 :> a) @@ (i3 :> b)
=============================================================================
