--------------------------- MODULE MCClusterQuota ---------------------------
(* ClusterQuota for TLC: two namespaces, and selectors that overlap.        *)
EXTENDS ClusterQuota, TLC

CONSTANTS a, b, both, one

MCSelects == (both :> {a, b}) @@ (one :> {a})
=============================================================================
