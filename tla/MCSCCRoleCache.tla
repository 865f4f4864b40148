--------------------------- MODULE MCSCCRoleCache ---------------------------
(* SCCRoleCache for TLC.                                                     *)
EXTENDS SCCRoleCache

=============================================================================
