----------------------- MODULE MCPrivilegedNamespaces -----------------------
(* Both label controllers for TLC: labels, levels and versions are model     *)
(* values.                                                                   *)
EXTENDS PrivilegedNamespaces
=============================================================================
