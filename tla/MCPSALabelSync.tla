--------------------------- MODULE MCPSALabelSync ---------------------------
(* PSALabelSync for TLC: labels, levels and versions are model values.       *)
EXTENDS PSALabelSync
=============================================================================
