----------------------------- MODULE MCStartUp -----------------------------
(* StartUp for TLC: every constant is a set of model values, of which one   *)
(* resource is ignored.                                                     *)
EXTENDS StartUp
=============================================================================
