----------------------------- MODULE MCContext ------------------------------
(* EasyCLContext for TLC.  The handles are alike. *)
EXTENDS EasyCLContext, TLC

Symmetry == Permutations(Handles)
=============================================================================
