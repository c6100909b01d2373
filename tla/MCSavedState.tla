---------------------------- MODULE MCSavedState ----------------------------
(* One program with two connections.                                       *)
EXTENDS SavedState
CONSTANTS p, n1, n2
=============================================================================
