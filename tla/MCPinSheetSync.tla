-------------------------- MODULE MCPinSheetSync ---------------------------
(* Small instances of PinSheetSync for TLC: the runs of the worker and the  *)
(* rooms are interchangeable.                                               *)
EXTENDS PinSheetSync, TLC

Symmetry == Permutations(Workers) \cup Permutations(Rooms)
=============================================================================
