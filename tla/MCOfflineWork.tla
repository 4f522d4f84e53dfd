---------------------------- MODULE MCOfflineWork ---------------------------
(* Instances of OfflineWork for TLC. *)
EXTENDS OfflineWork, TLC

CONSTANTS m1, m2

TwoMaids == {m1, m2}
MaidSymmetry == Permutations(Maids)

Both == {1, 2}
One == {1}
TwoRooms == [t \in {1, 2} |-> IF t = 1 THEN "101" ELSE "102"]
=============================================================================
