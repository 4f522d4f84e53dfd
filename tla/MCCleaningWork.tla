--------------------------- MODULE MCCleaningWork ---------------------------
(* Instances of CleaningWork for TLC. *)
EXTENDS CleaningWork, TLC

CONSTANTS m1, m2

TwoMaids == {m1, m2}
MaidSymmetry == Permutations(Maids)

One == {1}
OneRoom == [t \in {1} |-> "101"]
Both == {1, 2}
SharedRoom == [t \in {1, 2} |-> "101"]
=============================================================================
