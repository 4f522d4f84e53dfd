-------------------------- MODULE MCPayrollPayment --------------------------
(* Instances of PayrollPayment for TLC. *)
EXTENDS PayrollPayment, TLC

CONSTANTS e1, e2

Two == {e1, e2}
One == {e1}
Fees == {2}
UpAndDown == {-1, 1}
Down == {-1}
Symmetry == Permutations(Two)
=============================================================================
