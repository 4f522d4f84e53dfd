-------------------------- MODULE MCPasswordChange --------------------------
(* Instances of PasswordChange for TLC. *)
EXTENDS PasswordChange, TLC

CONSTANTS k1, k2, r1, r2, q1, q2, x1, s1, s2, s3, w1, w2

OneKey == {k1}
TwoKeys == {k1, k2}
OneReset == {r1}
OneRequest == {q1}
TwoRequests == {q1, q2}
OneRun == {x1}
OneSession == {s1}
TwoSessions == {s1, s2}
OnePassword == {w1}
TwoPasswords == {w1, w2}
Symmetry == Permutations(Keys) \cup Permutations(Requests) \cup Permutations(Own)
              \cup Permutations(Sessions)
=============================================================================
