--------------------------- MODULE MCPhotoUpload ---------------------------
(* Small instances of PhotoUpload for TLC: keys, requests and purge runs are *)
(* interchangeable.                                                          *)
EXTENDS PhotoUpload, TLC

Symmetry == Permutations(Keys) \cup Permutations(Requests) \cup Permutations(Workers)
=============================================================================
