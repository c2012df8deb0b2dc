--------------------------- MODULE MCUserAccount ---------------------------
(* Model values and symmetry for checking UserAccount. *)
EXTENDS UserAccount, TLC

Symmetry == Permutations(Codes) \cup Permutations(Requests) \cup Permutations(Secrets)
=============================================================================
