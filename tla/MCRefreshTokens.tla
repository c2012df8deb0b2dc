-------------------------- MODULE MCRefreshTokens --------------------------
(* Symmetry for checking RefreshTokens; the configurations make every user *)
(* an admin, so that the users are interchangeable too.                    *)
EXTENDS RefreshTokens, TLC

Symmetry == Permutations(TokenIds) \cup Permutations(Requests) \cup Permutations(Users)
=============================================================================
