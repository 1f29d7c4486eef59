------------------------ MODULE MCPasswordManagement ------------------------
(***************************************************************************)
(* PasswordManagement for TLC.  The bounds are in the .cfg files.          *)
(***************************************************************************)
EXTENDS PasswordManagement, TLC

Symmetry == Permutations(SessionIds) \cup Permutations(ResetTokens) \cup Permutations(Calls)
            \cup Permutations(Passwords)
=============================================================================
