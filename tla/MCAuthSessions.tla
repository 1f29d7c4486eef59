--------------------------- MODULE MCAuthSessions ---------------------------
(***************************************************************************)
(* AuthSessions for TLC.  The bounds are in the .cfg files.                *)
(***************************************************************************)
EXTENDS AuthSessions, TLC

\* Sessions, passwords and request slots are interchangeable.
Symmetry == Permutations(SessionIds) \cup Permutations(Passwords) \cup Permutations(Requests)
=============================================================================
