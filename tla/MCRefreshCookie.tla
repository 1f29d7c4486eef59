-------------------------- MODULE MCRefreshCookie --------------------------
(***************************************************************************)
(* RefreshCookie for TLC.  The instance is in the .cfg file.               *)
(***************************************************************************)
EXTENDS RefreshCookie, TLC

\* Sessions and request slots are interchangeable.
Interchangeable == Permutations(Sessions) \cup Permutations(Requests)
=============================================================================
