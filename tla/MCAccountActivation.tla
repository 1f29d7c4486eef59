------------------------ MODULE MCAccountActivation ------------------------
(***************************************************************************)
(* AccountActivation for TLC.  The instance is in the .cfg file; there is  *)
(* no symmetry, because that every call ends is checked with the rest.     *)
(***************************************************************************)
EXTENDS AccountActivation, TLC
=============================================================================
