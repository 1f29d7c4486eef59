---------------------------- MODULE MCEmailOutbox ----------------------------
(***************************************************************************)
(* EmailOutbox for TLC.  The instances are in the .cfg files; there is no  *)
(* symmetry, because that every event settles is checked with the rest.    *)
(***************************************************************************)
EXTENDS EmailOutbox, TLC
=============================================================================
