----------------------------- MODULE MCRowLocks -----------------------------
(***************************************************************************)
(* RowLocks on small instances.  Which call asks for what is the same up   *)
(* to the calls' names, so their jobs are taken in one order; no step      *)
(* changes jobs, so this leaves out whole behaviours only, and is sound    *)
(* for liveness too.                                                       *)
(***************************************************************************)
EXTENDS RowLocks, TLC

Rank == CHOOSE rank \in [Calls -> 1 .. Cardinality(Calls)] :
          \A c, d \in Calls : rank[c] = rank[d] => c = d

Order == [login |-> 1, request |-> 2, reset |-> 3, change |-> 4, refresh |-> 5, logout |-> 6]

JobsInOrder ==
  \A c, d \in Calls : Rank[c] < Rank[d] => Order[Kind(c)] <= Order[Kind(d)]

=============================================================================
