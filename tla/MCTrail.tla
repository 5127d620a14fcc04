-------------------------------- MODULE MCTrail --------------------------------
(* A small instance of Trail. *)
EXTENDS Trail, TLC

CONSTANTS own, notes, plain

Symmetry == Permutations(Calls)

\* Bound: an output holds scraps of the short document only.
Few ==
  \A r \in Runs : run[r].screened # None =>
    \A p \in run[r].screened.out : p.part = "scrap" => p.doc \in Short
================================================================================
