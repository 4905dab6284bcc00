------------------------------ MODULE MCProvers ------------------------------
(***************************************************************************)
(* A small instance of Provers.  A call is one of several alike.           *)
(***************************************************************************)
EXTENDS Provers, TLC

Symmetry == Permutations(Slot)

=============================================================================
