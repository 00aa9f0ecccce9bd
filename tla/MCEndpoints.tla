---------------------------- MODULE MCEndpoints ----------------------------
(* A small instance of Endpoints: three rotations, clocks one unit apart. *)
EXTENDS Endpoints, TLC

Symmetry == Permutations(Admins)
=============================================================================
