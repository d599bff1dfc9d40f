---------------------------- MODULE MCController ----------------------------
(* Two game controllers and a mouse; two game controllers are alike. *)
EXTENDS Controller, TLC

CONSTANTS c1, c2, mouse

Symmetry == Permutations({c1, c2})
=============================================================================
