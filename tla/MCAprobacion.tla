---------------------------- MODULE MCAprobacion ------------------------------
(* Two requests at a time over a concept and a planilla.                     *)
EXTENDS Aprobacion, TLC

CONSTANTS r1, r2, c1, p1

MCSymmetry == Permutations({r1, r2})
=============================================================================
