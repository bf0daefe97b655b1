----------------------------- MODULE MCNovedades -----------------------------
(* Two requests at a time over two novedades and three payrolls of one       *)
(* planilla, whose periods are of one day or of both; one of the two         *)
(* employees is not of the planilla.                                         *)
EXTENDS Novedades, TLC

CONSTANTS r1, r2, p, e, f, n1, n2, n3, v1, v2

MCMiembros == p :> {e}
MCSymmetry ==
  Permutations({r1, r2}) \cup Permutations({n1, n2, n3}) \cup Permutations({v1, v2})
=============================================================================
