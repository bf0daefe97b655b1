--------------------------- MODULE MCConfiguracion ----------------------------
(* A planilla of two concepts and two employees.                             *)
EXTENDS Configuracion, TLC

CONSTANTS c1, c2, e1, e2

MCSymmetry == Permutations({c1, c2}) \cup Permutations({e1, e2})
=============================================================================
