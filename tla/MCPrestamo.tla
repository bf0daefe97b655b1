------------------------------ MODULE MCPrestamo ------------------------------
(* Two requests at a time over one loan of a few cents that three payroll    *)
(* runs touch, on three calculation dates; and the schedules of loans that    *)
(* start before, in and after February and before the end of a year, on a     *)
(* day all months have and on one they have not.                              *)
EXTENDS Amortizacion, TLC

CONSTANTS r1, r2, n1, n2, n3

MCSymmetry == Permutations({r1, r2}) \cup Permutations({n1, n2, n3})

MCPlanes ==
  {p \in [principal : {0, 7, 1000, 1499}, tasa : {0, 5, 36}, cuotas : {0, 1, 2, 7, 9},
   metodo : Metodos, tipo : {"simple", "compound"}, mes : {1, 2, 3, 8}, dia : {15, 31}] : p.dia <= Largo(p.mes)}
=============================================================================
