----------------------------- MODULE MCAcumulados -----------------------------
(* Two requests at a time over two payrolls and an initial load, in two    *)
(* fiscal years.                                                           *)
EXTENDS Acumulados, TLC

CONSTANTS r1, r2, n1, n2, c1

MCSymmetry == Permutations({r1, r2}) \cup Permutations({n1, n2})
=============================================================================
