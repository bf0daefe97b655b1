---------------------------- MODULE MCLiquidaciones ----------------------------
(* Two requests at a time over two settlements of one employee with a loan,  *)
(* an advance and two payrolls.                                              *)
EXTENDS Liquidaciones, TLC

CONSTANTS r1, r2, l1, l2, n1, n2

MCAdelantos == {1, 2}
MCPrincipal == [a \in MCAdelantos |-> a]
MCSymmetry == Permutations({r1, r2}) \cup Permutations({l1, l2}) \cup Permutations({n1, n2})
=============================================================================
