-------------------------- MODULE MCNominaLifecycle --------------------------
(* Two requests at a time over three nominas of two periods.  The requests   *)
(* are interchangeable, and so are the periods.                              *)
EXTENDS NominaLifecycle, TLC

CONSTANTS r1, r2, p1, p2

MCSymmetry == Permutations({r1, r2}) \cup Permutations({p1, p2})
=============================================================================
