----------------------------- MODULE MCNominaJob -----------------------------
(* Two workers, two employees and two retry requests; one process may die    *)
(* and one message may be delivered a second time while it is still held.    *)
EXTENDS NominaJob, TLC

CONSTANTS e1, e2, w1, w2, r1, r2

ASSUME MCDistinct == Cardinality({e1, e2, w1, w2, r1, r2}) = 6

\* Sound for invariants and action properties; a run of a liveness property
\* does without.
MCSymmetry == Permutations({e1, e2}) \cup Permutations({w1, w2}) \cup Permutations({r1, r2})
=============================================================================
