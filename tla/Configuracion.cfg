SPECIFICATION Spec
CONSTANTS
  c1 = c1  c2 = c2  e1 = e1  e2 = e2
  Conceptos = {c1, c2}
  Empleados = {e1, e2}
  MaxVersion = 2
SYMMETRY MCSymmetry
INVARIANTS RecalculoFiel
PROPERTIES RecalculoConSuContexto
CHECK_DEADLOCK FALSE
