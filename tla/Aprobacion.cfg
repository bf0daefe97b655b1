SPECIFICATION AprobacionSpec
CONSTANTS
  r1 = r1  r2 = r2  c1 = c1  p1 = p1
  Requests = {r1, r2}
  Conceptos = {c1}
  Planillas = {p1}
  MaxVersion = 2
SYMMETRY MCSymmetry
INVARIANTS BitacoraCuadra AprobadoEsRevisado
CHECK_DEADLOCK FALSE
