SPECIFICATION Spec
CONSTANTS
  r1 = r1  r2 = r2  n1 = n1  n2 = n2  s1 = s1  s2 = s2  l1 = l1
  Requests = {r1, r2}
  Nominas = {n1, n2}
  Solicitudes = {s1, s2}
  Liquidaciones = {l1}
  AllowNegative = FALSE
  AccrueDuringLeave = TRUE
  Tope = 3
  Casos <- MCCasos
  MaxUnidades = 2
  MaxInicial = 1
  MaxPeriodo = 1
  MaxOperations = 6
SYMMETRY MCSymmetry
INVARIANTS LeaveDeductedOnce NeverOverdrawn PayoutIsFinal AttachedIsDeducted DevengoCuadra
PROPERTIES ImplementaLibro
CHECK_DEADLOCK FALSE
