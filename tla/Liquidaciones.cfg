SPECIFICATION Spec
CONSTANTS
  r1 = r1  r2 = r2  l1 = l1  l2 = l2  n1 = n1  n2 = n2
  Requests = {r1, r2}
  Settlements = {l1, l2}
  Nominas = {n1, n2}
  Adelantos <- MCAdelantos
  Principal <- MCPrincipal
  PayoutOnTermination = TRUE
  Tasa = 1
  MaxConcepto = 1
  MaxFecha = 2
  MaxOperations = 3
SYMMETRY MCSymmetry
INVARIANTS DiasUnaVez 
CHECK_DEADLOCK FALSE
