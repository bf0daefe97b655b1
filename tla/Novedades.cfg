SPECIFICATION Spec
CONSTANTS
  r1 = r1  r2 = r2  p = p  e = e  f = f
  n1 = n1  n2 = n2  n3 = n3  v1 = v1  v2 = v2
  Requests = {r1, r2}
  Planillas = {p}
  Empleados = {e, f}
  Miembros <- MCMiembros
  Nominas = {n1, n2, n3}
  Novedades = {v1, v2}
  NULL = NULL
  MaxFecha = 2
  MaxOperations = 4
SYMMETRY MCSymmetry
INVARIANTS CuentaLoListado PagadaUnaVez
CHECK_DEADLOCK FALSE
