SPECIFICATION AcumuladosSpec
CONSTANTS
  r1 = r1  r2 = r2  n1 = n1  n2 = n2  c1 = c1
  Requests = {r1, r2}
  Nominas = {n1, n2}
  Cargas = {c1}
  InicioFiscal = 2
  PrimerMes = 1
  SalarioInicial = 2
  PeriodosIniciales = 1
  MaxMes = 2
  MaxMonto = 1
  MaxHoy = 2
  MaxOperations = 4
SYMMETRY MCSymmetry
INVARIANTS TotalesSonNominas BeneficioCuadra
CHECK_DEADLOCK FALSE
