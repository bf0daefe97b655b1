SPECIFICATION Spec
CONSTANTS
  Codigos <- MCCodigos
  Catalogos <- MCCatalogos
  Jornadas <- MCJornadas
  DiasMes = 4
  HorasDia = 2
  Periodos = 4
  Partes = 6
  MaxRecibos = 3
  DeltaAbs = 3
  DeltaPct = 5
  Area <- MCArea
INVARIANTS NetoNoNegativo PrioridadRespetada TechoRespetado AcumuladoCuadra RecalculoIgual TablaCubre ComparacionCuadra
CHECK_DEADLOCK FALSE
