SPECIFICATION ComprobantesSpec
CONSTANTS
  Empleados = {"ana", "beto"}
  Conceptos = {"bono", "inss", "aguinaldo"}
  Cuentas = {"gasto", "xpagar", "pasivo", "control"}
  Null = "null"
  PorPagar = "xpagar"
  Escenarios <- MCEscenarios
  Fichas <- MCFichas
  Finiquitos <- MCFiniquitos
  Peticiones = {r1, r2}
  MaxCambios = 1
  MaxGeneraciones = 3
  MaxNominas = 2
INVARIANTS AplicadaConComprobante PorPagarEsElNeto LineasCongeladas
CHECK_DEADLOCK FALSE
