------------------------------- MODULE MCMotor --------------------------------
(* Three payslips of one employee, in planillas whose deductions compete for *)
(* a pay that is not always enough.                                          *)
EXTENDS Comparacion

Concepto(codigo, tipo, monto) ==
  [codigo |-> codigo, tipo |-> tipo, monto |-> monto, base |-> "salario_gravable",
   asociado |-> Sin, vigente |-> TRUE, techo |-> Sin, tope |-> Sin, exento |-> 0,
   gravable |-> TRUE, prioridad |-> 100, obligatoria |-> FALSE, detener |-> FALSE,
   antes |-> FALSE, impuesto |-> FALSE]

Tramo(min, max, fijo, sobre, tasa) ==
  [min |-> min, max |-> max, fijo |-> fijo, sobre |-> sobre, tasa |-> tasa]

\* Two brackets that share a bound, and two a cent apart.
Tablas ==
  { <<Tramo(0, 20, 0, 0, 0), Tramo(20, 60, 0, 20, 50), Tramo(61, Abierto, 20, 61, 80)>>,
    <<Tramo(0, 44, 0, 0, 10), Tramo(45, 60, 4, 45, 20)>> }

Bono    == Concepto("bono", "fijo", 4)
Extras  == [Concepto("extras", "horas", 200) EXCEPT !.base = "mensual"]
Incentivo == Concepto("incentivo", "regla", 0)
Viatico == [Concepto("viatico", "fijo", 3) EXCEPT !.exento = 2, !.tope = 30]
Sindicato == [Concepto("sindicato", "fijo", 4) EXCEPT !.prioridad = 300]
Inss  == [Concepto("inss", "porcentaje", 20) EXCEPT
            !.prioridad = 10, !.obligatoria = TRUE, !.antes = TRUE]
Ir    == [Concepto("ir", "regla", 0) EXCEPT !.prioridad = 20, !.impuesto = TRUE]
Ahorro == [Concepto("ahorro", "fijo", 3) EXCEPT !.prioridad = 15, !.techo = 5, !.antes = TRUE]
Embargo == [Concepto("embargo", "fijo", 5) EXCEPT !.prioridad = 30, !.detener = TRUE]
Fondo == [Concepto("fondo", "fijo", 2) EXCEPT
            !.asociado = 1, !.prioridad = 40, !.obligatoria = TRUE, !.tope = 4, !.antes = TRUE]
Retirado == [Concepto("retirado", "fijo", 9) EXCEPT !.vigente = FALSE]

Prestamo == [monto |-> 4, cuota |-> 3, prioridad |-> 250, antes |-> TRUE, extranjera |-> FALSE]
Adelanto == [monto |-> 2, cuota |-> 2, prioridad |-> 251, antes |-> FALSE, extranjera |-> TRUE]

Planilla(percepciones, deducciones, deudas, tabla) ==
  [activo |-> TRUE, salario |-> 10, percepciones |-> percepciones,
   deducciones |-> deducciones, deudas |-> deudas, tabla |-> tabla]

MCCatalogos ==
  { Planilla(p[1], p[2], p[3], t) : t \in Tablas,
      p \in { << <<Bono, Extras>>, <<Sindicato, Ir, Inss>>, <<Prestamo>> >>,
              << <<Viatico, Bono>>, <<Fondo, Ahorro, Ir>>, <<>> >>,
              << <<Bono, Incentivo>>, <<Retirado, Sindicato, Embargo, Ahorro, Fondo>>, <<Prestamo, Adelanto>> >> } }

Jornada(horas, novedades) ==
  [dias |-> 4, completo |-> "mes", alta |-> 1, baja |-> Sin, tasa |-> <<1, 1>>, cambio |-> <<4, 1>>,
   horas |-> horas, codigos |-> {}, novedades |-> novedades]

MCJornadas ==
  { Jornada(0, <<>>), Jornada(2, "bono" :> 8), [Jornada(9, "extras" :> 1) EXCEPT !.cambio = <<0, 1>>],
    [Jornada(0, <<>>) EXCEPT !.completo = "dias", !.dias = 3, !.alta = 2, !.codigos = {"inss"}],
    [Jornada(0, <<>>) EXCEPT !.alta = 5] }

MCCodigos == {"bono", "extras", "viatico", "sindicato", "inss", "ir", "ahorro", "embargo",
              "fondo", "retirado", "incentivo"}

MCArea == <<"campo", "planta", "planta">>
=============================================================================
