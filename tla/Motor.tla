-------------------------------- MODULE Motor ---------------------------------
(***************************************************************************)
(* The payroll engine on one employee: the payslips of successive runs of  *)
(* a planilla, each calculated concept by concept from the catalogue and   *)
(* from what the year has accumulated, and voided or recalculated later.   *)
(*                                                                         *)
(* Amounts are whole cents.  The runs of a planilla exclude one another,   *)
(* so a calculation sees no other; what it reads was left by the runs      *)
(* before it and by the rollbacks of those voided.  A recalculation takes  *)
(* the payslip back and calculates it again with the same period,          *)
(* novelties and catalogue, which its snapshot froze.  Only an applied     *)
(* payroll cannot be recalculated: a voided one is, and its payslip is     *)
(* taken back from the year once more.                                     *)
(***************************************************************************)
EXTENDS TablaImpuesto, FiniteSetsExt

CONSTANTS
  Codigos,      \* codes of the perceptions and deductions
  Catalogos,    \* planillas: the concepts, the tax table, the employee
  Jornadas,     \* what a period brings: its days, its absences, its novelties
  DiasMes,      \* dias_mes_nomina
  HorasDia,     \* horas_jornada_diaria
  Periodos,     \* periodos_por_anio
  MaxRecibos    \* bound: payslips of the employee

\* No amount, no limit, no date, where one could be: None.
Sin == -1
Nada == [dias |-> 0]

Opcional == Nat \cup {Sin}

ConceptoType ==
  [codigo : Codigos, tipo : {"fijo", "porcentaje", "horas", "regla"}, monto : Nat,
   base : {"salario_base", "mensual", "salario_gravable", "salario_bruto", "salario_neto"},
   asociado : Opcional, vigente : BOOLEAN, techo : Opcional, tope : Opcional, exento : Nat,
   gravable : BOOLEAN, prioridad : Int, obligatoria : BOOLEAN, detener : BOOLEAN,
   antes : BOOLEAN, impuesto : BOOLEAN]

CatalogoType ==
  [activo : BOOLEAN, salario : Nat, percepciones : Seq(ConceptoType),
   deducciones : Seq(ConceptoType), tabla : Seq(TramoType),
   deudas : Seq([monto : Nat, cuota : Nat, prioridad : Int, antes : BOOLEAN,
                 extranjera : BOOLEAN])]

\* alta and baja count days from the first of the period.  tasa is the exchange
\* rate of the salary, cambio that of the foreign loans, 0 when there is none.
EsJornada(j) ==
  /\ j.dias \in Nat \ {0} /\ j.completo \in {"mes", "quincena", "dias"}
  /\ j.alta \in Int /\ j.baja \in Int
  /\ j.tasa[1] \in Nat /\ j.tasa[2] \in Nat \ {0}
  /\ j.cambio[1] \in Nat /\ j.cambio[2] \in Nat \ {0}
  /\ j.horas \in Nat /\ j.codigos \subseteq Codigos
  /\ \A c \in DOMAIN j.novedades : j.novedades[c] \in Nat

ASSUME ConfiguracionAssumption ==
  DiasMes \in Nat \ {0} /\ HorasDia \in Nat \ {0} /\ Periodos \in Nat \ {0}
ASSUME CatalogosAssumption == Catalogos \subseteq CatalogoType
\* A code is unique among the concepts of its kind, a planilla lists a concept
\* once, and what the year holds of it is kept by kind and code: here the two
\* kinds share no code.
ASSUME CodigosAssumption ==
  \A c \in Catalogos :
    LET p == c.percepciones
        d == c.deducciones
    IN  /\ \A i, j \in DOMAIN p : p[i].codigo = p[j].codigo => i = j
        /\ \A i, j \in DOMAIN d : d[i].codigo = d[j].codigo => i = j
        /\ \A i \in DOMAIN p, j \in DOMAIN d : p[i].codigo # d[j].codigo
ASSUME JornadasAssumption == \A j \in Jornadas : EsJornada(j)

VARIABLES
  catalogo,     \* the planilla and the employee; never changes
  acum,         \* AcumuladoAnual of the employee
  saldos,       \* what is left of each loan and advance, in its own currency
  recibos,      \* the payslips, in the order they were made
  fallo,        \* the last run ended in ERROR
  anuladas,     \* history: payslips taken back that no other replaces
  devuelto,     \* history: what was taken back from the year a second time
  fase,         \* where the calculation in progress is
  jornada,      \* its period
  rehace,       \* the payslip it recalculates, 0 for none
  k,            \* the perception, or the debt, that comes next
  pendientes,   \* the deductions that are left
  bruto,        \* the absence already taken off
  gravable,     \* salario_gravable_periodo
  gravados,     \* the whole amount of the perceptions that are taxed
  items,        \* its deductions: the deduction rows of NominaDetalle
  saldo,        \* saldo_disponible
  retenido,     \* totals of those rows
  montos,       \* what the rows hold of each concept
  abonos,       \* and of each loan and advance, in its own currency
  faltas        \* history: the deductions there was not enough for

persistente == <<catalogo, acum, saldos, recibos, fallo, anuladas, devuelto>>
percibido == <<bruto, gravable, gravados>>
calculo == <<fase, jornada, rehace, k, pendientes, percibido, items, saldo, retenido, montos,
             abonos, faltas>>
vars == <<persistente, calculo>>

-----------------------------------------------------------------------------
(* The salary of a period                                                    *)

\* What a period pays of the monthly salary, a fraction: a complete month, a
\* complete fortnight, or its days.
Parte(completo, dias) ==
  CASE completo = "mes"      -> <<1, 1>>
    [] completo = "quincena" -> <<1, 2>>
    [] OTHER                 -> <<dias, DiasMes>>

Trabajados(j) ==
  Menor(j.dias, IF j.baja = Sin THEN j.dias ELSE j.baja) - Mayor(1, j.alta) + 1

\* validate_employee and get_exchange_rate
Apto(j) ==
  /\ catalogo.activo /\ catalogo.salario > 0
  /\ j.alta <= j.dias
  /\ j.baja # Sin => j.baja >= 1 /\ j.baja >= j.alta
  /\ j.tasa[1] > 0

\* The salary of the period and the absence, over the common denominator.
Divisor(j) == Parte(j.completo, j.dias)[2] * j.dias * DiasMes * HorasDia * j.tasa[2]
Devengado(j) ==
  catalogo.salario * j.tasa[1] * Parte(j.completo, j.dias)[1] * Trabajados(j) * DiasMes * HorasDia
Perdido(j) == catalogo.salario * j.tasa[1] * j.horas * Parte(j.completo, j.dias)[2] * j.dias

Mensual(j) == Redondea(catalogo.salario * j.tasa[1], j.tasa[2])
Sueldo(j) == Redondea(Devengado(j), Divisor(j))
Descuento(j) == Redondea(Perdido(j), Divisor(j))

\* salario_neto_inasistencia
NetoInasistencia(j) == Redondea(Mayor(0, Devengado(j) - Perdido(j)), Divisor(j))

-----------------------------------------------------------------------------
(* The amount of a concept                                                   *)

\* numero_periodo, and the net of the year: what build_calculation_variables
\* gives to a rule.
NumeroPeriodo == acum.procesados + 1
NetoAcumulado == acum.bruto - acum.antes

\* The rule of a progressive tax, as a catalogue has it: the average of the
\* year, projected to the year; the tax on it, less what was withheld.
ReglaImpuesto ==
  LET n == NumeroPeriodo
      renta == NetoAcumulado + gravable - retenido.reduce
      anual == Impuesto(catalogo.tabla, (renta * Periodos * Partes) \div n)
  IN  IF Aceptada(catalogo.tabla) /\ anual # SinTramo
      THEN Mayor(0, Redondea(anual * n, Periodos) - acum.impuesto) ELSE SinTramo

\* While the perceptions are calculated the totals of the employee are zero;
\* the net is zero until the end.
Base(cual) ==
  CASE cual = "salario_base" -> Sueldo(jornada)
    [] cual = "mensual" -> Mensual(jornada)
    [] cual = "salario_neto" -> 0
    [] cual = "salario_gravable" -> IF fase = "percepciones" THEN 0 ELSE gravable
    [] cual = "salario_bruto" -> IF fase = "percepciones" THEN 0 ELSE bruto

\* _calculate_hours: hours without a percentage are paid whole.
BaseHoras(c) == Base(IF c.base = "salario_bruto" THEN c.base ELSE "mensual")
Recargo(c) == IF c.monto = 0 THEN 100 ELSE c.monto

\* _calculate_override, _calculate_by_formula_type.  A percentage of the
\* association replaces the formula as one of the concept would.
PorFormula(c) ==
  IF c.asociado # Sin THEN c.asociado ELSE
  CASE c.tipo = "porcentaje" -> Redondea(Base(c.base) * c.monto, 100)
    [] c.tipo = "fijo" ->
         IF c.codigo \in DOMAIN jornada.novedades THEN jornada.novedades[c.codigo] ELSE c.monto
    [] c.tipo = "horas" ->
         IF c.codigo \in DOMAIN jornada.novedades
         THEN Redondea(BaseHoras(c) * jornada.novedades[c.codigo] * Recargo(c),
                       DiasMes * HorasDia * 100)
         ELSE 0
    [] c.tipo = "regla" -> ReglaImpuesto

Restante(limite, usado) == Mayor(0, limite - Mayor(0, usado))

\* A slip: the annual limit is applied to each payslip alone.
TechoPorRecibo(c, monto) == IF c.techo = Sin THEN monto ELSE Menor(monto, c.techo)

\* apply_annual_limits
ConTecho(c, monto) ==
  IF c.techo = Sin THEN monto ELSE Menor(monto, Restante(c.techo, acum.conceptos[c.codigo]))

Monto(c) ==
  IF PorFormula(c) = SinTramo THEN SinTramo ELSE ConTecho(c, Mayor(0, PorFormula(c)))

-----------------------------------------------------------------------------
(* What a payslip adds to the year, and what its rollback takes away         *)

\* update_accumulations
ConRecibo(a, r) ==
  [bruto      |-> a.bruto + r.bruto,
   gravable   |-> a.gravable + r.gravable,
   antes      |-> a.antes + r.retenido.antes,
   impuesto   |-> a.impuesto + r.retenido.impuesto,
   procesados |-> a.procesados + 1,
   conceptos  |-> [c \in Codigos |-> a.conceptos[c] + r.montos[c]]]

\* The base that the rollback works out from the rows: of a perception it
\* knows the amount, not how much of it was taxed.
Revertible(r) == r.sueldo - r.descuento + r.gravados

\* A slip: the tax withheld is not given back.
ImpuestoQueda(a, r) ==
  [bruto      |-> Mayor(a.bruto - r.bruto, 0),
   gravable   |-> Mayor(a.gravable - Revertible(r), 0),
   antes      |-> Mayor(a.antes - r.retenido.antes, 0),
   impuesto   |-> a.impuesto,
   procesados |-> Mayor(a.procesados - 1, 0),
   conceptos  |-> a.conceptos]

\* _rollback_accumulations_for_nomina; the totals by concept stay.
SinRecibo(a, r) ==
  [bruto      |-> Mayor(a.bruto - r.bruto, 0),
   gravable   |-> Mayor(a.gravable - Revertible(r), 0),
   antes      |-> Mayor(a.antes - r.retenido.antes, 0),
   impuesto   |-> Mayor(a.impuesto - r.retenido.impuesto, 0),
   procesados |-> Mayor(a.procesados - 1, 0),
   conceptos  |-> a.conceptos]

\* What it takes away.
Devuelve(d, r) ==
  [bruto      |-> d.bruto + r.bruto,
   gravable   |-> d.gravable + Revertible(r),
   antes      |-> d.antes + r.retenido.antes,
   impuesto   |-> d.impuesto + r.retenido.impuesto,
   procesados |-> d.procesados + 1]

-----------------------------------------------------------------------------
(* Types                                                                     *)

Fases == {"libre", "percepciones", "deducciones", "deudas"}

AcumType ==
  [bruto : Nat, gravable : Nat, antes : Nat, impuesto : Nat, procesados : Nat,
   conceptos : [Codigos -> Nat]]

DevueltoType == [bruto : Nat, gravable : Int, antes : Nat, impuesto : Nat, procesados : Nat]
NadaDevuelto == [bruto |-> 0, gravable |-> 0, antes |-> 0, impuesto |-> 0, procesados |-> 0]

\* reduce: what of the deductions before tax lowers the taxable amount.
RetenidoType == [deducido : Nat, antes : Nat, reduce : Nat, impuesto : Nat]
NadaRetenido == [deducido |-> 0, antes |-> 0, reduce |-> 0, impuesto |-> 0]

Deudas == DOMAIN catalogo.deudas
Filas(D) ==
  [codigo : Codigos \cup {"prestamo"}, monto : Nat, calculado : Nat, prioridad : Int,
   antes : BOOLEAN, impuesto : BOOLEAN, exento : Nat, deuda : D \cup {0}]

ReciboType ==
  [jornada : Jornadas, estado : {"vigente", "anulado", "recalculado"}, rehace : Nat,
   anuladas : Nat, sueldo : Nat, descuento : Nat, bruto : Nat, gravable : Nat,
   gravados : Nat, items : Seq(Filas(Deudas)), neto : Int, retenido : RetenidoType,
   montos : [Codigos -> Nat], abonos : [Deudas -> Nat],
   faltas : SUBSET DOMAIN catalogo.deducciones]

TypeOK ==
  /\ catalogo \in Catalogos
  /\ acum \in AcumType
  /\ saldos \in [Deudas -> Nat]
  /\ recibos \in Seq(ReciboType)
  /\ fallo \in BOOLEAN /\ anuladas \in Nat /\ devuelto \in DevueltoType
  /\ fase \in Fases /\ rehace \in Nat /\ k \in Nat
  /\ fase # "libre" => jornada \in Jornadas
  /\ pendientes \subseteq DOMAIN catalogo.deducciones
  /\ bruto \in Nat /\ gravable \in Nat /\ gravados \in Nat /\ saldo \in Int
  /\ items \in Seq(Filas(Deudas))
  /\ retenido \in RetenidoType
  /\ montos \in [Codigos -> Nat] /\ abonos \in [Deudas -> Nat]
  /\ faltas \subseteq DOMAIN catalogo.deducciones

Init ==
  /\ catalogo \in Catalogos
  /\ acum = [bruto |-> 0, gravable |-> 0, antes |-> 0, impuesto |-> 0, procesados |-> 0,
             conceptos |-> [c \in Codigos |-> 0]]
  /\ saldos = [d \in Deudas |-> catalogo.deudas[d].monto]
  /\ recibos = <<>> /\ fallo = FALSE /\ anuladas = 0 /\ devuelto = NadaDevuelto
  /\ fase = "libre" /\ jornada = Nada /\ rehace = 0 /\ k = 0 /\ pendientes = {}
  /\ bruto = 0 /\ gravable = 0 /\ gravados = 0
  /\ items = <<>> /\ saldo = 0 /\ retenido = NadaRetenido
  /\ montos = [c \in Codigos |-> 0] /\ abonos = [d \in Deudas |-> 0] /\ faltas = {}

-----------------------------------------------------------------------------
(* A run                                                                     *)

SinFilas ==
  /\ pendientes' = {} /\ items' = <<>> /\ saldo' = 0 /\ retenido' = NadaRetenido
  /\ montos' = [c \in Codigos |-> 0] /\ abonos' = [d \in Deudas |-> 0] /\ gravados' = 0
  /\ faltas' = {}

\* _process_employee, up to the perceptions.
Empieza(j, n) ==
  /\ fase' = "percepciones" /\ jornada' = j /\ rehace' = n /\ k' = 1
  /\ bruto' = NetoInasistencia(j) /\ gravable' = NetoInasistencia(j)
  /\ SinFilas

Termina ==
  /\ fase' = "libre" /\ jornada' = Nada /\ rehace' = 0 /\ k' = 0
  /\ bruto' = 0 /\ gravable' = 0
  /\ SinFilas

\* execute_payroll of a new period.
Ejecutar(j) ==
  /\ fase = "libre" /\ Len(recibos) < MaxRecibos
  /\ IF Apto(j) THEN Empieza(j, 0) /\ UNCHANGED fallo
     ELSE fallo' = TRUE /\ UNCHANGED calculo
  /\ UNCHANGED <<catalogo, acum, saldos, recibos, anuladas, devuelto>>

\* A strict rule that cannot be evaluated, a loan without an exchange rate or
\* a negative net: the run ends in ERROR and none of its effects is applied.
Falla ==
  /\ Termina /\ fallo' = TRUE
  /\ anuladas' = IF rehace = 0 THEN anuladas ELSE anuladas + 1
  /\ UNCHANGED <<catalogo, acum, saldos, recibos, devuelto>>

\* The part of a perception that is taxed, up to its cap on the year's base.
Gravado(c, monto) ==
  IF ~c.gravable THEN 0 ELSE IF c.tope = Sin THEN monto
  ELSE Menor(monto, Mayor(0, c.tope - acum.gravable - gravable))

\* PerceptionCalculator._calculate_item
Percepcion ==
  /\ fase = "percepciones" /\ k \in DOMAIN catalogo.percepciones
  /\ LET c == catalogo.percepciones[k]
         monto == Monto(c)
     IN  IF c.vigente /\ monto = SinTramo THEN Falla
         ELSE /\ IF c.vigente /\ monto > 0
                 THEN /\ bruto' = bruto + monto
                      /\ gravable' = gravable + Gravado(c, monto - Menor(monto, c.exento))
                      /\ gravados' = gravados + (IF c.gravable THEN monto ELSE 0)
                      /\ montos' = [montos EXCEPT ![c.codigo] = @ + monto]
                 ELSE UNCHANGED <<percibido, montos>>
              /\ k' = k + 1
              /\ UNCHANGED <<persistente, fase, jornada, rehace, pendientes, items, saldo,
                             retenido, abonos, faltas>>

TerminaPercepciones ==
  /\ fase = "percepciones" /\ k \notin DOMAIN catalogo.percepciones
  /\ fase' = "deducciones" /\ k' = 1
  /\ pendientes' = DOMAIN catalogo.deducciones /\ saldo' = bruto
  /\ UNCHANGED <<persistente, jornada, rehace, percibido, items, retenido, montos, abonos,
                 faltas>>

-----------------------------------------------------------------------------
(* Deductions, loans and advances                                            *)

\* A slip: in the order of the planilla.
EnOrden(i, j) == i <= j

\* A lower number goes first, and of equals the one listed first.
Precede(i, j) ==
  LET p == catalogo.deducciones[i].prioridad
      q == catalogo.deducciones[j].prioridad
  IN  p < q \/ (p = q /\ i <= j)

Primera(i) == i \in pendientes /\ \A j \in pendientes : Precede(i, j)

\* apply_taxable_base_limit, of what goes before tax.
MontoDeduccion(c) ==
  IF Monto(c) = SinTramo \/ ~c.antes \/ c.tope = Sin THEN Monto(c)
  ELSE Menor(Monto(c), Restante(c.tope, acum.antes))

Omitida(c) == ~c.vigente \/ c.codigo \in jornada.codigos

\* A slip: what is deducted does not stop at what is left.
Entero(monto) == monto

Aplicable(monto) == Mayor(0, Menor(monto, saldo))

\* calculado is what the deduction was for, of which monto was there.
Fila(c, monto, aplicado) ==
  [codigo |-> c.codigo, monto |-> aplicado, calculado |-> monto, prioridad |-> c.prioridad,
   antes |-> c.antes, impuesto |-> c.impuesto, exento |-> Menor(aplicado, c.exento), deuda |-> 0]

ConFila(r, f) ==
  [deducido |-> r.deducido + f.monto,
   antes    |-> r.antes + (IF f.antes /\ ~f.impuesto THEN f.monto ELSE 0),
   reduce   |-> r.reduce + (IF f.antes /\ ~f.impuesto THEN f.monto - f.exento ELSE 0),
   impuesto |-> r.impuesto + (IF f.impuesto THEN f.monto ELSE 0)]

Descuenta(c, monto, aplicado) ==
  /\ items' = Append(items, Fila(c, monto, aplicado))
  /\ saldo' = saldo - aplicado
  /\ retenido' = ConFila(retenido, Fila(c, monto, aplicado))
  /\ montos' = [montos EXCEPT ![c.codigo] = @ + aplicado]
  /\ UNCHANGED <<persistente, fase, jornada, rehace, k, percibido, abonos>>

SinFila ==
  UNCHANGED <<items, saldo, retenido, montos, persistente, fase, jornada, rehace, k,
              percibido, abonos>>

\* DeductionCalculator.calculate, one deduction: one that must be complete and
\* is not stops the rest; one with nothing left for it leaves a row only when
\* it is mandatory.
Deduccion(i) ==
  /\ fase = "deducciones" /\ Primera(i)
  /\ LET c == catalogo.deducciones[i]
         monto == MontoDeduccion(c)
         aplicado == Aplicable(monto)
         detiene == c.detener /\ monto > saldo
     IN  IF Omitida(c) THEN pendientes' = pendientes \ {i} /\ SinFila /\ UNCHANGED faltas
         ELSE IF monto = SinTramo THEN Falla
         ELSE /\ pendientes' = IF detiene THEN {} ELSE pendientes \ {i}
              /\ faltas' = IF monto > saldo THEN faltas \cup {i} ELSE faltas
              /\ IF monto = 0 \/ detiene \/ (aplicado = 0 /\ ~c.obligatoria)
                 THEN SinFila ELSE Descuenta(c, monto, aplicado)

TerminaDeducciones ==
  /\ fase = "deducciones" /\ pendientes = {}
  /\ fase' = "deudas" /\ k' = 1
  /\ UNCHANGED <<persistente, jornada, rehace, pendientes, percibido, items, saldo, retenido,
                 montos, abonos, faltas>>

\* _loan_to_planilla_rate
Cambio(d) == IF catalogo.deudas[d].extranjera THEN jornada.cambio ELSE <<1, 1>>
EnPlanilla(d, monto) == Redondea(monto * Cambio(d)[1], Cambio(d)[2])
EnDeuda(d, monto) == Redondea(monto * Cambio(d)[2], Cambio(d)[1])

\* The instalment, in the currency of the loan.
Debido(d) == Menor(catalogo.deudas[d].cuota, saldos[d])

\* _payment_amount: what the loan receives, of what is left converted to its
\* currency and rounded; and what the payslip gives for it, converted back and
\* rounded once more, which may be more than what was left.
Abono(d) == Menor(saldos[d], EnDeuda(d, Menor(EnPlanilla(d, Debido(d)), saldo)))
Cuota(d) == EnPlanilla(d, Abono(d))

\* A loan is reached while something is left.
Alcanzada(d) == saldo > 0 /\ Debido(d) > 0
SinCambio(d) == Alcanzada(d) /\ Cambio(d)[1] = 0

FilaDeuda(d) ==
  [codigo |-> "prestamo", monto |-> Cuota(d), calculado |-> EnPlanilla(d, Debido(d)),
   prioridad |-> catalogo.deudas[d].prioridad, antes |-> catalogo.deudas[d].antes,
   impuesto |-> FALSE, exento |-> 0, deuda |-> d]

Cobra(d) ==
  /\ items' = Append(items, FilaDeuda(d))
  /\ saldo' = saldo - Cuota(d)
  /\ retenido' = ConFila(retenido, FilaDeuda(d))
  /\ abonos' = [abonos EXCEPT ![d] = @ + Abono(d)]

\* process_loans and process_advances: after every deduction, whatever the
\* priority of the loans; it is only written on the row.
Deuda ==
  /\ fase = "deudas" /\ k \in Deudas
  /\ IF SinCambio(k) THEN Falla
     ELSE /\ IF Alcanzada(k) /\ Abono(k) > 0 /\ Cuota(k) > 0 THEN Cobra(k)
             ELSE UNCHANGED <<items, saldo, retenido, abonos>>
          /\ k' = k + 1
          /\ UNCHANGED <<persistente, fase, jornada, rehace, pendientes, percibido, montos,
                         faltas>>

-----------------------------------------------------------------------------
(* The payslip, and its end                                                  *)

ReciboCalculado ==
  [jornada |-> jornada, estado |-> "vigente", rehace |-> rehace, anuladas |-> anuladas,
   sueldo |-> Sueldo(jornada), descuento |-> Descuento(jornada), bruto |-> bruto,
   gravable |-> gravable, gravados |-> gravados, items |-> items,
   neto |-> bruto - retenido.deducido, retenido |-> retenido,
   montos |-> montos, abonos |-> abonos, faltas |-> faltas]

\* _apply_employee_side_effects, apply_pending_effects
Contabilizar ==
  /\ fase = "deudas" /\ k \notin Deudas
  /\ IF ReciboCalculado.neto < 0 THEN Falla
     ELSE /\ acum' = ConRecibo(acum, ReciboCalculado)
          /\ saldos' = [d \in Deudas |-> saldos[d] - abonos[d]]
          /\ recibos' = Append(recibos, ReciboCalculado)
          /\ fallo' = FALSE
          /\ Termina
          /\ UNCHANGED <<catalogo, anuladas, devuelto>>

Revierte(n) ==
  /\ acum' = SinRecibo(acum, recibos[n])
  /\ saldos' = [d \in Deudas |-> saldos[d] + recibos[n].abonos[d]]

Anular(n) ==
  /\ fase = "libre" /\ recibos[n].estado = "vigente"
  /\ Revierte(n)
  /\ recibos' = [recibos EXCEPT ![n].estado = "anulado"]
  /\ anuladas' = anuladas + 1
  /\ UNCHANGED <<catalogo, fallo, devuelto, calculo>>

\* Voiding it gave the loans back and left none of its payments.
RevierteOtraVez(n) ==
  /\ acum' = SinRecibo(acum, recibos[n])
  /\ devuelto' = Devuelve(devuelto, recibos[n])
  /\ UNCHANGED saldos

Retira(n) ==
  \/ recibos[n].estado = "vigente" /\ Revierte(n) /\ UNCHANGED devuelto
  \/ recibos[n].estado = "anulado" /\ RevierteOtraVez(n)

\* The rows of the first payslip go even when its recalculation fails.
Recalcular(n) ==
  /\ fase = "libre" /\ Len(recibos) < MaxRecibos
  /\ Retira(n)
  /\ recibos' = [recibos EXCEPT ![n].estado = "recalculado"]
  /\ Empieza(recibos[n].jornada, n)
  /\ UNCHANGED <<catalogo, fallo, anuladas>>

Next ==
  \/ \E j \in Jornadas : Ejecutar(j)
  \/ Percepcion \/ TerminaPercepciones
  \/ \E i \in pendientes : Deduccion(i)
  \/ TerminaDeducciones \/ Deuda \/ Contabilizar
  \/ \E n \in DOMAIN recibos : Anular(n) \/ Recalcular(n)

Spec == Init /\ [][Next]_vars

-----------------------------------------------------------------------------
(* Properties                                                                *)

Vigentes == {n \in DOMAIN recibos : recibos[n].estado = "vigente"}
DeVigentes(Vale(_)) == MapThenSumSet(LAMBDA n : Vale(recibos[n]), Vigentes)

\* What is left in a calculation is the net, however deductions, taxes and
\* loans compete for it, and is never below zero but by a loan in another
\* currency, by half a unit of each currency at most, the two roundings of its
\* payment; no payslip pays less than nothing (_process_employee,
\* _payment_amount).
NetoNoNegativo ==
  /\ \A n \in DOMAIN recibos : recibos[n].neto >= 0
  /\ fase = "deudas" => ReciboCalculado.neto = saldo
  /\ saldo < 0 =>
       \E d \in Deudas :
         /\ catalogo.deudas[d].extranjera /\ abonos[d] > 0
         /\ 2 * (0 - saldo) * jornada.cambio[2] <= jornada.cambio[1] + jornada.cambio[2]

\* When there was not enough for a deduction, whether it took what there was,
\* left no row or stopped the rest, no deduction with a higher number took
\* anything; and loans took something only if it stopped the rest and so left
\* them what there was (DeductionCalculator.calculate, process_loans).
PrioridadRespetada ==
  \A n \in DOMAIN recibos : \A i \in recibos[n].faltas, j \in DOMAIN recibos[n].items :
    LET c == catalogo.deducciones[i]
        f == recibos[n].items[j]
    IN  f.monto > 0 => IF f.deuda = 0 THEN f.prioridad <= c.prioridad ELSE c.detener

\* The payslips that stand never add up to more of a concept than its annual
\* limit, through voidings and recalculations (apply_annual_limits).
TechoRespetado ==
  \A c \in {catalogo.percepciones[i] : i \in DOMAIN catalogo.percepciones}
           \cup {catalogo.deducciones[i] : i \in DOMAIN catalogo.deducciones} :
    c.techo # Sin => DeVigentes(LAMBDA r : r.montos[c.codigo]) <= c.techo

\* A payslip whose rollback takes from the taxable base what it had added:
\* none of its perceptions was exempt or capped, and no half cent was lost.
Exacto(r) == Revertible(r) = r.gravable

\* A total that lacks at most what was taken back twice.
Entre(total, de, doble) == total <= de /\ total >= de - doble

\* The totals that the tax is worked out from never exceed those of the payslips
\* that stand, and lack at most what recalculating voided payrolls took back a
\* second time: where none was they are exactly those, so that no amount is
\* taken back from a total that did not have it or is cut off at zero
\* (update_accumulations, _rollback_accumulations_for_nomina).
AcumuladoCuadra ==
  /\ Entre(acum.bruto, DeVigentes(LAMBDA r : r.bruto), devuelto.bruto)
  /\ Entre(acum.antes, DeVigentes(LAMBDA r : r.retenido.antes), devuelto.antes)
  /\ Entre(acum.impuesto, DeVigentes(LAMBDA r : r.retenido.impuesto), devuelto.impuesto)
  /\ Entre(acum.procesados, Cardinality(Vigentes), devuelto.procesados)
  /\ (\A n \in DOMAIN recibos \ Vigentes : Exacto(recibos[n])) =>
       Entre(acum.gravable, DeVigentes(LAMBDA r : r.gravable), devuelto.gravable)

\* Nothing that a payslip depends on is lost by taking it back.
Reversible(r) ==
  /\ Exacto(r)
  /\ \A i \in DOMAIN catalogo.percepciones : catalogo.percepciones[i].techo = Sin
  /\ \A i \in DOMAIN catalogo.deducciones : catalogo.deducciones[i].techo = Sin

\* The last payslip recalculated, with nothing in between, comes out the same,
\* tax and loans included (recalcular_nomina: "reproduces the exact same
\* payroll numbers").
RecalculoIgual ==
  \A n \in DOMAIN recibos :
    LET r == recibos[n]
        anterior == recibos[r.rehace]
    IN  (/\ r.rehace # 0 /\ r.rehace = n - 1 /\ anterior.anuladas = r.anuladas
         /\ Reversible(anterior))
          => r.neto = anterior.neto /\ r.items = anterior.items

\* A table that the validator accepts, no two brackets of which begin alike,
\* has an answer for every amount of whole cents between its first bound and
\* its last, shared bounds included (validate_table, lookup).
TablaCubre ==
  LET tabla == catalogo.tabla
      hasta == tabla[Len(tabla)].min + 2
  IN  /\ Aceptada(tabla)
      /\ \A i, j \in DOMAIN tabla : tabla[i].min = tabla[j].min => i = j
      => \A v \in {c * Partes : c \in tabla[1].min .. hasta} :
           Alcanza(tabla, v) => Impuesto(tabla, v) # SinTramo

-----------------------------------------------------------------------------
(* What the repository says and the code does not do                         *)

\* model.py:535-541, docs/guia/planillas.md:77: loans have a priority among the
\* deductions, and a lower number is applied first.
PrioridadDePrestamos ==
  \A n \in DOMAIN recibos : \A i, j \in DOMAIN recibos[n].items :
    LET f == recibos[n].items[i]
        g == recibos[n].items[j]
    IN  f.monto < f.calculado /\ f.prioridad < g.prioridad => g.monto = 0

\* loan_processor.py:115-121: the payroll amount of a payment "can be collected
\* safely", calculated before the net pay is mutated.
CuotaSegura == saldo >= 0

\* nomina_service.py:662: accumulations are reverted first "to keep period counts
\* correct on recalculation".
PeriodosCorrectos == acum.procesados = Cardinality(Vigentes)

\* payroll_execution_service.py:101-104: a recalculation reproduces the
\* original; not of a concept with an annual limit, nor after an exempt one.
RecalculoReproduce ==
  \A n \in DOMAIN recibos :
    LET r == recibos[n]
    IN  (r.rehace # 0 /\ r.rehace = n - 1 /\ recibos[r.rehace].anuladas = r.anuladas)
          => r.neto = recibos[r.rehace].neto

\* tax_table_validator.py:167: a gap of one cent is only a matter of rounding;
\* the value looked up is not rounded, and may fall in it.
TablaCubreTodo ==
  LET tabla == catalogo.tabla
  IN  Aceptada(tabla) =>
        \A v \in tabla[1].min * Partes .. (tabla[Len(tabla)].min + 2) * Partes :
          Alcanza(tabla, v) => Impuesto(tabla, v) # SinTramo
=============================================================================
