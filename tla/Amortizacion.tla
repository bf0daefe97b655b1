----------------------------- MODULE Amortizacion -----------------------------
(***************************************************************************)
(* What a loan costs: the interest, the constant instalment and the        *)
(* schedule of interes_engine.py, the schedule the detail page of a loan   *)
(* shows (generar_tabla_pago), the instalment its approval sets and what   *)
(* an extraordinary payment makes of the terms (vistas/prestamo.py).       *)
(*                                                                         *)
(* Amounts are cents, rates whole per cents a year.  The code computes     *)
(* with decimals of 28 digits; the powers of a rate are kept here to the   *)
(* digits that 32-bit integers allow for loans of up to 15.00 at 36 per    *)
(* cent.                                                                   *)
(***************************************************************************)
EXTENDS Prestamo, Sequences

CONSTANT Planes   \* loans to be scheduled, of the type Plan

\* What the form of a loan accepts; "" is a row with no method.
Tipos == {"none", "simple", "compound"}
Metodos == {"french", "german", ""}
\* mes and dia are the month and day the first instalment falls on: the day
\* the loan is approved, or requested while it is not.
Plan == [principal : Nat, tasa : Nat, cuotas : Nat, metodo : Metodos, tipo : Tipos,
         mes : 1 .. 12, dia : 1 .. 31]

\* The days of a month that is not in a leap year.
Largo(mes) == <<31, 28, 31, 30, 31, 30, 31, 31, 30, 31, 30, 31>>[((mes + 11) % 12) + 1]

ASSUME PlanesAssumption ==
  \A p \in Planes : /\ p \in Plan /\ p.dia <= Largo(p.mes)
                   /\ p.principal <= 1500 /\ p.tasa <= 36

-----------------------------------------------------------------------------
(* Interest                                                                  *)

\* The days of the default ConfiguracionCalculos, in a month and in a year.
DiasMes == 30
DiasAnio == 365

\* quantize(0.01, ROUND_HALF_UP), of a quotient.
Redondea(a, b) == (2 * a + b) \div (2 * b)

InteresSimple(saldo, tasa, dias) == Redondea(saldo * tasa * dias, 100 * DiasAnio)

\* saldo * (1 + r) ^ dias - saldo, in the terms of the binomial of order one to
\* three, in thousandths of a cent: the next is too small to be seen.
InteresCompuesto(saldo, tasa, dias) ==
  LET r(x, n, d) == (x * n * tasa) \div (d * 100 * DiasAnio)
      uno  == r(saldo * 1000, dias, 1)
      dos  == r(uno, Menos(dias, 1), 2)
      tres == r(dos, Menos(dias, 2), 3)
  IN  Redondea(uno + dos + tres, 1000)

\* A loan "none" with a rate is charged simple interest.
Interes(plan, saldo, dias) ==
  IF plan.tipo = "compound" THEN InteresCompuesto(saldo, plan.tasa, dias)
  ELSE InteresSimple(saldo, plan.tasa, dias)

-----------------------------------------------------------------------------
(* The schedule                                                              *)

Escala == 500000
SumaDe(f, n) == MapThenSumSet(LAMBDA k : f[k], 1 .. n)

\* calcular_cuota_frances: P r (1 + r)^n / ((1 + r)^n - 1) is P over the sum of
\* the (1 + r)^-k, k = 1 .. n.
CuotaFrances(principal, tasa, cuotas) ==
  IF tasa = 0 THEN Redondea(principal, cuotas)
  ELSE LET valor[k \in Nat] ==
             IF k = 0 THEN Escala
             ELSE (valor[k - 1] * 10 * DiasAnio) \div (10 * DiasAnio + ((tasa * DiasMes) \div 10))
       IN  Redondea(principal * Escala, SumaDe(valor, cuotas))

\* From the instalment of one month to the next: relativedelta moves the day
\* of the first one to the month, or to its last day.
DiasHasta(mes, dia) ==
  LET fin(m) == IF dia < Largo(m) THEN dia ELSE Largo(m)
  IN  Largo(mes - 1) - fin(mes - 1) + fin(mes)

\* Slips: the last instalment is like the others; the balance is that of the
\* start.
UltimaIgual(plan, k, saldo, interes, cuota) ==
  IF plan.metodo = "french" THEN Menos(cuota, interes)
  ELSE Redondea(plan.principal, plan.cuotas)
\* The principal in an instalment: the last pays what is left.
Capital(plan, k, saldo, interes, cuota) ==
  IF k = plan.cuotas THEN saldo
  ELSE IF plan.metodo = "french" THEN Menos(cuota, interes)
  ELSE Redondea(plan.principal, plan.cuotas)

\* _generar_cuotas_amortizacion: rows 1 .. cuotas, after a row 0 with the
\* loan.  vale is FALSE from the row on that raises ValueError: the constant
\* instalment does not cover the interest.
Filas0(plan) ==
  LET cuota == CuotaFrances(plan.principal, plan.tasa, plan.cuotas)
      fila[k \in Nat] ==
        IF k = 0 THEN [interes |-> 0, capital |-> 0, saldo |-> plan.principal, vale |-> TRUE]
        ELSE LET antes == fila[k - 1]
                 interes == Interes(plan, antes.saldo, DiasHasta(plan.mes + k - 1, plan.dia))
                 capital == Capital(plan, k, antes.saldo, interes, cuota)
             IN  [interes |-> interes, capital |-> capital,
                  saldo |-> Menos(antes.saldo, capital),
                  vale |-> antes.vale /\ (plan.metodo = "french" /\ k < plan.cuotas =>
                                            cuota > interes)]
  IN  [k \in 0 .. plan.cuotas |-> fila[k]]

\* generar_tabla_pago and generar_tabla_amortizacion: nothing without a
\* principal, instalments or a method.
TablaDePago(plan) ==
  IF plan.principal = 0 \/ plan.cuotas = 0 \/ plan.metodo = "" THEN <<>>
  ELSE LET filas == Filas0(plan) IN [k \in 1 .. plan.cuotas |-> filas[k]]

Levanta(tabla) == \E k \in DOMAIN tabla : ~tabla[k].vale

-----------------------------------------------------------------------------
(* The terms of an approved loan                                             *)

\* _calculate_installment_amount looks for "frances", which no form stores: a
\* loan "french" is divided like a German one, and only one without a method
\* has the constant instalment.
CuotaAprobada(plan) ==
  IF plan.cuotas = 0 THEN plan.principal
  ELSE IF plan.metodo = "" THEN CuotaFrances(plan.principal, plan.tasa, plan.cuotas)
  ELSE Redondea(plan.principal, plan.cuotas)

Terminos(plan) ==
  [saldo |-> plan.principal, cuota |-> CuotaAprobada(plan), cuotas |-> plan.cuotas,
   abonado |-> 0]

\* A slip: one instalment too many goes.
CuotasDeMas(t, monto, pagadas) ==
  LET quedan == Menos(t.cuotas, (monto \div t.cuota) + 1)
  IN  IF quedan > pagadas THEN quedan ELSE pagadas
\* "reducir_cuotas": the whole instalments of the payment go.
CuotasQuedan(t, monto, pagadas) ==
  LET quedan == Menos(t.cuotas, monto \div t.cuota)
  IN  IF quedan > pagadas THEN quedan ELSE pagadas

\* _apply_extraordinary_payment and _adjust_payment_terms: the instalments
\* paid are what was ever paid over the instalment of today.
Ajusta(t, tipo, monto) ==
  LET saldo == t.saldo - monto
      pagadas == IF t.cuota = 0 THEN 0 ELSE (t.abonado + monto) \div t.cuota
      pendientes == Menos(t.cuotas, pagadas)
  IN  [saldo |-> IF saldo <= 1 THEN 0 ELSE saldo, abonado |-> t.abonado + monto,
       cuotas |-> IF tipo = "reducir_cuotas" /\ t.cuota > 0
                  THEN CuotasQuedan(t, monto, pagadas) ELSE t.cuotas,
       cuota |-> IF tipo = "reducir_monto" /\ pendientes > 0
                 THEN Redondea(saldo, pendientes) ELSE t.cuota]

-----------------------------------------------------------------------------
(* Properties, of the plans: stated of the initial states                    *)

TotalDe(tabla, campo) == MapThenSumSet(LAMBDA k : tabla[k][campo], DOMAIN tabla)

\* The rounded part of the German method repays the loan before its last row.
Temprano(plan) == 2 * plan.principal < plan.cuotas * (plan.cuotas - 1)

\* The rows repay the principal, leave nothing owed and never go up; and the
\* German method, which repays sooner, costs no more, but for a cent a row.
TablaCuadra(plan) ==
  LET tabla == TablaDePago(plan)
      aleman == TablaDePago([plan EXCEPT !.metodo = "german"])
  IN  <<>> \notin {tabla, aleman} /\ ~Levanta(tabla) /\ ~Temprano(plan) =>
        /\ TotalDe(tabla, "capital") = plan.principal
        /\ tabla[plan.cuotas].saldo = 0
        /\ \A k \in 2 .. plan.cuotas : tabla[k].saldo <= tabla[k - 1].saldo
        /\ TotalDe(aleman, "interes") <= TotalDe(tabla, "interes") + plan.cuotas

\* What is owed after a payment that takes instalments off a loan without
\* interest is collected by those left, but for half a cent each.
ReduccionCubre(plan) ==
  plan.tasa = 0 /\ plan.cuotas > 0 =>
    \A monto \in 1 .. plan.principal :
      LET t == Ajusta(Terminos(plan), "reducir_cuotas", monto)
      IN  2 * t.saldo <= 2 * t.cuotas * t.cuota + plan.cuotas

\* The schedule of a loan repays the loan, whatever the days of the months,
\* the rounding of each row, the method and the kind of interest, and an
\* extraordinary payment that shortens it leaves it collectable.
AmortizacionCuadra ==
  operations = 0 => \A plan \in Planes : TablaCuadra(plan) /\ ReduccionCubre(plan)

-----------------------------------------------------------------------------
(* What the repository says and the code does not do                         *)

\* prestamo.py:444-452 notes "Monto por cuota reducido" for a payment that
\* reduces the instalment: no payment makes it larger.
CuotaNuncaSube ==
  operations = 0 =>
    \A plan \in Planes : plan.tasa = 0 /\ plan.cuotas > 0 =>
      \A a, b \in {plan.principal \div 2, plan.principal \div 4} :
        \A tipo \in {"reducir_cuotas", "reducir_monto"} :
          LET t == Ajusta(Terminos(plan), tipo, a)
          IN  b <= t.saldo => Ajusta(t, "reducir_monto", b).cuota <= t.cuota

\* forms.py:1434-1443: a French loan is collected in constant instalments, the
\* ones of its schedule.
CuotaDeLaTabla ==
  operations = 0 =>
    \A plan \in Planes :
      plan.metodo = "french" /\ plan.principal > 0 /\ plan.cuotas > 0 =>
        CuotaAprobada(plan) = CuotaFrances(plan.principal, plan.tasa, plan.cuotas)

\* interes_engine.py:361-364: "the payment covers the accrued interest and the
\* loan amortizes to zero".
CuotaCubreInteres ==
  operations = 0 => \A plan \in Planes : ~Levanta(TablaDePago(plan))
=============================================================================
