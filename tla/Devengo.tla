-------------------------------- MODULE Devengo --------------------------------
(***************************************************************************)
(* What a period earns of vacation: the three accrual methods of           *)
(* vacation_service.py, which a VacationPolicy selects, for an employee    *)
(* who may be hired or leave within the period.                            *)
(*                                                                         *)
(* Days are counted from the first of the period, which is day 0.  Amounts *)
(* and rates are hundredths of a unit, the precision of the ledger, until  *)
(* a policy without partial units rounds them to whole ones.               *)
(***************************************************************************)
EXTENDS Integers, FiniteSetsExt

\* One payslip under one policy: dias is the length of the period, alta and
\* baja the days of hire and departure, faltas and horas the days and the
\* hours absent; tramos the annual rates by years of service.
Caso ==
  [metodo : {"periodic", "proportional", "seniority"}, tasa : Nat,
   frecuencia : {"monthly", "biweekly", "annual"}, prorratea : BOOLEAN,
   base : {"days_worked", "hours_worked"}, minimo : Nat,
   tramos : SUBSET [anios : Nat, tasa : Nat], redondeo : {"up", "down", "nearest"},
   dias : Nat \ {0}, alta : Int, baja : Int, faltas : Nat, horas : Nat]

\* The values of the default ConfiguracionCalculos.
DiasMesVacaciones == 30
DiasQuincena == 15
DiasAnioVacaciones == 365
HorasJornada == 8

\* _quantize_amount, of a quotient
Centesimas(a, b) == (2 * a + b) \div (2 * b)

Fin(c) == c.dias - 1
Desde(c) == Max({c.alta, 0})
Hasta(c) == Min({c.baja, Fin(c)})
Trabajados(c) == Max({Hasta(c) - Desde(c) + 1, 0})

\* _expected_period_days
DiasCiclo(c) ==
  CASE c.frecuencia = "biweekly" -> DiasQuincena
    [] c.frecuencia = "annual"   -> DiasAnioVacaciones
    [] OTHER                     -> DiasMesVacaciones

\* A whole period earns the rate when the policy does not prorate; the days
\* beyond those of the cycle earn nothing.
Periodica(c) ==
  IF Trabajados(c) = 0 THEN 0
  ELSE IF ~c.prorratea /\ Trabajados(c) = c.dias THEN c.tasa
  ELSE Centesimas(c.tasa * Min({Trabajados(c), DiasCiclo(c)}), DiasCiclo(c))

\* The rate is of a day or of an hour worked, less the absences; an absence
\* of hours lessens only what is earned by the hour.
Proporcional(c) ==
  LET dias == Max({Trabajados(c) - c.faltas, 0})
      horas == Max({dias * HorasJornada - c.horas, 0})
  IN  IF c.base = "hours_worked" THEN c.tasa * horas ELSE c.tasa * dias

\* The years of service, of 365.25 days, at the end of the period.
Cumplidos(c, anios) == (Fin(c) - c.alta) * 100 >= anios * 36525
TasaAnual(c) ==
  LET alcanzados == {t \in c.tramos : Cumplidos(c, t.anios)}
  IN  IF alcanzados = {} THEN 0
      ELSE (CHOOSE t \in alcanzados : \A u \in alcanzados : u.anios <= t.anios).tasa

\* A slip: a twelfth of the year, whatever the period.
PorMes(c) == Centesimas(TasaAnual(c), 12)
\* Of the annual rate, the days of the period.
PorAntiguedad(c) == Centesimas(TasaAnual(c) * c.dias, DiasAnioVacaciones)

\* _calcular_acumulacion, for who has served the minimum.
Cantidad(c) ==
  IF Fin(c) - c.alta < c.minimo THEN 0 ELSE
  CASE c.metodo = "periodic"     -> Periodica(c)
    [] c.metodo = "proportional" -> Proporcional(c)
    [] c.metodo = "seniority"    -> PorAntiguedad(c)

\* Without partial units.
Unidad(cantidad, redondeo) ==
  CASE redondeo = "up"      -> (cantidad + 99) \div 100
    [] redondeo = "down"    -> cantidad \div 100
    [] redondeo = "nearest" -> (cantidad + 50) \div 100

Devengado(c) == Unidad(Cantidad(c), c.redondeo)
================================================================================
