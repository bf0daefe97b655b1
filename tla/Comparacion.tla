----------------------------- MODULE Comparacion ------------------------------
(***************************************************************************)
(* The comparison of two payrolls of a planilla, as operators on the two.  *)
(*                                                                         *)
(* A payroll gives the payslip of each employee in it: here, any payslips  *)
(* the engine made (Motor), each taken for one of an employee.  The totals *)
(* of a payroll are the sums of its payslips.  A percentage is a fraction  *)
(* <<part, whole>>; the whole of one that is not defined is 0.             *)
(***************************************************************************)
EXTENDS Motor, SequencesExt

CONSTANTS
  DeltaAbs,   \* OUTLIER_DELTA_ABS
  DeltaPct,   \* OUTLIER_DELTA_PCT
  Area        \* the department of each employee; likewise the contract

ASSUME OutlierAssumption == DeltaAbs \in Nat \ {0} /\ DeltaPct \in Nat \ {0}

Magnitud(x) == IF x < 0 THEN - x ELSE x

\* The values of F over S, the largest first.
Descendente(F(_), S) ==
  LET es == SetToSeq(S) IN SortSeq([i \in DOMAIN es |-> F(es[i])], LAMBDA x, y : x > y)

PrimerosDe(s, m) == SubSeq(s, 1, IF Len(s) < m THEN Len(s) ELSE m)
Total(s) == MapThenSumSet(LAMBDA i : s[i], DOMAIN s)

Todos(nomina) == DOMAIN nomina
Comunes(base, actual) == Todos(base) \cap Todos(actual)

-----------------------------------------------------------------------------
(* What changed for each employee                                            *)

\* A slip: from nothing to something is no change.
PctDeltaNula(actual, previo) ==
  IF previo = 0 THEN <<0, 1>> ELSE <<actual - previo, Magnitud(previo)>>

PctDelta(actual, previo) ==
  IF previo = 0 THEN <<0, IF actual = 0 THEN 1 ELSE 0>>
  ELSE <<actual - previo, Magnitud(previo)>>

Variacion(base, actual, e) == actual[e].neto - base[e].neto
VariacionPct(base, actual, e) == PctDelta(actual[e].neto, base[e].neto)

SinCambios(base, actual) ==
  {e \in Comunes(base, actual) : actual[e].bruto = base[e].bruto
                                   /\ Variacion(base, actual, e) = 0}

SaldoNetoCero(actual) == {e \in Todos(actual) : actual[e].neto = 0}
SaldoNetoNegativo(actual) == {e \in Todos(actual) : actual[e].neto < 0}

\* outliers_neto: a change of the net that is large, or a large share of it; a
\* change from nothing is no share, and counts by its size.
Atipicos(base, actual) ==
  {e \in Comunes(base, actual) :
     LET p == VariacionPct(base, actual, e)
     IN \/ Magnitud(Variacion(base, actual, e)) >= DeltaAbs
        \/ p[2] # 0 /\ 100 * Magnitud(p[1]) >= DeltaPct * p[2]}

Severos(base, actual) ==
  {e \in Atipicos(base, actual) : Magnitud(Variacion(base, actual, e)) >= 2 * DeltaAbs}

-----------------------------------------------------------------------------
(* The concepts                                                              *)

\* The rows of a payslip, by the code of the concept.
Conceptos(recibo) ==
  [c \in {recibo.items[i].codigo : i \in DOMAIN recibo.items} |->
     MapThenSumSet(LAMBDA i : recibo.items[i].monto,
       {i \in DOMAIN recibo.items : recibo.items[i].codigo = c})]

Afectados(nomina, c) == {e \in Todos(nomina) : c \in DOMAIN Conceptos(nomina[e])}
MontoConcepto(nomina, c) ==
  MapThenSumSet(LAMBDA e : Conceptos(nomina[e])[c], Afectados(nomina, c))

ConceptosDe(nomina) == UNION {DOMAIN Conceptos(nomina[e]) : e \in Todos(nomina)}

\* _comparar_conceptos
CompararConceptos(base, actual) ==
  [c \in ConceptosDe(base) \cup ConceptosDe(actual) |->
     [variacion |-> MontoConcepto(actual, c) - MontoConcepto(base, c),
      nuevo |-> Afectados(base, c) = {} /\ Afectados(actual, c) # {},
      eliminado |-> Afectados(base, c) # {} /\ Afectados(actual, c) = {}]]

\* _build_employee_drivers, of an employee: the concepts that changed.
Causas(base, actual, e) ==
  LET De(nomina, c) == IF e \in Afectados(nomina, c) THEN Conceptos(nomina[e])[c] ELSE 0
  IN {c \in ConceptosDe(base) \cup ConceptosDe(actual) : De(actual, c) # De(base, c)}

-----------------------------------------------------------------------------
(* The whole of the payroll                                                  *)

TotalDe(nomina, campo) == MapThenSumSet(LAMBDA e : nomina[e][campo], Todos(nomina))

\* _resumen_totales
VariacionTotal(base, actual, campo) == TotalDe(actual, campo) - TotalDe(base, campo)

\* _percentile, of values in ascending order; of none, 0.
Percentil(d, p) == IF d = <<>> THEN 0 ELSE d[((Len(d) - 1) * p) \div 100 + 1]

\* Twice the median: the two in the middle, or the one there is.
DobleMediana(d) ==
  LET m == Len(d) \div 2
  IN IF d = <<>> THEN 0 ELSE IF Len(d) % 2 = 0 THEN d[m] + d[m + 1] ELSE 2 * d[m + 1]

Netos(nomina) == Reverse(Descendente(LAMBDA e : nomina[e].neto, Todos(nomina)))
Dispersion(nomina) == Percentil(Netos(nomina), 95) - Percentil(Netos(nomina), 5)

Rangos == {"<=-10%", "-10% a 0%", "0%", "0% a 10%", ">10%"}

\* _build_bucket_variacion_neto: of a change that is no share of the net, by
\* its sign.
Rango(base, actual, e) ==
  LET p == VariacionPct(base, actual, e)
      d == Variacion(base, actual, e)
  IN CASE p[2] = 0 -> IF d > 0 THEN ">10%" ELSE IF d < 0 THEN "<=-10%" ELSE "0%"
       [] p[2] # 0 /\ 10 * p[1] <= - p[2] -> "<=-10%"
       [] p[2] # 0 /\ 10 * p[1] > - p[2] /\ p[1] < 0 -> "-10% a 0%"
       [] p[2] # 0 /\ p[1] = 0 -> "0%"
       [] p[2] # 0 /\ p[1] > 0 /\ 10 * p[1] <= p[2] -> "0% a 10%"
       [] OTHER -> ">10%"

EnRango(base, actual, r) == {e \in Comunes(base, actual) : Rango(base, actual, e) = r}

\* _build_segmentacion
Segmentacion(base, actual) ==
  [s \in {Area[e] : e \in Comunes(base, actual)} |->
     MapThenSumSet(LAMBDA e : Variacion(base, actual, e),
       {e \in Comunes(base, actual) : Area[e] = s})]

\* _build_impacto_empleados
ConVariacion(base, actual) ==
  {e \in Comunes(base, actual) : Variacion(base, actual, e) # 0}

\* _safe_pct of the m largest
Concentracion(valores, m) ==
  IF Total(valores) = 0 THEN <<0, 1>> ELSE <<Total(PrimerosDe(valores, m)), Total(valores)>>

ConcentracionEmpleados(base, actual, m) ==
  Concentracion(Descendente(LAMBDA e : Magnitud(Variacion(base, actual, e)),
                            Comunes(base, actual)), m)
ConcentracionConceptos(base, actual, m) ==
  LET cs == CompararConceptos(base, actual)
  IN Concentracion(Descendente(LAMBDA c : Magnitud(cs[c].variacion), DOMAIN cs), m)

\* _build_cambios_estructurales: the exchange rates here, the catalogue being
\* that of one planilla.
CambiosEstructurales(base, actual) ==
  {base[e].jornada.tasa : e \in Todos(base)} # {actual[e].jornada.tasa : e \in Todos(actual)}

AlMenosUno(n) == IF n = 0 THEN 1 ELSE n
Centesimas(f) == (10000 * f[1]) \div f[2]

\* _build_indice_estabilidad, in hundredths: who was affected weighs 35, how
\* badly 25, how concentrated 25, and the changes of configuration 15.
Riesgo(base, actual) ==
  (  35 * Centesimas(<<Cardinality(ConVariacion(base, actual)),
                       AlMenosUno(Cardinality(Comunes(base, actual)))>>)
   + 25 * Centesimas(<<Cardinality(Severos(base, actual)),
                       AlMenosUno(Cardinality(Atipicos(base, actual)))>>)
   + 25 * Centesimas(ConcentracionEmpleados(base, actual, 10))
   + 15 * (IF CambiosEstructurales(base, actual) THEN 10000 ELSE 0)) \div 100

Puntaje(base, actual) ==
  IF Riesgo(base, actual) > 10000 THEN 0 ELSE 10000 - Riesgo(base, actual)

Nivel(puntaje) ==
  IF puntaje >= 7500 THEN "alto" ELSE IF puntaje >= 5000 THEN "medio" ELSE "bajo"

-----------------------------------------------------------------------------
(* What the parts of a comparison owe each other                             *)

Cuadra(base, actual) ==
  LET En(rs) == UNION {EnRango(base, actual, r) : r \in rs}
      comunes == Comunes(base, actual)
      segmentos == Segmentacion(base, actual)
      NetoDe(nomina, es) == MapThenSumSet(LAMBDA e : nomina[e].neto, es)
  IN
  /\ En({"0% a 10%", ">10%"}) = {e \in comunes : Variacion(base, actual, e) > 0}
  /\ En({"-10% a 0%", "<=-10%"}) = {e \in comunes : Variacion(base, actual, e) < 0}
  /\ SinCambios(base, actual) \subseteq En({"0%"}) \ Atipicos(base, actual)
  /\ DeltaPct <= 10 => {e \in En({">10%", "<=-10%"}) : base[e].neto # 0}
                         \subseteq Atipicos(base, actual)
  /\ VariacionTotal(base, actual, "neto") =
       MapThenSumSet(LAMBDA s : segmentos[s], DOMAIN segmentos)
       + NetoDe(actual, Todos(actual) \ comunes) - NetoDe(base, Todos(base) \ comunes)
  /\ Puntaje(base, actual) \in 0 .. 10000
  /\ Puntaje(base, actual) = 10000 =>
       /\ Atipicos(base, actual) = {} /\ ~CambiosEstructurales(base, actual)
       /\ \A e \in comunes : Variacion(base, actual, e) = 0
  /\ comunes # {} /\ Cardinality(comunes) <= 10 /\ comunes = Severos(base, actual) =>
       Nivel(Puntaje(base, actual)) = "bajo"
  /\ \A m \in {5, 10} : LET f == ConcentracionConceptos(base, actual, m) IN f[1] \in 0 .. f[2]
  /\ Percentil(Netos(actual), 25) * 2 <= DobleMediana(Netos(actual))
  /\ Dispersion(actual) >= 0
  /\ SaldoNetoCero(actual) \cap SaldoNetoNegativo(actual) = {}
  /\ \A c \in DOMAIN CompararConceptos(base, actual) :
       LET x == CompararConceptos(base, actual)[c]
       IN /\ ~(x.nuevo /\ x.eliminado)
          /\ x.variacion # 0 => \E e \in Todos(base) \cup Todos(actual) : c \in Causas(base, actual, e)

\* Two employees, paid the first two payslips; and both, or one of them and one
\* more, paid the last payslip and any other.
Comparables ==
  {<<<<recibos[1], recibos[2]>>, e :> Last(recibos) @@ 2 :> recibos[j]>> :
     e \in {1, 3}, j \in DOMAIN recibos}

\* nomina_comparison_service: everybody paid by both payrolls is in one range,
\* on the side their net moved to; who moved is atypical, or within the limits;
\* the segments, the new and the gone make up the change of the whole; and the
\* index is whole only if nobody's net and nothing of the configuration
\* changed, and low if everybody moved far.
ComparacionCuadra ==
  fase = "libre" /\ Len(recibos) >= 2 => \A p \in Comparables : Cuadra(p[1], p[2])
=============================================================================
