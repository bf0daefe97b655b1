----------------------------- MODULE CalculoProofs -----------------------------
(***************************************************************************)
(* What the engine guarantees of every payslip, for any catalogue, any     *)
(* tax table and any periods, and however many payslips are made; and that *)
(* the rows of a fiscal year and the balance of a benefit are the sums of  *)
(* what the payrolls left there, for any number of payrolls, loads and     *)
(* requests at once.                                                       *)
(*                                                                         *)
(* The first part is about Motor, by the invariants of its sections; the   *)
(* second about Acumulados, by the invariant Todo.  The lemmas on sums in  *)
(* between serve both.                                                     *)
(***************************************************************************)
EXTENDS Motor, Acumulados, FiniteSetTheorems, WellFoundedInduction, TLAPS

-----------------------------------------------------------------------------
(* Amounts                                                                   *)

LEMMA DivisionType ==
  ASSUME NEW n \in Int, NEW d \in Nat \ {0}
  PROVE  /\ n \div d \in Int
         /\ n >= 0 => n \div d \in Nat
  OBVIOUS

LEMMA RedondeaType ==
  ASSUME NEW n \in Int, NEW d \in Nat \ {0}
  PROVE  /\ Redondea(n, d) \in Int
         /\ n >= 0 => Redondea(n, d) \in Nat
<1>1. 2 * n + d \in Int /\ 2 * d \in Nat \ {0} /\ (n >= 0 => 2 * n + d >= 0)
  OBVIOUS
<1> DEFINE m == 2 * n + d
           e == 2 * d
<1>2. Redondea(n, d) = m \div e
  BY DEF Redondea
<1> HIDE DEF m, e
<1> QED BY <1>1, <1>2, DivisionType DEF m, e

LEMMA ProductoType ==
  ASSUME NEW a \in Nat, NEW b \in Nat
  PROVE  /\ a * b \in Nat
         /\ a # 0 /\ b # 0 => a * b # 0
  OBVIOUS

LEMMA ParteType ==
  ASSUME NEW completo, NEW dias \in Nat
  PROVE  /\ Parte(completo, dias)[1] \in Nat
         /\ Parte(completo, dias)[2] \in Nat \ {0}
BY ConfiguracionAssumption DEF Parte

LEMMA JornadaType ==
  ASSUME NEW j \in Jornadas
  PROVE  /\ j.dias \in Nat \ {0} /\ j.alta \in Int /\ j.baja \in Int /\ j.horas \in Nat
         /\ j.tasa[1] \in Nat /\ j.tasa[2] \in Nat \ {0}
         /\ j.cambio[1] \in Nat /\ j.cambio[2] \in Nat \ {0}
         /\ \A c \in DOMAIN j.novedades : j.novedades[c] \in Nat
BY JornadasAssumption DEF EsJornada

LEMMA CatalogoFields ==
  ASSUME catalogo \in Catalogos
  PROVE  /\ catalogo.salario \in Nat
         /\ catalogo.percepciones \in Seq(ConceptoType)
         /\ catalogo.deducciones \in Seq(ConceptoType)
         /\ catalogo.tabla \in Seq(TramoType)
         /\ catalogo.deudas \in Seq([monto : Nat, cuota : Nat, prioridad : Int, antes : BOOLEAN,
                                     extranjera : BOOLEAN])
BY CatalogosAssumption DEF CatalogoType

LEMMA DeudaFields ==
  ASSUME catalogo \in Catalogos, NEW d \in Deudas
  PROVE  /\ d \in Nat \ {0} /\ catalogo.deudas[d].monto \in Nat /\ catalogo.deudas[d].cuota \in Nat
         /\ catalogo.deudas[d].prioridad \in Int /\ catalogo.deudas[d].antes \in BOOLEAN
         /\ catalogo.deudas[d].extranjera \in BOOLEAN
<1> DEFINE T == [monto : Nat, cuota : Nat, prioridad : Int, antes : BOOLEAN, extranjera : BOOLEAN]
           s == catalogo.deudas
<1>1. s \in Seq(T) /\ d \in DOMAIN s
  BY CatalogoFields DEF Deudas
<1>2. d \in Nat \ {0} /\ s[d] \in T
  <2> HIDE DEF T, s
  <2> QED BY <1>1
<1> HIDE DEF s
<1>3. /\ s[d].monto \in Nat /\ s[d].cuota \in Nat /\ s[d].prioridad \in Int
      /\ s[d].antes \in BOOLEAN /\ s[d].extranjera \in BOOLEAN
  BY <1>2
<1> QED BY <1>2, <1>3 DEF s

LEMMA TrabajadosType ==
  ASSUME NEW j \in Jornadas, Apto(j)
  PROVE  Trabajados(j) \in Nat
BY JornadaType DEF Apto, Trabajados, Menor, Mayor, Sin

\* The salary of a period, what the absence takes off, and what is left.
LEMMA SalarioType ==
  ASSUME catalogo \in Catalogos, NEW j \in Jornadas, Apto(j)
  PROVE  /\ Mensual(j) \in Nat /\ Sueldo(j) \in Nat /\ Descuento(j) \in Nat
         /\ NetoInasistencia(j) \in Nat
<1> DEFINE parte == Parte(j.completo, j.dias)
           pagado == catalogo.salario * j.tasa[1]
           queda == Mayor(0, Devengado(j) - Perdido(j))
<1>1. /\ j.dias \in Nat \ {0} /\ j.horas \in Nat /\ j.tasa[1] \in Nat /\ j.tasa[2] \in Nat \ {0}
      /\ DiasMes \in Nat \ {0} /\ HorasDia \in Nat \ {0} /\ Trabajados(j) \in Nat
      /\ parte[1] \in Nat /\ parte[2] \in Nat \ {0}
  <2>1. j.dias \in Nat \ {0} /\ j.horas \in Nat /\ j.tasa[1] \in Nat /\ j.tasa[2] \in Nat \ {0}
    BY JornadaType
  <2>2. parte[1] \in Nat /\ parte[2] \in Nat \ {0}
    BY <2>1, ParteType
  <2> QED BY <2>1, <2>2, TrabajadosType, ConfiguracionAssumption
<1>2. pagado \in Nat
  BY <1>1, CatalogoFields
<1>3. Divisor(j) \in Nat \ {0}
  <2>1. parte[2] * j.dias \in Nat \ {0}
    BY <1>1
  <2>2. parte[2] * j.dias * DiasMes \in Nat \ {0}
    BY <1>1, <2>1
  <2>3. parte[2] * j.dias * DiasMes * HorasDia \in Nat \ {0}
    BY <1>1, <2>2
  <2> HIDE DEF parte
  <2>4. parte[2] * j.dias * DiasMes * HorasDia * j.tasa[2] \in Nat \ {0}
    BY <1>1, <2>3
  <2> QED BY <2>4 DEF Divisor, parte
<1>4. Devengado(j) \in Nat
  <2>1. pagado * parte[1] \in Nat
    BY <1>1, <1>2
  <2>2. pagado * parte[1] * Trabajados(j) \in Nat
    BY <1>1, <2>1
  <2>3. pagado * parte[1] * Trabajados(j) * DiasMes \in Nat
    BY <1>1, <2>2
  <2>4. pagado * parte[1] * Trabajados(j) * DiasMes * HorasDia \in Nat
    BY <1>1, <2>3
  <2> QED BY <2>4 DEF Devengado
<1>5. Perdido(j) \in Nat
  <2>1. pagado * j.horas \in Nat
    BY <1>1, <1>2
  <2>2. pagado * j.horas * parte[2] \in Nat
    BY <1>1, <2>1
  <2>3. pagado * j.horas * parte[2] * j.dias \in Nat
    BY <1>1, <2>2
  <2> QED BY <2>3 DEF Perdido
<1>6. queda \in Nat
  BY <1>4, <1>5 DEF Mayor
<1>7. Mensual(j) \in Nat
  <2> DEFINE cambio == j.tasa[2]
  <2>1. cambio \in Nat \ {0} /\ pagado \in Int /\ pagado >= 0
    BY <1>1, <1>2
  <2>2. Mensual(j) = Redondea(pagado, cambio)
    BY DEF Mensual
  <2> HIDE DEF pagado, cambio
  <2> QED BY <2>1, <2>2, RedondeaType
<1>8. Sueldo(j) \in Nat /\ Descuento(j) \in Nat
  BY <1>3, <1>4, <1>5, RedondeaType DEF Sueldo, Descuento
<1>9. NetoInasistencia(j) \in Nat
  <2> HIDE DEF queda
  <2>1. Redondea(queda, Divisor(j)) \in Nat
    BY <1>3, <1>6, RedondeaType
  <2> QED BY <2>1 DEF NetoInasistencia, queda
<1> QED BY <1>7, <1>8, <1>9

-----------------------------------------------------------------------------
(* The amount of a concept                                                   *)

\* What an operator on the amounts needs of the state.
Calculando ==
  /\ catalogo \in Catalogos /\ jornada \in Jornadas /\ Apto(jornada)
  /\ acum \in AcumType /\ retenido \in RetenidoType
  /\ bruto \in Nat /\ gravable \in Nat

LEMMA TributoType ==
  ASSUME NEW b \in TramoType, NEW v \in Int
  PROVE  Tributo(b, v) \in Int
<1>1. /\ b.fijo \in Int /\ b.sobre \in Int /\ b.tasa \in Int /\ Partes \in Nat \ {0}
  BY PartesAssumption DEF TramoType
<1> DEFINE exceso == Mayor(v - b.sobre * Partes, 0)
           suma == b.fijo * 100 * Partes + exceso * b.tasa
           entre == 100 * Partes
<1>2. exceso \in Int
  BY <1>1 DEF Mayor
<1>3. suma \in Int /\ entre \in Nat \ {0}
  <2> HIDE DEF exceso
  <2> QED BY <1>1, <1>2
<1>4. Tributo(b, v) = Redondea(suma, entre)
  BY DEF Tributo
<1> HIDE DEF suma, entre
<1> QED BY <1>3, <1>4, RedondeaType

LEMMA ImpuestoType ==
  ASSUME NEW tabla \in Seq(TramoType), NEW v \in Int
  PROVE  Impuesto(tabla, v) \in Int
<1>1. Aplicables(tabla, v) \subseteq DOMAIN tabla
  BY DEF Aplicables, Coinciden
<1>2. CASE \E i \in Aplicables(tabla, v) : Aplicables(tabla, v) = {i}
  <2> DEFINE uno == CHOOSE i \in Aplicables(tabla, v) : TRUE
  <2>1. uno \in DOMAIN tabla
    BY <1>1, <1>2
  <2>2. tabla[uno] \in TramoType
    <3> HIDE DEF uno
    <3> QED BY <2>1
  <2>3. Impuesto(tabla, v) = Tributo(tabla[uno], v)
    BY <1>2 DEF Impuesto
  <2> HIDE DEF uno
  <2> QED BY <2>2, <2>3, TributoType
<1>3. CASE ~ \E i \in Aplicables(tabla, v) : Aplicables(tabla, v) = {i}
  BY <1>3 DEF Impuesto, SinTramo
<1> QED BY <1>2, <1>3

LEMMA ReglaType ==
  ASSUME Calculando
  PROVE  ReglaImpuesto \in Int
<1> DEFINE n == NumeroPeriodo
           renta == NetoAcumulado + gravable - retenido.reduce
           proyectada == (renta * Periodos * Partes) \div n
           anual == Impuesto(catalogo.tabla, proyectada)
<1>1. /\ n \in Nat \ {0} /\ renta \in Int /\ acum.impuesto \in Nat
      /\ Periodos \in Nat \ {0} /\ Partes \in Nat \ {0}
  BY ConfiguracionAssumption, PartesAssumption
     DEF Calculando, AcumType, RetenidoType, NumeroPeriodo, NetoAcumulado
<1>2. proyectada \in Int
  <2>1. renta * Periodos * Partes \in Int
    <3> HIDE DEF renta
    <3> QED BY <1>1
  <2> HIDE DEF n, renta
  <2> QED BY <1>1, <2>1, DivisionType
<1>3. anual \in Int
  <2> HIDE DEF proyectada
  <2> QED BY <1>2, CatalogoFields, ImpuestoType DEF Calculando
<1> HIDE DEF n, anual
<1>4. anual * n \in Int
  BY <1>1, <1>3
<1>5. Redondea(anual * n, Periodos) \in Int
  BY <1>1, <1>4, RedondeaType
<1>6. Mayor(0, Redondea(anual * n, Periodos) - acum.impuesto) \in Int
  BY <1>1, <1>5 DEF Mayor
<1>7. ReglaImpuesto \in {SinTramo, Mayor(0, Redondea(anual * n, Periodos) - acum.impuesto)}
  BY DEF ReglaImpuesto, n, anual
<1> QED BY <1>6, <1>7 DEF SinTramo

LEMMA BaseType ==
  ASSUME Calculando, NEW c \in ConceptoType
  PROVE  Base(c.base) \in Nat
<1>1. Sueldo(jornada) \in Nat /\ Mensual(jornada) \in Nat
  BY SalarioType DEF Calculando
<1>2. c.base \in {"salario_base", "mensual", "salario_gravable", "salario_bruto", "salario_neto"}
  BY DEF ConceptoType
<1> QED BY <1>1, <1>2 DEF Base, Calculando

LEMMA HorasType ==
  ASSUME Calculando, NEW c \in ConceptoType
  PROVE  BaseHoras(c) \in Nat /\ Recargo(c) \in Nat
<1>1. Mensual(jornada) \in Nat
  BY SalarioType DEF Calculando
<1>2. c.monto \in Nat /\ bruto \in Nat
  BY DEF ConceptoType, Calculando
<1>3. BaseHoras(c) \in {Base("salario_bruto"), Base("mensual")}
  BY DEF BaseHoras
<1>4. Base("salario_bruto") \in Nat /\ Base("mensual") \in Nat
  BY <1>1, <1>2 DEF Base
<1> QED BY <1>2, <1>3, <1>4 DEF Recargo

LEMMA PorFormulaType ==
  ASSUME Calculando, NEW c \in ConceptoType
  PROVE  PorFormula(c) \in Int
<1> DEFINE base == Base(c.base)
<1>1. /\ base \in Nat /\ c.monto \in Nat /\ c.asociado \in Int
      /\ DiasMes \in Nat \ {0} /\ HorasDia \in Nat \ {0}
      /\ \A x \in DOMAIN jornada.novedades : jornada.novedades[x] \in Nat
  BY BaseType, JornadaType, ConfiguracionAssumption
     DEF Calculando, ConceptoType, Opcional, Sin
<1>2. c.tipo \in {"fijo", "porcentaje", "horas", "regla"}
  BY DEF ConceptoType
<1> HIDE DEF base
<1>3. CASE c.asociado # Sin
  BY <1>1, <1>3 DEF PorFormula
<1>4. CASE c.asociado = Sin /\ c.tipo = "porcentaje"
  <2>1. base * c.monto \in Int
    BY <1>1
  <2>2. Redondea(base * c.monto, 100) \in Int
    BY <2>1, RedondeaType
  <2> QED BY <1>4, <2>2 DEF PorFormula, base
<1>5. CASE c.asociado = Sin /\ c.tipo = "fijo"
  BY <1>1, <1>5 DEF PorFormula
<1>6. CASE c.asociado = Sin /\ c.tipo = "horas"
  <2>1. CASE c.codigo \in DOMAIN jornada.novedades
    <3> DEFINE horas == jornada.novedades[c.codigo]
               tasa == BaseHoras(c)
               recargo == Recargo(c)
               suma == tasa * horas * recargo
               entre == DiasMes * HorasDia * 100
    <3>1. horas \in Nat
      BY <1>1, <2>1
    <3>2. tasa \in Nat /\ recargo \in Nat
      BY HorasType
    <3>3. suma \in Int
      <4> HIDE DEF horas, tasa, recargo
      <4>1. tasa * horas \in Nat
        BY <3>1, <3>2
      <4> QED BY <3>2, <4>1
    <3>4. entre \in Nat \ {0}
      BY <1>1
    <3>5. PorFormula(c) = Redondea(suma, entre)
      BY <1>6, <2>1 DEF PorFormula
    <3> HIDE DEF suma, entre
    <3> QED BY <3>3, <3>4, <3>5, RedondeaType
  <2>2. CASE c.codigo \notin DOMAIN jornada.novedades
    BY <1>6, <2>2 DEF PorFormula
  <2> QED BY <2>1, <2>2
<1>7. CASE c.asociado = Sin /\ c.tipo = "regla"
  BY <1>7, ReglaType DEF PorFormula
<1> QED BY <1>2, <1>3, <1>4, <1>5, <1>6, <1>7

LEMMA RestanteType ==
  ASSUME NEW limite \in Int, NEW usado \in Int
  PROVE  Restante(limite, usado) \in Nat
BY DEF Restante, Mayor

LEMMA MontoType ==
  ASSUME Calculando, NEW c \in ConceptoType
  PROVE  Monto(c) \in Nat \cup {SinTramo}
<1> DEFINE m == Mayor(0, PorFormula(c))
           resto == Restante(c.techo, acum.conceptos[c.codigo])
<1>1. m \in Nat
  BY PorFormulaType DEF Mayor
<1>2. resto \in Nat
  <2>1. c.techo \in Int /\ acum.conceptos[c.codigo] \in Int
    BY DEF Calculando, ConceptoType, AcumType, Opcional, Sin
  <2> QED BY <2>1, RestanteType
<1>3. ConTecho(c, m) \in {m, Menor(m, resto)}
  BY DEF ConTecho
<1>4. Monto(c) \in {SinTramo, ConTecho(c, m)}
  BY DEF Monto
<1> HIDE DEF m, resto
<1> QED BY <1>1, <1>2, <1>3, <1>4 DEF Menor

LEMMA MontoDeduccionType ==
  ASSUME Calculando, NEW c \in ConceptoType
  PROVE  MontoDeduccion(c) \in Nat \cup {SinTramo}
<1> DEFINE resto == Restante(c.tope, acum.antes)
<1>1. resto \in Nat
  <2>1. c.tope \in Int /\ acum.antes \in Int
    BY DEF Calculando, ConceptoType, AcumType, Opcional, Sin
  <2> QED BY <2>1, RestanteType
<1>2. MontoDeduccion(c) \in {Monto(c), Menor(Monto(c), resto)}
  BY DEF MontoDeduccion
<1>3. Monto(c) = SinTramo => MontoDeduccion(c) = SinTramo
  BY DEF MontoDeduccion
<1> HIDE DEF resto
<1> QED BY <1>1, <1>2, <1>3, MontoType DEF Menor

-----------------------------------------------------------------------------
(* The rows and the totals                                                   *)

LEMMA FilaType ==
  ASSUME NEW c \in ConceptoType, NEW monto \in Nat, NEW aplicado \in Nat
  PROVE  LET f == Fila(c, monto, aplicado)
         IN  /\ f \in Filas(Deudas)
             /\ f.monto = aplicado /\ f.calculado = monto /\ f.prioridad = c.prioridad
             /\ f.exento <= f.monto /\ f.deuda = 0
<1>1. Menor(aplicado, c.exento) \in Nat /\ Menor(aplicado, c.exento) <= aplicado
  BY DEF ConceptoType, Menor
<1> QED BY <1>1 DEF Fila, Filas, ConceptoType

LEMMA ConFilaType ==
  ASSUME NEW r \in RetenidoType, NEW f \in Filas(Deudas), f.exento <= f.monto
  PROVE  /\ ConFila(r, f) \in RetenidoType
         /\ ConFila(r, f).deducido = r.deducido + f.monto
<1>1. f.monto \in Nat /\ f.exento \in Nat /\ f.monto - f.exento \in Nat
  BY DEF Filas
<1> QED BY <1>1 DEF ConFila, RetenidoType

LEMMA RedondeaCota ==
  ASSUME NEW n \in Nat, NEW d \in Nat \ {0}
  PROVE  /\ Redondea(n, d) \in Nat
         /\ 2 * Redondea(n, d) * d <= 2 * n + d
<1> DEFINE m == 2 * n + d
           e == 2 * d
           x == m \div e
<1>1. m \in Nat /\ e \in Nat \ {0}
  OBVIOUS
<1>2. x \in Nat /\ x * e <= m
  <2> HIDE DEF m, e
  <2> QED BY <1>1
<1>3. Redondea(n, d) = x
  BY DEF Redondea
<1>4. 2 * x * d = x * e
  <2> HIDE DEF x
  <2> QED BY <1>2
<1> HIDE DEF x
<1> QED BY <1>2, <1>3, <1>4

\* Converted and back: what exceeds the amount is half a unit of each currency.
LEMMA DobleRedondeo ==
  ASSUME NEW x \in Nat, NEW y \in Nat, NEW p \in Nat, NEW s \in Nat, p <= s,
         NEW num \in Nat \ {0}, NEW den \in Nat \ {0},
         2 * x * num <= 2 * (p * den) + num, 2 * y * den <= 2 * (x * num) + den
  PROVE  2 * (y - s) * den <= num + den
<1>1. 2 * (x * num) = 2 * x * num
  OBVIOUS
<1>2. p * den <= s * den
  OBVIOUS
<1>3. 2 * (y - s) * den = 2 * y * den - 2 * (s * den)
  OBVIOUS
<1> QED BY <1>1, <1>2, <1>3

LEMMA RedondeaUno ==
  ASSUME NEW n \in Nat
  PROVE  Redondea(n, 1) = n /\ Redondea(n * 1, 1) = n
BY DEF Redondea

LEMMA CambioType ==
  ASSUME catalogo \in Catalogos, jornada \in Jornadas, NEW d \in Deudas
  PROVE  /\ Cambio(d)[1] \in Nat /\ Cambio(d)[2] \in Nat \ {0}
         /\ ~catalogo.deudas[d].extranjera => Cambio(d)[1] = 1 /\ Cambio(d)[2] = 1
         /\ catalogo.deudas[d].extranjera => Cambio(d) = jornada.cambio
BY JornadaType, DeudaFields DEF Cambio

LEMMA ConversionType ==
  ASSUME catalogo \in Catalogos, jornada \in Jornadas, NEW d \in Deudas, Cambio(d)[1] # 0,
         NEW monto \in Nat
  PROVE  /\ EnPlanilla(d, monto) \in Nat /\ EnDeuda(d, monto) \in Nat
         /\ 2 * EnPlanilla(d, monto) * Cambio(d)[2] <= 2 * (monto * Cambio(d)[1]) + Cambio(d)[2]
         /\ 2 * EnDeuda(d, monto) * Cambio(d)[1] <= 2 * (monto * Cambio(d)[2]) + Cambio(d)[1]
         /\ ~catalogo.deudas[d].extranjera =>
              EnPlanilla(d, monto) = monto /\ EnDeuda(d, monto) = monto
<1> DEFINE num == Cambio(d)[1]
           den == Cambio(d)[2]
<1>1. num \in Nat \ {0} /\ den \in Nat \ {0}
  BY CambioType
<1>2. EnPlanilla(d, monto) = Redondea(monto * num, den) /\ EnDeuda(d, monto) = Redondea(monto * den, num)
  BY DEF EnPlanilla, EnDeuda
<1>3. ~catalogo.deudas[d].extranjera => num = 1 /\ den = 1
  BY CambioType
<1> HIDE DEF num, den
<1>4. monto * num \in Nat /\ monto * den \in Nat
  BY <1>1
<1>5. /\ Redondea(monto * num, den) \in Nat
      /\ 2 * Redondea(monto * num, den) * den <= 2 * (monto * num) + den
  BY <1>1, <1>4, RedondeaCota
<1>6. /\ Redondea(monto * den, num) \in Nat
      /\ 2 * Redondea(monto * den, num) * num <= 2 * (monto * den) + num
  BY <1>1, <1>4, RedondeaCota
<1>7. ~catalogo.deudas[d].extranjera =>
        Redondea(monto * num, den) = monto /\ Redondea(monto * den, num) = monto
  BY <1>3, RedondeaUno
<1> QED BY <1>2, <1>5, <1>6, <1>7 DEF num, den

\* What a run collects of a debt: no more than is left of it; and no more than
\* is left of the pay but by the rounding of another currency.
LEMMA CuotaType ==
  ASSUME catalogo \in Catalogos, jornada \in Jornadas, saldos \in [Deudas -> Nat], saldo \in Nat,
         NEW d \in Deudas, Cambio(d)[1] # 0
  PROVE  /\ Abono(d) \in Nat /\ Abono(d) <= saldos[d] /\ Cuota(d) \in Nat
         /\ ~catalogo.deudas[d].extranjera => Cuota(d) <= saldo
         /\ 2 * (Cuota(d) - saldo) * Cambio(d)[2] <= Cambio(d)[1] + Cambio(d)[2]
         /\ FilaDeuda(d) \in Filas(Deudas)
         /\ FilaDeuda(d).monto = Cuota(d) /\ FilaDeuda(d).exento = 0 /\ FilaDeuda(d).deuda = d
<1> DEFINE deuda == catalogo.deudas[d]
           num == Cambio(d)[1]
           den == Cambio(d)[2]
           debido == Debido(d)
           pago == Menor(EnPlanilla(d, debido), saldo)
<1>1. /\ d \in Nat \ {0} /\ deuda.cuota \in Nat /\ deuda.prioridad \in Int
      /\ deuda.antes \in BOOLEAN /\ saldos[d] \in Nat
      /\ num \in Nat \ {0} /\ den \in Nat \ {0}
  BY DeudaFields, CambioType
<1>2. debido \in Nat
  BY <1>1 DEF Debido, Menor
<1>3. EnPlanilla(d, debido) \in Nat
  <2> HIDE DEF debido
  <2> QED BY <1>2, ConversionType
<1>4. pago \in Nat /\ pago <= saldo
  BY <1>3 DEF Menor
<1>5. Abono(d) = Menor(saldos[d], EnDeuda(d, pago))
  BY DEF Abono
<1> HIDE DEF pago
<1>6. /\ EnDeuda(d, pago) \in Nat
      /\ 2 * EnDeuda(d, pago) * num <= 2 * (pago * den) + num
      /\ ~deuda.extranjera => EnDeuda(d, pago) = pago
  BY <1>4, ConversionType
<1>7. Abono(d) \in Nat /\ Abono(d) <= saldos[d] /\ Abono(d) <= EnDeuda(d, pago)
  BY <1>1, <1>5, <1>6 DEF Menor
<1>8. /\ Cuota(d) \in Nat
      /\ 2 * Cuota(d) * den <= 2 * (Abono(d) * num) + den
      /\ ~deuda.extranjera => Cuota(d) = Abono(d)
  BY <1>7, ConversionType DEF Cuota
<1>9. ~deuda.extranjera => Cuota(d) <= saldo
  BY <1>4, <1>6, <1>7, <1>8
<1>10. 2 * (Cuota(d) - saldo) * den <= num + den
  <2> DEFINE x == Abono(d)
             z == EnDeuda(d, pago)
             y == Cuota(d)
  <2>1. x \in Nat /\ z \in Nat /\ y \in Nat /\ x <= z /\ pago \in Nat /\ saldo \in Nat /\ pago <= saldo
    BY <1>4, <1>6, <1>7, <1>8
  <2>2. 2 * z * num <= 2 * (pago * den) + num /\ 2 * y * den <= 2 * (x * num) + den
    BY <1>6, <1>8
  <2> HIDE DEF x, z, y, num, den
  <2>3. 2 * x * num <= 2 * z * num
    BY <1>1, <2>1
  <2>4. 2 * x * num <= 2 * (pago * den) + num
    <3>1. pago * den \in Nat /\ 2 * x * num \in Nat /\ 2 * z * num \in Nat
      BY <1>1, <2>1
    <3> QED BY <1>1, <2>2, <2>3, <3>1
  <2>5. 2 * (y - saldo) * den <= num + den
    BY <1>1, <2>1, <2>2, <2>4, DobleRedondeo
  <2> QED BY <2>5 DEF y, num, den
<1>11. FilaDeuda(d) \in Filas(Deudas)
  BY <1>1, <1>3, <1>8 DEF FilaDeuda, Filas
<1>12. FilaDeuda(d).monto = Cuota(d) /\ FilaDeuda(d).exento = 0 /\ FilaDeuda(d).deuda = d
  BY DEF FilaDeuda
<1> QED BY <1>7, <1>8, <1>9, <1>10, <1>11, <1>12

LEMMA AcumFields ==
  ASSUME NEW a \in AcumType
  PROVE  /\ a.bruto \in Nat /\ a.gravable \in Nat /\ a.antes \in Nat /\ a.impuesto \in Nat /\ a.procesados \in Nat
         /\ a.conceptos \in [Codigos -> Nat]
BY DEF AcumType

LEMMA ReciboFields ==
  ASSUME NEW r \in ReciboType
  PROVE  /\ r.jornada \in Jornadas /\ r.sueldo \in Nat /\ r.descuento \in Nat
         /\ r.bruto \in Nat /\ r.gravable \in Nat /\ r.gravados \in Nat
         /\ r.retenido.antes \in Nat /\ r.retenido.impuesto \in Nat
         /\ r.montos \in [Codigos -> Nat] /\ r.abonos \in [Deudas -> Nat]
<1>1. r.retenido \in RetenidoType
  BY DEF ReciboType
<1>2. r.retenido.antes \in Nat /\ r.retenido.impuesto \in Nat
  BY <1>1 DEF RetenidoType
<1> QED BY <1>2 DEF ReciboType

LEMMA ConReciboType ==
  ASSUME NEW a \in AcumType, NEW r \in ReciboType
  PROVE  ConRecibo(a, r) \in AcumType
<1>1. /\ a.bruto + r.bruto \in Nat /\ a.gravable + r.gravable \in Nat /\ a.antes + r.retenido.antes \in Nat
      /\ a.impuesto + r.retenido.impuesto \in Nat /\ a.procesados + 1 \in Nat
      /\ [c \in Codigos |-> a.conceptos[c] + r.montos[c]] \in [Codigos -> Nat]
  BY AcumFields, ReciboFields
<1> QED BY <1>1 DEF ConRecibo, AcumType

LEMMA SinReciboType ==
  ASSUME NEW a \in AcumType, NEW r \in ReciboType
  PROVE  SinRecibo(a, r) \in AcumType
<1>1. /\ Mayor(a.bruto - r.bruto, 0) \in Nat
      /\ Mayor(a.gravable - Revertible(r), 0) \in Nat
      /\ Mayor(a.antes - r.retenido.antes, 0) \in Nat
      /\ Mayor(a.impuesto - r.retenido.impuesto, 0) \in Nat
      /\ Mayor(a.procesados - 1, 0) \in Nat /\ a.conceptos \in [Codigos -> Nat]
  BY AcumFields, ReciboFields DEF Revertible, Mayor
<1> QED BY <1>1 DEF SinRecibo, AcumType

-----------------------------------------------------------------------------
(* The inductive invariant                                                   *)

PersistenteOK ==
  /\ catalogo \in Catalogos
  /\ acum \in AcumType
  /\ saldos \in [Deudas -> Nat]
  /\ recibos \in Seq(ReciboType)
  /\ fallo \in BOOLEAN /\ anuladas \in Nat /\ devuelto \in DevueltoType

CalculoOK ==
  /\ fase \in Fases /\ rehace \in Nat /\ k \in Nat
  /\ fase # "libre" => jornada \in Jornadas
  /\ pendientes \subseteq DOMAIN catalogo.deducciones
  /\ bruto \in Nat /\ gravable \in Nat /\ gravados \in Nat /\ saldo \in Int
  /\ items \in Seq(Filas(Deudas))
  /\ retenido \in RetenidoType
  /\ montos \in [Codigos -> Nat] /\ abonos \in [Deudas -> Nat]
  /\ faltas \subseteq DOMAIN catalogo.deducciones

\* The employee worked in the period, of the calculation and of the payslips.
EnCurso == fase # "libre" => Apto(jornada)
Emitidos == \A n \in DOMAIN recibos : Apto(recibos[n].jornada)

\* Nothing is withheld before the deductions; from then on what is left is
\* the pay without what was withheld.
NadaAun == fase \in {"libre", "percepciones"} => retenido = NadaRetenido
Cuenta == fase \in {"deducciones", "deudas"} => saldo = bruto - retenido.deducido

\* A debt is collected once, and never beyond its balance.
Abonado ==
  \A d \in Deudas : abonos[d] <= saldos[d] /\ (abonos[d] # 0 => fase = "deudas" /\ d < k)

\* Only a loan in another currency takes what is left below zero, by what its
\* two roundings give.
PorRedondeo ==
  \E d \in Deudas :
    /\ catalogo.deudas[d].extranjera /\ abonos[d] > 0
    /\ 2 * (0 - saldo) * jornada.cambio[2] <= jornada.cambio[1] + jornada.cambio[2]

Sobrante == saldo < 0 => fase = "deudas" /\ PorRedondeo

\* No payslip pays less than nothing.
Pagables == \A n \in DOMAIN recibos : recibos[n].neto >= 0

IInv ==
  /\ PersistenteOK /\ CalculoOK
  /\ EnCurso /\ Emitidos /\ NadaAun /\ Cuenta /\ Abonado
  /\ Sobrante /\ Pagables

LEMMA TypeParts == TypeOK <=> PersistenteOK /\ CalculoOK
BY DEF TypeOK, PersistenteOK, CalculoOK

LEMMA TiposFijos ==
  ASSUME catalogo' = catalogo
  PROVE  Deudas' = Deudas /\ ReciboType' = ReciboType
BY DEF Deudas, ReciboType

LEMMA DevueltoNada == NadaDevuelto \in DevueltoType
BY DEF NadaDevuelto, DevueltoType

LEMMA InitIInv == Init => IInv
<1> SUFFICES ASSUME Init PROVE IInv
  OBVIOUS
<1>1. acum \in AcumType
  BY DEF Init, AcumType
<1>2. PersistenteOK
  <2>1. \A d \in Deudas : catalogo.deudas[d].monto \in Nat
    BY DeudaFields DEF Init
  <2>2. saldos \in [Deudas -> Nat]
    BY <2>1 DEF Init
  <2>3. recibos \in Seq(ReciboType)
    BY DEF Init
  <2> QED BY <1>1, <2>2, <2>3, DevueltoNada DEF Init, PersistenteOK
<1>3. CalculoOK
  BY DEF Init, CalculoOK, Fases, RetenidoType, NadaRetenido
<1>4. EnCurso /\ Emitidos /\ NadaAun /\ Cuenta /\ Sobrante /\ Pagables
  BY DEF Init, EnCurso, Emitidos, NadaAun, Cuenta, Sobrante, Pagables
<1>5. Abonado
  BY <1>2 DEF Init, Abonado, PersistenteOK
<1> QED BY <1>2, <1>3, <1>4, <1>5 DEF IInv

-----------------------------------------------------------------------------
(* Every step keeps it                                                       *)

LEMMA TerminaOK ==
  ASSUME Termina, catalogo' = catalogo
  PROVE  /\ CalculoOK' /\ EnCurso' /\ NadaAun' /\ Cuenta' /\ Sobrante'
         /\ \A d \in Deudas : abonos'[d] = 0
<1>1. CalculoOK'
  BY TiposFijos DEF Termina, SinFilas, CalculoOK, Fases, RetenidoType, NadaRetenido
<1> QED BY <1>1 DEF Termina, SinFilas, EnCurso, NadaAun, Cuenta, Sobrante

LEMMA EmpiezaOK ==
  ASSUME catalogo \in Catalogos, NEW j \in Jornadas, NEW n \in Nat, Apto(j),
         Empieza(j, n), catalogo' = catalogo
  PROVE  /\ CalculoOK' /\ EnCurso' /\ NadaAun' /\ Cuenta' /\ Sobrante'
         /\ \A d \in Deudas : abonos'[d] = 0
<1>1. NetoInasistencia(j) \in Nat
  BY SalarioType
<1>2. CalculoOK'
  BY <1>1, TiposFijos DEF Empieza, SinFilas, CalculoOK, Fases, RetenidoType, NadaRetenido
<1>3. EnCurso'
  BY DEF Empieza, EnCurso, Apto
<1> QED BY <1>2, <1>3 DEF Empieza, SinFilas, NadaAun, Cuenta, Sobrante

\* The payslips and the totals stay.
LEMMA Persiste ==
  ASSUME IInv, catalogo' = catalogo, acum' = acum, saldos' = saldos, recibos' = recibos,
         fallo' \in BOOLEAN, anuladas' \in Nat, devuelto' = devuelto
  PROVE  PersistenteOK' /\ Emitidos' /\ Pagables'
BY TiposFijos DEF IInv, PersistenteOK, Emitidos, Apto, Pagables

LEMMA FallaOK ==
  ASSUME IInv, Falla
  PROVE  IInv'
<1>1. PersistenteOK' /\ Emitidos' /\ Pagables'
  <2>1. anuladas' \in Nat
    BY DEF Falla, IInv, PersistenteOK
  <2> QED BY <2>1, Persiste DEF Falla
<1>2. Abonado'
  BY TerminaOK, TiposFijos DEF Falla, Abonado, IInv, PersistenteOK
<1> QED BY <1>1, <1>2, TerminaOK DEF Falla, IInv

LEMMA EjecutarOK ==
  ASSUME IInv, NEW j \in Jornadas, Ejecutar(j)
  PROVE  IInv'
<1>1. PersistenteOK' /\ Emitidos' /\ Pagables'
  BY Persiste DEF Ejecutar, IInv, PersistenteOK
<1>2. CASE Apto(j)
  <2>1. /\ CalculoOK' /\ EnCurso' /\ NadaAun' /\ Cuenta' /\ Sobrante'
        /\ \A d \in Deudas : abonos'[d] = 0
    BY <1>2, EmpiezaOK DEF Ejecutar, IInv, PersistenteOK
  <2>2. Abonado'
    BY <2>1, TiposFijos DEF Ejecutar, Abonado, IInv, PersistenteOK
  <2> QED BY <1>1, <2>1, <2>2 DEF IInv
<1>3. CASE ~Apto(j)
  <2>1. CalculoOK'
    BY <1>3, TiposFijos DEF Ejecutar, calculo, percibido, IInv, CalculoOK
  <2>2. EnCurso' /\ NadaAun' /\ Cuenta' /\ Abonado' /\ Sobrante'
    BY <1>3, TiposFijos DEF Ejecutar, calculo, percibido, IInv, EnCurso, NadaAun, Cuenta, Abonado,
                            Apto, Sobrante, PorRedondeo
  <2> QED BY <1>1, <2>1, <2>2 DEF IInv
<1> QED BY <1>2, <1>3

LEMMA CalculandoOK ==
  ASSUME IInv, fase # "libre"
  PROVE  Calculando
BY DEF IInv, PersistenteOK, CalculoOK, EnCurso, Calculando

LEMMA GravadoType ==
  ASSUME Calculando, NEW c \in ConceptoType, NEW monto \in Nat
  PROVE  Gravado(c, monto) \in Nat
<1>1. /\ c.gravable \in BOOLEAN /\ c.tope \in Int
      /\ acum.gravable \in Nat /\ gravable \in Nat
  BY DEF ConceptoType, Opcional, Sin, Calculando, AcumType
<1>2. Menor(monto, Mayor(0, c.tope - acum.gravable - gravable)) \in Nat
  BY <1>1 DEF Menor, Mayor
<1> QED BY <1>2 DEF Gravado

LEMMA PercepcionOK ==
  ASSUME IInv, Percepcion
  PROVE  IInv'
<1> DEFINE c == catalogo.percepciones[k]
           monto == Monto(c)
<1>1. Calculando /\ fase = "percepciones"
  BY CalculandoOK DEF Percepcion
<1>2. c \in ConceptoType
  BY <1>1, CatalogoFields DEF Percepcion, Calculando
<1>3. monto \in Nat \cup {SinTramo}
  BY <1>1, <1>2, MontoType
<1>4. CASE c.vigente /\ monto = SinTramo
  BY <1>4, FallaOK DEF Percepcion
<1>5. CASE ~(c.vigente /\ monto = SinTramo)
  <2> USE DEF Percepcion
  <2>1. PersistenteOK' /\ Emitidos' /\ Pagables'
    BY <1>5, Persiste DEF persistente, IInv, PersistenteOK
  <2>2. bruto' \in Nat /\ gravable' \in Nat /\ gravados' \in Nat /\ montos' \in [Codigos -> Nat]
    <3>1. CASE c.vigente /\ monto > 0
      <4>1. monto \in Nat
        BY <1>3, <3>1 DEF SinTramo
      <4>2. monto - Menor(monto, c.exento) \in Nat
        BY <1>2, <4>1 DEF Menor, ConceptoType
      <4>3. Gravado(c, monto - Menor(monto, c.exento)) \in Nat
        <5> DEFINE x == monto - Menor(monto, c.exento)
        <5> HIDE DEF x, c
        <5> QED BY <1>1, <1>2, <4>2, GravadoType DEF x
      <4>4. /\ bruto' = bruto + monto
            /\ gravable' = gravable + Gravado(c, monto - Menor(monto, c.exento))
            /\ gravados' = gravados + (IF c.gravable THEN monto ELSE 0)
            /\ montos' = [montos EXCEPT ![c.codigo] = @ + monto]
        BY <1>5, <3>1
      <4> HIDE DEF c, monto, Percepcion
      <4>5. c.codigo \in Codigos /\ c.gravable \in BOOLEAN
        BY <1>2 DEF ConceptoType
      <4> QED BY <4>1, <4>3, <4>4, <4>5 DEF IInv, CalculoOK
    <3>2. CASE ~(c.vigente /\ monto > 0)
      BY <1>5, <3>2 DEF percibido, IInv, CalculoOK
    <3> QED BY <3>1, <3>2
  <2>3. /\ catalogo' = catalogo /\ saldos' = saldos
        /\ fase' = fase /\ jornada' = jornada /\ rehace' = rehace /\ k' = k + 1
        /\ pendientes' = pendientes /\ items' = items /\ saldo' = saldo /\ retenido' = retenido
        /\ abonos' = abonos /\ faltas' = faltas
    BY <1>5 DEF persistente
  <2> HIDE DEF Percepcion, c, monto
  <2>4. CalculoOK'
    BY <2>2, <2>3, TiposFijos DEF IInv, CalculoOK
  <2>5. EnCurso' /\ NadaAun' /\ Cuenta' /\ Sobrante'
    BY <1>1, <2>3 DEF IInv, EnCurso, NadaAun, Cuenta, Apto, Sobrante
  <2>6. Abonado'
    BY <1>1, <2>3, TiposFijos DEF IInv, Abonado
  <2> QED BY <2>1, <2>4, <2>5, <2>6 DEF IInv
<1> QED BY <1>4, <1>5

LEMMA TerminaPercepcionesOK ==
  ASSUME IInv, TerminaPercepciones
  PROVE  IInv'
<1>1. PersistenteOK' /\ Emitidos' /\ Pagables'
  BY Persiste DEF TerminaPercepciones, persistente, IInv, PersistenteOK
<1>2. CalculoOK'
  BY TiposFijos DEF TerminaPercepciones, persistente, percibido, IInv, CalculoOK, Fases
<1>3. EnCurso' /\ NadaAun' /\ Sobrante'
  BY DEF TerminaPercepciones, persistente, IInv, EnCurso, NadaAun, Apto, Sobrante, CalculoOK
<1>4. Cuenta'
  BY DEF TerminaPercepciones, percibido, IInv, CalculoOK, NadaAun, Cuenta, NadaRetenido
<1>5. Abonado'
  BY TiposFijos DEF TerminaPercepciones, persistente, IInv, Abonado
<1> QED BY <1>1, <1>2, <1>3, <1>4, <1>5 DEF IInv

\* One more row: the totals follow it.
LEMMA DescuentaOK ==
  ASSUME IInv, fase = "deducciones", NEW c \in ConceptoType, NEW monto \in Nat,
         NEW aplicado \in Nat, aplicado <= saldo, Descuenta(c, monto, aplicado),
         pendientes' \subseteq DOMAIN catalogo.deducciones,
         faltas' \subseteq DOMAIN catalogo.deducciones
  PROVE  IInv'
<1> DEFINE f == Fila(c, monto, aplicado)
<1>1. f \in Filas(Deudas) /\ f.monto = aplicado /\ f.exento <= f.monto
  BY FilaType
<1>2. /\ items' = Append(items, f) /\ saldo' = saldo - aplicado /\ retenido' = ConFila(retenido, f)
      /\ montos' = [montos EXCEPT ![c.codigo] = @ + aplicado]
      /\ catalogo' = catalogo /\ acum' = acum /\ saldos' = saldos /\ recibos' = recibos
      /\ fallo' = fallo /\ anuladas' = anuladas /\ devuelto' = devuelto
      /\ fase' = fase /\ jornada' = jornada /\ rehace' = rehace /\ k' = k
      /\ bruto' = bruto /\ gravable' = gravable /\ gravados' = gravados /\ abonos' = abonos
  BY DEF Descuenta, persistente, percibido
<1> HIDE DEF f
<1>3. PersistenteOK' /\ Emitidos' /\ Pagables'
  BY <1>2, Persiste DEF IInv, PersistenteOK
<1>4. ConFila(retenido, f) \in RetenidoType /\ ConFila(retenido, f).deducido = retenido.deducido + aplicado
  BY <1>1, ConFilaType DEF IInv, CalculoOK
<1>5. CalculoOK'
  <2>1. c.codigo \in Codigos
    BY DEF ConceptoType
  <2>2. items' \in Seq(Filas(Deudas)) /\ saldo' \in Int /\ montos' \in [Codigos -> Nat]
        /\ retenido' \in RetenidoType
    BY <1>1, <1>2, <1>4, <2>1 DEF IInv, CalculoOK
  <2> QED BY <1>2, <2>2, TiposFijos DEF IInv, CalculoOK
<1>6. EnCurso' /\ NadaAun' /\ Sobrante'
  BY <1>2 DEF IInv, EnCurso, NadaAun, Apto, Sobrante, CalculoOK
<1>7. Cuenta'
  <2>1. retenido.deducido \in Nat /\ bruto \in Nat /\ saldo \in Int /\ saldo = bruto - retenido.deducido
    BY DEF IInv, CalculoOK, RetenidoType, Cuenta
  <2>2. retenido'.deducido = retenido.deducido + aplicado
    BY <1>2, <1>4
  <2>3. saldo - aplicado = bruto - (retenido.deducido + aplicado)
    BY <2>1
  <2>4. saldo' = bruto' - retenido'.deducido
    BY <1>2, <2>2, <2>3
  <2> QED BY <2>4 DEF Cuenta
<1>8. Abonado'
  BY <1>2, TiposFijos DEF IInv, Abonado
<1> QED BY <1>3, <1>5, <1>6, <1>7, <1>8 DEF IInv

\* Only the deductions left change.
LEMMA SinFilaOK ==
  ASSUME IInv, SinFila, pendientes' \subseteq DOMAIN catalogo.deducciones,
         faltas' \subseteq DOMAIN catalogo.deducciones
  PROVE  IInv'
<1>1. /\ catalogo' = catalogo /\ acum' = acum /\ saldos' = saldos /\ recibos' = recibos
      /\ fallo' = fallo /\ anuladas' = anuladas /\ devuelto' = devuelto
      /\ fase' = fase /\ jornada' = jornada /\ rehace' = rehace /\ k' = k
      /\ bruto' = bruto /\ gravable' = gravable /\ gravados' = gravados /\ abonos' = abonos
      /\ items' = items /\ saldo' = saldo /\ retenido' = retenido /\ montos' = montos
  BY DEF SinFila, persistente, percibido
<1>2. PersistenteOK' /\ Emitidos' /\ Pagables'
  BY <1>1, Persiste DEF IInv, PersistenteOK
<1>3. CalculoOK'
  BY <1>1, TiposFijos DEF IInv, CalculoOK
<1>4. EnCurso' /\ NadaAun' /\ Cuenta' /\ Abonado' /\ Sobrante'
  BY <1>1, TiposFijos DEF IInv, EnCurso, NadaAun, Cuenta, Abonado, Apto, Sobrante, PorRedondeo
<1> QED BY <1>2, <1>3, <1>4 DEF IInv

\* Until the debts what is left is not negative.
LEMMA SaldoNat ==
  ASSUME IInv, fase # "deudas"
  PROVE  saldo \in Nat
BY DEF IInv, CalculoOK, Sobrante

LEMMA AplicableType ==
  ASSUME saldo \in Nat, NEW monto \in Nat
  PROVE  Aplicable(monto) \in Nat /\ Aplicable(monto) <= saldo /\ Aplicable(monto) <= monto
         /\ (Aplicable(monto) < monto => Aplicable(monto) = saldo)
BY DEF Aplicable, Mayor, Menor

LEMMA DeduccionOK ==
  ASSUME IInv, NEW i \in pendientes, Deduccion(i)
  PROVE  IInv'
<1> DEFINE c == catalogo.deducciones[i]
           monto == MontoDeduccion(c)
<1>1. Calculando /\ fase = "deducciones"
  BY CalculandoOK DEF Deduccion
<1>2. c \in ConceptoType
  BY <1>1, CatalogoFields DEF Calculando, IInv, CalculoOK
<1>3. monto \in Nat \cup {SinTramo}
  BY <1>1, <1>2, MontoDeduccionType
<1>4. CASE Omitida(c)
  BY <1>4, SinFilaOK DEF Deduccion, IInv, CalculoOK
<1>5. CASE ~Omitida(c) /\ monto = SinTramo
  BY <1>5, FallaOK DEF Deduccion
<1>6. CASE ~Omitida(c) /\ monto # SinTramo
  <2>1. pendientes' \subseteq DOMAIN catalogo.deducciones
    BY <1>6 DEF Deduccion, IInv, CalculoOK
  <2>2. faltas' \subseteq DOMAIN catalogo.deducciones
    BY <1>6 DEF Deduccion, IInv, CalculoOK
  <2>3. SinFila \/ Descuenta(c, monto, Aplicable(monto))
    BY <1>6 DEF Deduccion
  <2>4. Aplicable(monto) \in Nat /\ Aplicable(monto) <= saldo
    BY <1>1, <1>3, <1>6, SaldoNat, AplicableType
  <2> HIDE DEF c, monto
  <2> QED BY <1>1, <1>2, <1>3, <1>6, <2>1, <2>2, <2>3, <2>4, SinFilaOK, DescuentaOK
<1> QED BY <1>4, <1>5, <1>6

LEMMA TerminaDeduccionesOK ==
  ASSUME IInv, TerminaDeducciones
  PROVE  IInv'
<1>1. PersistenteOK' /\ Emitidos' /\ Pagables'
  BY Persiste DEF TerminaDeducciones, persistente, IInv, PersistenteOK
<1>2. CalculoOK'
  BY TiposFijos DEF TerminaDeducciones, persistente, percibido, IInv, CalculoOK, Fases
<1>3. EnCurso' /\ NadaAun' /\ Cuenta' /\ Sobrante'
  BY DEF TerminaDeducciones, persistente, percibido, IInv, EnCurso, NadaAun, Cuenta, Apto, Sobrante
<1>4. Abonado'
  BY TiposFijos DEF TerminaDeducciones, persistente, IInv, Abonado
<1> QED BY <1>1, <1>2, <1>3, <1>4 DEF IInv

\* What a payment leaves: the employee is short only by rounding.
LEMMA CobraSobrante ==
  ASSUME IInv, fase = "deudas", k \in Deudas, Cambio(k)[1] # 0, saldo > 0, Abono(k) > 0,
         abonos[k] = 0, Cobra(k), catalogo' = catalogo, jornada' = jornada, fase' = fase
  PROVE  Sobrante'
<1>1. saldo \in Nat /\ jornada \in Jornadas /\ catalogo \in Catalogos /\ saldos \in [Deudas -> Nat]
  BY DEF IInv, PersistenteOK, CalculoOK
<1>2. /\ Abono(k) \in Nat /\ Cuota(k) \in Nat
      /\ ~catalogo.deudas[k].extranjera => Cuota(k) <= saldo
      /\ 2 * (Cuota(k) - saldo) * Cambio(k)[2] <= Cambio(k)[1] + Cambio(k)[2]
  BY <1>1, CuotaType
<1>3. catalogo.deudas[k].extranjera => Cambio(k) = jornada.cambio
  BY <1>1, CambioType
<1>4. saldo' = saldo - Cuota(k) /\ abonos'[k] = Abono(k)
  <2>1. abonos \in [Deudas -> Nat]
    BY DEF IInv, CalculoOK
  <2>2. saldo' = saldo - Cuota(k) /\ abonos' = [abonos EXCEPT ![k] = @ + Abono(k)]
    BY DEF Cobra
  <2>3. abonos'[k] = 0 + Abono(k)
    BY <2>1, <2>2
  <2> QED BY <1>2, <2>2, <2>3
<1>5. CASE saldo' < 0
  <2>1. catalogo.deudas[k].extranjera
    BY <1>1, <1>2, <1>4, <1>5, DeudaFields
  <2>2. 0 - saldo' = Cuota(k) - saldo
    BY <1>1, <1>2, <1>4
  <2>3. 2 * (0 - saldo') * jornada'.cambio[2] <= jornada'.cambio[1] + jornada'.cambio[2]
    BY <1>2, <1>3, <2>1, <2>2
  <2> QED BY <1>2, <1>4, <2>1, <2>3, TiposFijos DEF Sobrante, PorRedondeo
<1> QED BY <1>5 DEF Sobrante

LEMMA CobraOK ==
  ASSUME IInv, fase = "deudas", k \in Deudas, Cambio(k)[1] # 0, saldo > 0, Abono(k) > 0,
         Cobra(k), k' = k + 1,
         UNCHANGED <<persistente, fase, jornada, rehace, pendientes, percibido, montos, faltas>>
  PROVE  IInv'
<1>1. /\ k \in Nat
      /\ catalogo' = catalogo /\ acum' = acum /\ saldos' = saldos /\ recibos' = recibos
      /\ fallo' = fallo /\ anuladas' = anuladas /\ devuelto' = devuelto
      /\ fase' = fase /\ jornada' = jornada /\ rehace' = rehace /\ pendientes' = pendientes
      /\ bruto' = bruto /\ gravable' = gravable /\ gravados' = gravados /\ montos' = montos
      /\ faltas' = faltas
  BY DEF persistente, percibido, IInv, CalculoOK
<1>2. PersistenteOK' /\ Emitidos' /\ Pagables'
  BY <1>1, Persiste DEF IInv, PersistenteOK
<1> DEFINE f == FilaDeuda(k)
<1>3. saldo \in Nat /\ jornada \in Jornadas /\ catalogo \in Catalogos /\ saldos \in [Deudas -> Nat]
  BY DEF IInv, PersistenteOK, CalculoOK
<1>4. /\ Abono(k) \in Nat /\ Abono(k) <= saldos[k] /\ Cuota(k) \in Nat
      /\ f \in Filas(Deudas) /\ f.monto = Cuota(k) /\ f.exento = 0
  BY <1>3, CuotaType
<1>5. items' = Append(items, f) /\ saldo' = saldo - Cuota(k) /\ retenido' = ConFila(retenido, f)
      /\ abonos' = [abonos EXCEPT ![k] = @ + Abono(k)]
  BY DEF Cobra
<1> HIDE DEF f
<1>6. retenido' \in RetenidoType /\ retenido'.deducido = retenido.deducido + Cuota(k)
  BY <1>4, <1>5, ConFilaType DEF IInv, CalculoOK
<1>7. abonos \in [Deudas -> Nat] /\ abonos[k] = 0
  BY <1>1 DEF IInv, CalculoOK, Abonado
<1>8. /\ saldo = bruto - retenido.deducido /\ retenido.deducido \in Nat /\ bruto \in Nat
      /\ items \in Seq(Filas(Deudas))
  BY DEF IInv, Cuenta, CalculoOK, RetenidoType
<1>9. saldo' \in Int /\ saldo' = bruto' - retenido'.deducido
  <2>1. /\ saldo - Cuota(k) \in Int
        /\ saldo - Cuota(k) = bruto - (retenido.deducido + Cuota(k))
    <3> DEFINE x == retenido.deducido
               y == Cuota(k)
    <3>1. x \in Nat /\ y \in Nat /\ bruto \in Nat /\ saldo = bruto - x
      BY <1>4, <1>8
    <3> HIDE DEF x, y
    <3>2. saldo - y \in Int /\ saldo - y = bruto - (x + y)
      BY <3>1
    <3> QED BY <3>2 DEF x, y
  <2> QED BY <1>1, <1>5, <1>6, <2>1
<1>10. abonos' \in [Deudas -> Nat] /\ abonos'[k] = Abono(k)
       /\ \A d \in Deudas \ {k} : abonos'[d] = abonos[d]
  BY <1>4, <1>5, <1>7
<1>11. CalculoOK'
  <2>1. k' \in Nat /\ items' \in Seq(Filas(Deudas))
    BY <1>1, <1>4, <1>5, <1>8
  <2> QED BY <1>1, <1>6, <1>9, <1>10, <2>1, TiposFijos DEF IInv, CalculoOK
<1>12. EnCurso' /\ NadaAun' /\ Cuenta'
  BY <1>1, <1>9 DEF IInv, EnCurso, NadaAun, Cuenta, Apto
<1>13. Abonado'
  <2>1. SUFFICES ASSUME NEW d \in Deudas
                 PROVE  abonos'[d] <= saldos'[d] /\ (abonos'[d] # 0 => fase' = "deudas" /\ d < k')
    BY <1>1, TiposFijos DEF Abonado
  <2>2. d \in Nat
    BY DeudaFields DEF IInv, PersistenteOK
  <2>3. CASE d = k
    BY <1>1, <1>4, <1>10, <2>3
  <2>4. CASE d # k
    <3>1. abonos[d] <= saldos[d] /\ (abonos[d] # 0 => d < k)
      BY DEF IInv, Abonado
    <3> QED BY <1>1, <1>10, <2>2, <2>4, <3>1
  <2> QED BY <2>3, <2>4
<1>14. Sobrante'
  BY <1>1, <1>7, CobraSobrante
<1> QED BY <1>2, <1>11, <1>12, <1>13, <1>14 DEF IInv

LEMMA DeudaOK ==
  ASSUME IInv, Deuda
  PROVE  IInv'
<1>1. fase = "deudas" /\ k \in Deudas
  BY DEF Deuda
<1>2. CASE SinCambio(k)
  BY <1>2, FallaOK DEF Deuda
<1>3. CASE ~SinCambio(k) /\ Alcanzada(k) /\ Abono(k) > 0 /\ Cuota(k) > 0
  <2>1. /\ Cobra(k) /\ k' = k + 1
        /\ UNCHANGED <<persistente, fase, jornada, rehace, pendientes, percibido, montos, faltas>>
    BY <1>3 DEF Deuda
  <2>2. Cambio(k)[1] # 0 /\ saldo > 0
    BY <1>3 DEF SinCambio, Alcanzada
  <2> QED BY <1>1, <1>3, <2>1, <2>2, CobraOK
<1>4. CASE ~SinCambio(k) /\ ~(Alcanzada(k) /\ Abono(k) > 0 /\ Cuota(k) > 0)
  <2>1. /\ k' = k + 1 /\ k \in Nat
        /\ catalogo' = catalogo /\ acum' = acum /\ saldos' = saldos /\ recibos' = recibos
        /\ fallo' = fallo /\ anuladas' = anuladas /\ devuelto' = devuelto
        /\ fase' = fase /\ jornada' = jornada /\ rehace' = rehace /\ pendientes' = pendientes
        /\ bruto' = bruto /\ gravable' = gravable /\ gravados' = gravados /\ montos' = montos
        /\ faltas' = faltas /\ items' = items /\ saldo' = saldo /\ retenido' = retenido
        /\ abonos' = abonos
    BY <1>4 DEF Deuda, persistente, percibido, IInv, CalculoOK
  <2>2. PersistenteOK' /\ Emitidos' /\ Pagables'
    BY <2>1, Persiste DEF IInv, PersistenteOK
  <2>3. CalculoOK'
    <3>1. k' \in Nat
      BY <2>1
    <3> QED BY <2>1, <3>1, TiposFijos DEF IInv, CalculoOK
  <2>4. EnCurso' /\ NadaAun' /\ Cuenta' /\ Sobrante'
    BY <2>1, TiposFijos DEF IInv, EnCurso, NadaAun, Cuenta, Apto, Sobrante, PorRedondeo
  <2>5. Abonado'
    <3>1. SUFFICES ASSUME NEW d \in Deudas
                   PROVE  abonos'[d] <= saldos'[d] /\ (abonos'[d] # 0 => fase' = "deudas" /\ d < k')
      BY <2>1, TiposFijos DEF Abonado
    <3>2. d \in Nat /\ abonos[d] <= saldos[d] /\ (abonos[d] # 0 => d < k)
      BY DeudaFields DEF IInv, PersistenteOK, Abonado
    <3> QED BY <1>1, <2>1, <3>2
  <2> QED BY <2>2, <2>3, <2>4, <2>5 DEF IInv
<1> QED BY <1>2, <1>3, <1>4

\* The payslip that is posted.
LEMMA ReciboCalculadoType ==
  ASSUME IInv, fase = "deudas"
  PROVE  /\ ReciboCalculado \in ReciboType
         /\ ReciboCalculado.neto = saldo
         /\ ReciboCalculado.jornada = jornada /\ ReciboCalculado.items = items
         /\ ReciboCalculado.abonos = abonos /\ ReciboCalculado.faltas = faltas
<1>1. Sueldo(jornada) \in Nat /\ Descuento(jornada) \in Nat /\ jornada \in Jornadas
  BY SalarioType, CalculandoOK DEF Calculando
<1>2. retenido.deducido \in Nat /\ bruto \in Nat /\ saldo = bruto - retenido.deducido
  BY DEF IInv, CalculoOK, RetenidoType, Cuenta
<1>3. bruto - retenido.deducido \in Int /\ saldo = bruto - retenido.deducido
  BY <1>2
<1>4. /\ rehace \in Nat /\ anuladas \in Nat /\ bruto \in Nat /\ gravable \in Nat /\ gravados \in Nat
      /\ items \in Seq(Filas(Deudas)) /\ retenido \in RetenidoType
      /\ montos \in [Codigos -> Nat] /\ abonos \in [Deudas -> Nat]
      /\ faltas \subseteq DOMAIN catalogo.deducciones
  BY DEF IInv, PersistenteOK, CalculoOK
<1>5. ReciboCalculado \in ReciboType
  BY <1>1, <1>3, <1>4 DEF ReciboCalculado, ReciboType
<1> QED BY <1>3, <1>5 DEF ReciboCalculado

LEMMA ContabilizarOK ==
  ASSUME IInv, Contabilizar
  PROVE  IInv'
<1> DEFINE r == ReciboCalculado
<1>0. CASE r.neto < 0
  BY <1>0, FallaOK DEF Contabilizar
<1>1. CASE ~(r.neto < 0)
  <2>1. r \in ReciboType /\ r.neto = saldo /\ r.jornada = jornada /\ saldo \in Int
    BY ReciboCalculadoType DEF Contabilizar, IInv, CalculoOK
  <2>2. /\ acum' = ConRecibo(acum, r) /\ saldos' = [d \in Deudas |-> saldos[d] - abonos[d]]
        /\ recibos' = Append(recibos, r) /\ fallo' = FALSE /\ Termina
        /\ catalogo' = catalogo /\ anuladas' = anuladas /\ devuelto' = devuelto
    BY <1>1 DEF Contabilizar
  <2>3. r.neto >= 0
    BY <1>1, <2>1
  <2> HIDE DEF r
  <2>4. CalculoOK' /\ EnCurso' /\ NadaAun' /\ Cuenta' /\ Sobrante' /\ \A d \in Deudas : abonos'[d] = 0
    BY <2>2, TerminaOK
  <2>5. saldos' \in [Deudas -> Nat]
    <3>1. \A d \in Deudas : saldos[d] - abonos[d] \in Nat
      BY DEF IInv, PersistenteOK, CalculoOK, Abonado
    <3> QED BY <2>2, <3>1
  <2>6. PersistenteOK'
    <3>1. acum' \in AcumType
      BY <2>1, <2>2, ConReciboType DEF IInv, PersistenteOK
    <3>2. recibos' \in Seq(ReciboType)
      BY <2>1, <2>2 DEF IInv, PersistenteOK
    <3> QED BY <2>2, <2>5, <3>1, <3>2, TiposFijos DEF IInv, PersistenteOK
  <2>7. \A n \in DOMAIN recibos' :
          (n \in DOMAIN recibos /\ recibos'[n] = recibos[n]) \/ recibos'[n] = r
    <3>1. recibos \in Seq(ReciboType)
      BY DEF IInv, PersistenteOK
    <3> QED BY <2>1, <2>2, <3>1
  <2>8. Emitidos'
    <3>1. Apto(jornada)
      BY DEF Contabilizar, IInv, EnCurso
    <3>2. \A n \in DOMAIN recibos' : Apto(recibos'[n].jornada)
      BY <2>1, <2>7, <3>1 DEF IInv, Emitidos
    <3> QED BY <2>2, <3>2 DEF Emitidos, Apto
  <2>9. Pagables'
    <3>1. \A n \in DOMAIN recibos' : recibos'[n].neto >= 0
      BY <2>3, <2>7 DEF IInv, Pagables
    <3> QED BY <3>1 DEF Pagables
  <2>10. Abonado'
    BY <2>2, <2>4, <2>5, TiposFijos DEF Abonado
  <2> QED BY <2>4, <2>6, <2>8, <2>9, <2>10 DEF IInv
<1> QED BY <1>0, <1>1

LEMMA DevuelveType ==
  ASSUME NEW d \in DevueltoType, NEW r \in ReciboType
  PROVE  Devuelve(d, r) \in DevueltoType
<1>1. /\ d.bruto + r.bruto \in Nat /\ d.gravable + Revertible(r) \in Int
      /\ d.antes + r.retenido.antes \in Nat /\ d.impuesto + r.retenido.impuesto \in Nat
      /\ d.procesados + 1 \in Nat
  BY ReciboFields DEF DevueltoType, Revertible
<1> QED BY <1>1 DEF Devuelve, DevueltoType

\* What a payslip gives back when it is voided or recalculated.
LEMMA RevierteOK ==
  ASSUME IInv, NEW n \in DOMAIN recibos, Retira(n), fase = "libre", catalogo' = catalogo,
         NEW e \in {"anulado", "recalculado"}, recibos' = [recibos EXCEPT ![n].estado = e],
         fallo' = fallo, anuladas' \in Nat
  PROVE  /\ PersistenteOK' /\ Emitidos' /\ Pagables'
         /\ recibos[n].jornada \in Jornadas /\ Apto(recibos[n].jornada)
<1>1. recibos \in Seq(ReciboType) /\ recibos[n] \in ReciboType
  BY DEF IInv, PersistenteOK
<1>2. recibos' \in Seq(ReciboType)
  <2> DEFINE r == [recibos[n] EXCEPT !.estado = e]
  <2>1. r \in ReciboType
    BY <1>1 DEF ReciboType
  <2>2. recibos' = [recibos EXCEPT ![n] = r]
    OBVIOUS
  <2> HIDE DEF r
  <2> QED BY <1>1, <2>1, <2>2
<1>3. acum' \in AcumType
  BY <1>1, SinReciboType DEF Retira, Revierte, RevierteOtraVez, IInv, PersistenteOK
<1>4. saldos' \in [Deudas -> Nat]
  <2>1. \A d \in Deudas : saldos[d] + recibos[n].abonos[d] \in Nat
    BY <1>1, ReciboFields DEF IInv, PersistenteOK
  <2> QED BY <2>1 DEF Retira, Revierte, RevierteOtraVez, IInv, PersistenteOK
<1>5. devuelto' \in DevueltoType
  <2>1. CASE devuelto' = devuelto
    BY <2>1 DEF IInv, PersistenteOK
  <2>2. CASE devuelto' = Devuelve(devuelto, recibos[n])
    BY <1>1, <2>2, DevuelveType DEF IInv, PersistenteOK
  <2> QED BY <2>1, <2>2 DEF Retira, RevierteOtraVez
<1>6. PersistenteOK'
  BY <1>2, <1>3, <1>4, <1>5, TiposFijos DEF IInv, PersistenteOK
<1>7. \A m \in DOMAIN recibos :
        recibos'[m].jornada = recibos[m].jornada /\ recibos'[m].neto = recibos[m].neto
  <2>1. SUFFICES ASSUME NEW m \in DOMAIN recibos
                 PROVE  recibos'[m].jornada = recibos[m].jornada /\ recibos'[m].neto = recibos[m].neto
    OBVIOUS
  <2>2. recibos[m] \in ReciboType
    BY <1>1
  <2>3. CASE m = n
    BY <1>1, <2>3 DEF ReciboType
  <2>4. CASE m # n
    BY <1>1, <2>4
  <2> QED BY <2>3, <2>4
<1>8. DOMAIN recibos' = DOMAIN recibos
  BY <1>1
<1>9. Emitidos' /\ Pagables'
  BY <1>7, <1>8 DEF IInv, Emitidos, Apto, Pagables
<1>10. recibos[n].jornada \in Jornadas /\ Apto(recibos[n].jornada)
  BY <1>1, ReciboFields DEF IInv, Emitidos
<1> QED BY <1>6, <1>9, <1>10

\* Without a calculation nothing has been collected, and balances only grow.
LEMMA AbonadoLibre ==
  ASSUME PersistenteOK', \A d \in Deudas : abonos'[d] = 0, catalogo' = catalogo
  PROVE  Abonado'
BY TiposFijos DEF PersistenteOK, Abonado

LEMMA AnularOK ==
  ASSUME IInv, NEW n \in DOMAIN recibos, Anular(n)
  PROVE  IInv'
<1>1. PersistenteOK' /\ Emitidos' /\ Pagables'
  <2>1. anuladas' \in Nat
    BY DEF Anular, IInv, PersistenteOK
  <2>2. Retira(n)
    BY DEF Anular, Retira
  <2> QED BY <2>1, <2>2, RevierteOK DEF Anular
<1>2. calculo' = calculo /\ catalogo' = catalogo /\ fase = "libre"
  BY DEF Anular
<1>3. CalculoOK'
  BY <1>2, TiposFijos DEF calculo, percibido, IInv, CalculoOK
<1>4. EnCurso' /\ NadaAun' /\ Cuenta' /\ Sobrante'
  BY <1>2 DEF calculo, percibido, IInv, EnCurso, NadaAun, Cuenta, Apto, Sobrante
<1>5. Abonado'
  <2>1. \A d \in Deudas : abonos'[d] = 0
    BY <1>2 DEF calculo, IInv, Abonado
  <2> QED BY <1>1, <1>2, <2>1, AbonadoLibre
<1> QED BY <1>1, <1>3, <1>4, <1>5 DEF IInv

LEMMA RecalcularOK ==
  ASSUME IInv, NEW n \in DOMAIN recibos, Recalcular(n)
  PROVE  IInv'
<1>1. catalogo' = catalogo /\ anuladas' \in Nat /\ catalogo \in Catalogos /\ n \in Nat
  BY DEF Recalcular, IInv, PersistenteOK
<1>2. /\ PersistenteOK' /\ Emitidos' /\ Pagables'
      /\ recibos[n].jornada \in Jornadas /\ Apto(recibos[n].jornada)
  BY <1>1, RevierteOK DEF Recalcular
<1>3. /\ CalculoOK' /\ EnCurso' /\ NadaAun' /\ Cuenta' /\ Sobrante'
      /\ \A d \in Deudas : abonos'[d] = 0
  BY <1>1, <1>2, EmpiezaOK DEF Recalcular
<1> QED BY <1>1, <1>2, <1>3, AbonadoLibre DEF IInv

LEMMA StutterIInv ==
  ASSUME IInv, UNCHANGED vars
  PROVE  IInv'
<1>1. /\ catalogo' = catalogo /\ acum' = acum /\ saldos' = saldos /\ recibos' = recibos
      /\ fallo' = fallo /\ anuladas' = anuladas /\ devuelto' = devuelto /\ calculo' = calculo
  BY DEF vars, persistente
<1>2. PersistenteOK' /\ Emitidos' /\ Pagables'
  BY <1>1, Persiste DEF IInv, PersistenteOK
<1>3. CalculoOK'
  BY <1>1, TiposFijos DEF calculo, percibido, IInv, CalculoOK
<1>4. EnCurso' /\ NadaAun' /\ Cuenta' /\ Abonado' /\ Sobrante'
  BY <1>1, TiposFijos DEF calculo, percibido, IInv, EnCurso, NadaAun, Cuenta, Abonado, Apto,
                          Sobrante, PorRedondeo
<1> QED BY <1>2, <1>3, <1>4 DEF IInv

LEMMA NextIInv == IInv /\ [Next]_vars => IInv'
<1> SUFFICES ASSUME IInv, [Next]_vars PROVE IInv'
  OBVIOUS
<1>1. CASE \E j \in Jornadas : Ejecutar(j)
  BY <1>1, EjecutarOK
<1>2. CASE Percepcion \/ TerminaPercepciones
  BY <1>2, PercepcionOK, TerminaPercepcionesOK
<1>3. CASE (\E i \in pendientes : Deduccion(i)) \/ TerminaDeducciones
  BY <1>3, DeduccionOK, TerminaDeduccionesOK
<1>4. CASE Deuda \/ Contabilizar
  BY <1>4, DeudaOK, ContabilizarOK
<1>5. CASE \E n \in DOMAIN recibos : Anular(n) \/ Recalcular(n)
  BY <1>5, AnularOK, RecalcularOK
<1>6. CASE UNCHANGED vars
  BY <1>6, StutterIInv
<1> QED BY <1>1, <1>2, <1>3, <1>4, <1>5, <1>6 DEF Next

LEMMA SpecIInv == Spec => []IInv
BY InitIInv, NextIInv, PTL DEF Spec

-----------------------------------------------------------------------------
(* The order in which the pay is taken                                       *)

\* A row that gives way to deduction i, for which there was not enough.
Cede(i, f) ==
  f.monto > 0 =>
    IF f.deuda = 0 THEN f.prioridad <= catalogo.deducciones[i].prioridad
    ELSE catalogo.deducciones[i].detener

Respeta(F, s) == \A i \in F, m \in DOMAIN s : Cede(i, s[m])

\* One there was not enough for stopped the others, or took all that was left.
Agotado ==
  \A i \in faltas : IF catalogo.deducciones[i].detener THEN pendientes = {} ELSE saldo <= 0

\* The deductions that are left do not go before those that were taken.
PorVenir ==
  fase = "deducciones" => \A m \in DOMAIN items :
    /\ items[m].deuda = 0
    /\ \A p \in pendientes : items[m].prioridad <= catalogo.deducciones[p].prioridad

SinEmpezar == fase \in {"libre", "percepciones"} => items = <<>> /\ faltas = {}

Respetados == \A n \in DOMAIN recibos : Respeta(recibos[n].faltas, recibos[n].items)

OrdenInv == Respeta(faltas, items) /\ Agotado /\ PorVenir /\ SinEmpezar /\ Respetados

LEMMA InitOrden == Init => OrdenInv
BY DEF Init, OrdenInv, Respeta, Agotado, PorVenir, SinEmpezar, Respetados

\* A calculation that begins, ends or fails has no rows.
LEMMA SinFilasOrden ==
  ASSUME SinFilas, fase' \in {"libre", "percepciones"}, Respetados'
  PROVE  OrdenInv'
BY DEF SinFilas, OrdenInv, Respeta, Agotado, PorVenir, SinEmpezar

LEMMA RespetadosIgual ==
  ASSUME OrdenInv, catalogo' = catalogo, recibos' = recibos
  PROVE  Respetados'
BY DEF OrdenInv, Respetados, Respeta, Cede

\* The rows and what is left of the pay stay.
LEMMA IgualOrden ==
  ASSUME OrdenInv, items' = items, saldo' = saldo, faltas' = faltas, recibos' = recibos,
         catalogo' = catalogo, pendientes' \subseteq pendientes, fase' \in {fase, "deudas"}
  PROVE  OrdenInv'
<1>1. Agotado' /\ Respetados'
  BY RespetadosIgual DEF OrdenInv, Agotado
<1>2. PorVenir' /\ SinEmpezar'
  BY DEF OrdenInv, PorVenir, SinEmpezar
<1>3. Respeta(faltas, items)'
  BY DEF OrdenInv, Respeta, Cede
<1> QED BY <1>1, <1>2, <1>3 DEF OrdenInv

\* A deduction that comes next, with its row or without.
LEMMA AvanzaOrden ==
  ASSUME IInv, OrdenInv, fase = "deducciones", NEW i \in pendientes, Primera(i),
         NEW f \in Filas(Deudas), f.deuda = 0, f.prioridad = catalogo.deducciones[i].prioridad,
         \A p \in faltas : f.monto = 0,
         items' = items \/ items' = Append(items, f),
         faltas' = faltas \/ faltas' = faltas \cup {i},
         pendientes' \subseteq pendientes, Agotado',
         catalogo' = catalogo, recibos' = recibos, fase' = fase
  PROVE  OrdenInv'
<1> DEFINE c == catalogo.deducciones[i]
<1>1. items \in Seq(Filas(Deudas))
  BY DEF IInv, CalculoOK
<1>2. \A p \in pendientes : catalogo.deducciones[p] \in ConceptoType
  BY CatalogoFields DEF IInv, PersistenteOK, CalculoOK
<1>3. \A p \in pendientes : catalogo.deducciones[p].prioridad \in Int
  BY <1>2 DEF ConceptoType
<1>4. \A p \in pendientes : c.prioridad <= catalogo.deducciones[p].prioridad
  BY <1>3 DEF Primera, Precede
<1>5. f.monto \in Nat /\ f.prioridad = c.prioridad /\ f.prioridad \in Int
  BY <1>3 DEF Filas
<1>6. \A m \in DOMAIN items' : (m \in DOMAIN items /\ items'[m] = items[m]) \/ items'[m] = f
  BY <1>1
<1>7. \A m \in DOMAIN items : items[m].deuda = 0 /\ items[m].prioridad <= c.prioridad
  BY DEF OrdenInv, PorVenir
<1> HIDE DEF c
<1>8. \A p \in faltas, m \in DOMAIN items' : Cede(p, items'[m])
  <2>1. SUFFICES ASSUME NEW p \in faltas, NEW m \in DOMAIN items' PROVE Cede(p, items'[m])
    OBVIOUS
  <2>2. CASE m \in DOMAIN items /\ items'[m] = items[m]
    BY <2>2 DEF OrdenInv, Respeta
  <2>3. CASE items'[m] = f
    BY <2>3 DEF Cede
  <2> QED BY <1>6, <2>2, <2>3
<1>9. \A m \in DOMAIN items' : Cede(i, items'[m])
  <2>1. SUFFICES ASSUME NEW m \in DOMAIN items' PROVE Cede(i, items'[m])
    OBVIOUS
  <2>2. items'[m].deuda = 0 /\ items'[m].prioridad <= c.prioridad
    BY <1>5, <1>6, <1>7
  <2> QED BY <2>2 DEF Cede, c
<1>10. Respeta(faltas, items)'
  <2>1. \A p \in faltas', m \in DOMAIN items' : Cede(p, items'[m])
    BY <1>8, <1>9
  <2> QED BY <2>1 DEF Respeta, Cede
<1>11. PorVenir'
  <2>1. SUFFICES ASSUME NEW m \in DOMAIN items'
                 PROVE  /\ items'[m].deuda = 0
                        /\ \A p \in pendientes' :
                             items'[m].prioridad <= catalogo.deducciones[p].prioridad
    BY DEF PorVenir
  <2>2. CASE m \in DOMAIN items /\ items'[m] = items[m]
    BY <2>2 DEF OrdenInv, PorVenir
  <2>3. CASE items'[m] = f
    BY <1>4, <1>5, <2>3
  <2> QED BY <1>6, <2>2, <2>3
<1>12. SinEmpezar' /\ Respetados'
  BY RespetadosIgual DEF SinEmpezar
<1> QED BY <1>10, <1>11, <1>12 DEF OrdenInv

LEMMA DeduccionOrden ==
  ASSUME IInv, OrdenInv, NEW i \in pendientes, Deduccion(i)
  PROVE  OrdenInv'
<1> DEFINE c == catalogo.deducciones[i]
           monto == MontoDeduccion(c)
           aplicado == Aplicable(monto)
           f == Fila(c, monto, aplicado)
<1>1. Calculando /\ fase = "deducciones" /\ Primera(i) /\ saldo \in Nat
  BY CalculandoOK, SaldoNat DEF Deduccion
<1>2. c \in ConceptoType
  BY <1>1, CatalogoFields DEF Calculando, IInv, CalculoOK
<1>3. monto \in Nat \cup {SinTramo}
  BY <1>1, <1>2, MontoDeduccionType
<1>4. CASE Falla
  <2>1. catalogo' = catalogo /\ recibos' = recibos /\ Termina
    BY <1>4 DEF Falla
  <2> QED BY <2>1, RespetadosIgual, SinFilasOrden DEF Termina
<1>5. CASE Omitida(c)
  BY <1>5, IgualOrden DEF Deduccion, SinFila, persistente
<1>6. CASE ~Falla /\ ~Omitida(c)
  <2>1. /\ monto # SinTramo
        /\ pendientes' = IF c.detener /\ monto > saldo THEN {} ELSE pendientes \ {i}
        /\ faltas' = IF monto > saldo THEN faltas \cup {i} ELSE faltas
        /\ IF monto = 0 \/ (c.detener /\ monto > saldo) \/ (aplicado = 0 /\ ~c.obligatoria)
           THEN SinFila ELSE Descuenta(c, monto, aplicado)
    BY <1>6 DEF Deduccion
  <2>2. monto \in Nat /\ c.detener \in BOOLEAN
    BY <1>2, <1>3, <2>1 DEF ConceptoType
  <2>3. /\ aplicado \in Nat /\ aplicado <= saldo /\ (aplicado < monto => aplicado = saldo)
    BY <1>1, <2>2, AplicableType
  <2>4. f \in Filas(Deudas) /\ f.monto = aplicado /\ f.prioridad = c.prioridad /\ f.deuda = 0
    BY <1>2, <2>2, <2>3, FilaType
  <2>5. /\ (items' = items /\ saldo' = saldo) \/ (items' = Append(items, f) /\ saldo' = saldo - aplicado)
        /\ catalogo' = catalogo /\ recibos' = recibos /\ fase' = fase
    BY <2>1 DEF SinFila, Descuenta, persistente
  <2>6. monto > saldo /\ ~c.detener => saldo' <= 0
    <3>1. SUFFICES ASSUME monto > saldo, ~c.detener PROVE saldo' <= 0
      OBVIOUS
    <3>2. aplicado = saldo
      BY <1>1, <2>2, <2>3, <3>1
    <3>3. CASE SinFila
      <4>1. saldo' = saldo /\ saldo = 0
        BY <1>1, <2>1, <3>1, <3>2, <3>3 DEF SinFila, Descuenta
      <4> QED BY <4>1
    <3>4. CASE ~SinFila
      <4>1. saldo' = saldo - aplicado
        BY <2>1, <3>4 DEF Descuenta
      <4> QED BY <1>1, <3>2, <4>1
    <3> QED BY <3>3, <3>4
  <2>7. \A p \in faltas : ~catalogo.deducciones[p].detener /\ saldo <= 0
    BY DEF OrdenInv, Agotado
  <2> HIDE DEF monto, aplicado, f
  <2>8. saldo' <= saldo /\ saldo' \in Int
    BY <1>1, <2>3, <2>5
  <2>9. \A p \in faltas : aplicado = 0 /\ ~catalogo.deducciones[p].detener /\ saldo' <= 0
    BY <1>1, <2>3, <2>7, <2>8
  <2>10. Agotado'
    <3>1. \A p \in faltas' :
            IF catalogo.deducciones[p].detener THEN pendientes' = {} ELSE saldo' <= 0
      <4>1. SUFFICES ASSUME NEW p \in faltas'
                     PROVE  IF catalogo.deducciones[p].detener THEN pendientes' = {} ELSE saldo' <= 0
        OBVIOUS
      <4>2. CASE p \in faltas
        BY <2>9, <4>2
      <4>3. CASE p \notin faltas
        <5>1. p = i /\ monto > saldo
          BY <2>1, <4>3
        <5> QED BY <2>1, <2>6, <5>1
      <4> QED BY <4>2, <4>3
    <3> QED BY <2>5, <3>1 DEF Agotado
  <2>11. faltas' = faltas \/ faltas' = faltas \cup {i}
    BY <2>1
  <2>12. pendientes' \subseteq pendientes
    BY <2>1
  <2>13. \A p \in faltas : f.monto = 0
    BY <2>4, <2>9
  <2>14. items' = items \/ items' = Append(items, f)
    BY <2>5
  <2> QED BY <1>1, <2>4, <2>5, <2>10, <2>11, <2>12, <2>13, <2>14, AvanzaOrden
<1> QED BY <1>4, <1>5, <1>6

LEMMA DeudaOrden ==
  ASSUME IInv, OrdenInv, Deuda
  PROVE  OrdenInv'
<1> DEFINE f == FilaDeuda(k)
<1>1. fase = "deudas" /\ k \in Deudas
  BY DEF Deuda
<1>2. CASE Falla
  <2>1. catalogo' = catalogo /\ recibos' = recibos /\ Termina
    BY <1>2 DEF Falla
  <2> QED BY <2>1, RespetadosIgual, SinFilasOrden DEF Termina
<1>3. CASE ~Falla
  <2>1. /\ ~SinCambio(k)
        /\ fase' = fase /\ pendientes' = pendientes /\ faltas' = faltas
        /\ catalogo' = catalogo /\ recibos' = recibos
    BY <1>3 DEF Deuda, persistente
  <2>2. CASE ~(Alcanzada(k) /\ Abono(k) > 0 /\ Cuota(k) > 0)
    BY <1>3, <2>1, <2>2, IgualOrden DEF Deuda
  <2>3. CASE Alcanzada(k) /\ Abono(k) > 0 /\ Cuota(k) > 0
    <3>1. items' = Append(items, f) /\ saldo' = saldo - Cuota(k)
      BY <1>3, <2>3 DEF Deuda, Cobra
    <3>2. saldo > 0 /\ saldo \in Nat /\ Cambio(k)[1] # 0 /\ items \in Seq(Filas(Deudas))
      BY <2>1, <2>3 DEF Alcanzada, SinCambio, IInv, CalculoOK
    <3>3. Cuota(k) \in Nat /\ f \in Filas(Deudas) /\ f.deuda = k /\ k # 0
      BY <1>1, <3>2, CuotaType, DeudaFields DEF IInv, PersistenteOK, CalculoOK
    <3> HIDE DEF f
    <3>4. \A m \in DOMAIN items' : (m \in DOMAIN items /\ items'[m] = items[m]) \/ items'[m] = f
      BY <3>1, <3>2, <3>3
    <3>5. \A p \in faltas : catalogo.deducciones[p].detener /\ pendientes = {}
      BY <3>2 DEF OrdenInv, Agotado
    <3>6. \A p \in faltas, m \in DOMAIN items' : Cede(p, items'[m])
      <4>1. SUFFICES ASSUME NEW p \in faltas, NEW m \in DOMAIN items' PROVE Cede(p, items'[m])
        OBVIOUS
      <4>2. CASE m \in DOMAIN items /\ items'[m] = items[m]
        BY <4>2 DEF OrdenInv, Respeta
      <4>3. CASE items'[m] = f
        BY <3>3, <3>5, <4>3 DEF Cede
      <4> QED BY <3>4, <4>2, <4>3
    <3>7. Respeta(faltas, items)'
      BY <2>1, <3>6 DEF Respeta, Cede
    <3>8. Agotado' /\ PorVenir' /\ SinEmpezar' /\ Respetados'
      BY <1>1, <2>1, <3>5, RespetadosIgual DEF Agotado, PorVenir, SinEmpezar
    <3> QED BY <3>7, <3>8 DEF OrdenInv
  <2> QED BY <2>2, <2>3
<1> QED BY <1>2, <1>3

LEMMA ContabilizarOrden ==
  ASSUME IInv, OrdenInv, Contabilizar
  PROVE  OrdenInv'
<1> DEFINE r == ReciboCalculado
<1>1. CASE Falla
  <2>1. catalogo' = catalogo /\ recibos' = recibos /\ Termina
    BY <1>1 DEF Falla
  <2> QED BY <2>1, RespetadosIgual, SinFilasOrden DEF Termina
<1>2. CASE ~Falla
  <2>1. recibos' = Append(recibos, r) /\ Termina /\ catalogo' = catalogo
    BY <1>2 DEF Contabilizar
  <2>2. /\ r \in ReciboType /\ recibos \in Seq(ReciboType)
        /\ r.items = items /\ r.faltas = faltas
    BY ReciboCalculadoType DEF Contabilizar, IInv, PersistenteOK
  <2> HIDE DEF r
  <2>3. \A n \in DOMAIN recibos' : (n \in DOMAIN recibos /\ recibos'[n] = recibos[n]) \/ recibos'[n] = r
    BY <2>1, <2>2
  <2>4. \A n \in DOMAIN recibos' : Respeta(recibos'[n].faltas, recibos'[n].items)
    BY <2>2, <2>3 DEF OrdenInv, Respetados
  <2>5. Respetados'
    BY <2>1, <2>4 DEF Respetados, Respeta, Cede
  <2> QED BY <2>1, <2>5, SinFilasOrden DEF Termina
<1> QED BY <1>1, <1>2

\* Voiding and recalculating leave the rows of the payslips.
LEMMA EstadoOrden ==
  ASSUME IInv, OrdenInv, NEW n \in DOMAIN recibos, NEW e,
         recibos' = [recibos EXCEPT ![n].estado = e], catalogo' = catalogo
  PROVE  Respetados'
<1>1. recibos \in Seq(ReciboType)
  BY DEF IInv, PersistenteOK
<1>2. DOMAIN recibos' = DOMAIN recibos
  BY <1>1
<1>3. \A m \in DOMAIN recibos :
        recibos'[m].items = recibos[m].items /\ recibos'[m].faltas = recibos[m].faltas
  <2>1. SUFFICES ASSUME NEW m \in DOMAIN recibos
                 PROVE  recibos'[m].items = recibos[m].items /\ recibos'[m].faltas = recibos[m].faltas
    OBVIOUS
  <2>2. recibos[m] \in ReciboType
    BY <1>1
  <2>3. CASE m = n
    BY <1>1, <2>2, <2>3 DEF ReciboType
  <2>4. CASE m # n
    BY <1>1, <2>4
  <2> QED BY <2>3, <2>4
<1>4. \A m \in DOMAIN recibos' : Respeta(recibos'[m].faltas, recibos'[m].items)
  BY <1>2, <1>3 DEF OrdenInv, Respetados
<1> QED BY <1>4 DEF Respetados, Respeta, Cede

LEMMA NextOrden == IInv /\ OrdenInv /\ [Next]_vars => OrdenInv'
<1> SUFFICES ASSUME IInv, OrdenInv, [Next]_vars PROVE OrdenInv'
  OBVIOUS
<1>1. ASSUME NEW j \in Jornadas, Ejecutar(j) PROVE OrdenInv'
  <2>1. recibos' = recibos /\ catalogo' = catalogo
    BY <1>1 DEF Ejecutar
  <2>2. CASE Apto(j)
    BY <1>1, <2>1, <2>2, RespetadosIgual, SinFilasOrden DEF Ejecutar, Empieza
  <2>3. CASE ~Apto(j)
    BY <1>1, <2>1, <2>3, IgualOrden DEF Ejecutar, calculo
  <2> QED BY <2>2, <2>3
<1>2. CASE Percepcion
  <2>1. CASE Falla
    <3>1. catalogo' = catalogo /\ recibos' = recibos /\ Termina
      BY <2>1 DEF Falla
    <3> QED BY <3>1, RespetadosIgual, SinFilasOrden DEF Termina
  <2>2. CASE ~Falla
    <3>1. /\ recibos' = recibos /\ catalogo' = catalogo /\ items' = items /\ saldo' = saldo
          /\ pendientes' = pendientes /\ fase' = fase /\ faltas' = faltas
      BY <1>2, <2>2 DEF Percepcion, persistente
    <3> QED BY <3>1, IgualOrden
  <2> QED BY <2>1, <2>2
<1>3. CASE TerminaPercepciones
  <2>1. /\ items' = <<>> /\ faltas' = {} /\ fase' = "deducciones" /\ recibos' = recibos
        /\ catalogo' = catalogo
    BY <1>3 DEF TerminaPercepciones, persistente, OrdenInv, SinEmpezar
  <2>2. Agotado' /\ PorVenir' /\ SinEmpezar' /\ Respetados'
    BY <2>1, RespetadosIgual DEF Agotado, PorVenir, SinEmpezar
  <2>3. Respeta(faltas, items)'
    BY <2>1 DEF Respeta
  <2> QED BY <2>2, <2>3 DEF OrdenInv
<1>4. ASSUME NEW i \in pendientes, Deduccion(i) PROVE OrdenInv'
  BY <1>4, DeduccionOrden
<1>5. CASE TerminaDeducciones
  BY <1>5, IgualOrden DEF TerminaDeducciones, persistente
<1>6. CASE Deuda \/ Contabilizar
  BY <1>6, DeudaOrden, ContabilizarOrden
<1>7. ASSUME NEW n \in DOMAIN recibos, Anular(n) PROVE OrdenInv'
  <2>1. /\ items' = items /\ saldo' = saldo /\ pendientes' = pendientes /\ fase' = fase
        /\ catalogo' = catalogo /\ faltas' = faltas
    BY <1>7 DEF Anular, calculo
  <2>2. Respetados'
    BY <1>7, <2>1, EstadoOrden DEF Anular
  <2>3. Agotado' /\ PorVenir' /\ SinEmpezar' /\ Respeta(faltas, items)'
    BY <2>1 DEF OrdenInv, Agotado, PorVenir, SinEmpezar, Respeta, Cede
  <2> QED BY <2>2, <2>3 DEF OrdenInv
<1>8. ASSUME NEW n \in DOMAIN recibos, Recalcular(n) PROVE OrdenInv'
  <2>1. Respetados'
    BY <1>8, EstadoOrden DEF Recalcular
  <2> QED BY <1>8, <2>1, SinFilasOrden DEF Recalcular, Empieza
<1>9. CASE UNCHANGED vars
  BY <1>9, IgualOrden DEF vars, persistente, calculo
<1> QED BY <1>1, <1>2, <1>3, <1>4, <1>5, <1>6, <1>7, <1>8, <1>9 DEF Next

-----------------------------------------------------------------------------
(* Sums                                                                      *)

\* F adds up f over every subset of S, in whatever order.
EsSuma(F, f, S) ==
  /\ F \in [SUBSET S -> Int] /\ F[{}] = 0
  /\ \A T \in SUBSET S : \A x \in T : F[T] = f[x] + F[T \ {x}]

\* A property of the subsets of a finite set that fails fails for a smallest one.
LEMMA Minimo ==
  ASSUME NEW S, IsFiniteSet(S), NEW M \in SUBSET SUBSET S, M # {}
  PROVE  \E T \in M : \A U \in M : ~(U \subseteq T /\ U # T)
<1> DEFINE R == StrictSubsetOrdering(S)
<1>1. IsWellFoundedOn(R, FiniteSubsetsOf(S))
  BY FS_StrictSubsetOrderingWellFounded
<1>2. M \subseteq FiniteSubsetsOf(S)
  BY FS_FiniteSubsetsOfFinite
<1>3. PICK T \in M : \A U \in M : ~(<<U, T>> \in R)
  <2> HIDE DEF R
  <2> QED BY <1>1, <1>2, WFMin
<1>4. ASSUME NEW U \in M, U \subseteq T, U # T
      PROVE  FALSE
  <2>1. <<U, T>> \in R
    BY <1>4 DEF StrictSubsetOrdering
  <2> HIDE DEF R
  <2> QED BY <1>3, <2>1
<1> QED BY <1>4

LEMMA SumaExiste ==
  ASSUME NEW S, IsFiniteSet(S), NEW f \in [S -> Int]
  PROVE  \E F : EsSuma(F, f, S)
<1> DEFINE M == {T \in SUBSET S : \A F : ~EsSuma(F, f, T)}
<1> SUFFICES ASSUME M # {} PROVE FALSE
  OBVIOUS
<1>1. PICK T \in M : \A U \in M : ~(U \subseteq T /\ U # T)
  <2>1. M \in SUBSET SUBSET S
    OBVIOUS
  <2> HIDE DEF M
  <2> QED BY <2>1, Minimo
<1>2. T # {}
  <2> SUFFICES ASSUME T = {} PROVE FALSE
    OBVIOUS
  <2>1. EsSuma([X \in SUBSET {} |-> 0], f, {})
    BY DEF EsSuma
  <2> QED BY <2>1
<1>3. PICK x \in T : TRUE
  BY <1>2
<1> DEFINE V == T \ {x}
<1>4. PICK F : EsSuma(F, f, V)
  <2>1. V \in SUBSET S /\ V \subseteq T /\ V # T
    BY <1>3
  <2> QED BY <1>1, <2>1
<1> DEFINE G == [X \in SUBSET T |-> IF x \in X THEN f[x] + F[X \ {x}] ELSE F[X]]
<1>5. \A X \in SUBSET T : X \ {x} \in SUBSET V /\ (x \notin X => X \in SUBSET V)
  OBVIOUS
<1>6. \A X \in SUBSET V : F[X] \in Int
  BY <1>4 DEF EsSuma
<1>7. \A y \in T : f[y] \in Int
  OBVIOUS
<1>8. G \in [SUBSET T -> Int] /\ G[{}] = 0
  <2>1. F[{}] = 0
    BY <1>4 DEF EsSuma
  <2> QED BY <2>1, <1>5, <1>6, <1>7
<1>9. ASSUME NEW X \in SUBSET T, NEW y \in X
      PROVE  G[X] = f[y] + G[X \ {y}]
  <2>0. X \ {y} \in SUBSET T /\ y \in T
    OBVIOUS
  <2>1. CASE x \notin X
    <3>1. X \in SUBSET V
      BY <2>1
    <3>2. F[X] = f[y] + F[X \ {y}]
      BY <1>4, <3>1 DEF EsSuma
    <3> QED BY <2>0, <2>1, <3>2
  <2>2. CASE x \in X /\ y = x
    BY <2>0, <2>2
  <2>3. CASE x \in X /\ y # x
    <3>1. X \ {x} \in SUBSET V /\ y \in X \ {x} /\ x \in X \ {y}
      BY <2>3
    <3>2. F[X \ {x}] = f[y] + F[(X \ {x}) \ {y}]
      BY <1>4, <3>1 DEF EsSuma
    <3>3. (X \ {x}) \ {y} = (X \ {y}) \ {x}
      OBVIOUS
    <3>4. G[X] = f[x] + F[X \ {x}] /\ G[X \ {y}] = f[x] + F[(X \ {x}) \ {y}]
      BY <2>0, <2>3, <3>1, <3>3
    <3>5. F[(X \ {x}) \ {y}] \in Int /\ f[x] \in Int /\ f[y] \in Int
      BY <1>3, <1>6, <1>7, <2>0
    <3> HIDE DEF G
    <3> QED BY <3>2, <3>4, <3>5
  <2> QED BY <2>1, <2>2, <2>3
<1>10. EsSuma(G, f, T)
  <2> HIDE DEF G
  <2> QED BY <1>8, <1>9 DEF EsSuma
<1> QED BY <1>10

\* The sums of MapThenSumSet, which takes the members in an order of its own,
\* are those.
LEMMA SumaUnica ==
  ASSUME NEW S, IsFiniteSet(S), NEW f \in [S -> Int], NEW F, NEW G,
         EsSuma(F, f, S),
         G = [s \in SUBSET S |-> IF s = {} THEN 0
                 ELSE f[CHOOSE x \in s : TRUE] + G[s \ {CHOOSE x \in s : TRUE}]]
  PROVE  G = F
<1> DEFINE M == {T \in SUBSET S : F[T] # G[T]}
<1>1. M = {}
  <2> SUFFICES ASSUME M # {} PROVE FALSE
    OBVIOUS
  <2>1. PICK T \in M : \A U \in M : ~(U \subseteq T /\ U # T)
    <3>1. M \in SUBSET SUBSET S
      OBVIOUS
    <3> HIDE DEF M
    <3> QED BY <3>1, Minimo
  <2>2. CASE T = {}
    <3>1. G[{}] = 0
      OBVIOUS
    <3> QED BY <2>2, <3>1 DEF EsSuma
  <2>3. CASE T # {}
    <3> DEFINE x == CHOOSE x \in T : TRUE
    <3>1. x \in T
      BY <2>3
    <3>2. G[T] = f[x] + G[T \ {x}]
      BY <2>3
    <3>3. F[T] = f[x] + F[T \ {x}]
      BY <3>1 DEF EsSuma
    <3>4. T \ {x} \notin M
      BY <2>1, <3>1
    <3>5. T \ {x} \in SUBSET S
      OBVIOUS
    <3> HIDE DEF x
    <3> QED BY <3>2, <3>3, <3>4, <3>5
  <2> QED BY <2>2, <2>3
<1>2. G = [s \in SUBSET S |-> G[s]] /\ F = [s \in SUBSET S |-> F[s]]
  BY DEF EsSuma
<1> QED BY <1>1, <1>2

\* A sum of what is not negative is not, and is no less than what it adds.
LEMMA SumaCota ==
  ASSUME NEW S, IsFiniteSet(S), NEW f \in [S -> Nat], NEW F, EsSuma(F, f, S)
  PROVE  F[S] \in Nat /\ \A x \in S : f[x] <= F[S]
<1> DEFINE M == {T \in SUBSET S : F[T] \notin Nat}
<1>1. M = {}
  <2> SUFFICES ASSUME M # {} PROVE FALSE
    OBVIOUS
  <2>1. PICK T \in M : \A U \in M : ~(U \subseteq T /\ U # T)
    <3>1. M \in SUBSET SUBSET S
      OBVIOUS
    <3> HIDE DEF M
    <3> QED BY <3>1, Minimo
  <2>2. T # {}
    <3>1. F[T] \notin Nat /\ F[{}] = 0
      BY DEF EsSuma
    <3> QED BY <3>1
  <2>3. PICK x \in T : TRUE
    BY <2>2
  <2>4. F[T] = f[x] + F[T \ {x}]
    BY <2>3 DEF EsSuma
  <2>5. F[T \ {x}] \in Nat
    BY <2>1, <2>3
  <2> QED BY <2>4, <2>5
<1>2. \A T \in SUBSET S : F[T] \in Nat
  BY <1>1
<1>3. ASSUME NEW x \in S
      PROVE  f[x] <= F[S]
  <2>1. F[S] = f[x] + F[S \ {x}] /\ F[S \ {x}] \in Nat
    BY <1>2 DEF EsSuma
  <2> QED BY <2>1
<1> QED BY <1>2, <1>3

\* The sum of f over S, which is the only one there is.
Suma(f, S) == (CHOOSE F : EsSuma(F, f, S))[S]

LEMMA SumaDe ==
  ASSUME NEW S, IsFiniteSet(S), NEW f \in [S -> Int], NEW F, EsSuma(F, f, S)
  PROVE  Suma(f, S) = F[S]
<1> DEFINE G == CHOOSE F_1 : EsSuma(F_1, f, S)
<1>1. EsSuma(G, f, S)
  BY SumaExiste
<1>2. Suma(f, S) = G[S]
  BY DEF Suma
<1> HIDE DEF G
<1>3. G = [s \in SUBSET S |-> IF s = {} THEN 0
              ELSE f[CHOOSE y \in s : TRUE] + G[s \ {CHOOSE y \in s : TRUE}]]
  BY <1>1 DEF EsSuma
<1>4. G = F
  BY <1>3, SumaUnica
<1> QED BY <1>2, <1>4

LEMMA SumaVacia ==
  ASSUME NEW f \in [{} -> Int]
  PROVE  Suma(f, {}) = 0
<1>1. IsFiniteSet({})
  BY FS_EmptySet
<1>2. PICK F : EsSuma(F, f, {})
  BY <1>1, SumaExiste
<1>3. Suma(f, {}) = F[{}]
  BY <1>1, <1>2, SumaDe
<1> QED BY <1>2, <1>3 DEF EsSuma

LEMMA SumaNat ==
  ASSUME NEW S, IsFiniteSet(S), NEW f \in [S -> Nat]
  PROVE  Suma(f, S) \in Nat
<1>1. f \in [S -> Int]
  OBVIOUS
<1>2. PICK F : EsSuma(F, f, S)
  BY <1>1, SumaExiste
<1> QED BY <1>1, <1>2, SumaDe, SumaCota

\* A sum of amounts over fewer is no more.
LEMMA SumaMenor ==
  ASSUME NEW S, IsFiniteSet(S), NEW f \in [S -> Nat], NEW V \in SUBSET S,
         NEW h \in [V -> Nat], \A y \in V : h[y] = f[y]
  PROVE  Suma(h, V) <= Suma(f, S) /\ Suma(h, V) \in Nat /\ Suma(f, S) \in Nat
<1>0. f \in [S -> Int] /\ h \in [V -> Int]
  OBVIOUS
<1>1. IsFiniteSet(V)
  BY FS_Subset
<1>2. PICK F : EsSuma(F, f, S)
  BY <1>0, SumaExiste
<1> DEFINE H == [T \in SUBSET V |-> F[T]]
<1>3. EsSuma(H, h, V)
  <2>1. H \in [SUBSET V -> Int] /\ H[{}] = 0
    BY <1>0, <1>2 DEF EsSuma
  <2>2. ASSUME NEW T \in SUBSET V, NEW y \in T
        PROVE  H[T] = h[y] + H[T \ {y}]
    <3>1. F[T] = f[y] + F[T \ {y}]
      BY <1>0, <1>2 DEF EsSuma
    <3>2. T \ {y} \in SUBSET V /\ h[y] = f[y]
      OBVIOUS
    <3> QED BY <3>1, <3>2
  <2> HIDE DEF H
  <2> QED BY <2>1, <2>2 DEF EsSuma
<1>4. Suma(f, S) = F[S] /\ Suma(h, V) = H[V] /\ H[V] = F[V]
  <2>1. H[V] = F[V]
    OBVIOUS
  <2> HIDE DEF H
  <2> QED BY <1>0, <1>1, <1>2, <1>3, <2>1, SumaDe
<1> HIDE DEF H
<1> DEFINE M == {T \in SUBSET S : V \subseteq T /\ ~(F[V] <= F[T])}
<1>5. \A T \in SUBSET S : F[T] \in Int
  BY <1>2 DEF EsSuma
<1>6. M = {}
  <2> SUFFICES ASSUME M # {} PROVE FALSE
    OBVIOUS
  <2>1. PICK T \in M : \A U \in M : ~(U \subseteq T /\ U # T)
    <3>1. M \in SUBSET SUBSET S
      OBVIOUS
    <3> HIDE DEF M
    <3> QED BY <3>1, Minimo
  <2>2. T # V
    <3>1. F[V] \in Int
      BY <1>5
    <3> QED BY <3>1
  <2>3. PICK x \in T : x \notin V
    BY <2>2
  <2>4. F[T] = f[x] + F[T \ {x}]
    BY <1>2, <2>3 DEF EsSuma
  <2>5. F[V] <= F[T \ {x}]
    <3>1. T \ {x} \notin M
      BY <2>1, <2>3
    <3> QED BY <2>3, <3>1
  <2>6. f[x] \in Nat /\ F[T \ {x}] \in Int /\ F[V] \in Int
    BY <1>5
  <2>7. F[V] <= F[T]
    BY <2>4, <2>5, <2>6
  <2> QED BY <2>7
<1>7. F[V] <= F[S]
  BY <1>6
<1>8. Suma(f, S) \in Nat /\ Suma(h, V) \in Nat
  BY <1>1, SumaNat
<1> QED BY <1>4, <1>7, <1>8

\* Taking a member away takes its amount off the sum.
LEMMA SumaSin ==
  ASSUME NEW S, IsFiniteSet(S), NEW f \in [S -> Nat], NEW x \in S,
         NEW h \in [S \ {x} -> Nat], \A y \in S \ {x} : h[y] = f[y]
  PROVE  /\ Suma(f, S) = f[x] + Suma(h, S \ {x})
         /\ Suma(f, S) \in Nat /\ Suma(h, S \ {x}) \in Nat
<1> DEFINE V == S \ {x}
<1>0. f \in [S -> Int] /\ h \in [V -> Int] /\ V \subseteq S
  OBVIOUS
<1>1. IsFiniteSet(V)
  BY FS_Subset
<1>2. PICK F : EsSuma(F, f, S)
  BY <1>0, SumaExiste
<1> DEFINE H == [T \in SUBSET V |-> F[T]]
<1>3. EsSuma(H, h, V)
  <2>1. H \in [SUBSET V -> Int] /\ H[{}] = 0
    BY <1>0, <1>2 DEF EsSuma
  <2>2. ASSUME NEW T \in SUBSET V, NEW y \in T
        PROVE  H[T] = h[y] + H[T \ {y}]
    <3>1. F[T] = f[y] + F[T \ {y}]
      BY <1>0, <1>2 DEF EsSuma
    <3>2. T \ {y} \in SUBSET V /\ h[y] = f[y]
      OBVIOUS
    <3> QED BY <3>1, <3>2
  <2> HIDE DEF H, V
  <2> QED BY <2>1, <2>2 DEF EsSuma
<1>4. F[S] = f[x] + F[V]
  BY <1>2 DEF EsSuma
<1>5. F[V] = H[V]
  OBVIOUS
<1> HIDE DEF H, V
<1>6. Suma(f, S) = F[S] /\ Suma(h, V) = H[V]
  BY <1>0, <1>1, <1>2, <1>3, SumaDe
<1>7. F[S] \in Nat /\ H[V] \in Nat
  <2>1. F[S] \in Nat
    BY <1>2, SumaCota
  <2>2. h \in [V -> Nat]
    BY DEF V
  <2>3. H[V] \in Nat
    BY <1>1, <1>3, <2>2, SumaCota
  <2> QED BY <2>1, <2>3
<1> QED BY <1>4, <1>5, <1>6, <1>7 DEF V

-----------------------------------------------------------------------------
(* What the payslips that stand add up to                                    *)

Brutos    == [n \in Vigentes |-> recibos[n].bruto]
Gravables == [n \in Vigentes |-> recibos[n].gravable]
Antes     == [n \in Vigentes |-> recibos[n].retenido.antes]
Impuestos == [n \in Vigentes |-> recibos[n].retenido.impuesto]
Pagados(x) == [n \in Vigentes |-> recibos[n].montos[x]]

LEMMA VigentesType ==
  recibos \in Seq(ReciboType) =>
    /\ IsFiniteSet(Vigentes)
    /\ Gravables \in [Vigentes -> Nat] /\ Antes \in [Vigentes -> Nat]
    /\ Impuestos \in [Vigentes -> Nat]
    /\ Brutos \in [Vigentes -> Nat]
    /\ \A x \in Codigos : Pagados(x) \in [Vigentes -> Nat]
<1> SUFFICES ASSUME recibos \in Seq(ReciboType)
             PROVE  /\ IsFiniteSet(Vigentes)
                    /\ Gravables \in [Vigentes -> Nat] /\ Antes \in [Vigentes -> Nat]
                    /\ Impuestos \in [Vigentes -> Nat]
                    /\ Brutos \in [Vigentes -> Nat]
                    /\ \A x \in Codigos : Pagados(x) \in [Vigentes -> Nat]
  OBVIOUS
<1>1. IsFiniteSet(Vigentes)
  <2>1. IsFiniteSet(1 .. Len(recibos))
    BY FS_Interval
  <2>2. Vigentes \subseteq 1 .. Len(recibos)
    BY DEF Vigentes
  <2> QED BY <2>1, <2>2, FS_Subset
<1>2. \A n \in Vigentes : recibos[n] \in ReciboType
  BY DEF Vigentes
<1>3. /\ \A n \in Vigentes : recibos[n].bruto \in Nat
      /\ \A n \in Vigentes : recibos[n].gravable \in Nat /\ recibos[n].retenido.antes \in Nat
      /\ \A n \in Vigentes : recibos[n].retenido.impuesto \in Nat
      /\ \A n \in Vigentes : recibos[n].montos \in [Codigos -> Nat]
  BY <1>2, ReciboFields
<1> QED BY <1>1, <1>3 DEF Brutos, Gravables, Antes, Impuestos, Pagados

LEMMA GravablesEs ==
  ASSUME IsFiniteSet(Vigentes), Gravables \in [Vigentes -> Nat]
  PROVE  DeVigentes(LAMBDA r : r.gravable) = Suma(Gravables, Vigentes)
<1> DEFINE u == Gravables
           G == CHOOSE g : g = [s \in SUBSET Vigentes |-> IF s = {} THEN 0
                  ELSE recibos[CHOOSE n \in s : TRUE].gravable + g[s \ {CHOOSE n \in s : TRUE}]]
<1>0. u \in [Vigentes -> Int] /\ \A n \in Vigentes : u[n] = recibos[n].gravable
  BY DEF Gravables
<1>1. DeVigentes(LAMBDA r : r.gravable) = G[Vigentes]
  BY DEF DeVigentes, MapThenSumSet, MapThenFoldSet
<1> HIDE DEF u
<1>2. PICK U : EsSuma(U, u, Vigentes)
  BY <1>0, SumaExiste
<1>3. U = [s \in SUBSET Vigentes |-> IF s = {} THEN 0
              ELSE u[CHOOSE n \in s : TRUE] + U[s \ {CHOOSE n \in s : TRUE}]]
  BY <1>2 DEF EsSuma
<1>4. U = [s \in SUBSET Vigentes |-> IF s = {} THEN 0
              ELSE recibos[CHOOSE n \in s : TRUE].gravable + U[s \ {CHOOSE n \in s : TRUE}]]
  BY <1>0, <1>3
<1>5. G = [s \in SUBSET Vigentes |-> IF s = {} THEN 0
              ELSE recibos[CHOOSE n \in s : TRUE].gravable + G[s \ {CHOOSE n \in s : TRUE}]]
  BY <1>4
<1> HIDE DEF G
<1>6. G = [s \in SUBSET Vigentes |-> IF s = {} THEN 0
              ELSE u[CHOOSE n \in s : TRUE] + G[s \ {CHOOSE n \in s : TRUE}]]
  BY <1>0, <1>5
<1>7. G = U
  BY <1>0, <1>2, <1>6, SumaUnica
<1>8. Suma(u, Vigentes) = U[Vigentes]
  BY <1>0, <1>2, SumaDe
<1> QED BY <1>1, <1>7, <1>8 DEF u

LEMMA BrutosEs ==
  ASSUME IsFiniteSet(Vigentes), Brutos \in [Vigentes -> Nat]
  PROVE  DeVigentes(LAMBDA r : r.bruto) = Suma(Brutos, Vigentes)
<1> DEFINE u == Brutos
           G == CHOOSE g : g = [s \in SUBSET Vigentes |-> IF s = {} THEN 0
                  ELSE recibos[CHOOSE n \in s : TRUE].bruto + g[s \ {CHOOSE n \in s : TRUE}]]
<1>0. u \in [Vigentes -> Int] /\ \A n \in Vigentes : u[n] = recibos[n].bruto
  BY DEF Brutos
<1>1. DeVigentes(LAMBDA r : r.bruto) = G[Vigentes]
  BY DEF DeVigentes, MapThenSumSet, MapThenFoldSet
<1> HIDE DEF u
<1>2. PICK U : EsSuma(U, u, Vigentes)
  BY <1>0, SumaExiste
<1>3. U = [s \in SUBSET Vigentes |-> IF s = {} THEN 0
              ELSE u[CHOOSE n \in s : TRUE] + U[s \ {CHOOSE n \in s : TRUE}]]
  BY <1>2 DEF EsSuma
<1>4. U = [s \in SUBSET Vigentes |-> IF s = {} THEN 0
              ELSE recibos[CHOOSE n \in s : TRUE].bruto + U[s \ {CHOOSE n \in s : TRUE}]]
  BY <1>0, <1>3
<1>5. G = [s \in SUBSET Vigentes |-> IF s = {} THEN 0
              ELSE recibos[CHOOSE n \in s : TRUE].bruto + G[s \ {CHOOSE n \in s : TRUE}]]
  BY <1>4
<1> HIDE DEF G
<1>6. G = [s \in SUBSET Vigentes |-> IF s = {} THEN 0
              ELSE u[CHOOSE n \in s : TRUE] + G[s \ {CHOOSE n \in s : TRUE}]]
  BY <1>0, <1>5
<1>7. G = U
  BY <1>0, <1>2, <1>6, SumaUnica
<1>8. Suma(u, Vigentes) = U[Vigentes]
  BY <1>0, <1>2, SumaDe
<1> QED BY <1>1, <1>7, <1>8 DEF u

LEMMA AntesEs ==
  ASSUME IsFiniteSet(Vigentes), Antes \in [Vigentes -> Nat]
  PROVE  DeVigentes(LAMBDA r : r.retenido.antes) = Suma(Antes, Vigentes)
<1> DEFINE u == Antes
           G == CHOOSE g : g = [s \in SUBSET Vigentes |-> IF s = {} THEN 0
                  ELSE recibos[CHOOSE n \in s : TRUE].retenido.antes + g[s \ {CHOOSE n \in s : TRUE}]]
<1>0. u \in [Vigentes -> Int] /\ \A n \in Vigentes : u[n] = recibos[n].retenido.antes
  BY DEF Antes
<1>1. DeVigentes(LAMBDA r : r.retenido.antes) = G[Vigentes]
  BY DEF DeVigentes, MapThenSumSet, MapThenFoldSet
<1> HIDE DEF u
<1>2. PICK U : EsSuma(U, u, Vigentes)
  BY <1>0, SumaExiste
<1>3. U = [s \in SUBSET Vigentes |-> IF s = {} THEN 0
              ELSE u[CHOOSE n \in s : TRUE] + U[s \ {CHOOSE n \in s : TRUE}]]
  BY <1>2 DEF EsSuma
<1>4. U = [s \in SUBSET Vigentes |-> IF s = {} THEN 0
              ELSE recibos[CHOOSE n \in s : TRUE].retenido.antes + U[s \ {CHOOSE n \in s : TRUE}]]
  BY <1>0, <1>3
<1>5. G = [s \in SUBSET Vigentes |-> IF s = {} THEN 0
              ELSE recibos[CHOOSE n \in s : TRUE].retenido.antes + G[s \ {CHOOSE n \in s : TRUE}]]
  BY <1>4
<1> HIDE DEF G
<1>6. G = [s \in SUBSET Vigentes |-> IF s = {} THEN 0
              ELSE u[CHOOSE n \in s : TRUE] + G[s \ {CHOOSE n \in s : TRUE}]]
  BY <1>0, <1>5
<1>7. G = U
  BY <1>0, <1>2, <1>6, SumaUnica
<1>8. Suma(u, Vigentes) = U[Vigentes]
  BY <1>0, <1>2, SumaDe
<1> QED BY <1>1, <1>7, <1>8 DEF u

LEMMA ImpuestosEs ==
  ASSUME IsFiniteSet(Vigentes), Impuestos \in [Vigentes -> Nat]
  PROVE  DeVigentes(LAMBDA r : r.retenido.impuesto) = Suma(Impuestos, Vigentes)
<1> DEFINE u == Impuestos
           G == CHOOSE g : g = [s \in SUBSET Vigentes |-> IF s = {} THEN 0
                  ELSE recibos[CHOOSE n \in s : TRUE].retenido.impuesto + g[s \ {CHOOSE n \in s : TRUE}]]
<1>0. u \in [Vigentes -> Int] /\ \A n \in Vigentes : u[n] = recibos[n].retenido.impuesto
  BY DEF Impuestos
<1>1. DeVigentes(LAMBDA r : r.retenido.impuesto) = G[Vigentes]
  BY DEF DeVigentes, MapThenSumSet, MapThenFoldSet
<1> HIDE DEF u
<1>2. PICK U : EsSuma(U, u, Vigentes)
  BY <1>0, SumaExiste
<1>3. U = [s \in SUBSET Vigentes |-> IF s = {} THEN 0
              ELSE u[CHOOSE n \in s : TRUE] + U[s \ {CHOOSE n \in s : TRUE}]]
  BY <1>2 DEF EsSuma
<1>4. U = [s \in SUBSET Vigentes |-> IF s = {} THEN 0
              ELSE recibos[CHOOSE n \in s : TRUE].retenido.impuesto + U[s \ {CHOOSE n \in s : TRUE}]]
  BY <1>0, <1>3
<1>5. G = [s \in SUBSET Vigentes |-> IF s = {} THEN 0
              ELSE recibos[CHOOSE n \in s : TRUE].retenido.impuesto + G[s \ {CHOOSE n \in s : TRUE}]]
  BY <1>4
<1> HIDE DEF G
<1>6. G = [s \in SUBSET Vigentes |-> IF s = {} THEN 0
              ELSE u[CHOOSE n \in s : TRUE] + G[s \ {CHOOSE n \in s : TRUE}]]
  BY <1>0, <1>5
<1>7. G = U
  BY <1>0, <1>2, <1>6, SumaUnica
<1>8. Suma(u, Vigentes) = U[Vigentes]
  BY <1>0, <1>2, SumaDe
<1> QED BY <1>1, <1>7, <1>8 DEF u

LEMMA SumasMas ==
  ASSUME recibos \in Seq(ReciboType), NEW r \in ReciboType, r.estado = "vigente",
         recibos' = Append(recibos, r), catalogo' = catalogo
  PROVE  /\ Suma(Gravables', Vigentes') = Suma(Gravables, Vigentes) + r.gravable
         /\ Suma(Antes', Vigentes') = Suma(Antes, Vigentes) + r.retenido.antes
         /\ Suma(Brutos', Vigentes') = Suma(Brutos, Vigentes) + r.bruto
         /\ Suma(Impuestos', Vigentes') = Suma(Impuestos, Vigentes) + r.retenido.impuesto
         /\ Cardinality(Vigentes') = Cardinality(Vigentes) + 1
         /\ \A x \in Codigos :
              Suma(Pagados(x)', Vigentes') = Suma(Pagados(x), Vigentes) + r.montos[x]
<1> DEFINE n == Len(recibos) + 1
<1>1. /\ recibos' \in Seq((ReciboType)') /\ Len(recibos') = n /\ recibos'[n] = r
      /\ n \notin Vigentes
      /\ \A m \in DOMAIN recibos : m \in DOMAIN recibos' /\ recibos'[m] = recibos[m]
      /\ \A m \in DOMAIN recibos' : m \in DOMAIN recibos \/ m = n
      /\ n \in DOMAIN recibos'
  BY TiposFijos DEF Vigentes
<1> HIDE DEF n
<1>2. Vigentes' = Vigentes \cup {n} /\ n \in Vigentes' /\ Vigentes = Vigentes' \ {n}
  BY <1>1 DEF Vigentes
<1>3. \A m \in Vigentes' \ {n} : m \in Vigentes /\ recibos'[m] = recibos[m]
  BY <1>1, <1>2 DEF Vigentes
<1>4. /\ IsFiniteSet(Vigentes) /\ IsFiniteSet(Vigentes')
      /\ Gravables \in [Vigentes' \ {n} -> Nat] /\ Gravables' \in [Vigentes' -> Nat]
      /\ Antes \in [Vigentes' \ {n} -> Nat] /\ Antes' \in [Vigentes' -> Nat]
      /\ Brutos \in [Vigentes' \ {n} -> Nat] /\ Brutos' \in [Vigentes' -> Nat]
      /\ Impuestos \in [Vigentes' \ {n} -> Nat] /\ Impuestos' \in [Vigentes' -> Nat]
      /\ \A x \in Codigos : Pagados(x) \in [Vigentes' \ {n} -> Nat]
      /\ \A x \in Codigos : Pagados(x)' \in [Vigentes' -> Nat]
  <2>0. (recibos \in Seq(ReciboType))'
    BY <1>1
  <2>1. (/\ IsFiniteSet(Vigentes)
         /\ Gravables \in [Vigentes -> Nat] /\ Antes \in [Vigentes -> Nat]
         /\ Impuestos \in [Vigentes -> Nat]
         /\ Brutos \in [Vigentes -> Nat]
         /\ \A x \in Codigos : Pagados(x) \in [Vigentes -> Nat])'
    BY <2>0, VigentesType, PTL
  <2> QED BY <1>2, <2>1, VigentesType
<1>5. Suma(Gravables', Vigentes') = Suma(Gravables, Vigentes) + r.gravable
  <2>1. \A m \in Vigentes' \ {n} : Gravables[m] = Gravables'[m]
    BY <1>3 DEF Gravables
  <2>2. Gravables'[n] = r.gravable /\ r.gravable \in Nat
    BY <1>1, <1>2, ReciboFields DEF Gravables
  <2>3. Gravables \in [Vigentes' \ {n} -> Nat]
    BY <1>4
  <2>4. Gravables' \in [Vigentes' -> Nat]
    BY <1>4
  <2>5. IsFiniteSet(Vigentes') /\ n \in Vigentes'
    BY <1>2, <1>4
  <2>6. /\ Suma(Gravables', Vigentes') = Gravables'[n] + Suma(Gravables, Vigentes' \ {n})
        /\ Suma(Gravables, Vigentes' \ {n}) \in Nat
    BY <2>1, <2>3, <2>4, <2>5, SumaSin
  <2>7. Suma(Gravables, Vigentes' \ {n}) = Suma(Gravables, Vigentes)
    BY <1>2, Zenon
  <2> QED BY <2>2, <2>6, <2>7
<1>6. Suma(Antes', Vigentes') = Suma(Antes, Vigentes) + r.retenido.antes
  <2>1. \A m \in Vigentes' \ {n} : Antes[m] = Antes'[m]
    BY <1>3 DEF Antes
  <2>2. Antes'[n] = r.retenido.antes /\ r.retenido.antes \in Nat
    BY <1>1, <1>2, ReciboFields DEF Antes
  <2>3. Antes \in [Vigentes' \ {n} -> Nat]
    BY <1>4
  <2>4. Antes' \in [Vigentes' -> Nat]
    BY <1>4
  <2>5. IsFiniteSet(Vigentes') /\ n \in Vigentes'
    BY <1>2, <1>4
  <2>6. /\ Suma(Antes', Vigentes') = Antes'[n] + Suma(Antes, Vigentes' \ {n})
        /\ Suma(Antes, Vigentes' \ {n}) \in Nat
    BY <2>1, <2>3, <2>4, <2>5, SumaSin
  <2>7. Suma(Antes, Vigentes' \ {n}) = Suma(Antes, Vigentes)
    BY <1>2, Zenon
  <2> QED BY <2>2, <2>6, <2>7
<1>7. Suma(Impuestos', Vigentes') = Suma(Impuestos, Vigentes) + r.retenido.impuesto
  <2>1. \A m \in Vigentes' \ {n} : Impuestos[m] = Impuestos'[m]
    BY <1>3 DEF Impuestos
  <2>2. Impuestos'[n] = r.retenido.impuesto /\ r.retenido.impuesto \in Nat
    BY <1>1, <1>2, ReciboFields DEF Impuestos
  <2>3. Impuestos \in [Vigentes' \ {n} -> Nat]
    BY <1>4
  <2>4. Impuestos' \in [Vigentes' -> Nat]
    BY <1>4
  <2>5. IsFiniteSet(Vigentes') /\ n \in Vigentes'
    BY <1>2, <1>4
  <2>6. /\ Suma(Impuestos', Vigentes') = Impuestos'[n] + Suma(Impuestos, Vigentes' \ {n})
        /\ Suma(Impuestos, Vigentes' \ {n}) \in Nat
    BY <2>1, <2>3, <2>4, <2>5, SumaSin
  <2>7. Suma(Impuestos, Vigentes' \ {n}) = Suma(Impuestos, Vigentes)
    BY <1>2, Zenon
  <2> QED BY <2>2, <2>6, <2>7
<1>8. ASSUME NEW x \in Codigos
      PROVE  Suma(Pagados(x)', Vigentes') = Suma(Pagados(x), Vigentes) + r.montos[x]
  <2>1. \A m \in Vigentes' \ {n} : Pagados(x)[m] = Pagados(x)'[m]
    BY <1>3 DEF Pagados
  <2>2. Pagados(x)'[n] = r.montos[x] /\ r.montos[x] \in Nat
    BY <1>1, <1>2, ReciboFields DEF Pagados
  <2>3. Pagados(x) \in [Vigentes' \ {n} -> Nat]
    BY <1>4
  <2>4. Pagados(x)' \in [Vigentes' -> Nat]
    BY <1>4
  <2>5. IsFiniteSet(Vigentes') /\ n \in Vigentes'
    BY <1>2, <1>4
  <2>6. /\ Suma(Pagados(x)', Vigentes') = Pagados(x)'[n] + Suma(Pagados(x), Vigentes' \ {n})
        /\ Suma(Pagados(x), Vigentes' \ {n}) \in Nat
    BY <2>1, <2>3, <2>4, <2>5, SumaSin
  <2>7. Suma(Pagados(x), Vigentes' \ {n}) = Suma(Pagados(x), Vigentes)
    BY <1>2, Zenon
  <2> QED BY <2>2, <2>6, <2>7
<1>9. Cardinality(Vigentes') = Cardinality(Vigentes) + 1
  BY <1>1, <1>2, <1>4, FS_AddElement
<1>10. Suma(Brutos', Vigentes') = Suma(Brutos, Vigentes) + r.bruto
  <2>1. \A m \in Vigentes' \ {n} : Brutos[m] = Brutos'[m]
    BY <1>3 DEF Brutos
  <2>2. Brutos'[n] = r.bruto /\ r.bruto \in Nat
    BY <1>1, <1>2, ReciboFields DEF Brutos
  <2>3. Brutos \in [Vigentes' \ {n} -> Nat]
    BY <1>4
  <2>4. Brutos' \in [Vigentes' -> Nat]
    BY <1>4
  <2>5. IsFiniteSet(Vigentes') /\ n \in Vigentes'
    BY <1>2, <1>4
  <2>6. /\ Suma(Brutos', Vigentes') = Brutos'[n] + Suma(Brutos, Vigentes' \ {n})
        /\ Suma(Brutos, Vigentes' \ {n}) \in Nat
    BY <2>1, <2>3, <2>4, <2>5, SumaSin
  <2>7. Suma(Brutos, Vigentes' \ {n}) = Suma(Brutos, Vigentes)
    BY <1>2, Zenon
  <2> QED BY <2>2, <2>6, <2>7
<1> QED BY <1>5, <1>6, <1>7, <1>8, <1>9, <1>10

LEMMA SumasMenos ==
  ASSUME recibos \in Seq(ReciboType), NEW n \in Vigentes, NEW e \in {"anulado", "recalculado"},
         recibos' = [recibos EXCEPT ![n].estado = e], catalogo' = catalogo
  PROVE  /\ Suma(Gravables, Vigentes) = recibos[n].gravable + Suma(Gravables', Vigentes')
         /\ Suma(Antes, Vigentes) = recibos[n].retenido.antes + Suma(Antes', Vigentes')
         /\ Suma(Brutos, Vigentes) = recibos[n].bruto + Suma(Brutos', Vigentes')
         /\ Suma(Impuestos, Vigentes) = recibos[n].retenido.impuesto + Suma(Impuestos', Vigentes')
         /\ Cardinality(Vigentes) = Cardinality(Vigentes') + 1
         /\ \A x \in Codigos :
              Suma(Pagados(x), Vigentes) = recibos[n].montos[x] + Suma(Pagados(x)', Vigentes')
         /\ Suma(Gravables', Vigentes') \in Nat /\ Suma(Antes', Vigentes') \in Nat
         /\ Suma(Impuestos', Vigentes') \in Nat /\ Cardinality(Vigentes') \in Nat
         /\ Suma(Brutos', Vigentes') \in Nat
         /\ \A x \in Codigos : Suma(Pagados(x)', Vigentes') \in Nat
         /\ (\A m \in DOMAIN recibos' \ Vigentes' : Exacto(recibos'[m]))
              => Exacto(recibos[n]) /\ \A m \in DOMAIN recibos \ Vigentes : Exacto(recibos[m])
<1>1. /\ DOMAIN recibos' = DOMAIN recibos /\ n \in DOMAIN recibos
      /\ recibos[n] \in ReciboType
      /\ \A m \in DOMAIN recibos \ {n} : recibos'[m] = recibos[m]
      /\ recibos'[n] = [recibos[n] EXCEPT !.estado = e]
  BY DEF Vigentes
<1>2. recibos'[n].estado = e
  BY <1>1 DEF ReciboType
<1>3. Vigentes' = Vigentes \ {n} /\ n \notin Vigentes'
  BY <1>1, <1>2 DEF Vigentes
<1>4. \A m \in Vigentes \ {n} : recibos'[m] = recibos[m]
  BY <1>1 DEF Vigentes
<1>5. recibos' \in Seq((ReciboType)')
  <2>1. recibos'[n] \in ReciboType
    BY <1>1 DEF ReciboType
  <2>2. recibos' = [recibos EXCEPT ![n] = recibos'[n]]
    OBVIOUS
  <2>3. recibos' \in Seq(ReciboType)
    <3> DEFINE r == recibos'[n]
    <3> HIDE DEF r
    <3> QED BY <1>1, <2>1, <2>2 DEF r
  <2> QED BY <2>3, TiposFijos
<1>6. /\ IsFiniteSet(Vigentes) /\ IsFiniteSet(Vigentes')
      /\ Gravables \in [Vigentes -> Nat] /\ Gravables' \in [Vigentes \ {n} -> Nat]
      /\ Antes \in [Vigentes -> Nat] /\ Antes' \in [Vigentes \ {n} -> Nat]
      /\ Brutos \in [Vigentes -> Nat] /\ Brutos' \in [Vigentes \ {n} -> Nat]
      /\ Impuestos \in [Vigentes -> Nat] /\ Impuestos' \in [Vigentes \ {n} -> Nat]
      /\ \A x \in Codigos : Pagados(x) \in [Vigentes -> Nat]
      /\ \A x \in Codigos : Pagados(x)' \in [Vigentes \ {n} -> Nat]
  <2>0. (recibos \in Seq(ReciboType))'
    BY <1>5
  <2>1. (/\ IsFiniteSet(Vigentes)
         /\ Gravables \in [Vigentes -> Nat] /\ Antes \in [Vigentes -> Nat]
         /\ Impuestos \in [Vigentes -> Nat]
         /\ Brutos \in [Vigentes -> Nat]
         /\ \A x \in Codigos : Pagados(x) \in [Vigentes -> Nat])'
    BY <2>0, VigentesType, PTL
  <2> QED BY <1>3, <2>1, VigentesType
<1>7. /\ Suma(Gravables, Vigentes) = recibos[n].gravable + Suma(Gravables', Vigentes')
      /\ Suma(Gravables', Vigentes') \in Nat
  <2>1. \A m \in Vigentes \ {n} : Gravables'[m] = Gravables[m]
    BY <1>3, <1>4 DEF Gravables
  <2>2. Gravables[n] = recibos[n].gravable
    BY DEF Gravables
  <2>3. Gravables \in [Vigentes -> Nat]
    BY <1>6
  <2>4. Gravables' \in [Vigentes \ {n} -> Nat]
    BY <1>6
  <2>5. IsFiniteSet(Vigentes)
    BY <1>6
  <2>6. /\ Suma(Gravables, Vigentes) = Gravables[n] + Suma(Gravables', Vigentes \ {n})
        /\ Suma(Gravables', Vigentes \ {n}) \in Nat
    BY <2>5, <2>1, <2>3, <2>4, SumaSin
  <2> QED BY <1>3, <2>2, <2>6
<1>8. /\ Suma(Antes, Vigentes) = recibos[n].retenido.antes + Suma(Antes', Vigentes')
      /\ Suma(Antes', Vigentes') \in Nat
  <2>1. \A m \in Vigentes \ {n} : Antes'[m] = Antes[m]
    BY <1>3, <1>4 DEF Antes
  <2>2. Antes[n] = recibos[n].retenido.antes
    BY DEF Antes
  <2>3. Antes \in [Vigentes -> Nat]
    BY <1>6
  <2>4. Antes' \in [Vigentes \ {n} -> Nat]
    BY <1>6
  <2>5. IsFiniteSet(Vigentes)
    BY <1>6
  <2>6. /\ Suma(Antes, Vigentes) = Antes[n] + Suma(Antes', Vigentes \ {n})
        /\ Suma(Antes', Vigentes \ {n}) \in Nat
    BY <2>5, <2>1, <2>3, <2>4, SumaSin
  <2> QED BY <1>3, <2>2, <2>6
<1>9. /\ Suma(Impuestos, Vigentes) = recibos[n].retenido.impuesto + Suma(Impuestos', Vigentes')
      /\ Suma(Impuestos', Vigentes') \in Nat
  <2>1. \A m \in Vigentes \ {n} : Impuestos'[m] = Impuestos[m]
    BY <1>3, <1>4 DEF Impuestos
  <2>2. Impuestos[n] = recibos[n].retenido.impuesto
    BY DEF Impuestos
  <2>3. Impuestos \in [Vigentes -> Nat]
    BY <1>6
  <2>4. Impuestos' \in [Vigentes \ {n} -> Nat]
    BY <1>6
  <2>5. IsFiniteSet(Vigentes)
    BY <1>6
  <2>6. /\ Suma(Impuestos, Vigentes) = Impuestos[n] + Suma(Impuestos', Vigentes \ {n})
        /\ Suma(Impuestos', Vigentes \ {n}) \in Nat
    BY <2>5, <2>1, <2>3, <2>4, SumaSin
  <2> QED BY <1>3, <2>2, <2>6
<1>10. ASSUME NEW x \in Codigos
       PROVE  /\ Suma(Pagados(x), Vigentes) = recibos[n].montos[x] + Suma(Pagados(x)', Vigentes')
              /\ Suma(Pagados(x)', Vigentes') \in Nat
  <2>1. \A m \in Vigentes \ {n} : Pagados(x)'[m] = Pagados(x)[m]
    BY <1>3, <1>4 DEF Pagados
  <2>2. Pagados(x)[n] = recibos[n].montos[x]
    BY DEF Pagados
  <2>3. Pagados(x) \in [Vigentes -> Nat]
    BY <1>6
  <2>4. Pagados(x)' \in [Vigentes \ {n} -> Nat]
    BY <1>6
  <2>5. IsFiniteSet(Vigentes)
    BY <1>6
  <2>6. /\ Suma(Pagados(x), Vigentes) = Pagados(x)[n] + Suma(Pagados(x)', Vigentes \ {n})
        /\ Suma(Pagados(x)', Vigentes \ {n}) \in Nat
    BY <2>5, <2>1, <2>3, <2>4, SumaSin
  <2> QED BY <1>3, <2>2, <2>6
<1>11. Cardinality(Vigentes) = Cardinality(Vigentes') + 1 /\ Cardinality(Vigentes') \in Nat
  <2>1. Vigentes = Vigentes' \cup {n}
    BY <1>3
  <2> QED BY <1>3, <1>6, <2>1, FS_AddElement, FS_CardinalityType
<1>12. ASSUME \A m \in DOMAIN recibos' \ Vigentes' : Exacto(recibos'[m])
       PROVE  Exacto(recibos[n]) /\ \A m \in DOMAIN recibos \ Vigentes : Exacto(recibos[m])
  <2>1. Exacto(recibos'[n])
    BY <1>1, <1>3, <1>12
  <2>2. /\ recibos'[n].sueldo = recibos[n].sueldo /\ recibos'[n].descuento = recibos[n].descuento
        /\ recibos'[n].gravados = recibos[n].gravados /\ recibos'[n].gravable = recibos[n].gravable
    BY <1>1 DEF ReciboType
  <2>3. Exacto(recibos[n])
    BY <2>1, <2>2 DEF Exacto, Revertible
  <2>4. ASSUME NEW m \in DOMAIN recibos \ Vigentes
        PROVE  Exacto(recibos[m])
    <3>1. m # n /\ m \in DOMAIN recibos' \ Vigentes'
      BY <1>1, <1>3
    <3> QED BY <1>1, <1>12, <3>1 DEF Exacto, Revertible
  <2> QED BY <2>3, <2>4
<1>13. /\ Suma(Brutos, Vigentes) = recibos[n].bruto + Suma(Brutos', Vigentes')
       /\ Suma(Brutos', Vigentes') \in Nat
  <2>1. \A m \in Vigentes \ {n} : Brutos'[m] = Brutos[m]
    BY <1>3, <1>4 DEF Brutos
  <2>2. Brutos[n] = recibos[n].bruto
    BY DEF Brutos
  <2>3. Brutos \in [Vigentes -> Nat]
    BY <1>6
  <2>4. Brutos' \in [Vigentes \ {n} -> Nat]
    BY <1>6
  <2>5. IsFiniteSet(Vigentes)
    BY <1>6
  <2>6. /\ Suma(Brutos, Vigentes) = Brutos[n] + Suma(Brutos', Vigentes \ {n})
         /\ Suma(Brutos', Vigentes \ {n}) \in Nat
    BY <2>5, <2>1, <2>3, <2>4, SumaSin
  <2> QED BY <1>3, <2>2, <2>6
<1> QED BY <1>7, <1>8, <1>9, <1>10, <1>11, <1>12, <1>13

-----------------------------------------------------------------------------
(* The totals of the year                                                    *)

LEMMA EntreMas ==
  ASSUME NEW a \in Nat, NEW s \in Nat, NEW d \in Int, NEW x \in Nat, Entre(a, s, d)
  PROVE  Entre(a + x, s + x, d)
BY DEF Entre

\* Taken away from both, where the total is not cut off below what it lacks.
LEMMA EntreMenos ==
  ASSUME NEW a \in Nat, NEW s \in Nat, NEW d \in Int, NEW x \in Nat, Entre(a, x + s, d)
  PROVE  Entre(Mayor(a - x, 0), s, d)
BY DEF Entre, Mayor

\* Taken away from the total alone.
LEMMA EntreDoble ==
  ASSUME NEW a \in Nat, NEW s \in Nat, NEW d \in Int, NEW x \in Nat, Entre(a, s, d)
  PROVE  Entre(Mayor(a - x, 0), s, d + x)
BY DEF Entre, Mayor

Exactos == \A n \in DOMAIN recibos \ Vigentes : Exacto(recibos[n])

Totales ==
  /\ Entre(acum.bruto, Suma(Brutos, Vigentes), devuelto.bruto)
  /\ Entre(acum.antes, Suma(Antes, Vigentes), devuelto.antes)
  /\ Entre(acum.impuesto, Suma(Impuestos, Vigentes), devuelto.impuesto)
  /\ Entre(acum.procesados, Cardinality(Vigentes), devuelto.procesados)
  /\ Exactos => Entre(acum.gravable, Suma(Gravables, Vigentes), devuelto.gravable)

LEMMA DevueltoFields ==
  ASSUME devuelto \in DevueltoType
  PROVE  /\ devuelto.bruto \in Int /\ devuelto.antes \in Int /\ devuelto.impuesto \in Int
         /\ devuelto.procesados \in Int /\ devuelto.gravable \in Int
BY DEF DevueltoType

LEMMA SumasType ==
  ASSUME recibos \in Seq(ReciboType)
  PROVE  /\ Suma(Brutos, Vigentes) \in Nat /\ Suma(Antes, Vigentes) \in Nat
         /\ Suma(Impuestos, Vigentes) \in Nat /\ Suma(Gravables, Vigentes) \in Nat
         /\ Cardinality(Vigentes) \in Nat
BY VigentesType, SumaNat, FS_CardinalityType

LEMMA InitTotales == Init => Totales
<1> SUFFICES ASSUME Init PROVE Totales
  OBVIOUS
<1>1. Vigentes = {} /\ recibos \in Seq(ReciboType)
  BY DEF Init, Vigentes
<1>2. /\ Gravables \in [{} -> Int] /\ Antes \in [{} -> Int] /\ Impuestos \in [{} -> Int]
      /\ Brutos \in [{} -> Int]
  BY <1>1 DEF Gravables, Antes, Impuestos, Brutos
<1>3. /\ Suma(Gravables, {}) = 0 /\ Suma(Antes, {}) = 0 /\ Suma(Impuestos, {}) = 0
      /\ Suma(Brutos, {}) = 0
  BY <1>2, SumaVacia
<1>4. Cardinality({}) = 0
  BY FS_EmptySet
<1>5. /\ acum.gravable = 0 /\ acum.antes = 0 /\ acum.impuesto = 0 /\ acum.procesados = 0
      /\ acum.bruto = 0
      /\ devuelto.gravable = 0 /\ devuelto.antes = 0 /\ devuelto.impuesto = 0
      /\ devuelto.procesados = 0 /\ devuelto.bruto = 0
  BY DEF Init, NadaDevuelto
<1>6. /\ Suma(Gravables, Vigentes) = 0 /\ Suma(Antes, Vigentes) = 0
      /\ Suma(Impuestos, Vigentes) = 0 /\ Cardinality(Vigentes) = 0
      /\ Suma(Brutos, Vigentes) = 0
  BY <1>1, <1>3, <1>4, Zenon
<1> QED BY <1>5, <1>6 DEF Totales, Entre

LEMMA QuietaTotales ==
  ASSUME Totales, acum' = acum, recibos' = recibos, devuelto' = devuelto
  PROVE  Totales'
<1>1. Vigentes' = Vigentes
  BY DEF Vigentes
<1>2. Gravables' = Gravables /\ Antes' = Antes /\ Impuestos' = Impuestos /\ Brutos' = Brutos
  BY <1>1 DEF Gravables, Antes, Impuestos, Brutos
<1>3. Exactos' = Exactos
  BY <1>1 DEF Exactos, Exacto, Revertible
<1> QED BY <1>1, <1>2, <1>3 DEF Totales, Entre

LEMMA ContabilizarTotales ==
  ASSUME IInv, Totales, Contabilizar, ~Falla
  PROVE  Totales'
<1> DEFINE r == ReciboCalculado
<1>1. r \in ReciboType /\ r.estado = "vigente"
  BY ReciboCalculadoType DEF Contabilizar, ReciboCalculado
<1>2. /\ acum' = ConRecibo(acum, r) /\ recibos' = Append(recibos, r) /\ catalogo' = catalogo
      /\ devuelto' = devuelto
  BY DEF Contabilizar
<1> HIDE DEF r
<1>3. recibos \in Seq(ReciboType) /\ acum \in AcumType /\ devuelto \in DevueltoType
  BY DEF IInv, PersistenteOK
<1>4. /\ Suma(Gravables', Vigentes') = Suma(Gravables, Vigentes) + r.gravable
      /\ Suma(Antes', Vigentes') = Suma(Antes, Vigentes) + r.retenido.antes
      /\ Suma(Brutos', Vigentes') = Suma(Brutos, Vigentes) + r.bruto
      /\ Suma(Impuestos', Vigentes') = Suma(Impuestos, Vigentes) + r.retenido.impuesto
      /\ Cardinality(Vigentes') = Cardinality(Vigentes) + 1
  BY <1>1, <1>2, <1>3, SumasMas
<1>5. /\ acum'.gravable = acum.gravable + r.gravable
      /\ acum'.antes = acum.antes + r.retenido.antes
      /\ acum'.bruto = acum.bruto + r.bruto
      /\ acum'.impuesto = acum.impuesto + r.retenido.impuesto
      /\ acum'.procesados = acum.procesados + 1
  BY <1>2 DEF ConRecibo
<1>6. Exactos' => Exactos
  <2> SUFFICES ASSUME Exactos', NEW n \in DOMAIN recibos \ Vigentes PROVE Exacto(recibos[n])
    BY DEF Exactos
  <2>1. n \in DOMAIN recibos' /\ recibos'[n] = recibos[n]
    BY <1>2, <1>3
  <2>2. n \notin Vigentes'
    BY <2>1 DEF Vigentes
  <2> QED BY <2>1, <2>2 DEF Exactos, Exacto, Revertible
<1>7. /\ r.gravable \in Nat /\ r.retenido.antes \in Nat /\ r.retenido.impuesto \in Nat
      /\ r.bruto \in Nat
      /\ acum.gravable \in Nat /\ acum.antes \in Nat /\ acum.impuesto \in Nat
      /\ acum.bruto \in Nat /\ acum.procesados \in Nat
  BY <1>1, <1>3, ReciboFields, AcumFields
<1>8. /\ Suma(Brutos, Vigentes) \in Nat /\ Suma(Antes, Vigentes) \in Nat
      /\ Suma(Impuestos, Vigentes) \in Nat /\ Suma(Gravables, Vigentes) \in Nat
      /\ Cardinality(Vigentes) \in Nat
  BY <1>3, SumasType
<1>9. /\ devuelto.bruto \in Int /\ devuelto.antes \in Int /\ devuelto.impuesto \in Int
      /\ devuelto.procesados \in Int /\ devuelto.gravable \in Int
  BY <1>3, DevueltoFields
<1>10. Entre(acum.bruto + r.bruto, Suma(Brutos, Vigentes) + r.bruto, devuelto.bruto)
  BY <1>7, <1>8, <1>9, EntreMas DEF Totales
<1>11. Entre(acum.antes + r.retenido.antes, Suma(Antes, Vigentes) + r.retenido.antes, devuelto.antes)
  BY <1>7, <1>8, <1>9, EntreMas DEF Totales
<1>12. Entre(acum.impuesto + r.retenido.impuesto, Suma(Impuestos, Vigentes) + r.retenido.impuesto,
             devuelto.impuesto)
  BY <1>7, <1>8, <1>9, EntreMas DEF Totales
<1>13. Entre(acum.procesados + 1, Cardinality(Vigentes) + 1, devuelto.procesados)
  BY <1>7, <1>8, <1>9, EntreMas DEF Totales
<1>14. Exactos' =>
         Entre(acum.gravable + r.gravable, Suma(Gravables, Vigentes) + r.gravable, devuelto.gravable)
  BY <1>6, <1>7, <1>8, <1>9, EntreMas DEF Totales
<1>15. /\ Entre(acum'.bruto, Suma(Brutos', Vigentes'), devuelto'.bruto)
       /\ Entre(acum'.antes, Suma(Antes', Vigentes'), devuelto'.antes)
       /\ Entre(acum'.impuesto, Suma(Impuestos', Vigentes'), devuelto'.impuesto)
       /\ Entre(acum'.procesados, Cardinality(Vigentes'), devuelto'.procesados)
       /\ Exactos' => Entre(acum'.gravable, Suma(Gravables', Vigentes'), devuelto'.gravable)
  BY <1>2, <1>4, <1>5, <1>10, <1>11, <1>12, <1>13, <1>14
<1> QED BY <1>15 DEF Totales, Entre

LEMMA RevierteTotales ==
  ASSUME IInv, Totales, NEW n \in DOMAIN recibos, recibos[n].estado = "vigente", Revierte(n),
         devuelto' = devuelto,
         NEW e \in {"anulado", "recalculado"}, recibos' = [recibos EXCEPT ![n].estado = e],
         catalogo' = catalogo
  PROVE  Totales'
<1> DEFINE r == recibos[n]
<1>1. /\ recibos \in Seq(ReciboType) /\ acum \in AcumType /\ n \in Vigentes
      /\ r \in ReciboType /\ devuelto \in DevueltoType
  BY DEF IInv, PersistenteOK, Vigentes
<1>2. /\ Suma(Gravables, Vigentes) = r.gravable + Suma(Gravables', Vigentes')
      /\ Suma(Antes, Vigentes) = r.retenido.antes + Suma(Antes', Vigentes')
      /\ Suma(Brutos, Vigentes) = r.bruto + Suma(Brutos', Vigentes')
      /\ Suma(Impuestos, Vigentes) = r.retenido.impuesto + Suma(Impuestos', Vigentes')
      /\ Cardinality(Vigentes) = Cardinality(Vigentes') + 1
      /\ Suma(Gravables', Vigentes') \in Nat /\ Suma(Antes', Vigentes') \in Nat
      /\ Suma(Brutos', Vigentes') \in Nat
      /\ Suma(Impuestos', Vigentes') \in Nat /\ Cardinality(Vigentes') \in Nat
  BY <1>1, SumasMenos
<1>3. Exactos' => Exacto(r) /\ Exactos
  <2>1. Exactos' => \A m \in DOMAIN recibos' \ Vigentes' : Exacto(recibos'[m])
    BY DEF Exactos, Exacto, Revertible
  <2>2. (\A m \in DOMAIN recibos' \ Vigentes' : Exacto(recibos'[m]))
          => Exacto(recibos[n]) /\ \A m \in DOMAIN recibos \ Vigentes : Exacto(recibos[m])
    BY <1>1, SumasMenos
  <2> QED BY <2>1, <2>2 DEF Exactos
<1>4. /\ acum'.gravable = Mayor(acum.gravable - Revertible(r), 0)
      /\ acum'.bruto = Mayor(acum.bruto - r.bruto, 0)
      /\ acum'.antes = Mayor(acum.antes - r.retenido.antes, 0)
      /\ acum'.impuesto = Mayor(acum.impuesto - r.retenido.impuesto, 0)
      /\ acum'.procesados = Mayor(acum.procesados - 1, 0)
  BY DEF Revierte, SinRecibo
<1> HIDE DEF r
<1>5. /\ r.gravable \in Nat /\ r.retenido.antes \in Nat /\ r.retenido.impuesto \in Nat
      /\ r.bruto \in Nat
      /\ acum.gravable \in Nat /\ acum.antes \in Nat /\ acum.impuesto \in Nat
      /\ acum.bruto \in Nat /\ acum.procesados \in Nat
  BY <1>1, ReciboFields, AcumFields
<1>6. /\ devuelto.bruto \in Int /\ devuelto.antes \in Int /\ devuelto.impuesto \in Int
      /\ devuelto.procesados \in Int /\ devuelto.gravable \in Int
  BY <1>1, DevueltoFields
<1>7. Entre(Mayor(acum.bruto - r.bruto, 0), Suma(Brutos', Vigentes'), devuelto.bruto)
  <2>1. Entre(acum.bruto, r.bruto + Suma(Brutos', Vigentes'), devuelto.bruto)
    BY <1>2 DEF Totales
  <2> QED BY <1>2, <1>5, <1>6, <2>1, EntreMenos
<1>8. Entre(Mayor(acum.antes - r.retenido.antes, 0), Suma(Antes', Vigentes'), devuelto.antes)
  <2>1. Entre(acum.antes, r.retenido.antes + Suma(Antes', Vigentes'), devuelto.antes)
    BY <1>2 DEF Totales
  <2> QED BY <1>2, <1>5, <1>6, <2>1, EntreMenos
<1>9. Entre(Mayor(acum.impuesto - r.retenido.impuesto, 0), Suma(Impuestos', Vigentes'),
            devuelto.impuesto)
  <2>1. Entre(acum.impuesto, r.retenido.impuesto + Suma(Impuestos', Vigentes'), devuelto.impuesto)
    BY <1>2 DEF Totales
  <2> QED BY <1>2, <1>5, <1>6, <2>1, EntreMenos
<1>10. Entre(Mayor(acum.procesados - 1, 0), Cardinality(Vigentes'), devuelto.procesados)
  <2>1. Entre(acum.procesados, 1 + Cardinality(Vigentes'), devuelto.procesados)
    BY <1>2 DEF Totales, Entre
  <2> QED BY <1>2, <1>5, <1>6, <2>1, EntreMenos
<1>11. ASSUME Exactos'
       PROVE  Entre(acum'.gravable, Suma(Gravables', Vigentes'), devuelto.gravable)
  <2>1. Entre(acum.gravable, r.gravable + Suma(Gravables', Vigentes'), devuelto.gravable)
    BY <1>2, <1>3, <1>11 DEF Totales
  <2>2. Entre(Mayor(acum.gravable - r.gravable, 0), Suma(Gravables', Vigentes'), devuelto.gravable)
    BY <1>2, <1>5, <1>6, <2>1, EntreMenos
  <2>3. Revertible(r) = r.gravable
    BY <1>3, <1>11 DEF Exacto
  <2> QED BY <1>4, <2>2, <2>3
<1>12. /\ Entre(acum'.bruto, Suma(Brutos', Vigentes'), devuelto'.bruto)
       /\ Entre(acum'.antes, Suma(Antes', Vigentes'), devuelto'.antes)
       /\ Entre(acum'.impuesto, Suma(Impuestos', Vigentes'), devuelto'.impuesto)
       /\ Entre(acum'.procesados, Cardinality(Vigentes'), devuelto'.procesados)
       /\ Exactos' => Entre(acum'.gravable, Suma(Gravables', Vigentes'), devuelto'.gravable)
  BY <1>4, <1>7, <1>8, <1>9, <1>10, <1>11
<1> QED BY <1>12 DEF Totales, Entre

\* A payslip that no longer stood is taken back once more.
LEMMA TomadaOtraVez ==
  ASSUME recibos \in Seq(ReciboType), NEW n \in DOMAIN recibos, recibos[n].estado = "anulado",
         recibos' = [recibos EXCEPT ![n].estado = "recalculado"]
  PROVE  /\ Vigentes' = Vigentes /\ n \notin Vigentes
         /\ Gravables' = Gravables /\ Antes' = Antes /\ Impuestos' = Impuestos
         /\ Brutos' = Brutos
         /\ \A x \in Codigos : Pagados(x)' = Pagados(x)
         /\ Exactos' => Exactos
<1>1. /\ DOMAIN recibos' = DOMAIN recibos /\ recibos[n] \in ReciboType
      /\ \A m \in DOMAIN recibos \ {n} : recibos'[m] = recibos[m]
      /\ recibos'[n] = [recibos[n] EXCEPT !.estado = "recalculado"]
  OBVIOUS
<1>2. recibos'[n].estado = "recalculado"
  BY <1>1 DEF ReciboType
<1>3. Vigentes' = Vigentes /\ n \notin Vigentes
  BY <1>1, <1>2 DEF Vigentes
<1>4. \A m \in Vigentes : recibos'[m] = recibos[m]
  BY <1>1, <1>3 DEF Vigentes
<1>5. /\ Gravables' = Gravables /\ Antes' = Antes /\ Impuestos' = Impuestos /\ Brutos' = Brutos
      /\ \A x \in Codigos : Pagados(x)' = Pagados(x)
  BY <1>3, <1>4 DEF Gravables, Antes, Impuestos, Brutos, Pagados
<1>6. \A m \in DOMAIN recibos :
        /\ recibos'[m].sueldo = recibos[m].sueldo /\ recibos'[m].descuento = recibos[m].descuento
        /\ recibos'[m].gravados = recibos[m].gravados /\ recibos'[m].gravable = recibos[m].gravable
  <2>1. /\ recibos'[n].sueldo = recibos[n].sueldo /\ recibos'[n].descuento = recibos[n].descuento
        /\ recibos'[n].gravados = recibos[n].gravados /\ recibos'[n].gravable = recibos[n].gravable
    BY <1>1 DEF ReciboType
  <2> QED BY <1>1, <2>1
<1>7. Exactos' => Exactos
  BY <1>1, <1>3, <1>6 DEF Exactos, Exacto, Revertible
<1> QED BY <1>3, <1>5, <1>7

LEMMA RevierteOtraVezTotales ==
  ASSUME IInv, Totales, NEW n \in DOMAIN recibos, recibos[n].estado = "anulado",
         RevierteOtraVez(n), recibos' = [recibos EXCEPT ![n].estado = "recalculado"]
  PROVE  Totales'
<1> DEFINE r == recibos[n]
<1>1. /\ recibos \in Seq(ReciboType) /\ acum \in AcumType /\ r \in ReciboType
      /\ devuelto \in DevueltoType
  BY DEF IInv, PersistenteOK
<1>2. /\ Vigentes' = Vigentes /\ n \notin Vigentes
      /\ Gravables' = Gravables /\ Antes' = Antes /\ Impuestos' = Impuestos
      /\ Brutos' = Brutos
      /\ Exactos' => Exactos
  BY <1>1, TomadaOtraVez
<1>3. Exactos => Exacto(r)
  BY <1>2 DEF Exactos
<1>4. /\ acum'.gravable = Mayor(acum.gravable - Revertible(r), 0)
      /\ acum'.bruto = Mayor(acum.bruto - r.bruto, 0)
      /\ acum'.antes = Mayor(acum.antes - r.retenido.antes, 0)
      /\ acum'.impuesto = Mayor(acum.impuesto - r.retenido.impuesto, 0)
      /\ acum'.procesados = Mayor(acum.procesados - 1, 0)
  BY DEF RevierteOtraVez, SinRecibo
<1>5. /\ devuelto'.gravable = devuelto.gravable + Revertible(r)
      /\ devuelto'.bruto = devuelto.bruto + r.bruto
      /\ devuelto'.antes = devuelto.antes + r.retenido.antes
      /\ devuelto'.impuesto = devuelto.impuesto + r.retenido.impuesto
      /\ devuelto'.procesados = devuelto.procesados + 1
  BY DEF RevierteOtraVez, Devuelve
<1> HIDE DEF r
<1>6. /\ r.gravable \in Nat /\ r.retenido.antes \in Nat /\ r.retenido.impuesto \in Nat
      /\ r.bruto \in Nat
      /\ acum.gravable \in Nat /\ acum.antes \in Nat /\ acum.impuesto \in Nat
      /\ acum.bruto \in Nat /\ acum.procesados \in Nat
  BY <1>1, ReciboFields, AcumFields
<1>7. /\ devuelto.bruto \in Int /\ devuelto.antes \in Int /\ devuelto.impuesto \in Int
      /\ devuelto.procesados \in Int /\ devuelto.gravable \in Int
  BY <1>1, DevueltoFields
<1>8. /\ Suma(Brutos, Vigentes) \in Nat /\ Suma(Antes, Vigentes) \in Nat
      /\ Suma(Impuestos, Vigentes) \in Nat /\ Suma(Gravables, Vigentes) \in Nat
      /\ Cardinality(Vigentes) \in Nat
  BY <1>1, SumasType
<1>9. Entre(Mayor(acum.bruto - r.bruto, 0), Suma(Brutos, Vigentes), devuelto.bruto + r.bruto)
  BY <1>6, <1>7, <1>8, EntreDoble DEF Totales
<1>10. Entre(Mayor(acum.antes - r.retenido.antes, 0), Suma(Antes, Vigentes),
             devuelto.antes + r.retenido.antes)
  BY <1>6, <1>7, <1>8, EntreDoble DEF Totales
<1>11. Entre(Mayor(acum.impuesto - r.retenido.impuesto, 0), Suma(Impuestos, Vigentes),
             devuelto.impuesto + r.retenido.impuesto)
  BY <1>6, <1>7, <1>8, EntreDoble DEF Totales
<1>12. Entre(Mayor(acum.procesados - 1, 0), Cardinality(Vigentes), devuelto.procesados + 1)
  BY <1>6, <1>7, <1>8, EntreDoble DEF Totales
<1>13. ASSUME Exactos'
       PROVE  Entre(acum'.gravable, Suma(Gravables, Vigentes), devuelto'.gravable)
  <2>1. Entre(Mayor(acum.gravable - r.gravable, 0), Suma(Gravables, Vigentes),
              devuelto.gravable + r.gravable)
    <3>1. Entre(acum.gravable, Suma(Gravables, Vigentes), devuelto.gravable)
      BY <1>2, <1>13 DEF Totales
    <3> QED BY <1>6, <1>7, <1>8, <3>1, EntreDoble
  <2>2. Revertible(r) = r.gravable
    BY <1>2, <1>3, <1>13 DEF Exacto
  <2> QED BY <1>4, <1>5, <2>1, <2>2
<1>14. /\ Entre(acum'.bruto, Suma(Brutos', Vigentes'), devuelto'.bruto)
       /\ Entre(acum'.antes, Suma(Antes', Vigentes'), devuelto'.antes)
       /\ Entre(acum'.impuesto, Suma(Impuestos', Vigentes'), devuelto'.impuesto)
       /\ Entre(acum'.procesados, Cardinality(Vigentes'), devuelto'.procesados)
       /\ Exactos' => Entre(acum'.gravable, Suma(Gravables', Vigentes'), devuelto'.gravable)
  BY <1>2, <1>4, <1>5, <1>9, <1>10, <1>11, <1>12, <1>13
<1> QED BY <1>14 DEF Totales, Entre

\* The steps of a calculation leave the year and the payslips alone.
LEMMA CalculaQuieta ==
  ASSUME \/ \E j \in Jornadas : Ejecutar(j)
         \/ Percepcion \/ TerminaPercepciones \/ (\E i \in pendientes : Deduccion(i))
         \/ TerminaDeducciones \/ Deuda \/ Falla
  PROVE  acum' = acum /\ recibos' = recibos /\ catalogo' = catalogo /\ devuelto' = devuelto
<1>1. CASE \E j \in Jornadas : Ejecutar(j)
  BY <1>1 DEF Ejecutar
<1>2. CASE Percepcion
  BY <1>2 DEF Percepcion, Falla, persistente
<1>3. CASE TerminaPercepciones \/ TerminaDeducciones
  BY <1>3 DEF TerminaPercepciones, TerminaDeducciones, persistente
<1>4. CASE \E i \in pendientes : Deduccion(i)
  <2>1. PICK i \in pendientes : Deduccion(i)
    BY <1>4
  <2>2. SinFila \/ Falla \/ Descuenta(catalogo.deducciones[i], MontoDeduccion(catalogo.deducciones[i]),
                                      Aplicable(MontoDeduccion(catalogo.deducciones[i])))
    BY <2>1 DEF Deduccion
  <2> QED BY <2>2 DEF SinFila, Falla, Descuenta, persistente
<1>5. CASE Deuda
  BY <1>5 DEF Deuda, Falla, persistente
<1>6. CASE Falla
  BY <1>6 DEF Falla
<1> QED BY <1>1, <1>2, <1>3, <1>4, <1>5, <1>6

LEMMA NextTotales == IInv /\ Totales /\ [Next]_vars => Totales'
<1> SUFFICES ASSUME IInv, Totales, [Next]_vars PROVE Totales'
  OBVIOUS
<1>1. CASE \/ \E j \in Jornadas : Ejecutar(j)
           \/ Percepcion \/ TerminaPercepciones \/ (\E i \in pendientes : Deduccion(i))
           \/ TerminaDeducciones \/ Deuda \/ Falla
  BY <1>1, CalculaQuieta, QuietaTotales
<1>2. CASE Contabilizar /\ ~Falla
  BY <1>2, ContabilizarTotales
<1>3. ASSUME NEW n \in DOMAIN recibos, Anular(n) PROVE Totales'
  BY <1>3, RevierteTotales DEF Anular
<1>4. ASSUME NEW n \in DOMAIN recibos, Recalcular(n) PROVE Totales'
  <2>1. CASE recibos[n].estado = "vigente"
    BY <1>4, <2>1, RevierteTotales DEF Recalcular, Retira
  <2>2. CASE recibos[n].estado # "vigente"
    BY <1>4, <2>2, RevierteOtraVezTotales DEF Recalcular, Retira
  <2> QED BY <2>1, <2>2
<1>5. CASE UNCHANGED vars
  BY <1>5, QuietaTotales DEF vars, persistente
<1> QED BY <1>1, <1>2, <1>3, <1>4, <1>5 DEF Next

-----------------------------------------------------------------------------
(* The annual limits                                                         *)

LEMMA PagadosEs ==
  ASSUME IsFiniteSet(Vigentes), NEW x \in Codigos, Pagados(x) \in [Vigentes -> Nat]
  PROVE  DeVigentes(LAMBDA r : r.montos[x]) = Suma(Pagados(x), Vigentes)
<1> DEFINE u == Pagados(x)
           G == CHOOSE g : g = [s \in SUBSET Vigentes |-> IF s = {} THEN 0
                  ELSE recibos[CHOOSE n \in s : TRUE].montos[x] + g[s \ {CHOOSE n \in s : TRUE}]]
<1>0. u \in [Vigentes -> Int] /\ \A n \in Vigentes : u[n] = recibos[n].montos[x]
  BY DEF Pagados
<1>1. DeVigentes(LAMBDA r : r.montos[x]) = G[Vigentes]
  BY DEF DeVigentes, MapThenSumSet, MapThenFoldSet
<1> HIDE DEF u
<1>2. PICK U : EsSuma(U, u, Vigentes)
  BY <1>0, SumaExiste
<1>3. U = [s \in SUBSET Vigentes |-> IF s = {} THEN 0
              ELSE u[CHOOSE n \in s : TRUE] + U[s \ {CHOOSE n \in s : TRUE}]]
  BY <1>2 DEF EsSuma
<1>4. U = [s \in SUBSET Vigentes |-> IF s = {} THEN 0
              ELSE recibos[CHOOSE n \in s : TRUE].montos[x] + U[s \ {CHOOSE n \in s : TRUE}]]
  BY <1>0, <1>3
<1>5. G = [s \in SUBSET Vigentes |-> IF s = {} THEN 0
              ELSE recibos[CHOOSE n \in s : TRUE].montos[x] + G[s \ {CHOOSE n \in s : TRUE}]]
  BY <1>4
<1> HIDE DEF G
<1>6. G = [s \in SUBSET Vigentes |-> IF s = {} THEN 0
              ELSE u[CHOOSE n \in s : TRUE] + G[s \ {CHOOSE n \in s : TRUE}]]
  BY <1>0, <1>5
<1>7. G = U
  BY <1>0, <1>2, <1>6, SumaUnica
<1>8. Suma(u, Vigentes) = U[Vigentes]
  BY <1>0, <1>2, SumaDe
<1> QED BY <1>1, <1>7, <1>8 DEF u

\* What the payslips that stand paid of a concept is in the year.
Contado == \A x \in Codigos : Suma(Pagados(x), Vigentes) <= acum.conceptos[x]

\* With what the calculation in progress has of it, the year is within the limit.
BajoTecho(c) == c.techo # Sin => acum.conceptos[c.codigo] + montos[c.codigo] <= c.techo

Limites ==
  /\ \A i \in DOMAIN catalogo.percepciones : BajoTecho(catalogo.percepciones[i])
  /\ \A i \in DOMAIN catalogo.deducciones : BajoTecho(catalogo.deducciones[i])

\* The concepts still to come have nothing yet.
SinTocar ==
  /\ \A i \in DOMAIN catalogo.percepciones :
       fase = "percepciones" /\ k <= i => montos[catalogo.percepciones[i].codigo] = 0
  /\ \A i \in DOMAIN catalogo.deducciones :
       fase = "percepciones" \/ (fase = "deducciones" /\ i \in pendientes)
         => montos[catalogo.deducciones[i].codigo] = 0

TechoInv == Contado /\ Limites /\ SinTocar

LEMMA CatalogoCodigos ==
  ASSUME catalogo \in Catalogos
  PROVE  /\ \A i \in DOMAIN catalogo.percepciones :
              /\ catalogo.percepciones[i] \in ConceptoType
              /\ catalogo.percepciones[i].codigo \in Codigos
              /\ catalogo.percepciones[i].techo \in Int
              /\ catalogo.percepciones[i].techo # Sin => catalogo.percepciones[i].techo \in Nat
         /\ \A i \in DOMAIN catalogo.deducciones :
              /\ catalogo.deducciones[i] \in ConceptoType
              /\ catalogo.deducciones[i].codigo \in Codigos
              /\ catalogo.deducciones[i].techo \in Int
              /\ catalogo.deducciones[i].techo # Sin => catalogo.deducciones[i].techo \in Nat
         /\ \A i, j \in DOMAIN catalogo.percepciones :
              catalogo.percepciones[i].codigo = catalogo.percepciones[j].codigo => i = j
         /\ \A i, j \in DOMAIN catalogo.deducciones :
              catalogo.deducciones[i].codigo = catalogo.deducciones[j].codigo => i = j
         /\ \A i \in DOMAIN catalogo.percepciones, j \in DOMAIN catalogo.deducciones :
              catalogo.percepciones[i].codigo # catalogo.deducciones[j].codigo
<1>1. \A c \in ConceptoType :
        c.codigo \in Codigos /\ c.techo \in Int /\ (c.techo # Sin => c.techo \in Nat)
  BY DEF ConceptoType, Opcional, Sin
<1>2. /\ \A i \in DOMAIN catalogo.percepciones : catalogo.percepciones[i] \in ConceptoType
      /\ \A i \in DOMAIN catalogo.deducciones : catalogo.deducciones[i] \in ConceptoType
  BY CatalogoFields
<1>3. /\ \A i, j \in DOMAIN catalogo.percepciones :
           catalogo.percepciones[i].codigo = catalogo.percepciones[j].codigo => i = j
      /\ \A i, j \in DOMAIN catalogo.deducciones :
           catalogo.deducciones[i].codigo = catalogo.deducciones[j].codigo => i = j
      /\ \A i \in DOMAIN catalogo.percepciones, j \in DOMAIN catalogo.deducciones :
           catalogo.percepciones[i].codigo # catalogo.deducciones[j].codigo
  BY CodigosAssumption
<1> QED BY <1>1, <1>2, <1>3

\* A concept is calculated within what is left of its limit.
LEMMA MontoTecho ==
  ASSUME Calculando, NEW c \in ConceptoType, c.techo # Sin,
         acum.conceptos[c.codigo] <= c.techo, Monto(c) # SinTramo
  PROVE  acum.conceptos[c.codigo] + Monto(c) <= c.techo
<1> DEFINE m == Mayor(0, PorFormula(c))
<1>1. m \in Nat
  BY PorFormulaType DEF Mayor
<1>2. c.techo \in Nat /\ acum.conceptos[c.codigo] \in Nat
  BY DEF Calculando, ConceptoType, AcumType, Opcional
<1>3. Monto(c) = Menor(m, Restante(c.techo, acum.conceptos[c.codigo]))
  BY DEF Monto, ConTecho
<1> HIDE DEF m
<1>4. Restante(c.techo, acum.conceptos[c.codigo]) = c.techo - acum.conceptos[c.codigo]
  BY <1>2 DEF Restante, Mayor
<1> QED BY <1>1, <1>2, <1>3, <1>4 DEF Menor

LEMMA MontoDeduccionTecho ==
  ASSUME Calculando, NEW c \in ConceptoType, c.techo # Sin,
         acum.conceptos[c.codigo] <= c.techo, MontoDeduccion(c) # SinTramo
  PROVE  acum.conceptos[c.codigo] + MontoDeduccion(c) <= c.techo
<1>1. Monto(c) # SinTramo
  BY DEF MontoDeduccion
<1>2. acum.conceptos[c.codigo] + Monto(c) <= c.techo
  BY <1>1, MontoTecho
<1>3. /\ Monto(c) \in Nat /\ c.techo \in Nat /\ acum.conceptos[c.codigo] \in Nat
      /\ Restante(c.tope, acum.antes) \in Nat
  <2>1. c.tope \in Int /\ acum.antes \in Int
    BY DEF Calculando, ConceptoType, AcumType, Opcional, Sin
  <2> QED BY <1>1, <2>1, MontoType, RestanteType DEF Calculando, ConceptoType, AcumType, Opcional
<1>4. MontoDeduccion(c) \in {Monto(c), Menor(Monto(c), Restante(c.tope, acum.antes))}
  BY DEF MontoDeduccion
<1> QED BY <1>2, <1>3, <1>4 DEF Menor

LEMMA InitTecho == Init => TechoInv
<1> SUFFICES ASSUME Init PROVE TechoInv
  OBVIOUS
<1>1. IInv
  BY InitIInv
<1>2. Contado
  <2> SUFFICES ASSUME NEW x \in Codigos PROVE Suma(Pagados(x), Vigentes) <= acum.conceptos[x]
    BY DEF Contado
  <2>1. Vigentes = {}
    BY DEF Init, Vigentes
  <2>2. Pagados(x) \in [{} -> Int]
    BY <2>1 DEF Pagados
  <2>3. Suma(Pagados(x), {}) = 0
    BY <2>2, SumaVacia
  <2>4. Suma(Pagados(x), Vigentes) = 0
    BY <2>1, <2>3, Zenon
  <2> QED BY <2>4 DEF Init
<1>3. Limites /\ SinTocar
  BY <1>1, CatalogoCodigos DEF Init, Limites, BajoTecho, SinTocar
<1> QED BY <1>2, <1>3 DEF TechoInv

LEMMA QuietaContado ==
  ASSUME Contado, acum' = acum, recibos' = recibos
  PROVE  Contado'
<1>1. Vigentes' = Vigentes
  BY DEF Vigentes
<1> SUFFICES ASSUME NEW x \in Codigos PROVE Suma(Pagados(x)', Vigentes') <= acum'.conceptos[x]
  BY DEF Contado
<1>2. Pagados(x)' = Pagados(x)
  BY <1>1 DEF Pagados
<1>3. Suma(Pagados(x)', Vigentes') = Suma(Pagados(x), Vigentes)
  BY <1>1, <1>2, Zenon
<1> QED BY <1>3 DEF Contado

\* Nothing calculated: what the year has is all there is.
LEMMA VacioTecho ==
  ASSUME IInv, Limites, SinTocar, catalogo' = catalogo, acum'.conceptos = acum.conceptos,
         montos' = [c \in Codigos |-> 0]
  PROVE  Limites' /\ SinTocar'
<1>1. acum.conceptos \in [Codigos -> Nat] /\ montos \in [Codigos -> Nat] /\ catalogo \in Catalogos
  BY DEF IInv, PersistenteOK, CalculoOK, AcumType
<1>2. \A i \in DOMAIN catalogo.percepciones : BajoTecho(catalogo.percepciones[i])'
  BY <1>1, CatalogoCodigos DEF Limites, BajoTecho
<1>3. \A i \in DOMAIN catalogo.deducciones : BajoTecho(catalogo.deducciones[i])'
  BY <1>1, CatalogoCodigos DEF Limites, BajoTecho
<1>4. SinTocar'
  BY <1>1, CatalogoCodigos DEF SinTocar
<1> QED BY <1>2, <1>3, <1>4 DEF Limites, BajoTecho

\* What is paid does not change, and no concept is again to come.
LEMMA IgualTecho ==
  ASSUME Limites, SinTocar, catalogo' = catalogo, acum'.conceptos = acum.conceptos, montos' = montos,
         catalogo \in Catalogos,
         fase' = "percepciones" => fase = "percepciones" /\ k \in Nat /\ k' \in {k, k + 1},
         fase' = "deducciones" => fase = "percepciones"
                                    \/ (fase = "deducciones" /\ pendientes' \subseteq pendientes)
  PROVE  Limites' /\ SinTocar'
<1>1. Limites'
  BY DEF Limites, BajoTecho
<1>2. \A i \in DOMAIN catalogo'.percepciones :
        fase' = "percepciones" /\ k' <= i => montos'[catalogo'.percepciones[i].codigo] = 0
  <2> SUFFICES ASSUME NEW i \in DOMAIN catalogo.percepciones, fase' = "percepciones", k' <= i
               PROVE  montos[catalogo.percepciones[i].codigo] = 0
    OBVIOUS
  <2>1. k <= i
    <3>1. i \in Int
      BY CatalogoFields
    <3> QED BY <3>1
  <2> QED BY <2>1 DEF SinTocar
<1>3. \A i \in DOMAIN catalogo'.deducciones :
        fase' = "percepciones" \/ (fase' = "deducciones" /\ i \in pendientes')
          => montos'[catalogo'.deducciones[i].codigo] = 0
  BY DEF SinTocar
<1> QED BY <1>1, <1>2, <1>3 DEF SinTocar

LEMMA FallaTecho ==
  ASSUME IInv, TechoInv, Falla
  PROVE  TechoInv'
<1>1. Contado'
  BY QuietaContado DEF Falla, TechoInv
<1>2. Limites' /\ SinTocar'
  BY VacioTecho DEF Falla, Termina, SinFilas, TechoInv
<1> QED BY <1>1, <1>2 DEF TechoInv

LEMMA PercepcionTecho ==
  ASSUME IInv, TechoInv, Percepcion
  PROVE  TechoInv'
<1> DEFINE c == catalogo.percepciones[k]
           monto == Monto(c)
<1>1. Calculando /\ fase = "percepciones" /\ k \in DOMAIN catalogo.percepciones /\ k \in Nat
  BY CalculandoOK DEF Percepcion, IInv, CalculoOK
<1>2. c \in ConceptoType /\ catalogo \in Catalogos
  BY <1>1, CatalogoFields DEF Calculando
<1>3. monto \in Nat \cup {SinTramo}
  BY <1>1, <1>2, MontoType
<1>4. CASE c.vigente /\ monto = SinTramo
  BY <1>4, FallaTecho DEF Percepcion
<1>5. CASE ~(c.vigente /\ monto = SinTramo)
  <2>1. /\ catalogo' = catalogo /\ acum' = acum /\ recibos' = recibos /\ fase' = fase /\ k' = k + 1
        /\ pendientes' = pendientes
    BY <1>5 DEF Percepcion, persistente
  <2>2. Contado'
    BY <2>1, QuietaContado DEF TechoInv
  <2>3. CASE ~(c.vigente /\ monto > 0)
    <3>1. montos' = montos
      BY <1>5, <2>3 DEF Percepcion
    <3>2. Limites' /\ SinTocar'
      BY <1>1, <1>2, <2>1, <3>1, IgualTecho DEF TechoInv
    <3> QED BY <2>2, <3>2 DEF TechoInv
  <2>4. CASE c.vigente /\ monto > 0
    <3>1. montos' = [montos EXCEPT ![c.codigo] = @ + monto]
      BY <1>5, <2>4 DEF Percepcion
    <3>2. monto \in Nat
      BY <1>3, <2>4 DEF SinTramo
    <3>3. /\ montos \in [Codigos -> Nat] /\ acum.conceptos \in [Codigos -> Nat]
      BY <1>1 DEF IInv, CalculoOK, Calculando, AcumType
    <3>4. /\ c.codigo \in Codigos /\ c.techo \in Int /\ montos[c.codigo] = 0
      BY <1>1, <1>2, CatalogoCodigos DEF TechoInv, SinTocar
    <3>5. c.techo # Sin => acum.conceptos[c.codigo] + monto <= c.techo
      <4> SUFFICES ASSUME c.techo # Sin PROVE acum.conceptos[c.codigo] + monto <= c.techo
        OBVIOUS
      <4>1. acum.conceptos[c.codigo] + montos[c.codigo] <= c.techo
        BY <1>1 DEF TechoInv, Limites, BajoTecho
      <4>2. acum.conceptos[c.codigo] <= c.techo
        BY <3>3, <3>4, <4>1
      <4>3. monto # SinTramo
        BY <3>2 DEF SinTramo
      <4> HIDE DEF c
      <4> QED BY <1>1, <1>2, <4>2, <4>3, MontoTecho
    <3>6. montos'[c.codigo] = monto
      BY <3>1, <3>2, <3>3, <3>4
    <3>7. \A x \in Codigos : x # c.codigo => montos'[x] = montos[x]
      BY <3>1, <3>3
    <3> HIDE DEF monto
    <3>8. \A i \in DOMAIN catalogo.percepciones : BajoTecho(catalogo.percepciones[i])'
      <4> SUFFICES ASSUME NEW i \in DOMAIN catalogo.percepciones
                   PROVE  BajoTecho(catalogo.percepciones[i])'
        OBVIOUS
      <4>1. CASE i = k
        BY <2>1, <3>5, <3>6, <4>1 DEF BajoTecho
      <4>2. CASE i # k
        <5>1. /\ catalogo.percepciones[i].codigo # c.codigo
              /\ catalogo.percepciones[i].codigo \in Codigos
          BY <1>1, <1>2, <4>2, CatalogoCodigos
        <5>2. montos'[catalogo.percepciones[i].codigo] = montos[catalogo.percepciones[i].codigo]
          BY <3>7, <5>1
        <5> QED BY <2>1, <5>2 DEF TechoInv, Limites, BajoTecho
      <4> QED BY <4>1, <4>2
    <3>9. \A i \in DOMAIN catalogo.deducciones :
            montos'[catalogo.deducciones[i].codigo] = montos[catalogo.deducciones[i].codigo]
      <4> SUFFICES ASSUME NEW i \in DOMAIN catalogo.deducciones
                   PROVE  montos'[catalogo.deducciones[i].codigo] = montos[catalogo.deducciones[i].codigo]
        OBVIOUS
      <4>1. /\ catalogo.deducciones[i].codigo # c.codigo
            /\ catalogo.deducciones[i].codigo \in Codigos
        BY <1>1, <1>2, CatalogoCodigos
      <4> QED BY <3>7, <4>1
    <3>10. Limites'
      BY <2>1, <3>8, <3>9 DEF TechoInv, Limites, BajoTecho
    <3>11. SinTocar'
      <4>1. ASSUME NEW i \in DOMAIN catalogo.percepciones, k + 1 <= i
            PROVE  montos'[catalogo.percepciones[i].codigo] = 0
        <5>1. i \in Int
          BY <1>2, CatalogoFields
        <5>2. i # k /\ k <= i
          BY <1>1, <4>1, <5>1
        <5>3. /\ catalogo.percepciones[i].codigo # c.codigo
              /\ catalogo.percepciones[i].codigo \in Codigos
          BY <1>1, <1>2, <5>2, CatalogoCodigos
        <5>4. montos[catalogo.percepciones[i].codigo] = 0
          BY <1>1, <5>2 DEF TechoInv, SinTocar
        <5> QED BY <3>7, <5>3, <5>4
      <4>2. \A i \in DOMAIN catalogo.deducciones : montos'[catalogo.deducciones[i].codigo] = 0
        BY <1>1, <3>9 DEF TechoInv, SinTocar
      <4> QED BY <1>1, <2>1, <4>1, <4>2 DEF SinTocar
    <3> QED BY <2>2, <3>10, <3>11 DEF TechoInv
  <2> QED BY <2>3, <2>4
<1> QED BY <1>4, <1>5

LEMMA DescuentaTecho ==
  ASSUME IInv, TechoInv, NEW i \in pendientes, fase = "deducciones",
         NEW monto \in Nat, NEW aplicado \in Nat, aplicado <= monto,
         Descuenta(catalogo.deducciones[i], monto, aplicado),
         pendientes' \subseteq pendientes \ {i},
         monto = MontoDeduccion(catalogo.deducciones[i])
  PROVE  TechoInv'
<1> DEFINE c == catalogo.deducciones[i]
<1>1. Calculando /\ i \in DOMAIN catalogo.deducciones /\ catalogo \in Catalogos
  BY CalculandoOK DEF IInv, CalculoOK, PersistenteOK
<1>2. c \in ConceptoType
  BY <1>1, CatalogoFields
<1>3. /\ catalogo' = catalogo /\ acum' = acum /\ recibos' = recibos /\ fase' = fase
      /\ montos' = [montos EXCEPT ![c.codigo] = @ + aplicado]
  BY DEF Descuenta, persistente
<1>4. Contado'
  BY <1>3, QuietaContado DEF TechoInv
<1>5. /\ montos \in [Codigos -> Nat] /\ acum.conceptos \in [Codigos -> Nat]
  BY <1>1 DEF IInv, CalculoOK, Calculando, AcumType
<1>6. c.codigo \in Codigos /\ c.techo \in Int /\ montos[c.codigo] = 0
  BY <1>1, CatalogoCodigos DEF TechoInv, SinTocar
<1>7. c.techo # Sin => acum.conceptos[c.codigo] + aplicado <= c.techo
  <2> SUFFICES ASSUME c.techo # Sin PROVE acum.conceptos[c.codigo] + aplicado <= c.techo
    OBVIOUS
  <2>1. acum.conceptos[c.codigo] + montos[c.codigo] <= c.techo
    BY <1>1 DEF TechoInv, Limites, BajoTecho
  <2>2. acum.conceptos[c.codigo] <= c.techo
    BY <1>5, <1>6, <2>1
  <2>3. MontoDeduccion(c) # SinTramo
    BY DEF SinTramo
  <2>4. acum.conceptos[c.codigo] + MontoDeduccion(c) <= c.techo
    <3> HIDE DEF c
    <3> QED BY <1>1, <1>2, <2>2, <2>3, MontoDeduccionTecho
  <2> QED BY <1>5, <1>6, <2>4
<1>8. montos'[c.codigo] = aplicado
  BY <1>3, <1>5, <1>6
<1>9. \A x \in Codigos : x # c.codigo => montos'[x] = montos[x]
  BY <1>3, <1>5
<1>10. \A j \in DOMAIN catalogo.percepciones :
         montos'[catalogo.percepciones[j].codigo] = montos[catalogo.percepciones[j].codigo]
  <2> SUFFICES ASSUME NEW j \in DOMAIN catalogo.percepciones
               PROVE  montos'[catalogo.percepciones[j].codigo] = montos[catalogo.percepciones[j].codigo]
    OBVIOUS
  <2>1. /\ catalogo.percepciones[j].codigo # c.codigo
        /\ catalogo.percepciones[j].codigo \in Codigos
    BY <1>1, CatalogoCodigos
  <2> QED BY <1>9, <2>1
<1>11. \A j \in DOMAIN catalogo.deducciones : j # i =>
         montos'[catalogo.deducciones[j].codigo] = montos[catalogo.deducciones[j].codigo]
  <2> SUFFICES ASSUME NEW j \in DOMAIN catalogo.deducciones, j # i
               PROVE  montos'[catalogo.deducciones[j].codigo] = montos[catalogo.deducciones[j].codigo]
    OBVIOUS
  <2>1. /\ catalogo.deducciones[j].codigo # c.codigo
        /\ catalogo.deducciones[j].codigo \in Codigos
    BY <1>1, CatalogoCodigos
  <2> QED BY <1>9, <2>1
<1>12. Limites'
  <2>1. \A j \in DOMAIN catalogo.percepciones : BajoTecho(catalogo.percepciones[j])'
    BY <1>3, <1>10 DEF TechoInv, Limites, BajoTecho
  <2>2. \A j \in DOMAIN catalogo.deducciones : BajoTecho(catalogo.deducciones[j])'
    <3> SUFFICES ASSUME NEW j \in DOMAIN catalogo.deducciones
                 PROVE  BajoTecho(catalogo.deducciones[j])'
      OBVIOUS
    <3>1. CASE j = i
      BY <1>3, <1>7, <1>8, <3>1 DEF BajoTecho
    <3>2. CASE j # i
      BY <1>3, <1>11, <3>2 DEF TechoInv, Limites, BajoTecho
    <3> QED BY <3>1, <3>2
  <2> QED BY <1>3, <2>1, <2>2 DEF Limites, BajoTecho
<1>13. SinTocar'
  <2>1. ASSUME NEW j \in DOMAIN catalogo.deducciones, j \in pendientes'
        PROVE  montos'[catalogo.deducciones[j].codigo] = 0
    <3>1. j # i /\ j \in pendientes
      BY <2>1
    <3>2. montos[catalogo.deducciones[j].codigo] = 0
      BY <3>1 DEF TechoInv, SinTocar
    <3> QED BY <1>11, <3>1, <3>2
  <2> QED BY <1>3, <2>1 DEF SinTocar
<1> QED BY <1>4, <1>12, <1>13 DEF TechoInv

LEMMA DeduccionTecho ==
  ASSUME IInv, TechoInv, NEW i \in pendientes, Deduccion(i)
  PROVE  TechoInv'
<1> DEFINE c == catalogo.deducciones[i]
           monto == MontoDeduccion(c)
<1>1. Calculando /\ fase = "deducciones"
  BY CalculandoOK DEF Deduccion
<1>2. c \in ConceptoType
  BY <1>1, CatalogoFields DEF Calculando, IInv, CalculoOK
<1>3. monto \in Nat \cup {SinTramo}
  BY <1>1, <1>2, MontoDeduccionType
<1>4. CASE ~Omitida(c) /\ monto = SinTramo
  BY <1>4, FallaTecho DEF Deduccion
<1>5. CASE SinFila /\ pendientes' \subseteq pendientes
  <2>1. /\ catalogo' = catalogo /\ acum' = acum /\ recibos' = recibos /\ fase' = fase
        /\ montos' = montos
    BY <1>5 DEF SinFila, persistente
  <2>2. Contado'
    BY <2>1, QuietaContado DEF TechoInv
  <2>3. Limites' /\ SinTocar'
    BY <1>1, <1>5, <2>1, IgualTecho DEF TechoInv, Calculando
  <2> QED BY <2>2, <2>3 DEF TechoInv
<1>6. CASE ~Omitida(c) /\ monto # SinTramo /\ ~SinFila
  <2>1. pendientes' \subseteq pendientes \ {i} /\ Descuenta(c, monto, Aplicable(monto))
    BY <1>6 DEF Deduccion
  <2>2. monto \in Nat
    BY <1>3, <1>6
  <2>3. Aplicable(monto) \in Nat /\ Aplicable(monto) <= monto
    BY <1>1, <2>2, SaldoNat, AplicableType
  <2>4. monto = MontoDeduccion(catalogo.deducciones[i])
    OBVIOUS
  <2>5. Descuenta(catalogo.deducciones[i], monto, Aplicable(monto))
    BY <2>1
  <2> HIDE DEF c, monto
  <2> QED BY <1>1, <2>1, <2>2, <2>3, <2>4, <2>5, DescuentaTecho
<1>7. Omitida(c) \/ (~Omitida(c) /\ monto # SinTramo) => pendientes' \subseteq pendientes
  BY DEF Deduccion
<1>8. Omitida(c) => SinFila
  BY DEF Deduccion
<1> QED BY <1>4, <1>5, <1>6, <1>7, <1>8

LEMMA ContabilizarTecho ==
  ASSUME IInv, TechoInv, Contabilizar, ~Falla
  PROVE  TechoInv'
<1> DEFINE r == ReciboCalculado
<1>1. r \in ReciboType /\ r.estado = "vigente" /\ r.montos = montos
  BY ReciboCalculadoType DEF Contabilizar, ReciboCalculado
<1>2. /\ acum' = ConRecibo(acum, r) /\ recibos' = Append(recibos, r) /\ catalogo' = catalogo
      /\ montos' = [c \in Codigos |-> 0]
  BY DEF Contabilizar, Termina, SinFilas
<1> HIDE DEF r
<1>3. /\ recibos \in Seq(ReciboType) /\ catalogo \in Catalogos
      /\ acum.conceptos \in [Codigos -> Nat] /\ montos \in [Codigos -> Nat]
  BY DEF IInv, PersistenteOK, CalculoOK, AcumType
<1>4. acum'.conceptos = [x \in Codigos |-> acum.conceptos[x] + montos[x]]
  BY <1>1, <1>2 DEF ConRecibo
<1>5. Contado'
  <2> SUFFICES ASSUME NEW x \in Codigos PROVE Suma(Pagados(x)', Vigentes') <= acum'.conceptos[x]
    BY DEF Contado
  <2>1. Suma(Pagados(x)', Vigentes') = Suma(Pagados(x), Vigentes) + r.montos[x]
    BY <1>1, <1>2, <1>3, SumasMas
  <2>2. Suma(Pagados(x), Vigentes) <= acum.conceptos[x]
    BY DEF TechoInv, Contado
  <2>3. Suma(Pagados(x), Vigentes) \in Int
    <3>1. IsFiniteSet(Vigentes) /\ Pagados(x) \in [Vigentes -> Nat]
      BY <1>3, VigentesType
    <3> QED BY <3>1, SumaNat
  <2> QED BY <1>1, <1>3, <1>4, <2>1, <2>2, <2>3
<1>6. Limites'
  <2>1. \A i \in DOMAIN catalogo.percepciones : BajoTecho(catalogo.percepciones[i])'
    BY <1>2, <1>3, <1>4, CatalogoCodigos DEF TechoInv, Limites, BajoTecho
  <2>2. \A i \in DOMAIN catalogo.deducciones : BajoTecho(catalogo.deducciones[i])'
    BY <1>2, <1>3, <1>4, CatalogoCodigos DEF TechoInv, Limites, BajoTecho
  <2> QED BY <1>2, <2>1, <2>2 DEF Limites, BajoTecho
<1>7. SinTocar'
  BY <1>2, <1>3, CatalogoCodigos DEF SinTocar
<1> QED BY <1>5, <1>6, <1>7 DEF TechoInv

LEMMA RevierteTecho ==
  ASSUME IInv, TechoInv, NEW n \in DOMAIN recibos, recibos[n].estado = "vigente", Revierte(n),
         NEW e \in {"anulado", "recalculado"}, recibos' = [recibos EXCEPT ![n].estado = e],
         catalogo' = catalogo
  PROVE  Contado' /\ acum'.conceptos = acum.conceptos
<1>1. /\ recibos \in Seq(ReciboType) /\ n \in Vigentes /\ recibos[n] \in ReciboType
      /\ acum.conceptos \in [Codigos -> Nat]
  BY DEF IInv, PersistenteOK, Vigentes, AcumType
<1>2. acum'.conceptos = acum.conceptos
  BY DEF Revierte, SinRecibo
<1>3. ASSUME NEW x \in Codigos
      PROVE  Suma(Pagados(x)', Vigentes') <= acum'.conceptos[x]
  <2>1. /\ Suma(Pagados(x), Vigentes) = recibos[n].montos[x] + Suma(Pagados(x)', Vigentes')
        /\ Suma(Pagados(x)', Vigentes') \in Nat
    BY <1>1, SumasMenos
  <2>2. recibos[n].montos[x] \in Nat
    BY <1>1, ReciboFields
  <2>3. Suma(Pagados(x), Vigentes) <= acum.conceptos[x]
    BY DEF TechoInv, Contado
  <2> QED BY <1>1, <1>2, <2>1, <2>2, <2>3
<1> QED BY <1>2, <1>3 DEF Contado

LEMMA RepiteTecho ==
  ASSUME IInv, TechoInv, NEW n \in DOMAIN recibos, recibos[n].estado = "anulado",
         RevierteOtraVez(n), recibos' = [recibos EXCEPT ![n].estado = "recalculado"]
  PROVE  Contado' /\ acum'.conceptos = acum.conceptos
<1>1. recibos \in Seq(ReciboType)
  BY DEF IInv, PersistenteOK
<1>2. acum'.conceptos = acum.conceptos
  BY DEF RevierteOtraVez, SinRecibo
<1>3. Vigentes' = Vigentes /\ \A x \in Codigos : Pagados(x)' = Pagados(x)
  BY <1>1, TomadaOtraVez
<1>4. ASSUME NEW x \in Codigos
      PROVE  Suma(Pagados(x)', Vigentes') <= acum'.conceptos[x]
  <2>1. Suma(Pagados(x), Vigentes) <= acum.conceptos[x]
    BY DEF TechoInv, Contado
  <2>2. Suma(Pagados(x)', Vigentes') = Suma(Pagados(x), Vigentes)
    BY <1>3, Zenon
  <2> QED BY <1>2, <2>1, <2>2
<1> QED BY <1>2, <1>4 DEF Contado

LEMMA NextTecho == IInv /\ TechoInv /\ [Next]_vars => TechoInv'
<1> SUFFICES ASSUME IInv, TechoInv, [Next]_vars PROVE TechoInv'
  OBVIOUS
<1>0. Contado /\ Limites /\ SinTocar /\ catalogo \in Catalogos /\ k \in Nat
  BY DEF TechoInv, IInv, PersistenteOK, CalculoOK
<1>1. ASSUME NEW j \in Jornadas, Ejecutar(j) PROVE TechoInv'
  <2>1. catalogo' = catalogo /\ acum' = acum /\ recibos' = recibos /\ fase = "libre"
    BY <1>1 DEF Ejecutar
  <2>2. Contado'
    BY <1>0, <2>1, QuietaContado
  <2>3. CASE Apto(j)
    <3>1. montos' = [c \in Codigos |-> 0]
      BY <1>1, <2>3 DEF Ejecutar, Empieza, SinFilas
    <3> QED BY <1>0, <2>1, <2>2, <3>1, VacioTecho DEF TechoInv
  <2>4. CASE ~Apto(j)
    <3>1. montos' = montos /\ fase' = "libre"
      BY <1>1, <2>1, <2>4 DEF Ejecutar, calculo
    <3> QED BY <1>0, <2>1, <2>2, <3>1, IgualTecho DEF TechoInv
  <2> QED BY <2>3, <2>4
<1>2. CASE Percepcion
  BY <1>2, PercepcionTecho
<1>3. CASE TerminaPercepciones \/ TerminaDeducciones \/ (Deuda /\ ~Falla)
  <2>1. /\ catalogo' = catalogo /\ acum' = acum /\ recibos' = recibos /\ montos' = montos
        /\ fase' = "percepciones" => FALSE
        /\ fase' = "deducciones" => fase = "percepciones"
    BY <1>3 DEF TerminaPercepciones, TerminaDeducciones, Deuda, persistente
  <2>2. Contado'
    BY <1>0, <2>1, QuietaContado
  <2>3. Limites' /\ SinTocar'
    BY <1>0, <2>1, IgualTecho
  <2> QED BY <2>2, <2>3 DEF TechoInv
<1>4. ASSUME NEW i \in pendientes, Deduccion(i) PROVE TechoInv'
  BY <1>4, DeduccionTecho
<1>5. CASE Contabilizar /\ ~Falla
  BY <1>5, ContabilizarTecho
<1>9. CASE Falla
  BY <1>9, FallaTecho
<1>6. ASSUME NEW n \in DOMAIN recibos, Anular(n) PROVE TechoInv'
  <2>1. Contado' /\ acum'.conceptos = acum.conceptos
    BY <1>6, RevierteTecho DEF Anular
  <2>2. catalogo' = catalogo /\ montos' = montos /\ fase' = "libre"
    BY <1>6 DEF Anular, calculo
  <2> QED BY <1>0, <2>1, <2>2, IgualTecho DEF TechoInv
<1>7. ASSUME NEW n \in DOMAIN recibos, Recalcular(n) PROVE TechoInv'
  <2>1. Contado' /\ acum'.conceptos = acum.conceptos
    <3>1. CASE recibos[n].estado = "vigente"
      BY <1>7, <3>1, RevierteTecho DEF Recalcular, Retira
    <3>2. CASE recibos[n].estado # "vigente"
      BY <1>7, <3>2, RepiteTecho DEF Recalcular, Retira
    <3> QED BY <3>1, <3>2
  <2>2. catalogo' = catalogo /\ montos' = [c \in Codigos |-> 0]
    BY <1>7 DEF Recalcular, Empieza, SinFilas
  <2> QED BY <1>0, <2>1, <2>2, VacioTecho DEF TechoInv
<1>8. CASE UNCHANGED vars
  <2>1. /\ catalogo' = catalogo /\ acum' = acum /\ recibos' = recibos /\ montos' = montos
        /\ fase' = fase /\ k' = k /\ pendientes' = pendientes
    BY <1>8 DEF vars, persistente, calculo
  <2>2. Contado'
    BY <1>0, <2>1, QuietaContado
  <2>3. Limites' /\ SinTocar'
    BY <1>0, <2>1, IgualTecho
  <2> QED BY <2>2, <2>3 DEF TechoInv
<1> QED BY <1>1, <1>2, <1>3, <1>4, <1>5, <1>6, <1>7, <1>8, <1>9 DEF Next

-----------------------------------------------------------------------------
(* The tax tables                                                            *)

\* A set of naturals that is not empty has a least one.
LEMMA MenorNatural ==
  ASSUME NEW T \in SUBSET Nat, T # {}
  PROVE  \E m \in T : \A n \in T : m <= n
<1> DEFINE R == {ss \in Nat \X Nat : ss[1] < ss[2]}
<1>1. IsWellFoundedOn(R, Nat)
  BY NatLessThanWellFounded DEF OpToRel
<1>2. PICK m \in T : \A n \in T : ~(<<n, m>> \in R)
  <2> HIDE DEF R
  <2> QED BY <1>1, WFMin
<1>3. m \in Nat /\ \A n \in T : n \in Nat
  OBVIOUS
<1>4. \A n \in T : ~(n < m)
  BY <1>2, <1>3
<1> QED BY <1>3, <1>4

\* Amounts of whole cents compare as their cents do.
LEMMA PorPartes ==
  ASSUME NEW a \in Int, NEW c \in Int
  PROVE  /\ a * Partes \in Int
         /\ (a * Partes <= c * Partes) <=> (a <= c)
         /\ (a * Partes = c * Partes) <=> (a = c)
<1>1. Partes \in Int /\ Partes > 0
  BY PartesAssumption
<1>2. ASSUME NEW x \in Int, NEW y \in Int, x < y
      PROVE  x * Partes < y * Partes
  <2>1. (y - x) * Partes > 0
    BY <1>1, <1>2
  <2>2. (y - x) * Partes = y * Partes - x * Partes
    BY <1>1
  <2>3. x * Partes \in Int /\ y * Partes \in Int
    BY <1>1
  <2> QED BY <2>1, <2>2, <2>3
<1>3. a * Partes \in Int /\ c * Partes \in Int
  BY <1>1
<1>4. (a < c => a * Partes < c * Partes) /\ (c < a => c * Partes < a * Partes)
  BY <1>2
<1>5. CASE a < c
  BY <1>3, <1>4, <1>5
<1>6. CASE c < a
  BY <1>3, <1>4, <1>6
<1>7. CASE a = c
  BY <1>3, <1>7
<1> QED BY <1>5, <1>6, <1>7

LEMMA EnCentavos ==
  ASSUME NEW b \in TramoType, NEW c \in Int
  PROVE  EnTramo(b, c * Partes) <=> (b.min <= c /\ (b.max = Abierto \/ c <= b.max))
<1>1. b.min \in Int /\ b.max \in Int
  BY DEF TramoType
<1>2. (b.min * Partes <= c * Partes) <=> (b.min <= c)
  BY <1>1, PorPartes
<1>3. (c * Partes <= b.max * Partes) <=> (c <= b.max)
  BY <1>1, PorPartes
<1> QED BY <1>2, <1>3 DEF EnTramo

\* The brackets of an accepted table begin one after the other.
LEMMA MinimosCrecen ==
  ASSUME NEW tabla \in Seq(TramoType), Aceptada(tabla),
         NEW i \in DOMAIN tabla, NEW j \in DOMAIN tabla, i <= j
  PROVE  tabla[i].min <= tabla[j].min
<1>1. Len(tabla) \in Nat /\ DOMAIN tabla = 1 .. Len(tabla)
  OBVIOUS
<1>a. \A n \in DOMAIN tabla : tabla[n] \in TramoType
  OBVIOUS
<1>2. \A n \in DOMAIN tabla : tabla[n].min \in Int
  BY <1>a DEF TramoType
<1> DEFINE M == {n \in Nat : n \in DOMAIN tabla /\ i <= n /\ tabla[n].min < tabla[i].min}
<1> SUFFICES ASSUME M # {} PROVE FALSE
  <2>1. j \in Nat
    BY <1>1
  <2> QED BY <1>2, <2>1
<1>3. PICK m \in M : \A n \in M : m <= n
  <2>1. M \in SUBSET Nat
    OBVIOUS
  <2> HIDE DEF M
  <2> QED BY <2>1, MenorNatural
<1>4. m \in DOMAIN tabla /\ i <= m /\ m # i /\ m \in Nat /\ i \in Nat
  BY <1>1, <1>2
<1>5. m - 1 \in DOMAIN tabla \ {Len(tabla)} /\ i <= m - 1 /\ m - 1 \in Nat
  BY <1>1, <1>4
<1>6. ~(tabla[m - 1].min < tabla[i].min)
  BY <1>3, <1>4, <1>5
<1>7. Contiguos(tabla[m - 1], tabla[(m - 1) + 1])
  BY <1>5 DEF Aceptada
<1>8. (m - 1) + 1 = m
  BY <1>4
<1>9. tabla[m - 1].min <= tabla[m].min
  BY <1>7, <1>8 DEF Contiguos
<1> QED BY <1>2, <1>3, <1>4, <1>5, <1>6, <1>9

\* The last bracket that begins at or below an amount holds it; another one
\* that does is the one before, and then they share the bound.
LEMMA UltimoQueEmpieza ==
  ASSUME NEW tabla \in Seq(TramoType), Aceptada(tabla), NEW c \in Int,
         \A i, j \in DOMAIN tabla : tabla[i].min = tabla[j].min => i = j,
         tabla[1].min <= c,
         tabla[Len(tabla)].max = Abierto \/ c <= tabla[Len(tabla)].max
  PROVE  \E m \in DOMAIN tabla :
           /\ EnTramo(tabla[m], c * Partes)
           /\ \A j \in DOMAIN tabla : (j # m /\ EnTramo(tabla[j], c * Partes)) =>
                j = m - 1 /\ tabla[m].min = c /\ tabla[j].min # c
<1>1. Len(tabla) \in Nat /\ DOMAIN tabla = 1 .. Len(tabla) /\ 1 <= Len(tabla)
  BY DEF Aceptada
<1>a. \A n \in DOMAIN tabla : tabla[n] \in TramoType
  OBVIOUS
<1>2. \A n \in DOMAIN tabla : tabla[n].min \in Int /\ tabla[n].max \in Int /\ tabla[n] \in TramoType
  BY <1>a DEF TramoType
<1> DEFINE L == {n \in DOMAIN tabla : \A j \in DOMAIN tabla : j > n => tabla[j].min > c}
<1>3. L \in SUBSET Nat /\ Len(tabla) \in L
  BY <1>1
<1>4. PICK m \in L : \A n \in L : m <= n
  <2> HIDE DEF L
  <2> QED BY <1>3, MenorNatural
<1>5. m \in DOMAIN tabla /\ m \in Nat /\ \A j \in DOMAIN tabla : j > m => tabla[j].min > c
  BY <1>1
<1>6. tabla[m].min <= c
  <2>1. CASE m = 1
    BY <2>1
  <2>2. CASE m # 1
    <3>1. m - 1 \in DOMAIN tabla /\ m - 1 \notin L
      BY <1>1, <1>4, <1>5, <2>2
    <3>2. PICK j \in DOMAIN tabla : j > m - 1 /\ ~(tabla[j].min > c)
      BY <3>1
    <3>3. j = m
      BY <1>1, <1>5, <3>2
    <3> QED BY <1>2, <3>2, <3>3
  <2> QED BY <2>1, <2>2
<1>7. tabla[m].max = Abierto \/ c <= tabla[m].max
  <2>1. CASE m = Len(tabla)
    BY <2>1
  <2>2. CASE m # Len(tabla)
    <3>1. m \in DOMAIN tabla \ {Len(tabla)} /\ m + 1 \in DOMAIN tabla /\ m + 1 > m
      BY <1>1, <1>5, <2>2
    <3>2. Contiguos(tabla[m], tabla[m + 1])
      BY <3>1 DEF Aceptada
    <3>3. tabla[m + 1].min > c
      BY <1>5, <3>1
    <3>4. tabla[m + 1].min - tabla[m].max <= 1
      BY <3>2 DEF Contiguos, Tolerancia
    <3> QED BY <1>2, <1>5, <3>1, <3>3, <3>4
  <2> QED BY <2>1, <2>2
<1>8. EnTramo(tabla[m], c * Partes)
  BY <1>2, <1>5, <1>6, <1>7, EnCentavos
<1>9. ASSUME NEW j \in DOMAIN tabla, j # m, EnTramo(tabla[j], c * Partes)
      PROVE  j = m - 1 /\ tabla[m].min = c /\ tabla[j].min # c
  <2>1. tabla[j].min <= c /\ (tabla[j].max = Abierto \/ c <= tabla[j].max)
    BY <1>2, <1>9, EnCentavos
  <2>2. j < m /\ j \in Nat
    <3>1. ~(j > m)
      BY <1>2, <1>5, <2>1
    <3> QED BY <1>1, <1>5, <1>9, <3>1
  <2>3. j \in DOMAIN tabla \ {Len(tabla)} /\ j + 1 \in DOMAIN tabla /\ j + 1 <= m
    BY <1>1, <1>5, <2>2
  <2>4. Contiguos(tabla[j], tabla[j + 1])
    BY <2>3 DEF Aceptada
  <2>5. tabla[j].max # Abierto /\ tabla[j].max <= tabla[j + 1].min
    BY <2>4 DEF Contiguos
  <2>6. tabla[j + 1].min <= tabla[m].min
    BY <1>5, <2>3, MinimosCrecen
  <2>7. tabla[m].min = c /\ tabla[j + 1].min = tabla[m].min
    BY <1>2, <1>5, <1>6, <2>1, <2>3, <2>5, <2>6
  <2>8. j + 1 = m
    BY <1>5, <2>3, <2>7
  <2>9. tabla[j].min # c
    BY <1>5, <1>9, <2>7
  <2> QED BY <1>5, <2>2, <2>7, <2>8, <2>9
<1> QED BY <1>5, <1>8, <1>9

LEMMA TributoNoNegativo ==
  ASSUME NEW b \in TramoType, TramoValido(b), NEW v \in Int
  PROVE  Tributo(b, v) # SinTramo
<1> DEFINE base == Mayor(v - b.sobre * Partes, 0)
           n == b.fijo * 100 * Partes + base * b.tasa
           d == 100 * Partes
<1>1. Partes \in Int /\ Partes > 0
  BY PartesAssumption
<1>2. b.fijo \in Nat /\ b.sobre \in Nat /\ b.tasa \in Nat
  BY DEF TramoType, TramoValido
<1>3. base \in Nat
  <2>1. b.sobre * Partes \in Int
    BY <1>1, <1>2
  <2> DEFINE x == b.sobre * Partes
  <2> HIDE DEF x
  <2>2. Mayor(v - x, 0) \in Nat
    <3>1. x \in Int
      BY <2>1 DEF x
    <3> QED BY <3>1 DEF Mayor
  <2> QED BY <2>2 DEF x
<1> HIDE DEF base
<1>4. d \in Nat /\ d > 0
  BY <1>1
<1>5. n \in Nat
  <2>1. \A x, y \in Nat : x * y \in Nat
    OBVIOUS
  <2>2. b.fijo * 100 \in Nat /\ base * b.tasa \in Nat
    BY <1>2, <1>3, <2>1
  <2>3. (b.fijo * 100) * Partes \in Nat
    BY <1>1, <2>1, <2>2
  <2> DEFINE p == (b.fijo * 100) * Partes
             q == base * b.tasa
  <2>4. n = p + q
    OBVIOUS
  <2> HIDE DEF p, q, n
  <2>5. p \in Nat /\ q \in Nat
    BY <2>2, <2>3 DEF p, q
  <2> QED BY <2>4, <2>5
<1>6. Tributo(b, v) = Redondea(n, d)
  BY DEF Tributo, base
<1> HIDE DEF n, d
<1>7. Redondea(n, d) \in Nat
  <2> DEFINE num == 2 * n + d
             den == 2 * d
  <2>1. num \in Nat /\ den \in Nat /\ den > 0
    BY <1>4, <1>5
  <2>2. Redondea(n, d) = num \div den
    BY DEF Redondea
  <2> HIDE DEF num, den
  <2>3. num \div den \in Nat
    BY <2>1
  <2> QED BY <2>2, <2>3
<1> QED BY <1>6, <1>7 DEF SinTramo

\* A table that is accepted answers every amount of whole cents it reaches.
LEMMA TablaResponde ==
  ASSUME NEW tabla \in Seq(TramoType), Aceptada(tabla), NEW c \in Int,
         \A i, j \in DOMAIN tabla : tabla[i].min = tabla[j].min => i = j,
         Alcanza(tabla, c * Partes)
  PROVE  Impuesto(tabla, c * Partes) # SinTramo
<1> DEFINE v == c * Partes
           C == Coinciden(tabla, v)
           E == {i \in C : v = tabla[i].min * Partes}
<1>1. Len(tabla) \in Nat /\ DOMAIN tabla = 1 .. Len(tabla) /\ 1 \in DOMAIN tabla /\ Len(tabla) \in DOMAIN tabla
  BY DEF Aceptada
<1>a. \A n \in DOMAIN tabla : tabla[n] \in TramoType
  OBVIOUS
<1>2. \A n \in DOMAIN tabla : tabla[n].min \in Int /\ tabla[n].max \in Int /\ tabla[n] \in TramoType
  BY <1>a DEF TramoType
<1>3. tabla[1].min <= c
  <2>1. tabla[1].min * Partes <= c * Partes
    BY DEF Alcanza
  <2> QED BY <1>1, <1>2, <2>1, PorPartes
<1>4. tabla[Len(tabla)].max = Abierto \/ c <= tabla[Len(tabla)].max
  <2> DEFINE x == tabla[Len(tabla)].max
  <2>1. x = Abierto \/ c * Partes <= x * Partes
    BY DEF Alcanza
  <2>2. x \in Int
    BY <1>1, <1>2
  <2> HIDE DEF x
  <2>3. (c * Partes <= x * Partes) <=> (c <= x)
    BY <2>2, PorPartes
  <2>4. x = Abierto \/ c <= x
    BY <2>1, <2>3
  <2> QED BY <2>4 DEF x
<1>5. PICK m \in DOMAIN tabla :
        /\ EnTramo(tabla[m], c * Partes)
        /\ \A j \in DOMAIN tabla : (j # m /\ EnTramo(tabla[j], c * Partes)) =>
             j = m - 1 /\ tabla[m].min = c /\ tabla[j].min # c
  BY <1>3, <1>4, UltimoQueEmpieza
<1>6. C = {i \in DOMAIN tabla : EnTramo(tabla[i], v)} /\ m \in C
  BY <1>5 DEF Coinciden
<1>7. \A i \in DOMAIN tabla : (v = tabla[i].min * Partes) <=> (tabla[i].min = c)
  <2>1. ASSUME NEW i \in DOMAIN tabla
        PROVE  (v = tabla[i].min * Partes) <=> (tabla[i].min = c)
    <3>1. tabla[i].min \in Int
      BY <1>2
    <3> QED BY <3>1, PorPartes
  <2> QED BY <2>1
<1>8. Aplicables(tabla, v) = IF Cardinality(C) > 1 /\ Cardinality(E) = 1 THEN E ELSE C
  BY DEF Aplicables
<1>9. v \in Int
  <2>1. Partes \in Int
    BY PartesAssumption
  <2> QED BY <2>1
<1> HIDE DEF v, C, E
<1>10. Aplicables(tabla, v) = {m}
  <2>1. CASE C = {m}
    <3>1. Cardinality(C) = 1
      BY <2>1, FS_Singleton
    <3> QED BY <1>8, <2>1, <3>1
  <2>2. CASE C # {m}
    <3>1. PICK j \in C : j # m
      BY <1>6, <2>2
    <3>2. j \in DOMAIN tabla /\ EnTramo(tabla[j], c * Partes)
      BY <1>6, <3>1 DEF v
    <3>3. j = m - 1 /\ tabla[m].min = c
      BY <1>5, <3>1, <3>2
    <3>4. \A i \in C : i # m => tabla[i].min # c
      BY <1>5, <1>6 DEF v
    <3>5. E = {m}
      <4>1. \A i \in C : (v = tabla[i].min * Partes) <=> i = m
        BY <1>5, <1>6, <1>7, <3>3, <3>4
      <4> QED BY <1>6, <4>1 DEF E
    <3>6. C = {m, j}
      <4>1. \A i \in C : i = m \/ i = m - 1
        BY <1>5, <1>6 DEF v
      <4> QED BY <1>6, <3>1, <3>3, <4>1
    <3>7. Cardinality(E) = 1
      BY <3>5, FS_Singleton
    <3>8. Cardinality(C) = 2
      <4> DEFINE u == Cardinality({j})
                 w == Cardinality({j} \cup {m})
      <4>1. IsFiniteSet({j}) /\ u = 1
        BY FS_Singleton
      <4>2. w = u + 1
        BY <3>1, <4>1, FS_AddElement
      <4>3. C = {j} \cup {m}
        BY <3>6
      <4>4. Cardinality(C) = w
        BY <4>3, Zenon
      <4> HIDE DEF u, w
      <4> QED BY <4>1, <4>2, <4>4
    <3> QED BY <1>8, <3>5, <3>7, <3>8
  <2> QED BY <2>1, <2>2
<1>11. Impuesto(tabla, v) = Tributo(tabla[m], v)
  <2>1. (CHOOSE i \in {m} : TRUE) = m
    OBVIOUS
  <2>2. \E i \in {m} : {m} = {i}
    OBVIOUS
  <2> QED BY <1>10, <2>1, <2>2 DEF Impuesto
<1>12. TramoValido(tabla[m])
  BY DEF Aceptada
<1>13. Tributo(tabla[m], v) # SinTramo
  BY <1>2, <1>9, <1>12, TributoNoNegativo
<1> QED BY <1>11, <1>13 DEF v

LEMMA TablaCubreSiempre ==
  ASSUME catalogo.tabla \in Seq(TramoType)
  PROVE  TablaCubre
<1> DEFINE tabla == catalogo.tabla
           hasta == tabla[Len(tabla)].min + 2
<1> SUFFICES ASSUME Aceptada(tabla),
                    \A i, j \in DOMAIN tabla : tabla[i].min = tabla[j].min => i = j,
                    NEW v \in {c * Partes : c \in tabla[1].min .. hasta},
                    Alcanza(tabla, v)
             PROVE  Impuesto(tabla, v) # SinTramo
  BY DEF TablaCubre
<1>1. PICK c \in tabla[1].min .. hasta : v = c * Partes
  OBVIOUS
<1>2. c \in Int
  OBVIOUS
<1> HIDE DEF tabla
<1>3. tabla \in Seq(TramoType)
  BY DEF tabla
<1> QED BY <1>1, <1>2, <1>3, TablaResponde

-----------------------------------------------------------------------------
(* A calculation is a function of where it starts                            *)

\* The operators of the calculation, on a state of it given as a record.
En(x) == INSTANCE Motor WITH
  catalogo <- x.catalogo, acum <- x.acum, saldos <- x.saldos, jornada <- x.jornada,
  fase <- x.fase, k <- x.k, pendientes <- x.pendientes, bruto <- x.bruto,
  gravable <- x.gravable, items <- x.items, saldo <- x.saldo, retenido <- x.retenido,
  recibos <- <<>>, fallo <- FALSE, anuladas <- 0, devuelto <- NadaDevuelto, rehace <- 0,
  gravados <- 0, montos <- <<>>, abonos <- <<>>, faltas <- {}

\* What a calculation without annual limits reads of the year.
Fiscal(a) ==
  [bruto |-> a.bruto, gravable |-> a.gravable, antes |-> a.antes, impuesto |-> a.impuesto,
   procesados |-> a.procesados]

Estado ==
  [catalogo |-> catalogo, acum |-> Fiscal(acum), saldos |-> saldos, jornada |-> jornada,
   fase |-> fase, k |-> k, pendientes |-> pendientes, bruto |-> bruto,
   gravable |-> gravable, items |-> items, saldo |-> saldo, retenido |-> retenido]

\* Where the calculation of period j starts, and where it ends.
Inicio(c, j, a, s) ==
  [catalogo |-> c, acum |-> a, saldos |-> s, jornada |-> j,
   fase |-> "percepciones", k |-> 1, pendientes |-> {},
   bruto |-> En([catalogo |-> c])!NetoInasistencia(j),
   gravable |-> En([catalogo |-> c])!NetoInasistencia(j),
   items |-> <<>>, saldo |-> 0, retenido |-> NadaRetenido]

Final(x) == x.fase = "deudas" /\ x.k \notin DOMAIN x.catalogo.deudas

Con(x, f, n, p, b, g, i, s, r) ==
  [catalogo |-> x.catalogo, acum |-> x.acum, saldos |-> x.saldos, jornada |-> x.jornada,
   fase |-> f, k |-> n, pendientes |-> p, bruto |-> b,
   gravable |-> g, items |-> i, saldo |-> s, retenido |-> r]

ConPercepcion(x, c, monto) ==
  IF c.vigente /\ monto > 0
  THEN Con(x, x.fase, x.k + 1, x.pendientes, x.bruto + monto,
           x.gravable + En(x)!Gravado(c, monto - Menor(monto, c.exento)),
           x.items, x.saldo, x.retenido)
  ELSE Con(x, x.fase, x.k + 1, x.pendientes, x.bruto, x.gravable, x.items, x.saldo, x.retenido)

Queda(x, p) == Con(x, x.fase, x.k, p, x.bruto, x.gravable, x.items, x.saldo, x.retenido)

ConFilaDe(x, n, p, f) ==
  Con(x, x.fase, n, p, x.bruto, x.gravable, Append(x.items, f), x.saldo - f.monto,
      ConFila(x.retenido, f))

ConDeduccion(x, i, c, monto) ==
  LET aplicado == En(x)!Aplicable(monto)
      detiene == c.detener /\ monto > x.saldo
      quedan == IF detiene THEN {} ELSE x.pendientes \ {i}
  IN  IF En(x)!Omitida(c) THEN Queda(x, x.pendientes \ {i})
      ELSE IF monto = 0 \/ detiene \/ (aplicado = 0 /\ ~c.obligatoria) THEN Queda(x, quedan)
      ELSE ConFilaDe(x, x.k, quedan, Fila(c, monto, aplicado))

ConDeuda(x) ==
  IF En(x)!Alcanzada(x.k) /\ En(x)!Abono(x.k) > 0 /\ En(x)!Cuota(x.k) > 0
  THEN ConFilaDe(x, x.k + 1, x.pendientes, En(x)!FilaDeuda(x.k))
  ELSE Con(x, x.fase, x.k + 1, x.pendientes, x.bruto, x.gravable, x.items, x.saldo, x.retenido)

\* The step of a calculation that does not fail.
SigPercepcion(x) ==
  IF x.k \in DOMAIN x.catalogo.percepciones
  THEN ConPercepcion(x, x.catalogo.percepciones[x.k], En(x)!Monto(x.catalogo.percepciones[x.k]))
  ELSE Con(x, "deducciones", 1, DOMAIN x.catalogo.deducciones, x.bruto, x.gravable, x.items,
           x.bruto, x.retenido)

LaPrimera(x) == CHOOSE i : En(x)!Primera(i)

SigDeduccion(x) ==
  IF x.pendientes = {}
  THEN Con(x, "deudas", 1, x.pendientes, x.bruto, x.gravable, x.items, x.saldo, x.retenido)
  ELSE ConDeduccion(x, LaPrimera(x), x.catalogo.deducciones[LaPrimera(x)],
                    En(x)!MontoDeduccion(x.catalogo.deducciones[LaPrimera(x)]))

Sig(x) ==
  IF x.fase = "percepciones" THEN SigPercepcion(x)
  ELSE IF x.fase = "deducciones" THEN SigDeduccion(x)
  ELSE ConDeuda(x)

\* y is where n steps from x lead, none of them from a final state.
Camino(w, n, x, y) ==
  /\ n \in Nat /\ w[0] = x /\ w[n] = y
  /\ \A m \in Nat : m < n => ~Final(w[m]) /\ w[m + 1] = Sig(w[m])

Llega(x, y) == \E n, w : Camino(w, n, x, y)

LEMMA LlegaInicio == ASSUME NEW x PROVE Llega(x, x)
<1> DEFINE w == [m \in {0} |-> x]
<1>1. Camino(w, 0, x, x)
  BY DEF Camino
<1> HIDE DEF w
<1> QED BY <1>1 DEF Llega

LEMMA LlegaSig ==
  ASSUME NEW x, NEW y, Llega(x, y), ~Final(y)
  PROVE  Llega(x, Sig(y))
<1>1. PICK n, w : Camino(w, n, x, y)
  BY DEF Llega
<1> DEFINE z == Sig(y)
           v == [m \in 0 .. n + 1 |-> IF m = n + 1 THEN z ELSE w[m]]
<1>2. n \in Nat /\ w[0] = x /\ w[n] = y
  BY <1>1 DEF Camino
<1>3. v[0] = x /\ v[n] = y /\ v[n + 1] = z
  BY <1>2
<1>4. ASSUME NEW m \in Nat, m < n + 1
      PROVE  ~Final(v[m]) /\ v[m + 1] = Sig(v[m])
  <2>1. CASE m = n
    BY <1>3, <2>1
  <2>2. CASE m < n
    <3>1. v[m] = w[m] /\ v[m + 1] = w[m + 1]
      BY <1>2, <2>2
    <3>2. ~Final(w[m]) /\ w[m + 1] = Sig(w[m])
      BY <1>1, <2>2 DEF Camino
    <3> QED BY <3>1, <3>2, Zenon
  <2> QED BY <1>2, <1>4, <2>1, <2>2
<1>5. Camino(v, n + 1, x, z)
  <2>1. n + 1 \in Nat
    BY <1>2
  <2> HIDE DEF v, z
  <2> QED BY <1>3, <1>4, <2>1 DEF Camino
<1> HIDE DEF v
<1> QED BY <1>5 DEF Llega

\* Two paths from one state go the same way, as far as both go.
LEMMA CaminoComun ==
  ASSUME NEW x, NEW y, NEW z, NEW n, NEW l, NEW w, NEW v,
         Camino(w, n, x, y), Camino(v, l, x, z), n <= l
  PROVE  w[n] = v[n]
<1> DEFINE T == {m \in 0 .. n : w[m] # v[m]}
<1>0. n \in Nat /\ l \in Nat /\ w[0] = v[0]
  BY DEF Camino
<1> SUFFICES ASSUME T # {} PROVE FALSE
  BY <1>0
<1>1. T \in SUBSET Nat
  BY <1>0
<1>2. PICK m \in T : \A q \in T : m <= q
  <2> HIDE DEF T
  <2> QED BY <1>1, MenorNatural
<1>3. m \in Nat /\ m <= n /\ m # 0 /\ w[m] # v[m]
  BY <1>0, <1>2
<1>4. m - 1 \in Nat /\ m - 1 < n /\ m - 1 < l /\ (m - 1) + 1 = m
  BY <1>0, <1>3
<1>5. w[m - 1] = v[m - 1]
  BY <1>0, <1>2, <1>4
<1> DEFINE p == m - 1
<1>6. p \in Nat /\ p < n /\ p < l /\ p + 1 = m /\ w[p] = v[p]
  BY <1>4, <1>5
<1> HIDE DEF p
<1>7. w[p + 1] = Sig(w[p])
  BY <1>6 DEF Camino
<1>8. v[p + 1] = Sig(v[p])
  BY <1>6 DEF Camino
<1> QED BY <1>3, <1>6, <1>7, <1>8, Zenon

\* A calculation that starts twice from one state ends twice in one state.
LEMMA LlegaUnica ==
  ASSUME NEW x, NEW y, NEW z, Llega(x, y), Final(y), Llega(x, z), Final(z)
  PROVE  y = z
<1>1. PICK n, w : Camino(w, n, x, y)
  BY DEF Llega
<1>2. PICK l, v : Camino(v, l, x, z)
  BY DEF Llega
<1>3. n \in Nat /\ l \in Nat /\ w[n] = y /\ v[l] = z
  BY <1>1, <1>2 DEF Camino
<1>4. CASE n = l
  <2>1. w[n] = v[n]
    BY <1>1, <1>2, <1>3, <1>4, CaminoComun
  <2> QED BY <1>3, <1>4, <2>1
<1>5. CASE n < l
  <2>1. w[n] = v[n]
    BY <1>1, <1>2, <1>3, <1>5, CaminoComun
  <2>2. ~Final(v[n])
    BY <1>2, <1>3, <1>5 DEF Camino
  <2> QED BY <1>3, <2>1, <2>2
<1>6. CASE l < n
  <2>1. v[l] = w[l]
    BY <1>1, <1>2, <1>3, <1>6, CaminoComun
  <2>2. ~Final(w[l])
    BY <1>1, <1>3, <1>6 DEF Camino
  <2> QED BY <1>3, <2>1, <2>2
<1> QED BY <1>3, <1>4, <1>5, <1>6

-----------------------------------------------------------------------------
(* The state of the engine and the record of it                              *)

LEMMA EstadoCampos ==
  /\ Estado.catalogo = catalogo /\ Estado.saldos = saldos /\ Estado.jornada = jornada
  /\ Estado.fase = fase /\ Estado.k = k /\ Estado.pendientes = pendientes
  /\ Estado.bruto = bruto /\ Estado.gravable = gravable /\ Estado.items = items
  /\ Estado.saldo = saldo /\ Estado.retenido = retenido
  /\ Estado.acum.bruto = acum.bruto
  /\ Estado.acum.gravable = acum.gravable /\ Estado.acum.antes = acum.antes
  /\ Estado.acum.impuesto = acum.impuesto /\ Estado.acum.procesados = acum.procesados
BY DEF Estado, Fiscal

LEMMA SalarioIgual ==
  ASSUME NEW x, NEW j, x.catalogo = catalogo
  PROVE  /\ En(x)!Sueldo(j) = Sueldo(j)
         /\ En(x)!Mensual(j) = Mensual(j)
         /\ En(x)!NetoInasistencia(j) = NetoInasistencia(j)
<1>0. En(x)!Parte(j.completo, j.dias) = Parte(j.completo, j.dias)
  BY Zenon DEF En!Parte, Parte
<1>1. En(x)!Divisor(j) = Divisor(j)
  BY <1>0 DEF En!Divisor, Divisor
<1>2. En(x)!Trabajados(j) = Trabajados(j)
  BY DEF En!Trabajados, Trabajados, En!Menor, Menor, En!Mayor, Mayor, En!Sin, Sin
<1>3. En(x)!Devengado(j) = Devengado(j)
  BY <1>0, <1>2 DEF En!Devengado, Devengado
<1>4. En(x)!Perdido(j) = Perdido(j)
  BY <1>0 DEF En!Perdido, Perdido
<1>5. En(x)!Sueldo(j) = Sueldo(j)
  BY <1>1, <1>3 DEF En!Sueldo, Sueldo, En!Redondea, Redondea
<1>6. En(x)!Mensual(j) = Mensual(j)
  BY DEF En!Mensual, Mensual, En!Redondea, Redondea
<1>7. En(x)!NetoInasistencia(j) = NetoInasistencia(j)
  BY <1>1, <1>3, <1>4 DEF En!NetoInasistencia, NetoInasistencia, En!Redondea, Redondea,
     En!Mayor, Mayor
<1> QED BY <1>5, <1>6, <1>7

LEMMA TablaIgual ==
  ASSUME NEW x, NEW t, NEW v
  PROVE  /\ En(x)!Impuesto(t, v) = Impuesto(t, v)
         /\ En(x)!Aceptada(t) <=> Aceptada(t)
<1>1. En(x)!Coinciden(t, v) = Coinciden(t, v)
  BY DEF En!Coinciden, Coinciden, En!EnTramo, EnTramo, En!Abierto, Abierto
<1>2. En(x)!Aplicables(t, v) = Aplicables(t, v)
  <2>1. \A S : En(x)!Cardinality(S) = Cardinality(S)
    BY Zenon DEF En!Cardinality, Cardinality
  <2> QED BY <1>1, <2>1 DEF En!Aplicables, Aplicables
<1>3. \A b : En(x)!Tributo(b, v) = Tributo(b, v)
  BY DEF En!Tributo, Tributo, En!Redondea, Redondea, En!Mayor, Mayor
<1>4. En(x)!Impuesto(t, v) = Impuesto(t, v)
  BY <1>2, <1>3 DEF En!Impuesto, Impuesto, En!SinTramo, SinTramo
<1>5. \A b : En(x)!TramoValido(b) <=> TramoValido(b)
  BY DEF En!TramoValido, TramoValido, En!Abierto, Abierto
<1>6. \A b, q : En(x)!Contiguos(b, q) <=> Contiguos(b, q)
  BY DEF En!Contiguos, Contiguos, En!Abierto, Abierto, En!Tolerancia, Tolerancia
<1>7. En(x)!Aceptada(t) <=> Aceptada(t)
  BY <1>5, <1>6 DEF En!Aceptada, Aceptada
<1> QED BY <1>4, <1>7

LEMMA ReglaIgual == En(Estado)!ReglaImpuesto = ReglaImpuesto
<1>1. En(Estado)!NumeroPeriodo = NumeroPeriodo /\ En(Estado)!NetoAcumulado = NetoAcumulado
  BY EstadoCampos DEF En!NumeroPeriodo, NumeroPeriodo, En!NetoAcumulado, NetoAcumulado
<1>2. \A v : En(Estado)!Impuesto(catalogo.tabla, v) = Impuesto(catalogo.tabla, v)
  BY TablaIgual
<1>3. En(Estado)!Aceptada(catalogo.tabla) <=> Aceptada(catalogo.tabla)
  BY TablaIgual
<1>4. /\ \A n, d : En(Estado)!Redondea(n, d) = Redondea(n, d)
      /\ \A a, b : En(Estado)!Mayor(a, b) = Mayor(a, b)
      /\ En(Estado)!SinTramo = SinTramo
  BY DEF En!Redondea, Redondea, En!Mayor, Mayor, En!SinTramo, SinTramo
<1> QED BY <1>1, <1>2, <1>3, <1>4, EstadoCampos DEF En!ReglaImpuesto, ReglaImpuesto

LEMMA BaseIgual == ASSUME NEW cual PROVE En(Estado)!Base(cual) = Base(cual)
<1>1. En(Estado)!Sueldo(jornada) = Sueldo(jornada) /\ En(Estado)!Mensual(jornada) = Mensual(jornada)
  BY EstadoCampos, SalarioIgual
<1> QED BY <1>1, EstadoCampos, Zenon DEF En!Base, Base

LEMMA HorasIgual ==
  ASSUME NEW c
  PROVE  En(Estado)!BaseHoras(c) = BaseHoras(c) /\ En(Estado)!Recargo(c) = Recargo(c)
<1>1. \A b : En(Estado)!Base(b) = Base(b)
  BY BaseIgual
<1> QED BY <1>1 DEF En!BaseHoras, BaseHoras, En!Recargo, Recargo

LEMMA PorFormulaIgual ==
  ASSUME NEW c \in ConceptoType
  PROVE  En(Estado)!PorFormula(c) = PorFormula(c)
<1>1. En(Estado)!Base(c.base) = Base(c.base) /\ En(Estado)!ReglaImpuesto = ReglaImpuesto
  BY BaseIgual, ReglaIgual
<1>2. \A n, d : En(Estado)!Redondea(n, d) = Redondea(n, d)
  BY DEF En!Redondea, Redondea
<1>3. En(Estado)!Sin = Sin
  BY DEF En!Sin, Sin
<1>4. c.tipo \in {"fijo", "porcentaje", "horas", "regla"}
  BY DEF ConceptoType
<1>5. CASE c.asociado # Sin
  BY <1>3, <1>5 DEF En!PorFormula, PorFormula
<1>6. CASE c.asociado = Sin /\ c.tipo = "porcentaje"
  BY <1>1, <1>2, <1>3, <1>6 DEF En!PorFormula, PorFormula
<1>7. CASE c.asociado = Sin /\ c.tipo = "fijo"
  BY <1>3, <1>7, EstadoCampos DEF En!PorFormula, PorFormula
<1>8. CASE c.asociado = Sin /\ c.tipo = "horas"
  BY <1>2, <1>3, <1>8, EstadoCampos, HorasIgual DEF En!PorFormula, PorFormula
<1>9. CASE c.asociado = Sin /\ c.tipo = "regla"
  BY <1>1, <1>3, <1>9 DEF En!PorFormula, PorFormula
<1> QED BY <1>4, <1>5, <1>6, <1>7, <1>8, <1>9

LEMMA MontoIgual ==
  ASSUME NEW c \in ConceptoType, c.techo = Sin
  PROVE  En(Estado)!Monto(c) = Monto(c) /\ En(Estado)!MontoDeduccion(c) = MontoDeduccion(c)
<1>1. En(Estado)!PorFormula(c) = PorFormula(c)
  BY PorFormulaIgual
<1>2. En(Estado)!Monto(c) = Monto(c)
  BY <1>1 DEF En!Monto, Monto, En!ConTecho, ConTecho, En!SinTramo, SinTramo, En!Sin, Sin,
     En!Mayor, Mayor
<1>3. En(Estado)!MontoDeduccion(c) = MontoDeduccion(c)
  BY <1>2, EstadoCampos DEF En!MontoDeduccion, MontoDeduccion, En!SinTramo, SinTramo,
     En!Sin, Sin, En!Menor, Menor, En!Restante, Restante, En!Mayor, Mayor
<1> QED BY <1>2, <1>3

LEMMA RestoIgual ==
  /\ \A c, m : En(Estado)!Gravado(c, m) = Gravado(c, m)
  /\ \A m : En(Estado)!Aplicable(m) = Aplicable(m)
  /\ \A c : En(Estado)!Omitida(c) <=> Omitida(c)
  /\ \A i : En(Estado)!Primera(i) <=> Primera(i)
  /\ \A d : En(Estado)!Alcanzada(d) <=> Alcanzada(d)
  /\ \A d : En(Estado)!Abono(d) = Abono(d) /\ En(Estado)!Cuota(d) = Cuota(d)
  /\ \A d : En(Estado)!FilaDeuda(d) = FilaDeuda(d)
<1>1. \A c, m : En(Estado)!Gravado(c, m) = Gravado(c, m)
  BY EstadoCampos DEF En!Gravado, Gravado, En!Sin, Sin, En!Menor, Menor, En!Mayor, Mayor
<1>2. \A m : En(Estado)!Aplicable(m) = Aplicable(m)
  BY EstadoCampos DEF En!Aplicable, Aplicable, En!Menor, Menor, En!Mayor, Mayor
<1>3. \A c : En(Estado)!Omitida(c) <=> Omitida(c)
  BY EstadoCampos DEF En!Omitida, Omitida
<1>4. \A i : En(Estado)!Primera(i) <=> Primera(i)
  BY EstadoCampos DEF En!Primera, Primera, En!Precede, Precede
<1>5. \A d : En(Estado)!Cambio(d) = Cambio(d)
  BY EstadoCampos DEF En!Cambio, Cambio
<1>6. /\ \A d, m : En(Estado)!EnPlanilla(d, m) = EnPlanilla(d, m)
      /\ \A d, m : En(Estado)!EnDeuda(d, m) = EnDeuda(d, m)
  BY <1>5 DEF En!EnPlanilla, EnPlanilla, En!EnDeuda, EnDeuda, En!Redondea, Redondea
<1>7. \A d : En(Estado)!Debido(d) = Debido(d)
  BY EstadoCampos DEF En!Debido, Debido, En!Menor, Menor
<1>8. \A d : En(Estado)!Alcanzada(d) <=> Alcanzada(d)
  BY <1>7, EstadoCampos DEF En!Alcanzada, Alcanzada
<1>9. \A d : En(Estado)!Abono(d) = Abono(d)
  BY <1>6, <1>7, EstadoCampos DEF En!Abono, Abono, En!Menor, Menor
<1>10. \A d : En(Estado)!Cuota(d) = Cuota(d)
  BY <1>6, <1>9 DEF En!Cuota, Cuota
<1>11. \A d : En(Estado)!FilaDeuda(d) = FilaDeuda(d)
  BY <1>6, <1>7, <1>10, EstadoCampos DEF En!FilaDeuda, FilaDeuda
<1> QED BY <1>1, <1>2, <1>3, <1>4, <1>8, <1>9, <1>10, <1>11

\* No concept has an annual limit.
SinTechos ==
  /\ \A i \in DOMAIN catalogo.percepciones : catalogo.percepciones[i].techo = Sin
  /\ \A i \in DOMAIN catalogo.deducciones : catalogo.deducciones[i].techo = Sin

\* A step of the calculation in progress, of those that do not end it.
Avanza ==
  /\ fase # "libre" /\ fase' # "libre" /\ ~Final(Estado)
  /\ catalogo' = catalogo /\ acum' = acum /\ saldos' = saldos /\ jornada' = jornada

LEMMA EstadoTras ==
  ASSUME catalogo' = catalogo, acum' = acum, saldos' = saldos, jornada' = jornada
  PROVE  Estado' = Con(Estado, fase', k', pendientes', bruto', gravable', items', saldo', retenido')
BY DEF Estado, Con, Fiscal

LEMMA ConceptoDe ==
  ASSUME IInv
  PROVE  /\ \A i \in DOMAIN catalogo.percepciones : catalogo.percepciones[i] \in ConceptoType
         /\ \A i \in DOMAIN catalogo.deducciones :
              i \in Int /\ catalogo.deducciones[i] \in ConceptoType
<1> DEFINE p == catalogo.percepciones
           d == catalogo.deducciones
<1>1. p \in Seq(ConceptoType) /\ d \in Seq(ConceptoType)
  BY CatalogoFields DEF IInv, PersistenteOK
<1> HIDE DEF p, d
<1>2. /\ \A i \in DOMAIN p : p[i] \in ConceptoType
      /\ \A i \in DOMAIN d : i \in Int /\ d[i] \in ConceptoType
  BY <1>1
<1> QED BY <1>2 DEF p, d

LEMMA PercepcionSig ==
  ASSUME IInv, SinTechos, Percepcion, fase' # "libre"
  PROVE  Avanza /\ Estado' = Sig(Estado)
<1> DEFINE c == catalogo.percepciones[k]
           monto == Monto(c)
           tasado == Gravado(c, monto - Menor(monto, c.exento))
<1>1. fase = "percepciones" /\ k \in DOMAIN catalogo.percepciones
  BY DEF Percepcion
<1>2. ~Falla
  BY DEF Falla, Termina
<1>3. /\ catalogo' = catalogo /\ acum' = acum /\ saldos' = saldos /\ jornada' = jornada
      /\ fase' = fase /\ k' = k + 1 /\ pendientes' = pendientes
      /\ items' = items /\ saldo' = saldo /\ retenido' = retenido
  BY <1>2 DEF Percepcion, persistente
<1>4. IF c.vigente /\ monto > 0
      THEN bruto' = bruto + monto /\ gravable' = gravable + tasado
      ELSE bruto' = bruto /\ gravable' = gravable
  BY <1>2 DEF Percepcion, percibido
<1>5. c \in ConceptoType /\ c.techo = Sin
  BY <1>1, ConceptoDe DEF SinTechos
<1>6. En(Estado)!Monto(c) = monto
  BY <1>5, MontoIgual
<1>7. \A m : En(Estado)!Gravado(c, m) = Gravado(c, m)
  BY RestoIgual
<1>8. Estado' = Con(Estado, fase, k + 1, pendientes, bruto', gravable', items, saldo, retenido)
  BY <1>3, EstadoTras
<1>9. Sig(Estado) = ConPercepcion(Estado, c, monto)
  BY <1>1, <1>6, EstadoCampos DEF Sig, SigPercepcion
<1> HIDE DEF c, monto
<1>10. Sig(Estado) = IF c.vigente /\ monto > 0
                     THEN Con(Estado, fase, k + 1, pendientes, bruto + monto, gravable + tasado,
                              items, saldo, retenido)
                     ELSE Con(Estado, fase, k + 1, pendientes, bruto, gravable, items, saldo,
                              retenido)
  BY <1>7, <1>9, EstadoCampos DEF ConPercepcion
<1> HIDE DEF tasado
<1>11. Estado' = Sig(Estado)
  <2>1. CASE c.vigente /\ monto > 0
    BY <1>4, <1>8, <1>10, <2>1
  <2>2. CASE ~(c.vigente /\ monto > 0)
    BY <1>4, <1>8, <1>10, <2>2
  <2> QED BY <2>1, <2>2
<1>12. ~Final(Estado)
  BY <1>1, EstadoCampos DEF Final
<1> QED BY <1>1, <1>3, <1>11, <1>12 DEF Avanza

LEMMA TerminaPercepcionesSig ==
  ASSUME TerminaPercepciones
  PROVE  Avanza /\ Estado' = Sig(Estado)
<1>1. fase = "percepciones" /\ k \notin DOMAIN catalogo.percepciones
  BY DEF TerminaPercepciones
<1>2. /\ catalogo' = catalogo /\ acum' = acum /\ saldos' = saldos /\ jornada' = jornada
      /\ fase' = "deducciones" /\ k' = 1 /\ pendientes' = DOMAIN catalogo.deducciones
      /\ bruto' = bruto /\ gravable' = gravable
      /\ items' = items /\ saldo' = bruto /\ retenido' = retenido
  BY DEF TerminaPercepciones, persistente, percibido
<1>3. Estado' = Con(Estado, "deducciones", 1, DOMAIN catalogo.deducciones, bruto, gravable,
                    items, bruto, retenido)
  BY <1>2, EstadoTras
<1>4. Sig(Estado) = Con(Estado, "deducciones", 1, DOMAIN catalogo.deducciones, bruto, gravable,
                        items, bruto, retenido)
  BY <1>1, EstadoCampos DEF Sig, SigPercepcion
<1>5. ~Final(Estado)
  BY <1>1, EstadoCampos DEF Final
<1> QED BY <1>1, <1>2, <1>3, <1>4, <1>5 DEF Avanza

\* The order of the deductions leaves one to go first.
LEMMA PrimeraUnica ==
  ASSUME IInv, NEW i, Primera(i)
  PROVE  LaPrimera(Estado) = i
<1>1. ASSUME NEW j, Primera(j) PROVE j = i
  <2>1. i \in DOMAIN catalogo.deducciones /\ j \in DOMAIN catalogo.deducciones
    BY <1>1 DEF Primera, IInv, CalculoOK
  <2>2. /\ i \in Int /\ j \in Int
        /\ catalogo.deducciones[i] \in ConceptoType /\ catalogo.deducciones[j] \in ConceptoType
    BY <2>1, ConceptoDe
  <2>3. catalogo.deducciones[i].prioridad \in Int /\ catalogo.deducciones[j].prioridad \in Int
    BY <2>2 DEF ConceptoType
  <2>4. Precede(i, j) /\ Precede(j, i)
    BY <1>1 DEF Primera
  <2> QED BY <2>2, <2>3, <2>4 DEF Precede
<1>2. \A j : En(Estado)!Primera(j) <=> j = i
  BY <1>1, RestoIgual
<1> QED BY <1>2, Zenon DEF LaPrimera

LEMMA DeduccionSig ==
  ASSUME IInv, SinTechos, NEW i, Deduccion(i), fase' # "libre"
  PROVE  Avanza /\ Estado' = Sig(Estado)
<1> DEFINE c == catalogo.deducciones[i]
           monto == MontoDeduccion(c)
           aplicado == Aplicable(monto)
           detiene == c.detener /\ monto > saldo
           nada == monto = 0 \/ detiene \/ (aplicado = 0 /\ ~c.obligatoria)
           quedan == IF detiene THEN {} ELSE pendientes \ {i}
           fila == Fila(c, monto, aplicado)
<1>1. fase = "deducciones" /\ Primera(i) /\ i \in pendientes
  BY DEF Deduccion, Primera
<1>2. i \in DOMAIN catalogo.deducciones
  BY <1>1 DEF IInv, CalculoOK
<1>3. c \in ConceptoType /\ c.techo = Sin
  BY <1>2, ConceptoDe DEF SinTechos
<1>4. En(Estado)!MontoDeduccion(c) = monto
  BY <1>3, MontoIgual
<1>5. ~Falla
  BY DEF Falla, Termina
<1>6. /\ Omitida(c) => pendientes' = pendientes \ {i} /\ SinFila
      /\ ~Omitida(c) =>
           /\ pendientes' = quedan
           /\ nada => SinFila
           /\ ~nada => Descuenta(c, monto, aplicado)
  BY <1>5 DEF Deduccion
<1>7. Sig(Estado) = ConDeduccion(Estado, i, c, monto)
  BY <1>1, <1>4, PrimeraUnica, EstadoCampos DEF Sig, SigDeduccion
<1>8. /\ En(Estado)!Omitida(c) <=> Omitida(c)
      /\ En(Estado)!Aplicable(monto) = aplicado
  BY RestoIgual
<1> HIDE DEF c, monto, aplicado
<1>9. Sig(Estado) =
        IF Omitida(c) THEN Queda(Estado, pendientes \ {i})
        ELSE IF nada THEN Queda(Estado, quedan)
        ELSE ConFilaDe(Estado, k, quedan, fila)
  BY <1>7, <1>8, EstadoCampos DEF ConDeduccion
<1>10. fila.monto = aplicado
  BY DEF Fila
<1> HIDE DEF nada, quedan, fila
<1>11. ~Final(Estado)
  BY <1>1, EstadoCampos DEF Final
<1>12. ASSUME SinFila
       PROVE  Avanza /\ Estado' = Queda(Estado, pendientes')
  <2>1. /\ catalogo' = catalogo /\ acum' = acum /\ saldos' = saldos /\ jornada' = jornada
        /\ fase' = fase /\ k' = k /\ bruto' = bruto /\ gravable' = gravable
        /\ items' = items /\ saldo' = saldo /\ retenido' = retenido
    BY <1>12 DEF SinFila, persistente, percibido
  <2>2. Estado' = Con(Estado, fase, k, pendientes', bruto, gravable, items, saldo, retenido)
    BY <2>1, EstadoTras
  <2>3. Estado' = Queda(Estado, pendientes')
    BY <2>2, EstadoCampos DEF Queda
  <2> QED BY <1>1, <1>11, <2>1, <2>3 DEF Avanza
<1>13. ASSUME Descuenta(c, monto, aplicado)
       PROVE  Avanza /\ Estado' = ConFilaDe(Estado, k, pendientes', fila)
  <2>1. /\ catalogo' = catalogo /\ acum' = acum /\ saldos' = saldos /\ jornada' = jornada
        /\ fase' = fase /\ k' = k /\ bruto' = bruto /\ gravable' = gravable
        /\ items' = Append(items, fila) /\ saldo' = saldo - aplicado
        /\ retenido' = ConFila(retenido, fila)
    BY <1>13 DEF Descuenta, persistente, percibido, fila
  <2>2. Estado' = Con(Estado, fase, k, pendientes', bruto, gravable, Append(items, fila),
                      saldo - aplicado, ConFila(retenido, fila))
    BY <2>1, EstadoTras
  <2>3. Estado' = ConFilaDe(Estado, k, pendientes', fila)
    BY <1>10, <2>2, EstadoCampos DEF ConFilaDe
  <2> QED BY <1>1, <1>11, <2>1, <2>3 DEF Avanza
<1>14. CASE Omitida(c)
  BY <1>6, <1>9, <1>12, <1>14
<1>15. CASE ~Omitida(c) /\ nada
  BY <1>6, <1>9, <1>12, <1>15
<1>16. CASE ~Omitida(c) /\ ~nada
  BY <1>6, <1>9, <1>13, <1>16
<1> QED BY <1>14, <1>15, <1>16

LEMMA TerminaDeduccionesSig ==
  ASSUME TerminaDeducciones
  PROVE  Avanza /\ Estado' = Sig(Estado)
<1>1. fase = "deducciones" /\ pendientes = {}
  BY DEF TerminaDeducciones
<1>2. /\ catalogo' = catalogo /\ acum' = acum /\ saldos' = saldos /\ jornada' = jornada
      /\ fase' = "deudas" /\ k' = 1 /\ pendientes' = pendientes
      /\ bruto' = bruto /\ gravable' = gravable
      /\ items' = items /\ saldo' = saldo /\ retenido' = retenido
  BY DEF TerminaDeducciones, persistente, percibido
<1>3. Estado' = Con(Estado, "deudas", 1, pendientes, bruto, gravable, items, saldo, retenido)
  BY <1>2, EstadoTras
<1>4. Sig(Estado) = Con(Estado, "deudas", 1, pendientes, bruto, gravable, items, saldo, retenido)
  BY <1>1, EstadoCampos DEF Sig, SigDeduccion
<1>5. ~Final(Estado)
  BY <1>1, EstadoCampos DEF Final
<1> QED BY <1>1, <1>2, <1>3, <1>4, <1>5 DEF Avanza

LEMMA DeudaSig ==
  ASSUME Deuda, ~Falla
  PROVE  Avanza /\ Estado' = Sig(Estado)
<1> DEFINE cuota == Cuota(k)
           fila == FilaDeuda(k)
           cobra == Alcanzada(k) /\ Abono(k) > 0 /\ cuota > 0
<1>1. fase = "deudas" /\ k \in DOMAIN catalogo.deudas
  BY DEF Deuda, Deudas
<1>2. /\ catalogo' = catalogo /\ acum' = acum /\ saldos' = saldos /\ jornada' = jornada
      /\ fase' = fase /\ k' = k + 1 /\ pendientes' = pendientes
      /\ bruto' = bruto /\ gravable' = gravable
  BY DEF Deuda, persistente, percibido
<1>3. IF cobra
      THEN /\ items' = Append(items, fila) /\ saldo' = saldo - cuota
           /\ retenido' = ConFila(retenido, fila)
      ELSE items' = items /\ saldo' = saldo /\ retenido' = retenido
  BY DEF Deuda, Cobra
<1>4. /\ En(Estado)!Cuota(k) = cuota /\ En(Estado)!FilaDeuda(k) = fila /\ fila.monto = cuota
      /\ En(Estado)!Alcanzada(k) <=> Alcanzada(k)
      /\ En(Estado)!Abono(k) = Abono(k)
  BY RestoIgual DEF FilaDeuda
<1>5. Sig(Estado) = IF cobra THEN ConFilaDe(Estado, k + 1, pendientes, fila)
                    ELSE Con(Estado, fase, k + 1, pendientes, bruto, gravable, items, saldo,
                             retenido)
  <2> HIDE DEF cuota, fila
  <2> QED BY <1>1, <1>4, EstadoCampos DEF Sig, ConDeuda
<1> HIDE DEF cuota, fila, cobra
<1>6. Estado' = Con(Estado, fase, k + 1, pendientes, bruto, gravable, items', saldo', retenido')
  BY <1>2, EstadoTras
<1>7. ConFilaDe(Estado, k + 1, pendientes, fila)
        = Con(Estado, fase, k + 1, pendientes, bruto, gravable, Append(items, fila),
              saldo - cuota, ConFila(retenido, fila))
  BY <1>4, EstadoCampos DEF ConFilaDe
<1>8. Estado' = Sig(Estado)
  <2>1. CASE cobra
    BY <1>3, <1>5, <1>6, <1>7, <2>1
  <2>2. CASE ~cobra
    BY <1>3, <1>5, <1>6, <2>2
  <2> QED BY <2>1, <2>2
<1>9. ~Final(Estado)
  BY <1>1, EstadoCampos DEF Final
<1> QED BY <1>1, <1>2, <1>8, <1>9 DEF Avanza

-----------------------------------------------------------------------------
(* What the last payslip remembers                                           *)

\* From period r.jornada, year a and balances b the calculation comes to the
\* rows and the net of payslip r.
Reproduce(c, r, a, b) ==
  \E f : /\ Llega(Inicio(c, r.jornada, a, b), f) /\ Final(f)
         /\ f.items = r.items /\ f.bruto - f.retenido.deducido = r.neto

EnMarcha ==
  SinTechos /\ fase # "libre" =>
    Llega(Inicio(catalogo, jornada, Fiscal(acum), saldos), Estado)

Ultimo == recibos[Len(recibos)]
Devueltos(r) == [d \in Deudas |-> saldos[d] + r.abonos[d]]

\* Taken back now, the last payslip would be calculated as it was.
UltimoOK ==
  (/\ SinTechos /\ Len(recibos) # 0 /\ rehace = 0
   /\ Ultimo.estado = "vigente" /\ Ultimo.anuladas = anuladas /\ Exacto(Ultimo))
    => Reproduce(catalogo, Ultimo, Fiscal(SinRecibo(acum, Ultimo)), Devueltos(Ultimo))

\* The calculation in progress has the start of the payslip it replaces.
RehaceOK ==
  (/\ SinTechos /\ fase # "libre" /\ rehace # 0 /\ rehace = Len(recibos)
   /\ Ultimo.anuladas = anuladas /\ Exacto(Ultimo))
    => jornada = Ultimo.jornada /\ Reproduce(catalogo, Ultimo, Fiscal(acum), saldos)

\* One that is voided was not the last thing that happened when it was made.
Viejas ==
  \A n \in DOMAIN recibos :
    /\ recibos[n].anuladas <= anuladas
    /\ recibos[n].estado = "anulado" => recibos[n].anuladas < anuladas
SinRehacer == fase = "libre" => rehace = 0

RInv == EnMarcha /\ UltimoOK /\ RehaceOK /\ Viejas /\ SinRehacer /\ RecalculoIgual

LEMMA InitRecalculo == Init => RInv
<1> SUFFICES ASSUME Init PROVE RInv
  OBVIOUS
<1>1. Len(recibos) = 0 /\ DOMAIN recibos = {} /\ fase = "libre" /\ rehace = 0
  BY DEF Init
<1> QED BY <1>1 DEF RInv, EnMarcha, UltimoOK, RehaceOK, Viejas, SinRehacer, RecalculoIgual

\* What a payslip keeps when it is taken back.
Igual(r, q) ==
  /\ r.jornada = q.jornada /\ r.rehace = q.rehace /\ r.anuladas = q.anuladas
  /\ r.items = q.items /\ r.neto = q.neto /\ r.gravable = q.gravable
  /\ r.sueldo = q.sueldo /\ r.descuento = q.descuento /\ r.gravados = q.gravados

LEMMA QuedaIgual ==
  ASSUME IInv, RecalculoIgual, catalogo' = catalogo, DOMAIN recibos' = DOMAIN recibos,
         \A n \in DOMAIN recibos : Igual(recibos'[n], recibos[n])
  PROVE  RecalculoIgual'
<1> SUFFICES ASSUME NEW n \in DOMAIN recibos',
                    recibos'[n].rehace # 0, recibos'[n].rehace = n - 1,
                    recibos'[recibos'[n].rehace].anuladas = recibos'[n].anuladas,
                    Exacto(recibos'[recibos'[n].rehace]), SinTechos'
             PROVE  /\ recibos'[n].neto = recibos'[recibos'[n].rehace].neto
                    /\ recibos'[n].items = recibos'[recibos'[n].rehace].items
  BY DEF RecalculoIgual, Reversible, SinTechos
<1>1. recibos \in Seq(ReciboType)
  BY DEF IInv, PersistenteOK
<1>2. n \in DOMAIN recibos /\ n - 1 \in DOMAIN recibos
  <2>1. n \in DOMAIN recibos /\ n - 1 # 0
    OBVIOUS
  <2>2. Len(recibos) \in Nat /\ DOMAIN recibos = 1 .. Len(recibos)
    BY <1>1
  <2>3. n \in 1 .. Len(recibos)
    BY <2>1, <2>2
  <2>4. n - 1 \in 1 .. Len(recibos)
    BY <2>1, <2>2, <2>3
  <2> QED BY <2>1, <2>2, <2>4
<1> DEFINE m == n - 1
<1>3. Igual(recibos'[n], recibos[n]) /\ Igual(recibos'[m], recibos[m])
  BY <1>2
<1>4. recibos[n].rehace # 0 /\ recibos[n].rehace = m /\ recibos[m].anuladas = recibos[n].anuladas
  BY <1>3 DEF Igual
<1>5. Reversible(recibos[m])
  <2>1. Exacto(recibos'[m])
    OBVIOUS
  <2>2. Exacto(recibos[m])
    BY <1>3, <2>1 DEF Exacto, Revertible, Igual
  <2>3. SinTechos
    BY DEF SinTechos
  <2> QED BY <2>2, <2>3 DEF Reversible, SinTechos
<1>6. recibos[n].neto = recibos[m].neto /\ recibos[n].items = recibos[m].items
  BY <1>2, <1>4, <1>5 DEF RecalculoIgual
<1> QED BY <1>3, <1>6 DEF Igual

LEMMA SigueIgual ==
  ASSUME IInv, RecalculoIgual, catalogo' = catalogo, recibos' = recibos
  PROVE  RecalculoIgual'
<1>1. \A n \in DOMAIN recibos : Igual(recibos'[n], recibos[n])
  BY DEF Igual
<1> QED BY <1>1, QuedaIgual

LEMMA RetiraIgual ==
  ASSUME IInv, NEW n \in DOMAIN recibos, NEW e, recibos' = [recibos EXCEPT ![n].estado = e]
  PROVE  /\ DOMAIN recibos' = DOMAIN recibos /\ Len(recibos') = Len(recibos)
         /\ \A m \in DOMAIN recibos : Igual(recibos'[m], recibos[m])
         /\ \A m \in DOMAIN recibos :
              recibos'[m].estado = IF m = n THEN e ELSE recibos[m].estado
<1>1. recibos \in Seq(ReciboType)
  BY DEF IInv, PersistenteOK
<1>3. \A m \in DOMAIN recibos : recibos'[m].estado = IF m = n THEN e ELSE recibos[m].estado
  <2>1. recibos[n] \in ReciboType
    BY <1>1
  <2> DEFINE r == recibos[n]
             q == [r EXCEPT !.estado = e]
  <2>2. q.estado = e
    <3> HIDE DEF r
    <3>1. r \in ReciboType
      BY <2>1 DEF r
    <3> QED BY <3>1 DEF ReciboType
  <2>3. recibos'[n] = q
    BY <1>1
  <2>4. \A m \in DOMAIN recibos : m # n => recibos'[m] = recibos[m]
    BY <1>1
  <2> HIDE DEF q
  <2> QED BY <2>2, <2>3, <2>4
<1>2. ASSUME NEW m \in DOMAIN recibos PROVE Igual(recibos'[m], recibos[m])
  <2>1. recibos[m] \in ReciboType
    BY <1>1
  <2>2. CASE m = n
    <3> DEFINE r == recibos[m]
               q == [r EXCEPT !.estado = e]
    <3>1. recibos'[m] = q
      BY <1>1, <2>2
    <3>2. Igual(q, r)
      <4> HIDE DEF r
      <4>1. r \in ReciboType
        BY <2>1 DEF r
      <4> QED BY <4>1 DEF Igual, ReciboType
    <3> QED BY <3>1, <3>2
  <2>3. CASE m # n
    <3>1. recibos'[m] = recibos[m]
      BY <1>1, <2>3
    <3> QED BY <3>1 DEF Igual
  <2> QED BY <2>2, <2>3
<1> QED BY <1>1, <1>2, <1>3

-----------------------------------------------------------------------------
(* Every step keeps it                                                       *)

LEMMA AvanzaRecalculo ==
  ASSUME IInv, RInv, fase # "libre", fase' # "libre",
         UNCHANGED <<persistente, rehace, jornada>>,
         SinTechos => Avanza /\ Estado' = Sig(Estado)
  PROVE  RInv'
<1>1. /\ catalogo' = catalogo /\ acum' = acum /\ saldos' = saldos /\ recibos' = recibos
      /\ anuladas' = anuladas /\ rehace' = rehace /\ jornada' = jornada
  BY DEF persistente
<1>2. SinTechos' <=> SinTechos
  BY <1>1 DEF SinTechos
<1>3. EnMarcha'
  <2> SUFFICES ASSUME SinTechos PROVE Llega(Inicio(catalogo, jornada, Fiscal(acum), saldos), Estado')
    BY <1>1, <1>2 DEF EnMarcha
  <2>1. Llega(Inicio(catalogo, jornada, Fiscal(acum), saldos), Estado)
    BY DEF RInv, EnMarcha
  <2>2. ~Final(Estado) /\ Estado' = Sig(Estado)
    BY DEF Avanza
  <2>3. Llega(Inicio(catalogo, jornada, Fiscal(acum), saldos), Sig(Estado))
    BY <2>1, <2>2, LlegaSig
  <2> QED BY <2>2, <2>3
<1>4. UltimoOK'
  BY <1>1, <1>2 DEF RInv, UltimoOK, Ultimo, Devueltos, Deudas, Exacto
<1>5. RehaceOK'
  BY <1>1, <1>2 DEF RInv, RehaceOK, Ultimo, Exacto
<1>6. Viejas' /\ SinRehacer'
  BY <1>1 DEF RInv, Viejas, SinRehacer
<1>7. RecalculoIgual'
  BY <1>1, SigueIgual DEF RInv
<1> QED BY <1>3, <1>4, <1>5, <1>6, <1>7 DEF RInv

LEMMA FallaRecalculo ==
  ASSUME IInv, RInv, Falla
  PROVE  RInv'
<1>1. /\ catalogo' = catalogo /\ acum' = acum /\ saldos' = saldos /\ recibos' = recibos
      /\ fase' = "libre" /\ rehace' = 0
      /\ anuladas' = IF rehace = 0 THEN anuladas ELSE anuladas + 1
  BY DEF Falla, Termina
<1>2. anuladas \in Nat /\ recibos \in Seq(ReciboType)
  BY DEF IInv, PersistenteOK
<1>3. \A n \in DOMAIN recibos : recibos[n].anuladas \in Nat
  <2>1. \A n \in DOMAIN recibos : recibos[n] \in ReciboType
    BY <1>2
  <2> QED BY <2>1 DEF ReciboType
<1>4. SinTechos' <=> SinTechos
  BY <1>1 DEF SinTechos
<1>5. EnMarcha' /\ RehaceOK' /\ SinRehacer'
  BY <1>1 DEF EnMarcha, RehaceOK, SinRehacer
<1>6. Viejas'
  BY <1>1, <1>2, <1>3 DEF RInv, Viejas
<1>7. UltimoOK'
  <2>1. CASE rehace = 0
    BY <1>1, <1>4, <2>1 DEF RInv, UltimoOK, Ultimo, Devueltos, Deudas, Exacto
  <2>2. CASE rehace # 0
    <3>1. Len(recibos) # 0 => Ultimo.anuladas \in Nat /\ Ultimo.anuladas <= anuladas
      <4> SUFFICES ASSUME Len(recibos) # 0
                   PROVE  Ultimo.anuladas \in Nat /\ Ultimo.anuladas <= anuladas
        OBVIOUS
      <4>1. Len(recibos) \in DOMAIN recibos
        BY <1>2
      <4> QED BY <1>3, <4>1 DEF RInv, Viejas, Ultimo
    <3>2. Len(recibos') # 0 => Ultimo' = Ultimo /\ Ultimo'.anuladas # anuladas'
      BY <1>1, <1>2, <2>2, <3>1 DEF Ultimo
    <3> QED BY <3>2 DEF UltimoOK
  <2> QED BY <2>1, <2>2
<1>8. RecalculoIgual'
  BY <1>1, SigueIgual DEF RInv
<1> QED BY <1>5, <1>6, <1>7, <1>8 DEF RInv

LEMMA NetoDe ==
  ASSUME NEW j
  PROVE  En([catalogo |-> catalogo])!NetoInasistencia(j) = NetoInasistencia(j)
<1> DEFINE x == [catalogo |-> catalogo]
<1>1. x.catalogo = catalogo
  OBVIOUS
<1> HIDE DEF x
<1>2. En(x)!NetoInasistencia(j) = NetoInasistencia(j)
  BY <1>1, SalarioIgual
<1> QED BY <1>2 DEF x

\* A calculation begins at its start.
LEMMA EmpiezaEnMarcha ==
  ASSUME NEW j, NEW n, Empieza(j, n), catalogo' = catalogo
  PROVE  EnMarcha'
<1>1. /\ fase' = "percepciones" /\ jornada' = j /\ k' = 1
      /\ bruto' = NetoInasistencia(j) /\ gravable' = NetoInasistencia(j)
      /\ pendientes' = {} /\ items' = <<>> /\ saldo' = 0 /\ retenido' = NadaRetenido
  BY DEF Empieza, SinFilas
<1> DEFINE i == Inicio(catalogo, j, Fiscal(acum'), saldos')
<1>2. Estado' = i
  BY <1>1, NetoDe DEF Estado, Inicio, Fiscal
<1>3. Llega(i, i)
  <2> HIDE DEF i
  <2> QED BY LlegaInicio
<1> QED BY <1>1, <1>2, <1>3 DEF EnMarcha

LEMMA EjecutarRecalculo ==
  ASSUME IInv, RInv, NEW j \in Jornadas, Ejecutar(j)
  PROVE  RInv'
<1>1. /\ catalogo' = catalogo /\ acum' = acum /\ saldos' = saldos /\ recibos' = recibos
      /\ anuladas' = anuladas /\ fase = "libre" /\ rehace = 0
  BY DEF Ejecutar, RInv, SinRehacer
<1>2. EnMarcha' /\ rehace' = 0
  <2>1. CASE Apto(j)
    <3>1. Empieza(j, 0)
      BY <2>1 DEF Ejecutar
    <3> QED BY <1>1, <3>1, EmpiezaEnMarcha DEF Empieza
  <2>2. CASE ~Apto(j)
    <3>1. fase' = fase /\ rehace' = rehace
      BY <2>2 DEF Ejecutar, calculo
    <3> QED BY <1>1, <3>1 DEF EnMarcha
  <2> QED BY <2>1, <2>2
<1>3. SinTechos' <=> SinTechos
  BY <1>1 DEF SinTechos
<1>4. UltimoOK'
  BY <1>1, <1>3 DEF RInv, UltimoOK, Ultimo, Devueltos, Deudas, Exacto
<1>5. RehaceOK' /\ SinRehacer' /\ Viejas'
  BY <1>1, <1>2 DEF RehaceOK, SinRehacer, RInv, Viejas
<1>6. RecalculoIgual'
  BY <1>1, SigueIgual DEF RInv
<1> QED BY <1>2, <1>4, <1>5, <1>6 DEF RInv

LEMMA AnularRecalculo ==
  ASSUME IInv, RInv, NEW n \in DOMAIN recibos, Anular(n)
  PROVE  RInv'
<1>1. /\ catalogo' = catalogo /\ anuladas' = anuladas + 1 /\ fase = "libre" /\ fase' = "libre"
      /\ rehace = 0 /\ rehace' = 0 /\ recibos' = [recibos EXCEPT ![n].estado = "anulado"]
  BY DEF Anular, calculo, RInv, SinRehacer
<1>2. anuladas \in Nat /\ recibos \in Seq(ReciboType)
  BY DEF IInv, PersistenteOK
<1>3. /\ DOMAIN recibos' = DOMAIN recibos /\ Len(recibos') = Len(recibos)
      /\ \A m \in DOMAIN recibos : Igual(recibos'[m], recibos[m])
  BY <1>1, RetiraIgual
<1>4. \A m \in DOMAIN recibos : recibos[m].anuladas \in Nat
  <2>1. \A m \in DOMAIN recibos : recibos[m] \in ReciboType
    BY <1>2
  <2> QED BY <2>1 DEF ReciboType
<1>5. \A m \in DOMAIN recibos' : recibos'[m].anuladas < anuladas'
  BY <1>1, <1>2, <1>3, <1>4 DEF RInv, Viejas, Igual
<1>6. Viejas'
  BY <1>1, <1>2, <1>3, <1>4 DEF RInv, Viejas, Igual
<1>7. UltimoOK'
  <2>1. Len(recibos') # 0 => Len(recibos') \in DOMAIN recibos'
    BY <1>2, <1>3
  <2>2. Len(recibos') # 0 => Ultimo'.anuladas < anuladas' /\ Ultimo'.anuladas \in Nat
    BY <1>3, <1>4, <1>5, <2>1 DEF Ultimo, Igual
  <2>3. Len(recibos') # 0 => Ultimo'.anuladas # anuladas'
    BY <1>1, <1>2, <2>2
  <2> QED BY <2>3 DEF UltimoOK
<1>8. EnMarcha' /\ RehaceOK' /\ SinRehacer'
  BY <1>1 DEF EnMarcha, RehaceOK, SinRehacer
<1>9. RecalculoIgual'
  BY <1>1, <1>3, QuedaIgual DEF RInv
<1> QED BY <1>6, <1>7, <1>8, <1>9 DEF RInv

LEMMA RecalcularRecalculo ==
  ASSUME IInv, RInv, NEW n \in DOMAIN recibos, Recalcular(n)
  PROVE  RInv'
<1>1. /\ catalogo' = catalogo /\ anuladas' = anuladas /\ fase = "libre" /\ rehace = 0
      /\ recibos' = [recibos EXCEPT ![n].estado = "recalculado"]
      /\ Empieza(recibos[n].jornada, n)
  BY DEF Recalcular, RInv, SinRehacer
<1>2. fase' = "percepciones" /\ rehace' = n /\ jornada' = recibos[n].jornada
  BY <1>1 DEF Empieza
<1>3. recibos \in Seq(ReciboType) /\ n # 0 /\ anuladas \in Nat
  BY DEF IInv, PersistenteOK
<1>4. /\ DOMAIN recibos' = DOMAIN recibos /\ Len(recibos') = Len(recibos)
      /\ \A m \in DOMAIN recibos : Igual(recibos'[m], recibos[m])
      /\ \A m \in DOMAIN recibos :
           recibos'[m].estado = IF m = n THEN "recalculado" ELSE recibos[m].estado
  BY <1>1, RetiraIgual
<1>5. EnMarcha'
  BY <1>1, EmpiezaEnMarcha
<1>6. UltimoOK' /\ SinRehacer'
  BY <1>2, <1>3 DEF UltimoOK, SinRehacer
<1>7. Viejas'
  BY <1>1, <1>4 DEF RInv, Viejas, Igual
<1>8. RecalculoIgual'
  BY <1>1, <1>4, QuedaIgual DEF RInv
<1>9. RehaceOK'
  <2> SUFFICES ASSUME SinTechos', n = Len(recibos), Ultimo'.anuladas = anuladas', Exacto(Ultimo')
               PROVE  /\ jornada' = Ultimo'.jornada
                      /\ Reproduce(catalogo, Ultimo', Fiscal(acum'), saldos')
    BY <1>1, <1>2, <1>4 DEF RehaceOK, Exacto, Ultimo
  <2>1. Ultimo = recibos[n] /\ Ultimo' = recibos'[n] /\ Len(recibos) # 0
    BY <1>3, <1>4 DEF Ultimo
  <2>2. Igual(Ultimo', Ultimo)
    BY <1>4, <2>1
  <2>3. SinTechos /\ Exacto(Ultimo) /\ Ultimo.anuladas = anuladas
    BY <1>1, <2>1, <2>2 DEF SinTechos, Exacto, Revertible, Igual
  <2>4. recibos[n].anuladas \in Nat
    <3>1. recibos[n] \in ReciboType
      BY <1>3
    <3> QED BY <3>1 DEF ReciboType
  <2>5. recibos[n].estado # "anulado"
    BY <1>3, <2>1, <2>3, <2>4 DEF RInv, Viejas
  <2>6. recibos[n].estado = "vigente" /\ Revierte(n)
    BY <2>5 DEF Recalcular, Retira
  <2>7. acum' = SinRecibo(acum, recibos[n]) /\ saldos' = Devueltos(recibos[n])
    BY <2>6 DEF Revierte, Devueltos
  <2>8. Reproduce(catalogo, Ultimo, Fiscal(SinRecibo(acum, Ultimo)), Devueltos(Ultimo))
    BY <1>1, <2>1, <2>3, <2>6 DEF RInv, UltimoOK
  <2>9. Reproduce(catalogo, Ultimo, Fiscal(acum'), saldos')
    BY <2>1, <2>7, <2>8
  <2>10. Reproduce(catalogo, Ultimo', Fiscal(acum'), saldos')
    BY <2>2, <2>9 DEF Reproduce, Igual
  <2>11. jornada' = Ultimo'.jornada
    BY <1>2, <2>1, <2>2 DEF Igual
  <2> QED BY <2>10, <2>11
<1> QED BY <1>5, <1>6, <1>7, <1>8, <1>9 DEF RInv

LEMMA Vuelta ==
  ASSUME NEW u \in Nat, NEW v \in Nat, NEW w, w = u + v
  PROVE  Mayor(w - v, 0) = u
BY DEF Mayor

\* What the year and a payslip of it made is what it was before, once the
\* payslip is taken back.
LEMMA IdaYVuelta ==
  ASSUME NEW a \in AcumType, NEW r \in ReciboType, Exacto(r)
  PROVE  Fiscal(SinRecibo(ConRecibo(a, r), r)) = Fiscal(a)
<1>1. /\ a.gravable \in Nat /\ a.antes \in Nat /\ a.impuesto \in Nat /\ a.procesados \in Nat
      /\ a.bruto \in Nat /\ r.bruto \in Nat
      /\ r.gravable \in Nat /\ r.retenido.antes \in Nat /\ r.retenido.impuesto \in Nat
      /\ Revertible(r) = r.gravable
  BY AcumFields, ReciboFields DEF Exacto
<1> DEFINE b == ConRecibo(a, r)
<1>2. /\ b.bruto = a.bruto + r.bruto
      /\ b.gravable = a.gravable + r.gravable /\ b.antes = a.antes + r.retenido.antes
      /\ b.impuesto = a.impuesto + r.retenido.impuesto /\ b.procesados = a.procesados + 1
  BY DEF ConRecibo
<1> HIDE DEF b
<1>3. /\ Mayor(b.bruto - r.bruto, 0) = a.bruto
      /\ Mayor(b.gravable - Revertible(r), 0) = a.gravable
      /\ Mayor(b.antes - r.retenido.antes, 0) = a.antes
      /\ Mayor(b.impuesto - r.retenido.impuesto, 0) = a.impuesto
      /\ Mayor(b.procesados - 1, 0) = a.procesados
  <2>1. Mayor(b.bruto - r.bruto, 0) = a.bruto
    BY <1>1, <1>2, Vuelta
  <2>2. Mayor(b.gravable - Revertible(r), 0) = a.gravable
    <3>1. Mayor(b.gravable - r.gravable, 0) = a.gravable
      BY <1>1, <1>2, Vuelta
    <3> QED BY <1>1, <3>1, Zenon
  <2>3. Mayor(b.antes - r.retenido.antes, 0) = a.antes
    BY <1>1, <1>2, Vuelta
  <2>4. Mayor(b.impuesto - r.retenido.impuesto, 0) = a.impuesto
    BY <1>1, <1>2, Vuelta
  <2>5. Mayor(b.procesados - 1, 0) = a.procesados
    BY <1>1, <1>2, Vuelta
  <2> QED BY <2>1, <2>2, <2>3, <2>4, <2>5
<1>4. Fiscal(SinRecibo(b, r)) = Fiscal(a)
  BY <1>3 DEF Fiscal, SinRecibo
<1> QED BY <1>4 DEF b

LEMMA ContabilizarRecalculo ==
  ASSUME IInv, RInv, Contabilizar, ~Falla
  PROVE  RInv'
<1> DEFINE r == ReciboCalculado
           n == Len(recibos)
<1>1. /\ r \in ReciboType /\ r.jornada = jornada /\ r.items = items /\ r.abonos = abonos
      /\ r.neto = bruto - retenido.deducido /\ r.anuladas = anuladas /\ r.rehace = rehace
      /\ r.estado = "vigente"
  BY ReciboCalculadoType DEF Contabilizar, ReciboCalculado
<1>3. /\ acum' = ConRecibo(acum, r) /\ saldos' = [d \in Deudas |-> saldos[d] - abonos[d]]
      /\ recibos' = Append(recibos, r) /\ Termina
      /\ catalogo' = catalogo /\ anuladas' = anuladas
  BY DEF Contabilizar
<1>4. fase = "deudas" /\ k \notin DOMAIN catalogo.deudas
  BY DEF Contabilizar, Deudas
<1> HIDE DEF r
<1>5. fase' = "libre" /\ rehace' = 0
  BY <1>3 DEF Termina
<1>6. /\ recibos \in Seq(ReciboType) /\ n \in Nat /\ anuladas \in Nat /\ rehace \in Nat
      /\ acum \in AcumType /\ saldos \in [Deudas -> Nat] /\ abonos \in [Deudas -> Nat]
  BY DEF IInv, PersistenteOK, CalculoOK
<1>7. /\ Len(recibos') = n + 1 /\ recibos'[n + 1] = r
      /\ \A m \in DOMAIN recibos : recibos'[m] = recibos[m]
      /\ DOMAIN recibos' = DOMAIN recibos \cup {n + 1} /\ DOMAIN recibos = 1 .. n
  BY <1>1, <1>3, <1>6
<1>8. Ultimo' = r
  BY <1>7 DEF Ultimo
<1>9. SinTechos' <=> SinTechos
  BY <1>3 DEF SinTechos
<1>10. Final(Estado) /\ Estado.items = r.items /\ Estado.bruto - Estado.retenido.deducido = r.neto
  BY <1>1, <1>4, EstadoCampos DEF Final
<1>11. SinTechos => Llega(Inicio(catalogo, r.jornada, Fiscal(acum), saldos), Estado)
  BY <1>1, <1>4 DEF RInv, EnMarcha
<1>12. EnMarcha' /\ RehaceOK' /\ SinRehacer'
  BY <1>5 DEF EnMarcha, RehaceOK, SinRehacer
<1>13. Viejas'
  <2>1. \A m \in DOMAIN recibos :
          /\ recibos'[m].anuladas <= anuladas
          /\ recibos'[m].estado = "anulado" => recibos'[m].anuladas < anuladas
    BY <1>7 DEF RInv, Viejas
  <2>2. recibos'[n + 1].anuladas <= anuladas /\ recibos'[n + 1].estado # "anulado"
    BY <1>1, <1>6, <1>7
  <2> QED BY <1>3, <1>7, <2>1, <2>2 DEF Viejas
<1>14. UltimoOK'
  <2> DEFINE devueltos == [d \in Deudas |-> saldos'[d] + r.abonos[d]]
  <2>0. Deudas' = Deudas
    BY <1>3 DEF Deudas
  <2> SUFFICES ASSUME SinTechos, Exacto(r)
               PROVE  Reproduce(catalogo, r, Fiscal(SinRecibo(acum', r)), devueltos)
    BY <1>3, <1>8, <1>9, <2>0 DEF UltimoOK, Exacto, Devueltos
  <2>1. Fiscal(SinRecibo(acum', r)) = Fiscal(acum)
    BY <1>1, <1>3, <1>6, IdaYVuelta
  <2>2. devueltos = saldos
    <3>1. \A d \in Deudas : saldos'[d] + abonos[d] = saldos[d]
      BY <1>3, <1>6
    <3> QED BY <1>1, <1>6, <3>1
  <2>3. Reproduce(catalogo, r, Fiscal(acum), saldos)
    BY <1>10, <1>11 DEF Reproduce
  <2> QED BY <2>1, <2>2, <2>3
<1>15. RecalculoIgual'
  <2> SUFFICES ASSUME NEW m \in DOMAIN recibos',
                      recibos'[m].rehace # 0, recibos'[m].rehace = m - 1,
                      recibos'[m - 1].anuladas = recibos'[m].anuladas,
                      Exacto(recibos'[m - 1]), SinTechos
               PROVE  /\ recibos'[m].neto = recibos'[m - 1].neto
                      /\ recibos'[m].items = recibos'[m - 1].items
    BY <1>9 DEF RecalculoIgual, Reversible, SinTechos
  <2>1. m \in Nat /\ m - 1 # 0 /\ m - 1 \in DOMAIN recibos
    BY <1>6, <1>7
  <2>2. recibos'[m - 1] = recibos[m - 1]
    BY <1>7, <2>1
  <2>3. CASE m \in DOMAIN recibos
    <3>1. recibos'[m] = recibos[m]
      BY <1>7, <2>3
    <3>2. Reversible(recibos[m - 1])
      BY <2>2 DEF Reversible, SinTechos
    <3> QED BY <2>1, <2>2, <2>3, <3>1, <3>2 DEF RInv, RecalculoIgual
  <2>4. CASE m = n + 1
    <3>1. m - 1 = n /\ n # 0
      BY <1>6, <2>1, <2>4
    <3>2. recibos'[m] = r /\ recibos'[m - 1] = Ultimo
      BY <1>7, <2>2, <2>4, <3>1 DEF Ultimo
    <3>3. rehace = n /\ Ultimo.anuladas = anuladas /\ Exacto(Ultimo)
      BY <1>1, <3>1, <3>2
    <3>4. jornada = Ultimo.jornada /\ Reproduce(catalogo, Ultimo, Fiscal(acum), saldos)
      BY <1>4, <3>1, <3>3 DEF RInv, RehaceOK
    <3>5. PICK f : /\ Llega(Inicio(catalogo, Ultimo.jornada, Fiscal(acum), saldos), f) /\ Final(f)
                   /\ f.items = Ultimo.items /\ f.bruto - f.retenido.deducido = Ultimo.neto
      BY <3>4 DEF Reproduce
    <3>6. f = Estado
      BY <1>1, <1>10, <1>11, <3>4, <3>5, LlegaUnica
    <3> QED BY <1>10, <3>2, <3>5, <3>6
  <2> QED BY <1>7, <2>3, <2>4
<1> QED BY <1>12, <1>13, <1>14, <1>15 DEF RInv

LEMMA NextRecalculo == IInv /\ RInv /\ [Next]_vars => RInv'
<1> SUFFICES ASSUME IInv, RInv, [Next]_vars PROVE RInv'
  OBVIOUS
<1>1. ASSUME NEW j \in Jornadas, Ejecutar(j) PROVE RInv'
  BY <1>1, EjecutarRecalculo
<1>2. ASSUME Falla PROVE RInv'
  BY <1>2, FallaRecalculo
<1>3. CASE Percepcion
  <2>1. CASE Falla
    BY <1>2, <2>1
  <2>2. CASE ~Falla
    <3>1. /\ UNCHANGED <<persistente, rehace, jornada>> /\ fase' = fase /\ fase # "libre"
      BY <1>3, <2>2 DEF Percepcion
    <3> QED BY <1>3, <3>1, PercepcionSig, AvanzaRecalculo
  <2> QED BY <2>1, <2>2
<1>4. CASE TerminaPercepciones
  <2>1. UNCHANGED <<persistente, rehace, jornada>>
    BY <1>4 DEF TerminaPercepciones
  <2>2. Avanza /\ Estado' = Sig(Estado)
    BY <1>4, TerminaPercepcionesSig
  <2> QED BY <2>1, <2>2, AvanzaRecalculo DEF Avanza
<1>5. ASSUME NEW i \in pendientes, Deduccion(i) PROVE RInv'
  <2>1. CASE Falla
    BY <1>2, <2>1
  <2>2. CASE ~Falla
    <3>1. /\ UNCHANGED <<persistente, rehace, jornada>> /\ fase' = fase /\ fase # "libre"
      BY <1>5, <2>2 DEF Deduccion, SinFila, Descuenta
    <3> QED BY <1>5, <3>1, DeduccionSig, AvanzaRecalculo
  <2> QED BY <2>1, <2>2
<1>6. CASE TerminaDeducciones
  <2>1. UNCHANGED <<persistente, rehace, jornada>>
    BY <1>6 DEF TerminaDeducciones
  <2>2. Avanza /\ Estado' = Sig(Estado)
    BY <1>6, TerminaDeduccionesSig
  <2> QED BY <2>1, <2>2, AvanzaRecalculo DEF Avanza
<1>7. CASE Deuda
  <2>1. CASE Falla
    BY <1>2, <2>1
  <2>2. CASE ~Falla
    <3>1. UNCHANGED <<persistente, rehace, jornada>>
      BY <1>7, <2>2 DEF Deuda
    <3>2. Avanza /\ Estado' = Sig(Estado)
      BY <1>7, <2>2, DeudaSig
    <3> QED BY <3>1, <3>2, AvanzaRecalculo DEF Avanza
  <2> QED BY <2>1, <2>2
<1>8. CASE Contabilizar
  BY <1>2, <1>8, ContabilizarRecalculo
<1>9. ASSUME NEW n \in DOMAIN recibos, Anular(n) PROVE RInv'
  BY <1>9, AnularRecalculo
<1>10. ASSUME NEW n \in DOMAIN recibos, Recalcular(n) PROVE RInv'
  BY <1>10, RecalcularRecalculo
<1>11. CASE UNCHANGED vars
  <2>1. /\ catalogo' = catalogo /\ acum' = acum /\ saldos' = saldos /\ recibos' = recibos
        /\ anuladas' = anuladas /\ fase' = fase /\ jornada' = jornada /\ rehace' = rehace
        /\ k' = k /\ pendientes' = pendientes /\ bruto' = bruto /\ gravable' = gravable
        /\ items' = items /\ saldo' = saldo /\ retenido' = retenido
    BY <1>11 DEF vars, persistente, calculo, percibido
  <2>2. SinTechos' <=> SinTechos
    BY <2>1 DEF SinTechos
  <2>3. Estado' = Estado
    BY <2>1 DEF Estado, Fiscal
  <2>4. EnMarcha' /\ RehaceOK' /\ Viejas' /\ SinRehacer'
    BY <2>1, <2>2, <2>3 DEF RInv, EnMarcha, RehaceOK, Ultimo, Exacto, Viejas, SinRehacer
  <2>5. UltimoOK'
    BY <2>1, <2>2 DEF RInv, UltimoOK, Ultimo, Devueltos, Deudas, Exacto
  <2>6. RecalculoIgual'
    BY <2>1, SigueIgual DEF RInv
  <2> QED BY <2>4, <2>5, <2>6 DEF RInv
<1> QED BY <1>1, <1>3, <1>4, <1>5, <1>6, <1>7, <1>8, <1>9, <1>10, <1>11 DEF Next

-----------------------------------------------------------------------------
(* Theorems                                                                  *)

\* Every amount of a payslip, of the year and of a debt is a whole number of
\* cents that is not negative, but the net, which the next theorem is about.
THEOREM TypeCorrect == Spec => []TypeOK
<1>1. IInv => TypeOK
  BY TypeParts DEF IInv
<1> QED BY <1>1, SpecIInv, PTL

\* With any catalogue what is left of the pay falls below zero only by a loan in
\* another currency, by half a unit of each currency at most, and no payslip is
\* ever made that pays less than nothing.
THEOREM NetNeverNegative == Spec => []NetoNoNegativo
<1>1. IInv => NetoNoNegativo
  <2> SUFFICES ASSUME IInv PROVE NetoNoNegativo
    OBVIOUS
  <2>1. \A n \in DOMAIN recibos : recibos[n].neto >= 0
    BY DEF IInv, Pagables
  <2>2. fase = "deudas" => ReciboCalculado.neto = saldo
    BY ReciboCalculadoType
  <2>3. saldo < 0 => PorRedondeo
    BY DEF IInv, Sobrante
  <2> QED BY <2>1, <2>2, <2>3 DEF NetoNoNegativo, PorRedondeo
<1> QED BY <1>1, SpecIInv, PTL

\* When there was not enough for a deduction, with or without a row of it, no
\* deduction of a lower rank took anything, and a debt only when it stopped the
\* rest, in any payslip ever made.
THEOREM PriorityRespected == Spec => []PrioridadRespetada
<1>1. OrdenInv => PrioridadRespetada
  BY DEF OrdenInv, Respetados, Respeta, Cede, PrioridadRespetada
<1> QED BY <1>1, InitOrden, NextOrden, SpecIInv, PTL DEF Spec

\* However many payslips are made, voided and recalculated, the totals that the
\* tax of the next one is worked out from are those of the payslips that stand,
\* less what recalculating a voided one took back a second time.
THEOREM YearAddsUp == Spec => []AcumuladoCuadra
<1>1. IInv /\ Totales => AcumuladoCuadra
  <2> SUFFICES ASSUME IInv, Totales PROVE AcumuladoCuadra
    OBVIOUS
  <2>1. /\ IsFiniteSet(Vigentes)
        /\ Gravables \in [Vigentes -> Nat] /\ Antes \in [Vigentes -> Nat]
        /\ Impuestos \in [Vigentes -> Nat] /\ Brutos \in [Vigentes -> Nat]
    BY VigentesType DEF IInv, PersistenteOK
  <2>2. DeVigentes(LAMBDA r : r.gravable) = Suma(Gravables, Vigentes)
    BY <2>1, GravablesEs
  <2>3. DeVigentes(LAMBDA r : r.retenido.antes) = Suma(Antes, Vigentes)
    BY <2>1, AntesEs
  <2>4. DeVigentes(LAMBDA r : r.retenido.impuesto) = Suma(Impuestos, Vigentes)
    BY <2>1, ImpuestosEs
  <2>5. DeVigentes(LAMBDA r : r.bruto) = Suma(Brutos, Vigentes)
    BY <2>1, BrutosEs
  <2> QED BY <2>2, <2>3, <2>4, <2>5 DEF Totales, Exactos, AcumuladoCuadra
<1> QED BY <1>1, InitTotales, NextTotales, SpecIInv, PTL DEF Spec

\* Voided and recalculated as they may be, the payslips that stand never pay
\* more of a concept than its annual limit.
THEOREM LimitIsRespected == Spec => []TechoRespetado
<1>1. IInv /\ TechoInv => TechoRespetado
  <2> SUFFICES ASSUME IInv, TechoInv,
                      NEW c \in {catalogo.percepciones[i] : i \in DOMAIN catalogo.percepciones}
                                \cup {catalogo.deducciones[i] : i \in DOMAIN catalogo.deducciones},
                      c.techo # Sin
               PROVE  DeVigentes(LAMBDA r : r.montos[c.codigo]) <= c.techo
    BY DEF TechoRespetado
  <2>1. c.codigo \in Codigos /\ c.techo \in Int
    BY CatalogoCodigos DEF IInv, PersistenteOK
  <2>2. acum.conceptos[c.codigo] + montos[c.codigo] <= c.techo
    BY DEF TechoInv, Limites, BajoTecho
  <2>3. /\ IsFiniteSet(Vigentes) /\ Pagados(c.codigo) \in [Vigentes -> Nat]
        /\ acum.conceptos[c.codigo] \in Nat /\ montos[c.codigo] \in Nat
    BY <2>1, VigentesType DEF IInv, PersistenteOK, CalculoOK, AcumType
  <2>4. DeVigentes(LAMBDA r : r.montos[c.codigo]) = Suma(Pagados(c.codigo), Vigentes)
    BY <2>1, <2>3, PagadosEs
  <2>5. Suma(Pagados(c.codigo), Vigentes) <= acum.conceptos[c.codigo]
    BY <2>1 DEF TechoInv, Contado
  <2>6. Suma(Pagados(c.codigo), Vigentes) \in Nat
    BY <2>3, SumaNat
  <2> QED BY <2>1, <2>2, <2>3, <2>4, <2>5, <2>6
<1> QED BY <1>1, InitTecho, NextTecho, SpecIInv, PTL DEF Spec

\* A table that the validator accepts, whatever its brackets, never leaves an
\* amount of whole cents that it reaches without an answer.
THEOREM TablesAnswer == Spec => []TablaCubre
<1>1. IInv => TablaCubre
  <2> SUFFICES ASSUME IInv PROVE TablaCubre
    OBVIOUS
  <2>1. catalogo.tabla \in Seq(TramoType)
    BY CatalogoFields DEF IInv, PersistenteOK
  <2> QED BY <2>1, TablaCubreSiempre
<1> QED BY <1>1, SpecIInv, PTL

\* The last payslip recalculated, with nothing in between, has the net and the
\* rows it had, whatever the concepts, the tax table, the rules and the debts,
\* when no concept has an annual limit and its rollback takes from the taxable
\* base what it had added.
THEOREM RecalculationRepeats == Spec => []RecalculoIgual
<1>1. RInv => RecalculoIgual
  BY DEF RInv
<1> QED BY <1>1, InitRecalculo, NextRecalculo, SpecIInv, PTL DEF Spec

-----------------------------------------------------------------------------
(* The years: the payrolls of a year                                         *)

\* The sum of a set of rows with an amount, as the model takes it.
LEMMA SumaDeMontos ==
  ASSUME NEW g, NEW S, IsFiniteSet(S), \A x \in S : g[x].monto \in Int
  PROVE  MapThenSumSet(LAMBDA x : g[x].monto, S) = Suma([x \in S |-> g[x].monto], S)
<1> DEFINE u == [x \in S |-> g[x].monto]
           P(h) == h = [s \in SUBSET S |-> IF s = {} THEN 0
                     ELSE g[CHOOSE x \in s : TRUE].monto + h[s \ {CHOOSE x \in s : TRUE}]]
           G == CHOOSE h : P(h)
<1>0. u \in [S -> Int]
  OBVIOUS
<1>1. PICK U : EsSuma(U, u, S)
  <2> HIDE DEF u
  <2> QED BY <1>0, SumaExiste
<1>2. U = [s \in SUBSET S |-> IF s = {} THEN 0
              ELSE u[CHOOSE x \in s : TRUE] + U[s \ {CHOOSE x \in s : TRUE}]]
  BY <1>1 DEF EsSuma
<1>3. P(U)
  BY <1>2
<1>4. P(G)
  <2> HIDE DEF P
  <2> QED BY <1>3, Zenon
<1>5. MapThenSumSet(LAMBDA x : g[x].monto, S) = G[S]
  BY DEF MapThenSumSet, MapThenFoldSet
<1> HIDE DEF G
<1>6. G = [s \in SUBSET S |-> IF s = {} THEN 0
              ELSE u[CHOOSE x \in s : TRUE] + G[s \ {CHOOSE x \in s : TRUE}]]
  BY <1>4
<1> HIDE DEF u
<1>7. G = U
  BY <1>0, <1>1, <1>6, SumaUnica
<1>8. Suma(u, S) = U[S]
  BY <1>0, <1>1, SumaDe
<1> QED BY <1>5, <1>7, <1>8 DEF u

\* Payrolls with these rows that count in year a, and what they add up to.
EnAnio(x, a) == x.estado \in {"ready", "applied"} /\ Anio(x.fin) = a
De(N, a) == {n \in Nominas : EnAnio(N[n], a)}
Montos(N, S) == Suma([n \in S |-> N[n].monto], S)

\* What a row was created with.
BrutoDe(fila) == IF fila.inicial THEN SalarioInicial ELSE 0
PeriodosDe(fila) == IF fila.inicial THEN PeriodosIniciales ELSE 0

\* v never exceeds its total t, and lacks at most d.
Cuadra(v, t, d) == v <= t /\ t - d <= v

\* The row of year a is what those payrolls paid and what it was created with, but
\* for what d says was taken back from it again.
AnioCuadra(fila, N, a, d) ==
  /\ Cuadra(fila.bruto, BrutoDe(fila) + Montos(N, De(N, a)), d.bruto)
  /\ Cuadra(fila.periodos, PeriodosDe(fila) + Cardinality(De(N, a)), d.periodos)
  /\ ~fila.existe => De(N, a) = {}

Repetido == [bruto : Nat, periodos : Nat]

LEMMA IniciosNat ==
  ASSUME NEW fila
  PROVE  BrutoDe(fila) \in Nat /\ PeriodosDe(fila) \in Nat
BY CalendarAssumption DEF BrutoDe, PeriodosDe

LEMMA CuadraMas ==
  ASSUME NEW v \in Nat, NEW t \in Nat, NEW d \in Nat, NEW m \in Nat, Cuadra(v, t, d)
  PROVE  Cuadra(v + m, t + m, d)
BY DEF Cuadra

\* What is cut off at zero was missing already.
LEMMA CuadraMenos ==
  ASSUME NEW v \in Nat, NEW t \in Nat, NEW d \in Nat, NEW m \in Nat, Cuadra(v, t + m, d)
  PROVE  Cuadra(Resta(v, m), t, d)
BY DEF Cuadra, Resta

\* What is taken back a second time is missing from then on.
LEMMA CuadraOtraVez ==
  ASSUME NEW v \in Nat, NEW t \in Nat, NEW d \in Nat, NEW m \in Nat, Cuadra(v, t, d)
  PROVE  Cuadra(Resta(v, m), t, d + m)
BY DEF Cuadra, Resta

LEMMA DeFinito ==
  ASSUME NEW N, NEW a
  PROVE  IsFiniteSet(De(N, a)) /\ Cardinality(De(N, a)) \in Nat /\ De(N, a) \subseteq Nominas
<1>1. De(N, a) \subseteq Nominas
  BY DEF De
<1>2. IsFiniteSet(De(N, a))
  BY <1>1, NamesAssumption, FS_Subset
<1> QED BY <1>1, <1>2, FS_CardinalityType

\* A year whose payrolls and amounts stay as they were.
LEMMA AnioIgual ==
  ASSUME NEW N, NEW M, NEW a, NEW fila, NEW d, AnioCuadra(fila, N, a, d),
         \A n \in Nominas : EnAnio(M[n], a) <=> EnAnio(N[n], a),
         \A n \in Nominas : EnAnio(N[n], a) => M[n].monto = N[n].monto
  PROVE  AnioCuadra(fila, M, a, d)
<1>1. De(M, a) = De(N, a)
  BY DEF De
<1>2. [n \in De(M, a) |-> M[n].monto] = [n \in De(N, a) |-> N[n].monto]
  BY <1>1 DEF De
<1>3. Montos(M, De(M, a)) = Montos(N, De(N, a))
  BY <1>1, <1>2 DEF Montos
<1> QED BY <1>1, <1>3 DEF AnioCuadra

\* A payroll less.
LEMMA MontosSin ==
  ASSUME NEW N \in [Nominas -> NominaType], NEW M \in [Nominas -> NominaType], NEW a,
         NEW n \in De(N, a), De(M, a) = De(N, a) \ {n},
         \A z \in Nominas \ {n} : M[z].monto = N[z].monto
  PROVE  /\ Montos(N, De(N, a)) = N[n].monto + Montos(M, De(M, a))
         /\ Montos(M, De(M, a)) \in Nat /\ N[n].monto \in Nat
         /\ Cardinality(De(N, a)) = Cardinality(De(M, a)) + 1
         /\ Cardinality(De(M, a)) \in Nat
<1> DEFINE S == De(N, a)
           f == [z \in S |-> N[z].monto]
           h == [z \in S \ {n} |-> M[z].monto]
<1>0. IsFiniteSet(S) /\ S \subseteq Nominas /\ Cardinality(S) \in Nat
      /\ Cardinality(De(M, a)) \in Nat
  BY DeFinito
<1>1. \A z \in Nominas : N[z].monto \in Nat /\ M[z].monto \in Nat
  <2> TAKE z \in Nominas
  <2>1. N[z] \in NominaType /\ M[z] \in NominaType
    OBVIOUS
  <2> QED BY <2>1, BoundsAssumption DEF NominaType
<1>2. f \in [S -> Nat] /\ h \in [S \ {n} -> Nat] /\ \A z \in S \ {n} : h[z] = f[z]
  BY <1>0, <1>1
<1>3. f[n] = N[n].monto /\ N[n].monto \in Nat
  BY <1>0, <1>1
<1>4. Suma(f, S) = f[n] + Suma(h, S \ {n}) /\ Suma(h, S \ {n}) \in Nat
  <2>1. n \in S
    OBVIOUS
  <2> HIDE DEF f, h, S
  <2> QED BY <1>0, <1>2, <2>1, SumaSin
<1>5. Montos(N, De(N, a)) = Suma(f, S) /\ Montos(M, De(M, a)) = Suma(h, S \ {n})
  BY DEF Montos
<1>6. Cardinality(S \ {n}) = Cardinality(S) - 1
  <2> HIDE DEF S
  <2> QED BY <1>0, FS_RemoveElement DEF S
<1> HIDE DEF f, h
<1> QED BY <1>0, <1>3, <1>4, <1>5, <1>6

LEMMA MontosNat ==
  ASSUME NEW N \in [Nominas -> NominaType], NEW a
  PROVE  Montos(N, De(N, a)) \in Nat
<1> DEFINE f == [z \in De(N, a) |-> N[z].monto]
<1>1. IsFiniteSet(De(N, a)) /\ De(N, a) \subseteq Nominas
  BY DeFinito
<1>2. \A z \in Nominas : N[z].monto \in Nat
  <2> TAKE z \in Nominas
  <2>1. N[z] \in NominaType
    OBVIOUS
  <2> QED BY <2>1, BoundsAssumption DEF NominaType
<1>3. f \in [De(N, a) -> Nat]
  BY <1>1, <1>2
<1>4. Montos(N, De(N, a)) = Suma(f, De(N, a))
  BY DEF Montos
<1> HIDE DEF f
<1> QED BY <1>1, <1>3, <1>4, SumaNat

LEMMA AcumuladoFields ==
  ASSUME NEW fila \in AcumuladoType
  PROVE  /\ fila.existe \in BOOLEAN /\ fila.inicial \in BOOLEAN
         /\ fila.bruto \in Nat /\ fila.mes \in Nat /\ fila.periodos \in Nat
         /\ fila.mes_actual \in 0 .. MaxMes
BY DEF AcumuladoType

LEMMA FilaNuevaFields ==
  ASSUME NEW inicio
  PROVE  LET x == FilaNueva(inicio)
         IN  x.bruto = BrutoDe(x) /\ x.periodos = PeriodosDe(x)
<1>1. CASE inicio = PrimerMes
  BY <1>1 DEF FilaNueva, BrutoDe, PeriodosDe
<1>2. CASE inicio # PrimerMes
  BY <1>2 DEF FilaNueva, BrutoDe, PeriodosDe
<1> QED BY <1>1, <1>2

LEMMA ObtenerFields ==
  ASSUME NEW fila \in AcumuladoType, NEW inicio
  PROVE  /\ Obtener(fila, inicio) \in AcumuladoType
         /\ Obtener(fila, inicio).existe = TRUE
BY CalendarAssumption, BoundsAssumption DEF Obtener, FilaNueva, AcumuladoType

LEMMA ConNominaFields ==
  ASSUME NEW fila \in AcumuladoType, NEW mes \in Meses, NEW monto \in 0 .. MaxMonto
  PROVE  LET x == ConNomina(fila, mes, monto)
         IN  /\ x \in AcumuladoType /\ x.existe = fila.existe /\ x.inicial = fila.inicial
             /\ x.bruto = fila.bruto + monto /\ x.periodos = fila.periodos + 1
<1>1. mes \in 0 .. MaxMes /\ monto \in Nat
  BY BoundsAssumption DEF Meses
<1> DEFINE b == fila.bruto + monto
           p == fila.periodos + 1
           s == IF fila.mes_actual = mes THEN fila.mes + monto ELSE monto
<1>2. b \in Nat /\ p \in Nat /\ s \in Nat
  BY <1>1, AcumuladoFields
<1>3. ConNomina(fila, mes, monto) = [fila EXCEPT !.bruto = b, !.periodos = p, !.mes_actual = mes, !.mes = s]
  BY DEF ConNomina, AcumuladoType
<1> HIDE DEF b, p, s
<1>4. /\ ConNomina(fila, mes, monto) \in AcumuladoType
      /\ ConNomina(fila, mes, monto).existe = fila.existe
      /\ ConNomina(fila, mes, monto).inicial = fila.inicial
      /\ ConNomina(fila, mes, monto).bruto = b /\ ConNomina(fila, mes, monto).periodos = p
  BY <1>1, <1>2, <1>3 DEF AcumuladoType
<1> QED BY <1>4 DEF b, p

LEMMA RestaNat ==
  ASSUME NEW a \in Nat, NEW b \in Nat
  PROVE  Resta(a, b) \in Nat /\ (b <= a => Resta(a, b) = a - b)
BY DEF Resta

LEMMA SinNominaFields ==
  ASSUME NEW fila \in AcumuladoType, NEW monto \in 0 .. MaxMonto
  PROVE  LET x == SinNomina(fila, monto)
         IN  /\ x \in AcumuladoType /\ x.existe = fila.existe /\ x.inicial = fila.inicial
             /\ x.bruto = Resta(fila.bruto, monto) /\ x.periodos = Resta(fila.periodos, 1)
<1>1. monto \in Nat
  BY BoundsAssumption
<1>2. Resta(fila.periodos, 1) \in Nat /\ Resta(fila.mes, monto) \in Nat
      /\ Resta(fila.bruto, monto) \in Nat
  BY <1>1, AcumuladoFields, RestaNat
<1> DEFINE p == Resta(fila.periodos, 1)
           s == Resta(fila.mes, monto)
           b == Resta(fila.bruto, monto)
           m == IF p = 0 /\ s = 0 THEN 0 ELSE fila.mes_actual
<1>3. m \in 0 .. MaxMes
  BY AcumuladoFields, BoundsAssumption
<1>4. SinNomina(fila, monto) = [fila EXCEPT !.bruto = b, !.periodos = p, !.mes = s, !.mes_actual = m]
  BY DEF SinNomina, AcumuladoType
<1> HIDE DEF p, s, b, m
<1>5. p \in Nat /\ s \in Nat /\ b \in Nat
  BY <1>2 DEF p, s, b
<1>6. /\ SinNomina(fila, monto) \in AcumuladoType
      /\ SinNomina(fila, monto).existe = fila.existe
      /\ SinNomina(fila, monto).inicial = fila.inicial
      /\ SinNomina(fila, monto).bruto = b /\ SinNomina(fila, monto).periodos = p
  BY <1>3, <1>4, <1>5 DEF AcumuladoType
<1> QED BY <1>6 DEF b, p

\* A payroll enters the row of its year.
LEMMA AnioEntra ==
  ASSUME NEW N \in [Nominas -> NominaType], NEW n \in Nominas, NEW x \in NominaType,
         NEW a \in Anios, NEW fila \in AcumuladoType, NEW inicio, NEW d \in Repetido,
         AnioCuadra(fila, N, a, d), ~EnAnio(N[n], a), EnAnio(x, a), x.fin \in Meses
  PROVE  AnioCuadra(ConNomina(Obtener(fila, inicio), x.fin, x.monto), [N EXCEPT ![n] = x], a, d)
<1> DEFINE M == [N EXCEPT ![n] = x]
           g == Obtener(fila, inicio)
           h == ConNomina(g, x.fin, x.monto)
           p == Montos(N, De(N, a))
           c == Cardinality(De(N, a))
<1>1. M \in [Nominas -> NominaType] /\ M[n] = x /\ \A z \in Nominas \ {n} : M[z] = N[z]
  OBVIOUS
<1>2. n \in De(M, a) /\ De(N, a) = De(M, a) \ {n}
  BY <1>1 DEF De
<1>3. x.monto \in 0 .. MaxMonto
  BY DEF NominaType
<1>4. g \in AcumuladoType /\ g.existe = TRUE
  BY ObtenerFields
<1>0. d.bruto \in Nat /\ d.periodos \in Nat
  BY DEF Repetido
<1> HIDE DEF M
<1>5. /\ Montos(M, De(M, a)) = x.monto + p /\ p \in Nat /\ x.monto \in Nat
      /\ Cardinality(De(M, a)) = c + 1 /\ c \in Nat
  <2>1. \A z \in Nominas \ {n} : N[z].monto = M[z].monto
    BY <1>1
  <2>2. /\ Montos(M, De(M, a)) = M[n].monto + Montos(N, De(N, a))
        /\ Montos(N, De(N, a)) \in Nat /\ M[n].monto \in Nat
        /\ Cardinality(De(M, a)) = Cardinality(De(N, a)) + 1
        /\ Cardinality(De(N, a)) \in Nat
    BY <1>1, <1>2, <2>1, MontosSin
  <2> QED BY <1>1, <2>2
<1>6. Cuadra(g.bruto, BrutoDe(g) + p, d.bruto) /\ Cuadra(g.periodos, PeriodosDe(g) + c, d.periodos)
  <2>1. CASE fila.existe
    BY <2>1 DEF Obtener, AnioCuadra
  <2>2. CASE ~fila.existe
    <3>1. De(N, a) = {}
      BY <2>2 DEF AnioCuadra
    <3>2. c = 0
      BY <3>1, FS_EmptySet
    <3>3. p = 0
      <4> DEFINE f == [z \in {} |-> N[z].monto]
      <4>1. f \in [{} -> Int]
        OBVIOUS
      <4>2. p = Suma(f, {})
        BY <3>1 DEF Montos
      <4> HIDE DEF f
      <4> QED BY <4>1, <4>2, SumaVacia
    <3>4. g = FilaNueva(inicio)
      BY <2>2 DEF Obtener
    <3>5. g.bruto = BrutoDe(g) /\ g.periodos = PeriodosDe(g)
      BY <3>4, FilaNuevaFields
    <3>6. BrutoDe(g) \in Nat /\ PeriodosDe(g) \in Nat
      BY IniciosNat
    <3> HIDE DEF g, p, c
    <3> QED BY <1>0, <3>2, <3>3, <3>5, <3>6 DEF Cuadra
  <2>3. fila.existe \in BOOLEAN
    BY AcumuladoFields
  <2> QED BY <2>1, <2>2, <2>3
<1> HIDE DEF g
<1>7. /\ h.existe = TRUE /\ h.inicial = g.inicial
      /\ h.bruto = g.bruto + x.monto /\ h.periodos = g.periodos + 1
  BY <1>3, <1>4, ConNominaFields
<1>8. BrutoDe(h) = BrutoDe(g) /\ PeriodosDe(h) = PeriodosDe(g)
  BY <1>7 DEF BrutoDe, PeriodosDe
<1>9. BrutoDe(g) \in Nat /\ PeriodosDe(g) \in Nat /\ g.bruto \in Nat /\ g.periodos \in Nat
  BY <1>4, IniciosNat, AcumuladoFields
<1> HIDE DEF h, p, c
<1>10. Cuadra(h.bruto, BrutoDe(h) + Montos(M, De(M, a)), d.bruto)
  <2>1. BrutoDe(g) + p \in Nat
    BY <1>5, <1>9
  <2>2. Cuadra(g.bruto + x.monto, (BrutoDe(g) + p) + x.monto, d.bruto)
    BY <1>0, <1>5, <1>6, <1>9, <2>1, CuadraMas
  <2>3. (BrutoDe(g) + p) + x.monto = BrutoDe(h) + Montos(M, De(M, a))
    BY <1>5, <1>8, <1>9
  <2> QED BY <1>7, <2>2, <2>3
<1>11. Cuadra(h.periodos, PeriodosDe(h) + Cardinality(De(M, a)), d.periodos)
  <2>1. PeriodosDe(g) + c \in Nat /\ 1 \in Nat
    BY <1>5, <1>9
  <2>2. Cuadra(g.periodos + 1, (PeriodosDe(g) + c) + 1, d.periodos)
    BY <1>0, <1>6, <1>9, <2>1, CuadraMas
  <2>3. (PeriodosDe(g) + c) + 1 = PeriodosDe(h) + Cardinality(De(M, a))
    BY <1>5, <1>8, <1>9
  <2> QED BY <1>7, <2>2, <2>3
<1>12. AnioCuadra(h, M, a, d)
  BY <1>7, <1>10, <1>11 DEF AnioCuadra
<1> QED BY <1>12 DEF M, h, g

\* A payroll is taken back from the row of its year.
LEMMA AnioSale ==
  ASSUME NEW N \in [Nominas -> NominaType], NEW n \in Nominas, NEW x \in NominaType,
         NEW a \in Anios, NEW fila \in AcumuladoType, NEW d \in Repetido,
         AnioCuadra(fila, N, a, d), EnAnio(N[n], a), ~EnAnio(x, a)
  PROVE  /\ fila.existe = TRUE
         /\ AnioCuadra(SinNomina(fila, N[n].monto), [N EXCEPT ![n] = x], a, d)
<1> DEFINE M == [N EXCEPT ![n] = x]
           h == SinNomina(fila, N[n].monto)
           p == Montos(M, De(M, a))
           c == Cardinality(De(M, a))
<1>0. d.bruto \in Nat /\ d.periodos \in Nat
  BY DEF Repetido
<1>1. M \in [Nominas -> NominaType] /\ M[n] = x /\ \A z \in Nominas \ {n} : M[z] = N[z]
  OBVIOUS
<1>2. n \in De(N, a) /\ De(M, a) = De(N, a) \ {n}
  BY <1>1 DEF De
<1>3. N[n].monto \in 0 .. MaxMonto
  BY DEF NominaType
<1>4. fila.existe = TRUE
  <2>1. fila.existe \in BOOLEAN
    BY AcumuladoFields
  <2> QED BY <1>2, <2>1 DEF AnioCuadra
<1> HIDE DEF M
<1>5. /\ Montos(N, De(N, a)) = N[n].monto + p /\ p \in Nat /\ N[n].monto \in Nat
      /\ Cardinality(De(N, a)) = c + 1 /\ c \in Nat
  <2>1. \A z \in Nominas \ {n} : M[z].monto = N[z].monto
    BY <1>1
  <2> QED BY <1>1, <1>2, <2>1, MontosSin
<1>6. /\ h.existe = fila.existe /\ h.inicial = fila.inicial
      /\ h.bruto = Resta(fila.bruto, N[n].monto) /\ h.periodos = Resta(fila.periodos, 1)
  BY <1>3, SinNominaFields
<1>7. /\ fila.bruto \in Nat /\ fila.periodos \in Nat
      /\ BrutoDe(fila) \in Nat /\ PeriodosDe(fila) \in Nat
  BY AcumuladoFields, IniciosNat
<1>8. BrutoDe(h) = BrutoDe(fila) /\ PeriodosDe(h) = PeriodosDe(fila)
  BY <1>6 DEF BrutoDe, PeriodosDe
<1> HIDE DEF h, p, c
<1>9. Cuadra(h.bruto, BrutoDe(h) + p, d.bruto)
  <2>1. BrutoDe(fila) + p \in Nat
    BY <1>5, <1>7
  <2>2. Cuadra(fila.bruto, (BrutoDe(fila) + p) + N[n].monto, d.bruto)
    <3>1. (BrutoDe(fila) + p) + N[n].monto = BrutoDe(fila) + Montos(N, De(N, a))
      BY <1>5, <1>7
    <3> QED BY <3>1 DEF AnioCuadra
  <2>3. Cuadra(Resta(fila.bruto, N[n].monto), BrutoDe(fila) + p, d.bruto)
    BY <1>0, <1>5, <1>7, <2>1, <2>2, CuadraMenos
  <2> QED BY <1>6, <1>8, <2>3
<1>10. Cuadra(h.periodos, PeriodosDe(h) + c, d.periodos)
  <2>1. PeriodosDe(fila) + c \in Nat /\ 1 \in Nat
    BY <1>5, <1>7
  <2>2. Cuadra(fila.periodos, (PeriodosDe(fila) + c) + 1, d.periodos)
    <3>1. (PeriodosDe(fila) + c) + 1 = PeriodosDe(fila) + Cardinality(De(N, a))
      BY <1>5, <1>7
    <3> QED BY <3>1 DEF AnioCuadra
  <2>3. Cuadra(Resta(fila.periodos, 1), PeriodosDe(fila) + c, d.periodos)
    BY <1>0, <1>7, <2>1, <2>2, CuadraMenos
  <2> QED BY <1>6, <1>8, <2>3
<1>11. AnioCuadra(h, M, a, d)
  BY <1>4, <1>6, <1>9, <1>10 DEF AnioCuadra, p, c
<1> QED BY <1>4, <1>11 DEF M, h

\* What the row of a year says of itself when an amount is taken back from it that
\* no payroll counted there had added.
LEMMA AnioRepite ==
  ASSUME NEW N \in [Nominas -> NominaType], NEW a \in Anios, NEW fila \in AcumuladoType,
         NEW d \in Repetido, NEW monto \in 0 .. MaxMonto, AnioCuadra(fila, N, a, d)
  PROVE  LET e == [bruto |-> d.bruto + monto, periodos |-> d.periodos + 1]
         IN  /\ e \in Repetido
             /\ AnioCuadra(fila, N, a, e)
             /\ AnioCuadra(SinNomina(fila, monto), N, a, e)
<1> DEFINE e == [bruto |-> d.bruto + monto, periodos |-> d.periodos + 1]
           h == SinNomina(fila, monto)
           p == BrutoDe(fila) + Montos(N, De(N, a))
           c == PeriodosDe(fila) + Cardinality(De(N, a))
<1>1. /\ d.bruto \in Nat /\ d.periodos \in Nat /\ monto \in Nat
  BY BoundsAssumption DEF Repetido
<1>2. /\ e \in Repetido /\ e.bruto = d.bruto + monto /\ e.periodos = d.periodos + 1
  BY <1>1 DEF Repetido
<1>3. p \in Nat /\ c \in Nat
  <2>1. Montos(N, De(N, a)) \in Nat /\ Cardinality(De(N, a)) \in Nat
    BY MontosNat, DeFinito
  <2>2. BrutoDe(fila) \in Nat /\ PeriodosDe(fila) \in Nat
    BY IniciosNat
  <2> QED BY <2>1, <2>2
<1>4. fila.bruto \in Nat /\ fila.periodos \in Nat
  BY AcumuladoFields
<1>5. /\ h.existe = fila.existe /\ h.inicial = fila.inicial
      /\ h.bruto = Resta(fila.bruto, monto) /\ h.periodos = Resta(fila.periodos, 1)
  BY SinNominaFields
<1>6. Cuadra(fila.bruto, p, d.bruto) /\ Cuadra(fila.periodos, c, d.periodos)
  BY DEF AnioCuadra
<1>7. p = BrutoDe(h) + Montos(N, De(N, a)) /\ c = PeriodosDe(h) + Cardinality(De(N, a))
  BY <1>5 DEF BrutoDe, PeriodosDe
<1>8. ~fila.existe => De(N, a) = {}
  BY DEF AnioCuadra
<1>9. AnioCuadra(fila, N, a, e)
  <2>1. Cuadra(fila.bruto, p, e.bruto) /\ Cuadra(fila.periodos, c, e.periodos)
    <3> HIDE DEF p, c, e
    <3> QED BY <1>1, <1>2, <1>3, <1>4, <1>6 DEF Cuadra
  <2> QED BY <1>8, <2>1 DEF AnioCuadra
<1> HIDE DEF h, p, c, e
<1>10. Cuadra(h.bruto, p, e.bruto)
  <2>1. Cuadra(Resta(fila.bruto, monto), p, d.bruto + monto)
    BY <1>1, <1>3, <1>4, <1>6, CuadraOtraVez
  <2> QED BY <1>2, <1>5, <2>1
<1>11. Cuadra(h.periodos, c, e.periodos)
  <2>1. Cuadra(Resta(fila.periodos, 1), c, d.periodos + 1)
    <3>1. 1 \in Nat
      OBVIOUS
    <3> QED BY <1>1, <1>3, <1>4, <1>6, <3>1, CuadraOtraVez
  <2> QED BY <1>2, <1>5, <2>1
<1>12. AnioCuadra(h, N, a, e)
  BY <1>5, <1>7, <1>8, <1>10, <1>11 DEF AnioCuadra
<1> QED BY <1>2, <1>9, <1>12 DEF e, h

-----------------------------------------------------------------------------
(* The years: the inductive invariant                                        *)

NominaOK(x) ==
  /\ x \in NominaType
  /\ x.estado # "none" => x.inicio \in Meses /\ x.fin \in Meses /\ x.fecha \in 1 .. MaxHoy
CargaOK(x) == x \in CargaType /\ (x.estado # "none" => x.mes \in Meses)

\* What a request read of its payroll or its load, and what no one can undo.
Pedido(N, q) ==
  /\ q.op \in Ops \cup {"idle"}
  /\ q.op = "calcular" =>
       /\ q.k \in Nominas /\ q.filas \in [Anios -> AcumuladoType]
       /\ q.vista = q.filas /\ N[q.k].estado = "none"
  /\ q.op \in {"anular", "recalcular"} =>
       /\ q.k \in Nominas /\ q.filas \in [Anios -> AcumuladoType]
       /\ q.vista = <<q.filas, "ready">> \/ (q.op = "recalcular" /\ q.vista = <<q.filas, "cancelled">>)
       /\ N[q.k].estado # "none"
  /\ q.op \in {"editar", "aplicar", "eliminar"} =>
       q.k \in Cargas /\ CargaOK(q.vista) /\ q.vista.estado = "draft"

\* No two requests calculate one payroll.
Pedidos(N, Q) ==
  /\ Q = [r \in Requests |-> Q[r]]
  /\ \A r \in Requests : Pedido(N, Q[r])
  /\ \A r, s \in Requests :
       r # s /\ Q[r].op = "calcular" /\ Q[s].op = "calcular" => Q[r].k # Q[s].k

Renglones ==
  /\ acumulado \in [Anios -> AcumuladoType]
  /\ nomina \in [Nominas -> NominaType] /\ \A n \in Nominas : NominaOK(nomina[n])
  /\ carga \in [Cargas -> CargaType] /\ \A c \in Cargas : CargaOK(carga[c])

\* A payroll that is being applied is locked, and waits to be.
Aplicandose(N, A) ==
  /\ A \in [Nominas -> {Idle} \cup Leido]
  /\ \A n \in Nominas : A[n] # Idle => N[n].estado = "ready"

Tipos ==
  /\ Renglones
  /\ Aplicandose(nomina, aplicando)
  /\ repetido \in [Anios -> Repetido]
  /\ mensual \in BOOLEAN
  /\ libro \in Seq(Transaccion)
  /\ hoy \in 1 .. MaxHoy
  /\ Pedidos(nomina, request)
  /\ operations \in 0 .. MaxOperations
  /\ incidentes \in BOOLEAN

Anuales == ~incidentes => \A a \in Anios : AnioCuadra(acumulado[a], nomina, a, repetido[a])

\* A request that leaves makes room; the payroll it leaves differs in its own row.
LEMMA PedidosAlSalir ==
  ASSUME NEW N, NEW M, NEW Q, NEW r \in Requests, Pedidos(N, Q),
         \A s \in Requests \ {r} : Q[s].op = "calcular" => M[Q[s].k].estado = "none",
         \A n \in Nominas : N[n].estado # "none" => M[n].estado # "none"
  PROVE  Pedidos(M, [Q EXCEPT ![r] = Idle])
<1> DEFINE R == [Q EXCEPT ![r] = Idle]
<1>1. /\ R = [s \in Requests |-> R[s]] /\ R[r] = Idle
      /\ \A s \in Requests \ {r} : R[s] = Q[s]
  BY DEF Pedidos
<1>2. Idle.op = "idle"
  BY DEF Idle
<1> HIDE DEF R
<1>3. ASSUME NEW s \in Requests PROVE Pedido(M, R[s])
  <2>1. CASE s = r
    BY <1>1, <1>2, <2>1 DEF Pedido
  <2>2. CASE s # r
    <3>1. R[s] = Q[s] /\ Pedido(N, Q[s])
      BY <1>1, <2>2 DEF Pedidos
    <3> QED BY <2>2, <3>1 DEF Pedido
  <2> QED BY <2>1, <2>2
<1>4. \A s, t \in Requests :
        s # t /\ R[s].op = "calcular" /\ R[t].op = "calcular" => R[s].k # R[t].k
  <2> TAKE s, t \in Requests
  <2> HAVE s # t /\ R[s].op = "calcular" /\ R[t].op = "calcular"
  <2>1. s # r /\ t # r
    BY <1>1, <1>2
  <2> QED BY <1>1, <2>1 DEF Pedidos
<1> QED BY <1>1, <1>3, <1>4 DEF Pedidos, R

\* The same when the states of the payrolls stay, or only go on.
LEMMA PedidosSiguen ==
  ASSUME NEW N, NEW M, NEW Q, Pedidos(N, Q),
         \A n \in Nominas : N[n].estado = "none" <=> M[n].estado = "none"
  PROVE  Pedidos(M, Q)
<1>1. ASSUME NEW s \in Requests PROVE Pedido(M, Q[s])
  <2>1. Pedido(N, Q[s])
    BY DEF Pedidos
  <2> QED BY <2>1 DEF Pedido
<1> QED BY <1>1 DEF Pedidos

LEMMA PedidosEntra ==
  ASSUME NEW N, NEW Q, NEW r \in Requests, NEW q, Pedidos(N, Q), Pedido(N, q),
         q.op = "calcular" => \A s \in Requests \ {r} : Q[s] # Idle => Q[s].k # q.k
  PROVE  Pedidos(N, [Q EXCEPT ![r] = q])
<1> DEFINE R == [Q EXCEPT ![r] = q]
<1>1. /\ R = [s \in Requests |-> R[s]] /\ R[r] = q
      /\ \A s \in Requests \ {r} : R[s] = Q[s]
  BY DEF Pedidos
<1>2. Idle.op = "idle"
  BY DEF Idle
<1> HIDE DEF R
<1>3. \A s \in Requests : Pedido(N, R[s])
  BY <1>1 DEF Pedidos
<1>4. \A s, t \in Requests :
        s # t /\ R[s].op = "calcular" /\ R[t].op = "calcular" => R[s].k # R[t].k
  <2> TAKE s, t \in Requests
  <2> HAVE s # t /\ R[s].op = "calcular" /\ R[t].op = "calcular"
  <2>1. CASE s # r /\ t # r
    BY <1>1, <2>1 DEF Pedidos
  <2>2. CASE s = r
    <3>1. t \in Requests \ {r} /\ R[t] = Q[t] /\ R[s] = q /\ Q[t] # Idle
      BY <1>1, <1>2, <2>2
    <3> QED BY <3>1
  <2>3. CASE t = r
    <3>1. s \in Requests \ {r} /\ R[s] = Q[s] /\ R[t] = q /\ Q[s] # Idle
      BY <1>1, <1>2, <2>3
    <3> QED BY <3>1
  <2> QED BY <2>1, <2>2, <2>3
<1> QED BY <1>1, <1>3, <1>4 DEF Pedidos, R

LEMMA VistaEs ==
  ASSUME NEW op, NEW z
  PROVE  /\ op = "calcular" => Vista(op, z) = acumulado
         /\ op \in {"anular", "recalcular"} => Vista(op, z) = <<acumulado, nomina[z].estado>>
         /\ op \in {"editar", "aplicar", "eliminar"} => Vista(op, z) = carga[z]
<1>1. CASE op = "calcular"
  <2>1. Vista(op, z) = acumulado
    BY <1>1, Zenon DEF Vista
  <2> QED BY <1>1, <2>1
<1>2. CASE op \in {"anular", "recalcular"}
  <2>1. op # "calcular"
    BY <1>2
  <2>2. Vista(op, z) = <<acumulado, nomina[z].estado>>
    BY <1>2, <2>1, Zenon DEF Vista
  <2> QED BY <1>2, <2>2
<1>3. CASE op \in {"editar", "aplicar", "eliminar"}
  <2>1. op # "calcular" /\ op \notin {"anular", "recalcular"}
    BY <1>3
  <2>2. Vista(op, z) = carga[z]
    BY <2>1, Zenon DEF Vista
  <2> QED BY <1>3, <2>2
<1> QED BY <1>1, <1>2, <1>3

\* A commit that overtook nothing finds what it read.
LEMMA SinCambios ==
  ASSUME Tipos, NEW r \in Requests, End(r), ~incidentes'
  PROVE  /\ ~incidentes
         /\ request[r].op = "calcular" => request[r].filas = acumulado
         /\ request[r].op \in {"anular", "recalcular"} =>
              /\ request[r].filas = acumulado
              /\ nomina[request[r].k].estado \in {"ready", "cancelled"}
              /\ request[r].op = "anular" => nomina[request[r].k].estado = "ready"
         /\ request[r].op \in {"editar", "aplicar", "eliminar"} =>
              carga[request[r].k] = request[r].vista /\ request[r].vista.estado = "draft"
<1>1. incidentes' = (incidentes \/ Overtaken(r))
  BY DEF End
<1>2. ~incidentes /\ ~Overtaken(r)
  BY <1>1, Zenon
<1>3. Vista(request[r].op, request[r].k) = request[r].vista
  BY <1>2 DEF Overtaken
<1>4. Pedido(nomina, request[r])
  BY DEF Tipos, Pedidos
<1> QED BY <1>2, <1>3, <1>4, VistaEs DEF Pedido

-----------------------------------------------------------------------------
(* The benefit                                                               *)

Unicos(L) == \A i, j \in DOMAIN L : i # j => L[i].origen # L[j].origen

Aplicado(N, C, t) ==
  /\ t.origen \in Nominas => N[t.origen].estado = "applied"
  /\ t.origen \in Cargas => C[t.origen].estado = "applied"

Hasta(L, m, w, mes) == {j \in 1 .. w : m => L[j].mes = mes}

OrdenHasta(L, m, i) ==
  \A w \in 1 .. i :
    /\ L[w].leidos = w - 1
    /\ \A j \in 1 .. w - 1 : m => L[j].mes <= L[w].mes
    /\ w < i => \A j \in 1 .. w - 1 : AntesQue(L[j], L[w])

SaldoCuadra(L, m, i) ==
  /\ L[i].saldo_nuevo <= Montos(L, Hasta(L, m, i, L[i].mes))
  /\ OrdenHasta(L, m, i) => L[i].saldo_nuevo = Montos(L, Hasta(L, m, i, L[i].mes))

\* The transactions before one of month mes that found them all.
OrdenAntes(L, m, mes) ==
  \A w \in 1 .. Len(L) :
    /\ L[w].leidos = w - 1
    /\ m => L[w].mes <= mes
    /\ \A j \in 1 .. w - 1 : m => L[j].mes <= L[w].mes
    /\ \A j \in 1 .. w - 1 : AntesQue(L[j], L[w])

\* What was read to make a transaction of month mes.
LeidoCuadra(L, m, p, mes) ==
  /\ p.leidos <= Len(L)
  /\ p.anterior <= Montos(L, Hasta(L, m, p.leidos, mes))
  /\ p.leidos = Len(L) /\ OrdenAntes(L, m, mes) =>
       p.anterior = Montos(L, Hasta(L, m, p.leidos, mes))

Beneficio ==
  ~incidentes =>
    /\ Unicos(libro)
    /\ \A i \in DOMAIN libro : Aplicado(nomina, carga, libro[i])
    /\ \A i \in DOMAIN libro : SaldoCuadra(libro, mensual, i)
    /\ \A n \in Nominas :
         aplicando[n] # Idle => LeidoCuadra(libro, mensual, aplicando[n], nomina[n].fin)

LEMMA TransaccionFields ==
  ASSUME NEW t \in Transaccion
  PROVE  /\ t.origen \in Nominas \cup Cargas /\ t.fecha \in Nat /\ t.mes \in Nat
         /\ t.monto \in Nat /\ t.saldo_nuevo \in Nat /\ t.leidos \in Nat
         /\ t.creado \in Nat
BY BoundsAssumption DEF Transaccion, Meses

LEMMA LibroFields ==
  ASSUME NEW L \in Seq(Transaccion)
  PROVE  /\ Len(L) \in Nat /\ DOMAIN L = 1 .. Len(L) /\ IsFiniteSet(DOMAIN L)
         /\ \A i \in DOMAIN L : L[i] \in Transaccion
         /\ L # <<>> => Len(L) \in DOMAIN L
<1>1. Len(L) \in Nat /\ DOMAIN L = 1 .. Len(L) /\ \A i \in DOMAIN L : L[i] \in Transaccion
  OBVIOUS
<1>2. IsFiniteSet(1 .. Len(L))
  BY <1>1, FS_Interval
<1>3. L # <<>> => Len(L) \in DOMAIN L
  BY <1>1
<1> QED BY <1>1, <1>2, <1>3

LEMMA AppendFields ==
  ASSUME NEW L \in Seq(Transaccion), NEW t \in Transaccion
  PROVE  LET K == Append(L, t)
             n == Len(L) + 1
         IN  /\ K \in Seq(Transaccion) /\ Len(K) = n /\ K[n] = t
             /\ DOMAIN K = (DOMAIN L) \cup {n} /\ n \notin DOMAIN L /\ n \in Nat
             /\ \A i \in DOMAIN L : K[i] = L[i]
BY LibroFields

LEMMA HastaFields ==
  ASSUME NEW L \in Seq(Transaccion), NEW m, NEW mes, NEW w \in Nat, w <= Len(L)
  PROVE  /\ Hasta(L, m, w, mes) \subseteq DOMAIN L /\ IsFiniteSet(Hasta(L, m, w, mes))
         /\ Montos(L, Hasta(L, m, w, mes)) \in Nat
<1> DEFINE S == Hasta(L, m, w, mes)
           f == [i \in S |-> L[i].monto]
<1>1. S \subseteq DOMAIN L
  BY LibroFields DEF Hasta
<1>2. IsFiniteSet(S)
  BY <1>1, LibroFields, FS_Subset
<1>3. \A i \in DOMAIN L : L[i].monto \in Nat
  BY LibroFields, TransaccionFields
<1> HIDE DEF S
<1>4. f \in [S -> Nat]
  BY <1>1, <1>3
<1>5. Montos(L, S) = Suma(f, S)
  BY DEF Montos
<1> HIDE DEF f
<1> QED BY <1>1, <1>2, <1>4, <1>5, SumaNat DEF S

LEMMA MontosMenor ==
  ASSUME NEW L \in Seq(Transaccion), NEW V \in SUBSET DOMAIN L, NEW S \in SUBSET V
  PROVE  Montos(L, S) <= Montos(L, V)
<1> DEFINE f == [i \in V |-> L[i].monto]
           h == [i \in S |-> L[i].monto]
<1>1. IsFiniteSet(V)
  BY LibroFields, FS_Subset
<1>2. \A i \in DOMAIN L : L[i].monto \in Nat
  BY LibroFields, TransaccionFields
<1>3. f \in [V -> Nat] /\ h \in [S -> Nat] /\ \A i \in S : h[i] = f[i]
  BY <1>2
<1>4. Montos(L, V) = Suma(f, V) /\ Montos(L, S) = Suma(h, S)
  BY DEF Montos
<1> HIDE DEF f, h
<1> QED BY <1>1, <1>3, <1>4, SumaMenor

\* A transaction more leaves the sums of those before it as they were.
LEMMA HastaConUna ==
  ASSUME NEW L \in Seq(Transaccion), NEW t \in Transaccion, NEW m, NEW mes,
         NEW w \in Nat, w <= Len(L)
  PROVE  /\ Hasta(Append(L, t), m, w, mes) = Hasta(L, m, w, mes)
         /\ Montos(Append(L, t), Hasta(L, m, w, mes)) = Montos(L, Hasta(L, m, w, mes))
<1> DEFINE K == Append(L, t)
           S == Hasta(L, m, w, mes)
<1>1. \A i \in DOMAIN L : K[i] = L[i]
  BY AppendFields
<1> HIDE DEF K
<1>2. \A i \in 1 .. w : i \in DOMAIN L
  BY LibroFields
<1>3. Hasta(K, m, w, mes) = S
  BY <1>1, <1>2 DEF Hasta
<1>4. S \subseteq DOMAIN L
  BY HastaFields
<1> HIDE DEF S
<1>5. [i \in S |-> K[i].monto] = [i \in S |-> L[i].monto]
  BY <1>1, <1>4
<1>6. Montos(K, S) = Montos(L, S)
  BY <1>5 DEF Montos
<1> QED BY <1>3, <1>6 DEF K, S

LEMMA SaldosConUna ==
  ASSUME NEW L \in Seq(Transaccion), NEW t \in Transaccion, NEW m,
         NEW i \in DOMAIN L, SaldoCuadra(L, m, i)
  PROVE  SaldoCuadra(Append(L, t), m, i)
<1> DEFINE K == Append(L, t)
<1>1. i \in Nat /\ i <= Len(L) /\ \A w \in 1 .. i : w \in DOMAIN L
  BY LibroFields
<1>2. \A w \in DOMAIN L : K[w] = L[w]
  BY AppendFields
<1>3. \A mes : Hasta(K, m, i, mes) = Hasta(L, m, i, mes)
              /\ Montos(K, Hasta(L, m, i, mes)) = Montos(L, Hasta(L, m, i, mes))
  BY <1>1, HastaConUna
<1> HIDE DEF K
<1>4. OrdenHasta(K, m, i) => OrdenHasta(L, m, i)
  <2> SUFFICES ASSUME OrdenHasta(K, m, i), NEW w \in 1 .. i
               PROVE  /\ L[w].leidos = w - 1
                      /\ \A j \in 1 .. w - 1 : m => L[j].mes <= L[w].mes
                      /\ w < i => \A j \in 1 .. w - 1 : AntesQue(L[j], L[w])
    BY DEF OrdenHasta
  <2>1. w \in DOMAIN L /\ K[w] = L[w]
    BY <1>1, <1>2
  <2>2. \A j \in 1 .. w - 1 : K[j] = L[j]
    <3> TAKE j \in 1 .. w - 1
    <3>1. j \in 1 .. i
      BY <1>1
    <3> QED BY <1>1, <1>2, <3>1
  <2>3. /\ K[w].leidos = w - 1
        /\ \A j \in 1 .. w - 1 : m => K[j].mes <= K[w].mes
        /\ w < i => \A j \in 1 .. w - 1 : AntesQue(K[j], K[w])
    BY DEF OrdenHasta
  <2> QED BY <2>1, <2>2, <2>3
<1>5. K[i] = L[i]
  BY <1>2
<1>6. SaldoCuadra(K, m, i)
  BY <1>3, <1>4, <1>5 DEF SaldoCuadra
<1> QED BY <1>6 DEF K

LEMMA LeidoConUna ==
  ASSUME NEW L \in Seq(Transaccion), NEW t \in Transaccion, NEW m, NEW mes,
         NEW p \in Leido, LeidoCuadra(L, m, p, mes)
  PROVE  LeidoCuadra(Append(L, t), m, p, mes)
<1> DEFINE K == Append(L, t)
           w == p.leidos
<1>1. w \in Nat /\ w <= Len(L) /\ Len(L) \in Nat
  BY LibroFields DEF LeidoCuadra, Leido
<1>2. Len(K) = Len(L) + 1
  BY AppendFields
<1>3. Hasta(K, m, w, mes) = Hasta(L, m, w, mes)
      /\ Montos(K, Hasta(L, m, w, mes)) = Montos(L, Hasta(L, m, w, mes))
  BY <1>1, HastaConUna
<1> HIDE DEF K
<1>4. w <= Len(K) /\ w # Len(K)
  BY <1>1, <1>2
<1>5. LeidoCuadra(K, m, p, mes)
  BY <1>3, <1>4 DEF LeidoCuadra
<1> QED BY <1>5 DEF K

\* One more transaction, made over what was read.
LEMMA Apunta ==
  ASSUME NEW L \in Seq(Transaccion), NEW m \in BOOLEAN, NEW t \in Transaccion,
         NEW p, p.anterior \in Nat, p.leidos \in Nat, LeidoCuadra(L, m, p, t.mes),
         t.saldo_nuevo = p.anterior + t.monto, t.leidos = p.leidos
  PROVE  SaldoCuadra(Append(L, t), m, Len(L) + 1)
<1> DEFINE K == Append(L, t)
           n == Len(L) + 1
           S == Hasta(K, m, n, t.mes)
           V == Hasta(L, m, Len(L), t.mes)
           W == Hasta(L, m, p.leidos, t.mes)
           f == [i \in S |-> K[i].monto]
           h == [i \in S \ {n} |-> L[i].monto]
<1>1. /\ K \in Seq(Transaccion) /\ Len(K) = n /\ K[n] = t /\ DOMAIN K = (DOMAIN L) \cup {n}
      /\ n \notin DOMAIN L /\ n \in Nat /\ \A i \in DOMAIN L : K[i] = L[i]
  BY AppendFields
<1>2. Len(L) \in Nat /\ DOMAIN L = 1 .. Len(L) /\ p.leidos <= Len(L) /\ Len(L) <= Len(L)
  BY LibroFields DEF LeidoCuadra
<1>3. /\ V \subseteq DOMAIN L /\ IsFiniteSet(V) /\ Montos(L, V) \in Nat
      /\ W \subseteq DOMAIN L /\ IsFiniteSet(W) /\ Montos(L, W) \in Nat
  BY <1>2, HastaFields
<1>4. W \subseteq V
  BY <1>2 DEF Hasta
<1>5. Montos(L, W) <= Montos(L, V)
  <2> HIDE DEF V, W
  <2> QED BY <1>3, <1>4, MontosMenor
<1>6. S = V \cup {n} /\ n \notin V
  <2>1. \A i \in 1 .. n : i \in DOMAIN L \/ i = n
    BY <1>2
  <2>2. DOMAIN L \subseteq 1 .. n /\ n \in 1 .. n
    BY <1>2
  <2>3. n \notin V
    BY <1>1, <1>3
  <2> HIDE DEF K, n
  <2>4. S \subseteq V \cup {n}
    <3> SUFFICES ASSUME NEW i \in S, i # n PROVE i \in V
      OBVIOUS
    <3>1. i \in DOMAIN L /\ (m => K[i].mes = t.mes)
      BY <2>1 DEF Hasta
    <3> QED BY <1>1, <1>2, <3>1 DEF Hasta
  <2>5. V \cup {n} \subseteq S
    <3>1. n \in S
      BY <1>1, <2>2 DEF Hasta
    <3>2. ASSUME NEW i \in V PROVE i \in S
      <4>1. i \in DOMAIN L /\ (m => L[i].mes = t.mes)
        BY <1>2 DEF Hasta
      <4> QED BY <1>1, <2>2, <4>1 DEF Hasta
    <3> QED BY <3>1, <3>2
  <2> QED BY <2>3, <2>4, <2>5
<1> HIDE DEF K, n, S, V, W
<1>7. S \ {n} = V /\ n \in S /\ IsFiniteSet(S)
  <2>1. IsFiniteSet(S)
    BY <1>3, <1>6, FS_AddElement
  <2> QED BY <1>6, <2>1
<1>8. Montos(K, S) = t.monto + Montos(L, V)
  <2>0. \A i \in DOMAIN K : K[i].monto \in Nat
    BY <1>1, LibroFields, TransaccionFields
  <2>1. \A i \in S : i \in DOMAIN K
    BY <1>1, <1>3, <1>6
  <2>2. f \in [S -> Nat]
    BY <2>0, <2>1
  <2>3. \A i \in S \ {n} : i \in DOMAIN L /\ K[i] = L[i]
    BY <1>1, <1>3, <1>7
  <2>4. h \in [S \ {n} -> Nat] /\ \A i \in S \ {n} : h[i] = f[i]
    BY <2>0, <2>1, <2>3
  <2>5. Montos(K, S) = Suma(f, S) /\ Montos(L, V) = Suma(h, S \ {n})
    BY <1>7 DEF Montos
  <2>6. f[n] = t.monto
    BY <1>1, <1>7
  <2> HIDE DEF f, h
  <2> QED BY <1>7, <2>2, <2>4, <2>5, <2>6, SumaSin
<1>9. t.monto \in Nat
  BY TransaccionFields
<1>10. t.saldo_nuevo <= Montos(K, S)
  <2>1. p.anterior <= Montos(L, W)
    BY DEF LeidoCuadra, W
  <2> QED BY <1>3, <1>5, <1>8, <1>9, <2>1
<1>11. ASSUME OrdenHasta(K, m, n)
       PROVE  t.saldo_nuevo = Montos(K, S)
  <2>0. n \in 1 .. n /\ Len(L) = n - 1
    BY <1>2 DEF n
  <2>1. p.leidos = Len(L)
    BY <1>1, <1>11, <2>0 DEF OrdenHasta
  <2>2. OrdenAntes(L, m, t.mes)
    <3> SUFFICES ASSUME NEW w \in 1 .. Len(L)
                 PROVE  /\ L[w].leidos = w - 1
                        /\ m => L[w].mes <= t.mes
                        /\ \A j \in 1 .. w - 1 : m => L[j].mes <= L[w].mes
                        /\ \A j \in 1 .. w - 1 : AntesQue(L[j], L[w])
      BY DEF OrdenAntes
    <3>1. w \in DOMAIN L /\ K[w] = L[w] /\ w \in 1 .. n /\ w < n /\ w \in 1 .. n - 1
      BY <1>1, <1>2, <2>0
    <3>2. \A j \in 1 .. w - 1 : K[j] = L[j]
      BY <1>1, <1>2
    <3>3. /\ K[w].leidos = w - 1
          /\ \A j \in 1 .. w - 1 : m => K[j].mes <= K[w].mes
          /\ \A j \in 1 .. w - 1 : AntesQue(K[j], K[w])
      BY <1>11, <3>1 DEF OrdenHasta
    <3>4. m => K[w].mes <= K[n].mes
      BY <1>11, <2>0, <3>1 DEF OrdenHasta
    <3> QED BY <1>1, <3>1, <3>2, <3>3, <3>4
  <2>3. W = V
    BY <2>1 DEF W, V
  <2>4. p.anterior = Montos(L, V)
    BY <2>1, <2>2, <2>3 DEF LeidoCuadra, W
  <2> QED BY <1>3, <1>8, <1>9, <2>4
<1>12. SaldoCuadra(K, m, n)
  BY <1>1, <1>10, <1>11 DEF SaldoCuadra, S
<1> QED BY <1>12 DEF K, n

\* A load, or a payroll that finds no transaction, begins with nothing.
LEMMA SinLeer ==
  ASSUME NEW L \in Seq(Transaccion), NEW m, NEW mes, NEW p, p.anterior = 0, p.leidos = 0
  PROVE  LeidoCuadra(L, m, p, mes)
<1> DEFINE S == Hasta(L, m, 0, mes)
           f == [i \in {} |-> L[i].monto]
<1>1. S = {}
  BY DEF Hasta
<1>2. Montos(L, S) = 0
  <2>1. f \in [{} -> Int]
    OBVIOUS
  <2>2. Montos(L, S) = Suma(f, {})
    BY <1>1 DEF Montos
  <2> HIDE DEF f, S
  <2> QED BY <2>1, <2>2, SumaVacia
<1>3. 0 <= Len(L)
  BY LibroFields
<1> HIDE DEF S
<1> QED BY <1>2, <1>3 DEF LeidoCuadra, S

\* What a payroll reads of one of the last transactions.
LEMMA LeeUltima ==
  ASSUME libro \in Seq(Transaccion), libro # <<>>, mensual \in BOOLEAN,
         \A i \in DOMAIN libro : SaldoCuadra(libro, mensual, i),
         NEW i \in Ultimas, NEW mes \in Nat,
         NEW p, p.leidos = Len(libro), p.anterior = SaldoAnterior(i, mes)
  PROVE  LeidoCuadra(libro, mensual, p, mes)
<1> DEFINE z == Len(libro)
           S == Hasta(libro, mensual, z, mes)
           T == Hasta(libro, mensual, i, libro[i].mes)
<1>1. /\ z \in Nat /\ z <= z /\ z \in DOMAIN libro /\ DOMAIN libro = 1 .. z
      /\ \A w \in DOMAIN libro : libro[w] \in Transaccion
  BY LibroFields
<1>2. i \in DOMAIN libro /\ \A j \in DOMAIN libro : ~AntesQue(libro[i], libro[j])
  BY DEF Ultimas
<1>3. i \in Nat /\ i <= z
  BY <1>1, <1>2
<1>4. /\ S \subseteq DOMAIN libro /\ Montos(libro, S) \in Nat
      /\ T \subseteq DOMAIN libro /\ Montos(libro, T) \in Nat
  BY <1>1, <1>3, HastaFields
<1>5. SaldoCuadra(libro, mensual, i)
  BY <1>2
<1>6. libro[i].saldo_nuevo \in Nat /\ libro[i].mes \in Nat
  BY <1>1, <1>2, TransaccionFields
<1> HIDE DEF S, T, z
<1>7. CASE ~mensual \/ libro[i].mes = mes
  <2>1. SaldoAnterior(i, mes) = libro[i].saldo_nuevo
    BY <1>7 DEF SaldoAnterior
  <2>2. T \subseteq S
    <3>1. 1 .. i \subseteq 1 .. z
      BY <1>1, <1>3
    <3> QED BY <1>7, <3>1 DEF T, S, Hasta
  <2>3. Montos(libro, T) <= Montos(libro, S)
    BY <1>4, <2>2, MontosMenor
  <2>4. libro[i].saldo_nuevo <= Montos(libro, T)
    BY <1>5 DEF SaldoCuadra, T
  <2>5. libro[i].saldo_nuevo <= Montos(libro, S)
    BY <1>4, <1>6, <2>3, <2>4
  <2>6. ASSUME OrdenAntes(libro, mensual, mes)
        PROVE  libro[i].saldo_nuevo = Montos(libro, S)
    <3>1. i = z
      <4> SUFFICES ASSUME i # z PROVE FALSE
        OBVIOUS
      <4>1. i \in 1 .. z - 1 /\ z \in 1 .. z
        BY <1>1, <1>2
      <4>2. AntesQue(libro[i], libro[z])
        BY <2>6, <4>1 DEF OrdenAntes, z
      <4> QED BY <1>1, <1>2, <4>2
    <3>2. OrdenHasta(libro, mensual, z)
      BY <2>6 DEF OrdenHasta, OrdenAntes, z
    <3>3. T = S
      BY <1>7, <3>1 DEF T, S, Hasta
    <3> QED BY <1>5, <3>1, <3>2, <3>3 DEF SaldoCuadra, T
  <2>7. p.leidos = z /\ p.anterior = libro[i].saldo_nuevo
    BY <2>1 DEF z
  <2> QED BY <1>1, <2>5, <2>6, <2>7 DEF LeidoCuadra, S, z
<1>8. CASE mensual /\ libro[i].mes # mes
  <2>1. p.anterior = 0 /\ p.leidos = z
    BY <1>8 DEF SaldoAnterior, z
  <2>2. ASSUME OrdenAntes(libro, mensual, mes)
        PROVE  Montos(libro, S) = 0
    <3>1. i = z
      <4> SUFFICES ASSUME i # z PROVE FALSE
        OBVIOUS
      <4>1. i \in 1 .. z - 1 /\ z \in 1 .. z
        BY <1>1, <1>2
      <4>2. AntesQue(libro[i], libro[z])
        BY <2>2, <4>1 DEF OrdenAntes, z
      <4> QED BY <1>1, <1>2, <4>2
    <3>2. libro[z].mes < mes
      <4>1. libro[z].mes <= mes
        BY <1>1, <1>8, <2>2 DEF OrdenAntes, z
      <4> QED BY <1>6, <1>8, <3>1, <4>1
    <3>3. S = {}
      <4> SUFFICES ASSUME NEW j \in S PROVE FALSE
        OBVIOUS
      <4>1. j \in 1 .. z /\ libro[j].mes = mes
        BY <1>8 DEF S, Hasta
      <4>2. j # z
        BY <3>1, <1>8, <4>1
      <4>3. z \in 1 .. z /\ j \in 1 .. z - 1
        BY <1>1, <4>1, <4>2
      <4>4. libro[j].mes <= libro[z].mes
        BY <1>8, <2>2, <4>3 DEF OrdenAntes, z
      <4> QED BY <1>6, <3>1, <3>2, <4>1, <4>4
    <3> DEFINE f == [w \in {} |-> libro[w].monto]
    <3>4. f \in [{} -> Int]
      OBVIOUS
    <3>5. Montos(libro, S) = Suma(f, {})
      BY <3>3 DEF Montos
    <3> HIDE DEF f
    <3> QED BY <3>4, <3>5, SumaVacia
  <2>3. 0 <= Montos(libro, S)
    BY <1>4
  <2> QED BY <1>1, <2>1, <2>2, <2>3 DEF LeidoCuadra, S, z
<1> QED BY <1>7, <1>8

-----------------------------------------------------------------------------
(* The years and the benefit: every step keeps them                          *)

Todo == Tipos /\ Anuales /\ Beneficio

LEMMA InicioTodo == AcumuladosInit => Todo
<1> SUFFICES ASSUME AcumuladosInit PROVE Todo
  OBVIOUS
<1>1. acumulado \in [Anios -> AcumuladoType] /\ \A a \in Anios : acumulado[a] = FilaAusente
  BY BoundsAssumption DEF AcumuladosInit, FilaAusente, AcumuladoType
<1>2. \A n \in Nominas : nomina[n].estado = "none" /\ nomina[n] \in NominaType
  BY BoundsAssumption DEF AcumuladosInit, NominaType
<1>3. \A c \in Cargas : carga[c].estado = "none" /\ carga[c] \in CargaType
  BY BoundsAssumption DEF AcumuladosInit, CargaType
<1>4. Renglones
  BY <1>1, <1>2, <1>3 DEF AcumuladosInit, Renglones, NominaOK, CargaOK
<1>5. Pedidos(nomina, request)
  <2>1. \A r \in Requests : request[r] = Idle
    BY DEF AcumuladosInit
  <2>2. request = [r \in Requests |-> request[r]]
    BY DEF AcumuladosInit
  <2>3. Idle.op = "idle"
    BY DEF Idle
  <2> QED BY <2>1, <2>2, <2>3 DEF Pedidos, Pedido
<1>6. Tipos
  <2>1. libro \in Seq(Transaccion) /\ hoy \in 1 .. MaxHoy /\ operations \in 0 .. MaxOperations
    BY BoundsAssumption DEF AcumuladosInit
  <2>2. mensual \in BOOLEAN /\ incidentes \in BOOLEAN
    BY DEF AcumuladosInit
  <2>3. Aplicandose(nomina, aplicando)
    BY DEF AcumuladosInit, Aplicandose
  <2>4. repetido \in [Anios -> Repetido]
    BY DEF AcumuladosInit, Repetido
  <2> QED BY <1>4, <1>5, <2>1, <2>2, <2>3, <2>4 DEF Tipos
<1>7. Anuales
  <2> SUFFICES ASSUME NEW a \in Anios PROVE AnioCuadra(acumulado[a], nomina, a, repetido[a])
    BY DEF Anuales
  <2>1. De(nomina, a) = {}
    BY <1>2 DEF De, EnAnio
  <2>2. Cardinality(De(nomina, a)) = 0
    BY <2>1, FS_EmptySet
  <2>3. Montos(nomina, De(nomina, a)) = 0
    <3> DEFINE f == [z \in {} |-> nomina[z].monto]
    <3>1. f \in [{} -> Int]
      OBVIOUS
    <3>2. Montos(nomina, De(nomina, a)) = Suma(f, {})
      BY <2>1 DEF Montos
    <3> HIDE DEF f
    <3> QED BY <3>1, <3>2, SumaVacia
  <2>4. acumulado[a].bruto = 0 /\ acumulado[a].periodos = 0 /\ acumulado[a].inicial = FALSE
    BY <1>1 DEF FilaAusente
  <2>5. BrutoDe(acumulado[a]) = 0 /\ PeriodosDe(acumulado[a]) = 0
    BY <2>4 DEF BrutoDe, PeriodosDe
  <2>6. repetido[a].bruto = 0 /\ repetido[a].periodos = 0
    BY DEF AcumuladosInit
  <2> QED BY <2>1, <2>2, <2>3, <2>4, <2>5, <2>6 DEF AnioCuadra, Cuadra
<1>8. Beneficio
  <2>1. libro = <<>> /\ \A n \in Nominas : aplicando[n] = Idle
    BY DEF AcumuladosInit
  <2> QED BY <2>1 DEF Beneficio, Unicos
<1> QED BY <1>6, <1>7, <1>8 DEF Todo

\* Steps that leave the years, or the benefit, alone.
LEMMA AniosIguales ==
  ASSUME Anuales, acumulado' = acumulado, repetido' = repetido, ~incidentes' => ~incidentes,
         \A n \in Nominas : \A a \in Anios : EnAnio(nomina'[n], a) <=> EnAnio(nomina[n], a),
         \A n \in Nominas : \A a \in Anios : EnAnio(nomina[n], a) => nomina'[n].monto = nomina[n].monto
  PROVE  Anuales'
<1> SUFFICES ASSUME ~incidentes', NEW a \in Anios
             PROVE  AnioCuadra(acumulado'[a], nomina', a, repetido'[a])
  BY DEF Anuales
<1>1. AnioCuadra(acumulado[a], nomina, a, repetido[a])
  BY DEF Anuales
<1> QED BY <1>1, AnioIgual

LEMMA LibroIgual ==
  ASSUME Tipos, Beneficio, UNCHANGED <<libro, mensual, aplicando>>, ~incidentes' => ~incidentes,
         \A n \in Nominas : aplicando[n] # Idle => nomina'[n] = nomina[n],
         ~incidentes' => \A n \in Nominas : nomina[n].estado = "applied" => nomina'[n].estado = "applied",
         ~incidentes' => \A c \in Cargas : carga[c].estado = "applied" => carga'[c].estado = "applied"
  PROVE  Beneficio'
<1> SUFFICES ASSUME ~incidentes'
             PROVE  /\ Unicos(libro')
                    /\ \A i \in DOMAIN libro' : Aplicado(nomina', carga', libro'[i])
                    /\ \A i \in DOMAIN libro' : SaldoCuadra(libro', mensual', i)
                    /\ \A n \in Nominas :
                         aplicando'[n] # Idle => LeidoCuadra(libro', mensual', aplicando'[n], nomina'[n].fin)
  BY DEF Beneficio
<1>1. /\ Unicos(libro) /\ \A i \in DOMAIN libro : SaldoCuadra(libro, mensual, i)
      /\ \A i \in DOMAIN libro : Aplicado(nomina, carga, libro[i])
      /\ \A n \in Nominas :
           aplicando[n] # Idle => LeidoCuadra(libro, mensual, aplicando[n], nomina[n].fin)
  BY DEF Beneficio
<1>2. ASSUME NEW i \in DOMAIN libro PROVE Aplicado(nomina', carga', libro[i])
  BY <1>1 DEF Aplicado
<1>3. ASSUME NEW n \in Nominas, aplicando[n] # Idle
      PROVE  LeidoCuadra(libro, mensual, aplicando[n], nomina'[n].fin)
  BY <1>1, <1>3
<1> QED BY <1>1, <1>2, <1>3

LEMMA LeeTodo ==
  ASSUME Todo, NEW r \in Requests, NEW op \in Ops, NEW z, Lee(r, op, z),
         op \in {"calcular", "anular", "recalcular"} => z \in Nominas,
         op = "calcular" => nomina[z].estado = "none",
         op = "calcular" => \A q \in Requests : request[q] # Idle => request[q].k # z,
         op = "anular" => nomina[z].estado = "ready",
         op = "recalcular" => nomina[z].estado \in {"ready", "cancelled"},
         op \in {"editar", "aplicar", "eliminar"} => z \in Cargas /\ carga[z].estado = "draft"
  PROVE  Todo'
<1> DEFINE q == [op |-> op, k |-> z, filas |-> acumulado, vista |-> Vista(op, z)]
<1>1. Pedido(nomina, q)
  <2>1. q.op = op /\ q.k = z /\ q.filas = acumulado /\ q.vista = Vista(op, z)
    OBVIOUS
  <2> HIDE DEF q
  <2>2. acumulado \in [Anios -> AcumuladoType]
    BY DEF Todo, Tipos, Renglones
  <2>3. z \in Cargas => CargaOK(carga[z])
    BY DEF Todo, Tipos, Renglones
  <2>4. CASE op = "calcular"
    BY <2>1, <2>2, <2>4, VistaEs DEF Pedido
  <2>5. CASE op \in {"anular", "recalcular"}
    <3>1. q.vista = <<q.filas, nomina[z].estado>>
      BY <2>1, <2>5, VistaEs
    <3>2. CASE nomina[z].estado = "ready"
      BY <2>1, <2>2, <2>5, <3>1, <3>2 DEF Pedido
    <3>3. CASE op = "recalcular" /\ nomina[z].estado = "cancelled"
      BY <2>1, <2>2, <2>5, <3>1, <3>3 DEF Pedido
    <3> QED BY <2>5, <3>2, <3>3
  <2>6. CASE op \in {"editar", "aplicar", "eliminar"}
    BY <2>1, <2>3, <2>6, VistaEs DEF Pedido
  <2> QED BY <2>4, <2>5, <2>6 DEF Ops
<1>2. Pedidos(nomina, [request EXCEPT ![r] = q])
  <2>1. q.op = op /\ q.k = z
    OBVIOUS
  <2>2. Pedidos(nomina, request)
    BY DEF Todo, Tipos
  <2> HIDE DEF q
  <2> QED BY <1>1, <2>1, <2>2, PedidosEntra
<1>3. request' = [request EXCEPT ![r] = q] /\ UNCHANGED <<acumulado, papeles, mensual, beneficio, hoy, historia>>
      /\ operations' = operations + 1 /\ operations < MaxOperations
  BY DEF Lee
<1> HIDE DEF q
<1>4. UNCHANGED <<acumulado, nomina, carga, mensual, libro, aplicando, hoy, incidentes, repetido>>
  BY <1>3 DEF papeles, beneficio, historia
<1>5. operations' \in 0 .. MaxOperations
  BY <1>3, BoundsAssumption DEF Todo, Tipos
<1>6. Pedidos(nomina', request')
  BY <1>2, <1>3, <1>4
<1>7. Tipos'
  BY <1>4, <1>5, <1>6 DEF Todo, Tipos, Renglones
<1>8. Anuales'
  BY <1>4 DEF Todo, Anuales
<1>9. Beneficio'
  BY <1>4 DEF Todo, Beneficio
<1> QED BY <1>7, <1>8, <1>9 DEF Todo

\* A request that commits.
LEMMA AlTerminar ==
  ASSUME Todo, NEW r \in Requests, End(r), Renglones', libro' \in Seq(Transaccion),
         aplicando' = aplicando, repetido' \in [Anios -> Repetido],
         \A n \in Nominas : aplicando[n] # Idle => nomina'[n] = nomina[n],
         \A s \in Requests \ {r} :
           request[s].op = "calcular" => nomina'[request[s].k].estado = "none",
         \A n \in Nominas : nomina[n].estado # "none" => nomina'[n].estado # "none"
  PROVE  Tipos' /\ mensual' = mensual /\ hoy' = hoy
<1>1. request' = [request EXCEPT ![r] = Idle] /\ mensual' = mensual /\ hoy' = hoy /\ operations' = operations
  BY DEF End
<1>2. incidentes' \in BOOLEAN
  <2>1. incidentes' = (incidentes \/ Overtaken(r))
    BY DEF End
  <2> QED BY <2>1
<1>3. Pedidos(nomina', request')
  <2>1. Pedidos(nomina, request)
    BY DEF Todo, Tipos
  <2> QED BY <1>1, <2>1, PedidosAlSalir
<1>4. Aplicandose(nomina', aplicando')
  <2>1. Aplicandose(nomina, aplicando)
    BY DEF Todo, Tipos
  <2> QED BY <2>1 DEF Aplicandose
<1> QED BY <1>1, <1>2, <1>3, <1>4 DEF Todo, Tipos

\* Only one payroll changes, and no other request calculates it.
LEMMA UnaNomina ==
  ASSUME Todo, NEW r \in Requests, NEW n \in Nominas, NEW x \in NominaType, NominaOK(x),
         nomina' = [nomina EXCEPT ![n] = x], x.estado # "none",
         request[r].op \in {"calcular", "anular", "recalcular"} /\ request[r].k = n,
         request[r].op # "calcular" => aplicando[n] = Idle
  PROVE  /\ nomina' \in [Nominas -> NominaType] /\ \A z \in Nominas : NominaOK(nomina'[z])
         /\ \A z \in Nominas : aplicando[z] # Idle => nomina'[z] = nomina[z]
         /\ \A s \in Requests \ {r} :
              request[s].op = "calcular" => nomina'[request[s].k].estado = "none"
         /\ \A z \in Nominas : nomina[z].estado # "none" => nomina'[z].estado # "none"
<1>1. nomina \in [Nominas -> NominaType] /\ \A z \in Nominas : NominaOK(nomina[z])
  BY DEF Todo, Tipos, Renglones
<1>2. nomina' \in [Nominas -> NominaType] /\ nomina'[n] = x /\ \A z \in Nominas \ {n} : nomina'[z] = nomina[z]
  BY <1>1
<1>3. \A z \in Nominas : NominaOK(nomina'[z])
  BY <1>1, <1>2
<1>4. ASSUME NEW s \in Requests \ {r}, request[s].op = "calcular"
      PROVE  nomina'[request[s].k].estado = "none"
  <2>1. request[s].k \in Nominas /\ nomina[request[s].k].estado = "none"
    BY <1>4 DEF Todo, Tipos, Pedidos, Pedido
  <2>2. request[s].k # n
    <3>1. CASE request[r].op = "calcular"
      BY <1>4, <3>1 DEF Todo, Tipos, Pedidos
    <3>2. CASE request[r].op \in {"anular", "recalcular"}
      <4>1. nomina[n].estado # "none"
        BY <3>2 DEF Todo, Tipos, Pedidos, Pedido
      <4> QED BY <2>1, <4>1
    <3> QED BY <3>1, <3>2
  <2> QED BY <1>2, <2>1, <2>2
<1>5. aplicando[n] = Idle
  <2> SUFFICES ASSUME request[r].op = "calcular" PROVE aplicando[n] = Idle
    OBVIOUS
  <2>1. nomina[n].estado = "none"
    BY DEF Todo, Tipos, Pedidos, Pedido
  <2> QED BY <2>1 DEF Todo, Tipos, Aplicandose
<1> QED BY <1>2, <1>3, <1>4, <1>5

\* Of the years that were read only the row of year a is written.
LEMMA EscribeFilas ==
  ASSUME NEW f \in [Anios -> AcumuladoType], NEW a \in Anios, NEW fila \in AcumuladoType,
         acumulado \in [Anios -> AcumuladoType], Escribe([f EXCEPT ![a] = fila], {a})
  PROVE  /\ acumulado' \in [Anios -> AcumuladoType] /\ acumulado'[a] = fila
         /\ \A b \in Anios \ {a} : acumulado'[b] = acumulado[b]
BY DEF Escribe

LEMMA CalcularTodo ==
  ASSUME Todo, NEW r \in Requests, Calcular(r)
  PROVE  Todo'
<1> DEFINE q == request[r]
           n == q.k
<1>1. /\ q.op = "calcular" /\ n \in Nominas /\ q.filas \in [Anios -> AcumuladoType]
      /\ nomina[n].estado = "none"
  BY DEF Calcular, Todo, Tipos, Pedidos, Pedido
<1>2. PICK inicio \in Meses, fin \in Meses, monto \in 1 .. MaxMonto :
        /\ nomina' = [nomina EXCEPT ![n] =
             [estado |-> "ready", inicio |-> inicio, fin |-> fin, monto |-> monto, fecha |-> hoy]]
        /\ Escribe(Contabiliza(q.filas, inicio, fin, monto), {Anio(fin)})
  BY DEF Calcular
<1>3. End(r) /\ UNCHANGED <<carga, libro, aplicando, repetido>>
  BY DEF Calcular, beneficio
<1> DEFINE x == [estado |-> "ready", inicio |-> inicio, fin |-> fin, monto |-> monto, fecha |-> hoy]
           a == Anio(fin)
           fila == ConNomina(Obtener(q.filas[a], inicio), fin, monto)
<1>4. x \in NominaType /\ NominaOK(x) /\ x.estado = "ready" /\ x.fin = fin /\ x.monto = monto
  <2>1. hoy \in 1 .. MaxHoy /\ hoy \in 0 .. MaxHoy
    BY BoundsAssumption DEF Todo, Tipos
  <2>2. inicio \in 0 .. MaxMes /\ fin \in 0 .. MaxMes /\ monto \in 0 .. MaxMonto
    BY BoundsAssumption DEF Meses
  <2> QED BY <2>1, <2>2 DEF NominaType, NominaOK
<1>5. a \in Anios
  BY DEF Anio, Anios
<1> HIDE DEF x
<1>6. nomina' = [nomina EXCEPT ![n] = x]
  BY <1>2 DEF x
<1>7. fila \in AcumuladoType
  <2>1. Obtener(q.filas[a], inicio) \in AcumuladoType
    BY <1>1, <1>5, ObtenerFields
  <2>2. monto \in 0 .. MaxMonto
    BY BoundsAssumption
  <2> HIDE DEF a
  <2> QED BY <2>1, <2>2, ConNominaFields
<1>8. Contabiliza(q.filas, inicio, fin, monto) = [q.filas EXCEPT ![a] = fila]
  <2>1. a \in DOMAIN q.filas
    BY <1>1, <1>5
  <2> QED BY <2>1 DEF Contabiliza
<1> HIDE DEF a, fila
<1>9. Escribe([q.filas EXCEPT ![a] = fila], {a})
  BY <1>2, <1>8 DEF a
<1>10. /\ acumulado' \in [Anios -> AcumuladoType] /\ acumulado'[a] = fila
       /\ \A b \in Anios \ {a} : acumulado'[b] = acumulado[b]
  <2>1. acumulado \in [Anios -> AcumuladoType]
    BY DEF Todo, Tipos, Renglones
  <2>2. q.filas \in [Anios -> AcumuladoType]
    BY <1>1
  <2> HIDE DEF q, n
  <2> QED BY <1>5, <1>7, <1>9, <2>1, <2>2, EscribeFilas
<1>11. /\ nomina' \in [Nominas -> NominaType] /\ \A z \in Nominas : NominaOK(nomina'[z])
       /\ \A z \in Nominas : aplicando[z] # Idle => nomina'[z] = nomina[z]
       /\ \A s \in Requests \ {r} :
            request[s].op = "calcular" => nomina'[request[s].k].estado = "none"
       /\ \A z \in Nominas : nomina[z].estado # "none" => nomina'[z].estado # "none"
  BY <1>1, <1>4, <1>6, UnaNomina
<1>12. Renglones'
  BY <1>3, <1>10, <1>11 DEF Todo, Tipos, Renglones
<1>13. Tipos' /\ mensual' = mensual
  BY <1>3, <1>11, <1>12, AlTerminar DEF Todo, Tipos
<1>14. ~incidentes' => ~incidentes /\ q.filas = acumulado
  BY <1>1, <1>3, SinCambios DEF Todo
<1>15. nomina \in [Nominas -> NominaType] /\ nomina'[n] = x /\ \A z \in Nominas \ {n} : nomina'[z] = nomina[z]
  BY <1>1, <1>6 DEF Todo, Tipos, Renglones
<1>16. Anuales'
  <2> SUFFICES ASSUME ~incidentes', NEW b \in Anios
               PROVE  AnioCuadra(acumulado'[b], nomina', b, repetido'[b])
    BY DEF Anuales
  <2>1. /\ AnioCuadra(acumulado[b], nomina, b, repetido[b]) /\ acumulado \in [Anios -> AcumuladoType]
        /\ repetido[b] \in Repetido /\ repetido' = repetido
    BY <1>3, <1>14 DEF Todo, Anuales, Tipos, Renglones
  <2>2. ~EnAnio(nomina[n], b)
    BY <1>1 DEF EnAnio
  <2>3. CASE b = a
    <3>1. fila = ConNomina(Obtener(acumulado[a], inicio), fin, monto)
      BY <1>14 DEF fila
    <3>2. EnAnio(x, a)
      BY <1>4 DEF EnAnio, a
    <3>3. AnioCuadra(ConNomina(Obtener(acumulado[a], inicio), x.fin, x.monto), [nomina EXCEPT ![n] = x],
                     a, repetido[a])
      BY <1>1, <1>4, <1>5, <1>15, <2>1, <2>2, <2>3, <3>2, AnioEntra
    <3> QED BY <1>4, <1>6, <1>10, <2>1, <2>3, <3>1, <3>3
  <2>4. CASE b # a
    <3>1. ~EnAnio(x, b)
      BY <1>4, <2>4 DEF EnAnio, a
    <3>2. \A z \in Nominas : EnAnio(nomina'[z], b) <=> EnAnio(nomina[z], b)
      <4> TAKE z \in Nominas
      <4>1. z = n \/ nomina'[z] = nomina[z]
        BY <1>15
      <4> QED BY <1>15, <2>2, <3>1, <4>1
    <3>3. \A z \in Nominas : EnAnio(nomina[z], b) => nomina'[z].monto = nomina[z].monto
      <4> TAKE z \in Nominas
      <4>1. z = n \/ nomina'[z] = nomina[z]
        BY <1>15
      <4> QED BY <2>2, <4>1
    <3>4. AnioCuadra(acumulado[b], nomina', b, repetido[b])
      BY <2>1, <3>2, <3>3, AnioIgual
    <3> QED BY <1>10, <2>1, <2>4, <3>4
  <2> QED BY <2>3, <2>4
<1>17. Beneficio'
  <2>1. \A z \in Nominas : nomina[z].estado = "applied" => nomina'[z].estado = "applied"
    BY <1>1, <1>15
  <2>2. Tipos /\ Beneficio
    BY DEF Todo
  <2> QED BY <1>3, <1>11, <1>13, <1>14, <2>1, <2>2, LibroIgual
<1> QED BY <1>13, <1>16, <1>17 DEF Todo

\* What taking a payroll back leaves in the row of its year.
Revertida(fila, monto) == IF fila.existe THEN SinNomina(fila, monto) ELSE fila

LEMMA RevertirFields ==
  ASSUME NEW f \in [Anios -> AcumuladoType], NEW n \in Nominas, nomina[n] \in NominaType,
         NEW a, a = Anio(nomina[n].fin)
  PROVE  /\ a \in Anios /\ AnioAlRevertir(nomina[n].inicio, nomina[n].fin) = a
         /\ Revertida(f[a], nomina[n].monto) \in AcumuladoType
         /\ Revertir(f, n) = [f EXCEPT ![a] = Revertida(f[a], nomina[n].monto)]
<1>1. a \in Anios /\ AnioAlRevertir(nomina[n].inicio, nomina[n].fin) = a
  BY DEF Anio, Anios, AnioAlRevertir
<1>2. nomina[n].monto \in 0 .. MaxMonto
  BY DEF NominaType
<1>3. Revertida(f[a], nomina[n].monto) \in AcumuladoType
  BY <1>1, <1>2, SinNominaFields DEF Revertida
<1>4. Revertir(f, n) = [f EXCEPT ![a] = Revertida(f[a], nomina[n].monto)]
  <2>1. CASE f[a].existe
    BY <1>1, <2>1 DEF Revertir, Revertida
  <2>2. CASE ~f[a].existe
    <3>1. [f EXCEPT ![a] = f[a]] = f
      BY <1>1
    <3> QED BY <1>1, <2>2, <3>1 DEF Revertir, Revertida
  <2> QED BY <2>1, <2>2
<1> QED BY <1>1, <1>3, <1>4

\* One payroll changes in place; it counted in year a and still does, or no more.
LEMMA OtrosAnios ==
  ASSUME NEW N \in [Nominas -> NominaType], NEW n \in Nominas, NEW x, NEW b, NEW fila, NEW d,
         AnioCuadra(fila, N, b, d), ~EnAnio(N[n], b), ~EnAnio(x, b)
  PROVE  AnioCuadra(fila, [N EXCEPT ![n] = x], b, d)
<1> DEFINE M == [N EXCEPT ![n] = x]
<1>1. M[n] = x /\ \A z \in Nominas \ {n} : M[z] = N[z]
  OBVIOUS
<1> HIDE DEF M
<1>2. \A z \in Nominas : EnAnio(M[z], b) <=> EnAnio(N[z], b)
  <2> TAKE z \in Nominas
  <2>1. z = n \/ M[z] = N[z]
    BY <1>1
  <2> QED BY <1>1, <2>1
<1>3. \A z \in Nominas : EnAnio(N[z], b) => M[z].monto = N[z].monto
  <2> TAKE z \in Nominas
  <2>1. z = n \/ M[z] = N[z]
    BY <1>1
  <2> QED BY <2>1
<1>4. AnioCuadra(fila, M, b, d)
  BY <1>2, <1>3, AnioIgual
<1> QED BY <1>4 DEF M

LEMMA AnularTodo ==
  ASSUME Todo, NEW r \in Requests, AnularNomina(r)
  PROVE  Todo'
<1> DEFINE q == request[r]
           n == q.k
           x == [nomina[n] EXCEPT !.estado = "cancelled"]
           a == Anio(nomina[n].fin)
           fila == Revertida(q.filas[a], nomina[n].monto)
<1>1. /\ q.op = "anular" /\ n \in Nominas /\ q.filas \in [Anios -> AcumuladoType]
      /\ nomina[n].estado # "none"
  BY DEF AnularNomina, Todo, Tipos, Pedidos, Pedido
<1>2. nomina \in [Nominas -> NominaType] /\ nomina[n] \in NominaType /\ NominaOK(nomina[n])
  BY <1>1 DEF Todo, Tipos, Renglones
<1>3. End(r) /\ UNCHANGED <<carga, libro, aplicando, repetido>> /\ aplicando[n] = Idle
      /\ nomina' = [nomina EXCEPT ![n].estado = "cancelled"]
      /\ Escribe(Revertir(q.filas, n), {AnioAlRevertir(nomina[n].inicio, nomina[n].fin)})
  BY DEF AnularNomina, beneficio
<1>4. x \in NominaType /\ NominaOK(x) /\ x.estado = "cancelled"
  BY <1>1, <1>2 DEF NominaType, NominaOK
<1>5. nomina' = [nomina EXCEPT ![n] = x]
  BY <1>1, <1>2, <1>3
<1> HIDE DEF x
<1>6. /\ a \in Anios /\ AnioAlRevertir(nomina[n].inicio, nomina[n].fin) = a
      /\ fila \in AcumuladoType /\ Revertir(q.filas, n) = [q.filas EXCEPT ![a] = fila]
  BY <1>1, <1>2, RevertirFields
<1> HIDE DEF a, fila
<1>7. /\ acumulado' \in [Anios -> AcumuladoType] /\ acumulado'[a] = fila
      /\ \A b \in Anios \ {a} : acumulado'[b] = acumulado[b]
  <2>1. acumulado \in [Anios -> AcumuladoType]
    BY DEF Todo, Tipos, Renglones
  <2>2. Escribe([q.filas EXCEPT ![a] = fila], {a})
    BY <1>3, <1>6
  <2>3. q.filas \in [Anios -> AcumuladoType] /\ a \in Anios /\ fila \in AcumuladoType
    BY <1>1, <1>6
  <2> HIDE DEF q, n
  <2> QED BY <2>1, <2>2, <2>3, EscribeFilas
<1>8. /\ nomina' \in [Nominas -> NominaType] /\ \A z \in Nominas : NominaOK(nomina'[z])
      /\ \A z \in Nominas : aplicando[z] # Idle => nomina'[z] = nomina[z]
      /\ \A s \in Requests \ {r} :
           request[s].op = "calcular" => nomina'[request[s].k].estado = "none"
      /\ \A z \in Nominas : nomina[z].estado # "none" => nomina'[z].estado # "none"
  BY <1>1, <1>3, <1>4, <1>5, UnaNomina
<1>9. Renglones'
  BY <1>3, <1>7, <1>8 DEF Todo, Tipos, Renglones
<1>10. Tipos' /\ mensual' = mensual
  BY <1>3, <1>8, <1>9, AlTerminar DEF Todo, Tipos
<1>11. ~incidentes' => ~incidentes /\ q.filas = acumulado /\ nomina[n].estado = "ready"
  BY <1>1, <1>3, SinCambios DEF Todo
<1>12. Anuales'
  <2> SUFFICES ASSUME ~incidentes', NEW b \in Anios
               PROVE  AnioCuadra(acumulado'[b], nomina', b, repetido'[b])
    BY DEF Anuales
  <2>1. /\ AnioCuadra(acumulado[b], nomina, b, repetido[b]) /\ acumulado \in [Anios -> AcumuladoType]
        /\ repetido[b] \in Repetido /\ repetido' = repetido
    BY <1>3, <1>11 DEF Todo, Anuales, Tipos, Renglones
  <2>2. ~EnAnio(x, b)
    BY <1>4 DEF EnAnio
  <2>3. CASE b = a
    <3>1. EnAnio(nomina[n], a)
      BY <1>11 DEF EnAnio, a
    <3>2. /\ acumulado[a] \in AcumuladoType /\ AnioCuadra(acumulado[a], nomina, a, repetido[a])
          /\ ~EnAnio(x, a) /\ repetido[a] \in Repetido
      BY <1>6, <2>1, <2>2, <2>3
    <3>5. /\ acumulado[a].existe = TRUE
          /\ AnioCuadra(SinNomina(acumulado[a], nomina[n].monto), [nomina EXCEPT ![n] = x], a, repetido[a])
      <4> HIDE DEF q, n
      <4>1. n \in Nominas /\ x \in NominaType /\ nomina \in [Nominas -> NominaType] /\ a \in Anios
        BY <1>1, <1>2, <1>4, <1>6
      <4>2. acumulado[a].existe = TRUE
        BY <4>1, <3>1, <3>2, AnioSale
      <4>3. AnioCuadra(SinNomina(acumulado[a], nomina[n].monto), [nomina EXCEPT ![n] = x], a, repetido[a])
        BY <4>1, <3>1, <3>2, AnioSale
      <4> QED BY <4>2, <4>3
    <3>3. fila = SinNomina(acumulado[a], nomina[n].monto)
      BY <1>11, <3>5 DEF fila, Revertida
    <3> QED BY <1>5, <1>7, <2>1, <2>3, <3>3, <3>5
  <2>4. CASE b # a
    <3>1. ~EnAnio(nomina[n], b)
      BY <2>4 DEF EnAnio, a
    <3>2. AnioCuadra(acumulado[b], [nomina EXCEPT ![n] = x], b, repetido[b])
      BY <1>1, <1>2, <2>1, <2>2, <3>1, OtrosAnios
    <3> QED BY <1>5, <1>7, <2>1, <2>4, <3>2
  <2> QED BY <2>3, <2>4
<1>13. Beneficio'
  <2>1. ~incidentes' => \A z \in Nominas : nomina[z].estado = "applied" => nomina'[z].estado = "applied"
    <3> SUFFICES ASSUME ~incidentes', NEW z \in Nominas, nomina[z].estado = "applied"
                 PROVE  nomina'[z].estado = "applied"
      OBVIOUS
    <3>1. z # n
      BY <1>11
    <3> QED BY <1>2, <1>5, <3>1
  <2>2. Tipos /\ Beneficio
    BY DEF Todo
  <2>3. ~incidentes' => ~incidentes
    BY <1>11
  <2> HIDE DEF q
  <2> QED BY <1>3, <1>8, <1>10, <2>1, <2>2, <2>3, LibroIgual
<1> QED BY <1>10, <1>12, <1>13 DEF Todo

LEMMA SinAsientoFields ==
  ASSUME libro \in Seq(Transaccion), NEW n
  PROVE  SinAsiento(n) \in Seq(Transaccion)
<1>1. CASE \E i \in DOMAIN libro : libro[i].origen = n
  <2> DEFINE i == CHOOSE i \in DOMAIN libro : libro[i].origen = n
             L == SubSeq(libro, 1, i - 1)
             R == SubSeq(libro, i + 1, Len(libro))
  <2>1. i \in DOMAIN libro
    BY <1>1
  <2> HIDE DEF i
  <2>2. L \in Seq(Transaccion) /\ R \in Seq(Transaccion)
    BY <2>1, LibroFields
  <2>3. L \o R \in Seq(Transaccion)
    <3> HIDE DEF L, R
    <3> QED BY <2>2
  <2> QED BY <1>1, <2>3 DEF SinAsiento, i
<1>2. CASE ~\E i \in DOMAIN libro : libro[i].origen = n
  BY <1>2 DEF SinAsiento
<1> QED BY <1>1, <1>2

LEMMA RecalcularTodo ==
  ASSUME Todo, NEW r \in Requests, RecalcularNomina(r)
  PROVE  Todo'
<1> DEFINE q == request[r]
           n == q.k
           a == Anio(nomina[n].fin)
           antes == Revertida(q.filas[a], nomina[n].monto)
<1>1. /\ q.op = "recalcular" /\ n \in Nominas /\ q.filas \in [Anios -> AcumuladoType]
      /\ nomina[n].estado # "none"
  BY DEF RecalcularNomina, Todo, Tipos, Pedidos, Pedido
<1>2. nomina \in [Nominas -> NominaType] /\ nomina[n] \in NominaType /\ NominaOK(nomina[n])
  BY <1>1 DEF Todo, Tipos, Renglones
<1>3. End(r) /\ carga' = carga /\ libro' = SinAsiento(n) /\ aplicando' = aplicando /\ aplicando[n] = Idle
  BY DEF RecalcularNomina
<1>4. PICK monto \in 1 .. MaxMonto :
        /\ nomina' = [nomina EXCEPT ![n].monto = monto, ![n].estado = "ready"]
        /\ Escribe(Contabiliza(Revertir(q.filas, n), nomina[n].inicio, nomina[n].fin, monto),
                   {AnioAlRevertir(nomina[n].inicio, nomina[n].fin), Anio(nomina[n].fin)})
  BY DEF RecalcularNomina
<1> DEFINE x == [nomina[n] EXCEPT !.monto = monto, !.estado = "ready"]
           y == [nomina[n] EXCEPT !.estado = "cancelled"]
           fin == nomina[n].fin
           fila == ConNomina(Obtener(antes, nomina[n].inicio), fin, monto)
<1>5. /\ x \in NominaType /\ NominaOK(x) /\ x.estado = "ready" /\ x.fin = fin
      /\ x.monto = monto /\ monto \in 0 .. MaxMonto /\ fin \in Meses
      /\ y \in NominaType /\ y.estado = "cancelled"
      /\ nomina[n].estado = "cancelled" => y = nomina[n]
  <2>1. monto \in 0 .. MaxMonto
    BY BoundsAssumption
  <2>2. x \in NominaType /\ y \in NominaType
    BY <1>2, <2>1 DEF NominaType
  <2>3. NominaOK(x) /\ fin \in Meses
    BY <1>1, <1>2, <2>2 DEF NominaType, NominaOK
  <2>4. nomina[n].estado = "cancelled" => y = nomina[n]
    BY <1>2 DEF NominaType
  <2>5. x.estado = "ready" /\ x.fin = fin /\ x.monto = monto /\ y.estado = "cancelled"
    BY <1>2 DEF NominaType
  <2> QED BY <2>1, <2>2, <2>3, <2>4, <2>5
<1>0. /\ repetido' = IF nomina[n].estado = "cancelled"
                     THEN [repetido EXCEPT ![a] = [bruto |-> @.bruto + nomina[n].monto,
                                                   periodos |-> @.periodos + 1]]
                     ELSE repetido
  <2>1. AnioAlRevertir(nomina[n].inicio, nomina[n].fin) = a
    BY <1>1, <1>2, RevertirFields
  <2> QED BY <2>1 DEF RecalcularNomina
<1>6. nomina' = [nomina EXCEPT ![n] = x]
  BY <1>1, <1>2, <1>4
<1> HIDE DEF x, y
<1>7. /\ a \in Anios /\ AnioAlRevertir(nomina[n].inicio, nomina[n].fin) = a
      /\ antes \in AcumuladoType /\ Revertir(q.filas, n) = [q.filas EXCEPT ![a] = antes]
  BY <1>1, <1>2, RevertirFields
<1>8. Contabiliza(Revertir(q.filas, n), nomina[n].inicio, fin, monto) = [q.filas EXCEPT ![a] = fila]
  <2> DEFINE f == [q.filas EXCEPT ![a] = antes]
  <2>1. f[a] = antes /\ \A v : [f EXCEPT ![a] = v] = [q.filas EXCEPT ![a] = v]
    BY <1>1, <1>7
  <2>2. Contabiliza(f, nomina[n].inicio, fin, monto)
          = [f EXCEPT ![a] = ConNomina(Obtener(f[a], nomina[n].inicio), fin, monto)]
    <3>1. a \in DOMAIN f
      BY <1>1, <1>7
    <3> HIDE DEF f
    <3> QED BY <3>1 DEF Contabiliza
  <2> HIDE DEF f, antes
  <2> QED BY <1>7, <2>1, <2>2 DEF f
<1>9. fila \in AcumuladoType
  <2>1. Obtener(antes, nomina[n].inicio) \in AcumuladoType
    BY <1>7, ObtenerFields
  <2> HIDE DEF antes, fin
  <2> QED BY <1>5, <2>1, ConNominaFields
<1>10. Escribe([q.filas EXCEPT ![a] = fila], {a})
  <2>1. {AnioAlRevertir(nomina[n].inicio, nomina[n].fin), Anio(nomina[n].fin)} = {a}
    BY <1>7
  <2> HIDE DEF fila
  <2> QED BY <1>4, <1>8, <2>1
<1> HIDE DEF a, antes, fila
<1>11. /\ acumulado' \in [Anios -> AcumuladoType] /\ acumulado'[a] = fila
       /\ \A b \in Anios \ {a} : acumulado'[b] = acumulado[b]
  <2>1. acumulado \in [Anios -> AcumuladoType]
    BY DEF Todo, Tipos, Renglones
  <2>2. q.filas \in [Anios -> AcumuladoType] /\ a \in Anios /\ fila \in AcumuladoType
    BY <1>1, <1>7, <1>9
  <2> HIDE DEF q, n
  <2> QED BY <1>10, <2>1, <2>2, EscribeFilas
<1>12. /\ nomina' \in [Nominas -> NominaType] /\ \A z \in Nominas : NominaOK(nomina'[z])
       /\ \A z \in Nominas : aplicando[z] # Idle => nomina'[z] = nomina[z]
       /\ \A s \in Requests \ {r} :
            request[s].op = "calcular" => nomina'[request[s].k].estado = "none"
       /\ \A z \in Nominas : nomina[z].estado # "none" => nomina'[z].estado # "none"
  <2>1. x.estado # "none"
    BY <1>5
  <2> QED BY <1>1, <1>3, <1>5, <1>6, <2>1, UnaNomina
<1>13. Renglones'
  BY <1>3, <1>11, <1>12 DEF Todo, Tipos, Renglones
<1> DEFINE e == [bruto |-> repetido[a].bruto + nomina[n].monto, periodos |-> repetido[a].periodos + 1]
<1>18. /\ repetido \in [Anios -> Repetido] /\ repetido[a] \in Repetido /\ e \in Repetido
       /\ repetido' \in [Anios -> Repetido]
       /\ repetido'[a] = IF nomina[n].estado = "cancelled" THEN e ELSE repetido[a]
       /\ \A b \in Anios \ {a} : repetido'[b] = repetido[b]
  <2>1. repetido \in [Anios -> Repetido] /\ repetido[a] \in Repetido
    BY <1>7 DEF Todo, Tipos
  <2>2. nomina[n].monto \in Nat
    BY <1>2, BoundsAssumption DEF NominaType
  <2>3. e \in Repetido
    BY <2>1, <2>2 DEF Repetido
  <2>4. repetido' = IF nomina[n].estado = "cancelled" THEN [repetido EXCEPT ![a] = e] ELSE repetido
    BY <1>0
  <2> HIDE DEF e, n
  <2> QED BY <1>7, <2>1, <2>3, <2>4
<1> HIDE DEF e
<1>14. Tipos' /\ mensual' = mensual
  <2>1. libro' \in Seq(Transaccion)
    BY <1>3, SinAsientoFields DEF Todo, Tipos
  <2> QED BY <1>3, <1>12, <1>13, <1>18, <2>1, AlTerminar
<1>15. ~incidentes' =>
         ~incidentes /\ q.filas = acumulado /\ nomina[n].estado \in {"ready", "cancelled"}
  BY <1>1, <1>3, SinCambios DEF Todo
<1>16. Anuales'
  <2> SUFFICES ASSUME ~incidentes', NEW b \in Anios
               PROVE  AnioCuadra(acumulado'[b], nomina', b, repetido'[b])
    BY DEF Anuales
  <2>1. AnioCuadra(acumulado[b], nomina, b, repetido[b]) /\ acumulado \in [Anios -> AcumuladoType]
    BY <1>15 DEF Todo, Anuales, Tipos, Renglones
  <2>2. CASE b = a
    <3> DEFINE N == [nomina EXCEPT ![n] = y]
               d == repetido'[a]
    <3>0. acumulado[a] \in AcumuladoType /\ AnioCuadra(acumulado[a], nomina, a, repetido[a])
      BY <1>7, <2>1, <2>2
    <3>1. ~EnAnio(y, a) /\ EnAnio(x, a)
      BY <1>5 DEF EnAnio, a
    <3>2. N \in [Nominas -> NominaType] /\ N[n] = y /\ [N EXCEPT ![n] = x] = nomina'
      BY <1>1, <1>2, <1>5, <1>6
    <3>3. d \in Repetido
      BY <1>18
    <3>4. antes = Revertida(acumulado[a], nomina[n].monto)
      BY <1>15 DEF antes
    <3>5. nomina[n].monto \in 0 .. MaxMonto
      BY <1>2 DEF NominaType
    <3>6. AnioCuadra(antes, N, a, d)
      <4>1. CASE nomina[n].estado = "ready"
        <5>1. EnAnio(nomina[n], a)
          BY <4>1 DEF EnAnio, a
        <5>2. d = repetido[a]
          BY <1>18, <4>1
        <5>3. n \in Nominas /\ y \in NominaType /\ nomina \in [Nominas -> NominaType] /\ a \in Anios
              /\ repetido[a] \in Repetido
          BY <1>1, <1>2, <1>5, <1>7, <1>18
        <5> HIDE DEF q, n, d
        <5>4. acumulado[a].existe = TRUE
          BY <3>0, <3>1, <5>1, <5>3, AnioSale
        <5>5. AnioCuadra(SinNomina(acumulado[a], nomina[n].monto), N, a, repetido[a])
          BY <3>0, <3>1, <5>1, <5>3, AnioSale
        <5> QED BY <3>4, <5>2, <5>4, <5>5 DEF Revertida
      <4>2. CASE nomina[n].estado = "cancelled"
        <5>1. d = e
          BY <1>18, <4>2
        <5>2. N = nomina
          BY <1>1, <1>2, <1>5, <4>2
        <5>3. nomina \in [Nominas -> NominaType] /\ a \in Anios /\ repetido[a] \in Repetido
          BY <1>2, <1>7, <1>18
        <5> HIDE DEF q, n, d, N
        <5>4. /\ AnioCuadra(acumulado[a], nomina, a, e)
              /\ AnioCuadra(SinNomina(acumulado[a], nomina[n].monto), nomina, a, e)
          BY <3>0, <3>5, <5>3, AnioRepite DEF e
        <5> QED BY <3>4, <5>1, <5>2, <5>4 DEF Revertida
      <4> QED BY <1>15, <4>1, <4>2
    <3> HIDE DEF N, d
    <3>7. AnioCuadra(ConNomina(Obtener(antes, nomina[n].inicio), x.fin, x.monto), [N EXCEPT ![n] = x], a, d)
      <4> HIDE DEF q, n
      <4>1. n \in Nominas /\ x \in NominaType /\ a \in Anios /\ antes \in AcumuladoType /\ x.fin \in Meses
        BY <1>1, <1>5, <1>7
      <4>2. ~EnAnio(N[n], a)
        BY <3>1, <3>2
      <4> QED BY <3>1, <3>2, <3>3, <3>6, <4>1, <4>2, AnioEntra
    <3>8. acumulado'[b] = ConNomina(Obtener(antes, nomina[n].inicio), x.fin, x.monto)
      BY <1>5, <1>11, <2>2 DEF fila
    <3> QED BY <2>2, <3>2, <3>7, <3>8 DEF d
  <2>3. CASE b # a
    <3>1. ~EnAnio(nomina[n], b) /\ ~EnAnio(x, b)
      BY <1>5, <2>3 DEF EnAnio, a
    <3>2. AnioCuadra(acumulado[b], [nomina EXCEPT ![n] = x], b, repetido[b])
      BY <1>1, <1>2, <2>1, <3>1, OtrosAnios
    <3> QED BY <1>6, <1>11, <1>18, <2>3, <3>2
  <2> QED BY <2>2, <2>3
<1>17. Beneficio'
  <2> SUFFICES ASSUME ~incidentes' PROVE Beneficio'
    BY DEF Beneficio
  <2>1. \A z \in Nominas : nomina[z].estado = "applied" => nomina'[z].estado = "applied"
    <3> TAKE z \in Nominas
    <3> HAVE nomina[z].estado = "applied"
    <3>1. z # n
      BY <1>15
    <3> QED BY <1>2, <1>6, <3>1
  <2>2. Tipos /\ Beneficio
    BY DEF Todo
  <2>3. ~incidentes
    BY <1>15
  <2>4. ASSUME NEW i \in DOMAIN libro PROVE libro[i].origen # n
    <3>1. Aplicado(nomina, carga, libro[i])
      BY <2>2, <2>3 DEF Beneficio
    <3> QED BY <1>1, <1>15, <3>1 DEF Aplicado
  <2>5. libro' = libro
    BY <1>3, <2>4 DEF SinAsiento
  <2> HIDE DEF q
  <2> QED BY <1>3, <1>12, <1>14, <2>1, <2>2, <2>3, <2>5, LibroIgual
<1> QED BY <1>14, <1>16, <1>17 DEF Todo

\* The rows of the loads change, and nothing of the payrolls.
LEMMA CargasCambian ==
  ASSUME Todo, NEW r \in Requests, End(r), nomina' = nomina, acumulado' = acumulado,
         libro' \in Seq(Transaccion), aplicando' = aplicando, repetido' = repetido,
         carga' \in [Cargas -> CargaType], \A c \in Cargas : CargaOK(carga'[c])
  PROVE  Tipos' /\ Anuales' /\ mensual' = mensual /\ (~incidentes' => ~incidentes)
<1>1. Renglones'
  BY DEF Todo, Tipos, Renglones
<1>2. \A s \in Requests \ {r} :
        request[s].op = "calcular" => nomina'[request[s].k].estado = "none"
  BY DEF Todo, Tipos, Pedidos, Pedido
<1>3. \A n \in Nominas : nomina[n].estado # "none" => nomina'[n].estado # "none"
  OBVIOUS
<1>4. Tipos' /\ mensual' = mensual
  <2>1. repetido' \in [Anios -> Repetido] /\ \A n \in Nominas : aplicando[n] # Idle => nomina'[n] = nomina[n]
    BY DEF Todo, Tipos
  <2> QED BY <1>1, <1>2, <1>3, <2>1, AlTerminar
<1>5. ~incidentes' => ~incidentes
  BY SinCambios DEF Todo
<1>6. Anuales'
  <2>1. Anuales
    BY DEF Todo
  <2> QED BY <1>5, <2>1, AniosIguales
<1> QED BY <1>4, <1>5, <1>6

\* One load changes.
LEMMA UnaCarga ==
  ASSUME Renglones, NEW c \in Cargas, NEW x \in CargaType, CargaOK(x)
  PROVE  LET C == [carga EXCEPT ![c] = x]
         IN  /\ C \in [Cargas -> CargaType] /\ \A d \in Cargas : CargaOK(C[d])
             /\ C[c] = x /\ \A d \in Cargas \ {c} : C[d] = carga[d]
<1>1. carga \in [Cargas -> CargaType] /\ \A d \in Cargas : CargaOK(carga[d])
  BY DEF Renglones
<1> DEFINE C == [carga EXCEPT ![c] = x]
<1>2. C \in [Cargas -> CargaType] /\ C[c] = x /\ \A d \in Cargas \ {c} : C[d] = carga[d]
  BY <1>1
<1> HIDE DEF C
<1>3. ASSUME NEW d \in Cargas PROVE CargaOK(C[d])
  <2>1. CASE d = c
    BY <1>2, <2>1
  <2>2. CASE d # c
    BY <1>1, <1>2, <2>2
  <2> QED BY <2>1, <2>2
<1> QED BY <1>2, <1>3 DEF C

LEMMA EditarTodo ==
  ASSUME Todo, NEW r \in Requests, EditarCarga(r)
  PROVE  Todo'
<1> DEFINE q == request[r]
           c == q.k
<1>1. q.op = "editar" /\ c \in Cargas
  BY DEF EditarCarga, Todo, Tipos, Pedidos, Pedido
<1>2. PICK mes \in Meses, monto \in 1 .. MaxMonto :
        carga' = [carga EXCEPT ![c].mes = mes, ![c].monto = monto]
  BY DEF EditarCarga
<1>3. End(r) /\ UNCHANGED <<acumulado, nomina, libro, aplicando, repetido>> /\ carga[c].estado # "none"
  BY DEF EditarCarga, beneficio
<1> DEFINE x == [carga[c] EXCEPT !.mes = mes, !.monto = monto]
<1>4. carga \in [Cargas -> CargaType] /\ carga[c] \in CargaType /\ Renglones
  BY <1>1 DEF Todo, Tipos, Renglones
<1>5. x \in CargaType /\ CargaOK(x) /\ x.estado = carga[c].estado
  <2>1. mes \in 0 .. MaxMes /\ monto \in 0 .. MaxMonto
    BY BoundsAssumption DEF Meses
  <2> QED BY <1>4, <2>1 DEF CargaType, CargaOK
<1>6. carga' = [carga EXCEPT ![c] = x]
  BY <1>1, <1>2, <1>4
<1> HIDE DEF x
<1>7. /\ carga' \in [Cargas -> CargaType] /\ \A d \in Cargas : CargaOK(carga'[d])
      /\ carga'[c] = x /\ \A d \in Cargas \ {c} : carga'[d] = carga[d]
  BY <1>1, <1>4, <1>5, <1>6, UnaCarga
<1>8. Tipos' /\ Anuales' /\ mensual' = mensual /\ (~incidentes' => ~incidentes)
  <2>1. libro' \in Seq(Transaccion)
    BY <1>3 DEF Todo, Tipos
  <2> QED BY <1>3, <1>7, <2>1, CargasCambian
<1>9. Beneficio'
  <2>1. \A d \in Cargas : carga[d].estado = "applied" => carga'[d].estado = "applied"
    BY <1>5, <1>7
  <2>2. Tipos /\ Beneficio
    BY DEF Todo
  <2> HIDE DEF q
  <2> QED BY <1>3, <1>8, <2>1, <2>2, LibroIgual
<1> QED BY <1>8, <1>9 DEF Todo

LEMMA EliminarTodo ==
  ASSUME Todo, NEW r \in Requests, EliminarCarga(r)
  PROVE  Todo'
<1> DEFINE q == request[r]
           c == q.k
           x == [estado |-> "none", mes |-> 0, monto |-> 0]
<1>1. q.op = "eliminar" /\ c \in Cargas
  BY DEF EliminarCarga, Todo, Tipos, Pedidos, Pedido
<1>2. End(r) /\ UNCHANGED <<acumulado, nomina, libro, aplicando, repetido>> /\ carga' = [carga EXCEPT ![c] = x]
  BY DEF EliminarCarga, beneficio
<1>3. Renglones /\ x \in CargaType /\ CargaOK(x)
  BY BoundsAssumption DEF Todo, Tipos, CargaType, CargaOK
<1> HIDE DEF x
<1>4. /\ carga' \in [Cargas -> CargaType] /\ \A d \in Cargas : CargaOK(carga'[d])
      /\ carga'[c] = x /\ \A d \in Cargas \ {c} : carga'[d] = carga[d]
  BY <1>1, <1>2, <1>3, UnaCarga
<1>5. Tipos' /\ Anuales' /\ mensual' = mensual /\ (~incidentes' => ~incidentes)
  <2>1. libro' \in Seq(Transaccion)
    BY <1>2 DEF Todo, Tipos
  <2> QED BY <1>2, <1>4, <2>1, CargasCambian
<1>6. ~incidentes' => carga[c].estado = "draft"
  BY <1>1, <1>2, SinCambios DEF Todo
<1>7. Beneficio'
  <2>1. ~incidentes' => \A d \in Cargas : carga[d].estado = "applied" => carga'[d].estado = "applied"
    <3> SUFFICES ASSUME ~incidentes', NEW d \in Cargas, carga[d].estado = "applied"
                 PROVE  carga'[d].estado = "applied"
      OBVIOUS
    <3>1. d # c
      BY <1>6
    <3> QED BY <1>4, <3>1
  <2>2. Tipos /\ Beneficio
    BY DEF Todo
  <2> HIDE DEF q
  <2> QED BY <1>2, <1>5, <2>1, <2>2, LibroIgual
<1> QED BY <1>5, <1>7 DEF Todo

\* A book with one transaction more, of an origin that had none.
LEMMA UnicosConUna ==
  ASSUME NEW L \in Seq(Transaccion), NEW t \in Transaccion, Unicos(L),
         \A i \in DOMAIN L : L[i].origen # t.origen
  PROVE  Unicos(Append(L, t))
<1> DEFINE K == Append(L, t)
           n == Len(L) + 1
<1>1. /\ DOMAIN K = (DOMAIN L) \cup {n} /\ K[n] = t /\ \A i \in DOMAIN L : K[i] = L[i]
  BY LibroFields
<1> HIDE DEF K, n
<1>2. Unicos(K)
  <2> SUFFICES ASSUME NEW i \in DOMAIN K, NEW j \in DOMAIN K, i # j
               PROVE  K[i].origen # K[j].origen
    BY DEF Unicos
  <2>1. CASE i \in DOMAIN L /\ j \in DOMAIN L
    BY <1>1, <2>1 DEF Unicos
  <2>2. CASE i = n
    BY <1>1, <2>2
  <2>3. CASE j = n
    BY <1>1, <2>3
  <2> QED BY <1>1, <2>1, <2>2, <2>3
<1> QED BY <1>2 DEF K

LEMMA AplicadosConUna ==
  ASSUME NEW L \in Seq(Transaccion), NEW t \in Transaccion, NEW N, NEW C,
         \A i \in DOMAIN L : Aplicado(N, C, L[i]), Aplicado(N, C, t)
  PROVE  \A i \in DOMAIN Append(L, t) : Aplicado(N, C, Append(L, t)[i])
<1> DEFINE K == Append(L, t)
           n == Len(L) + 1
<1>1. /\ DOMAIN K = (DOMAIN L) \cup {n} /\ K[n] = t /\ \A i \in DOMAIN L : K[i] = L[i]
  BY LibroFields
<1> HIDE DEF K, n
<1>2. \A i \in DOMAIN K : Aplicado(N, C, K[i])
  <2> TAKE i \in DOMAIN K
  <2>1. CASE i \in DOMAIN L
    BY <1>1, <2>1
  <2>2. CASE i = n
    BY <1>1, <2>2
  <2> QED BY <1>1, <2>1, <2>2
<1> QED BY <1>2 DEF K

LEMMA SaldosMasUna ==
  ASSUME NEW L \in Seq(Transaccion), NEW m \in BOOLEAN, NEW t \in Transaccion,
         \A i \in DOMAIN L : SaldoCuadra(L, m, i),
         NEW p, p.anterior \in Nat, p.leidos \in Nat, LeidoCuadra(L, m, p, t.mes),
         t.saldo_nuevo = p.anterior + t.monto, t.leidos = p.leidos
  PROVE  \A i \in DOMAIN Append(L, t) : SaldoCuadra(Append(L, t), m, i)
<1> DEFINE K == Append(L, t)
<1>1. DOMAIN K = (DOMAIN L) \cup {Len(L) + 1}
  BY AppendFields
<1>2. \A i \in DOMAIN L : SaldoCuadra(K, m, i)
  BY SaldosConUna
<1>3. SaldoCuadra(K, m, Len(L) + 1)
  BY Apunta
<1> HIDE DEF K
<1>4. \A i \in DOMAIN K : SaldoCuadra(K, m, i)
  BY <1>1, <1>2, <1>3
<1> QED BY <1>4 DEF K

LEMMA LeidosMasUna ==
  ASSUME NEW L \in Seq(Transaccion), NEW t \in Transaccion, NEW m, NEW N,
         NEW A \in [Nominas -> {Idle} \cup Leido],
         \A n \in Nominas : A[n] # Idle => LeidoCuadra(L, m, A[n], N[n].fin)
  PROVE  \A n \in Nominas : A[n] # Idle => LeidoCuadra(Append(L, t), m, A[n], N[n].fin)
<1> TAKE n \in Nominas
<1> HAVE A[n] # Idle
<1>1. A[n] \in Leido /\ LeidoCuadra(L, m, A[n], N[n].fin)
  OBVIOUS
<1> QED BY <1>1, LeidoConUna

LEMMA AplicarCargaTodo ==
  ASSUME Todo, NEW r \in Requests, AplicarCarga(r)
  PROVE  Todo'
<1> DEFINE q == request[r]
           c == q.k
           x == [carga[c] EXCEPT !.estado = "applied"]
           p == [anterior |-> 0, creado |-> hoy, leidos |-> 0]
           t == [origen |-> c, fecha |-> hoy, creado |-> p.creado, mes |-> q.vista.mes,
                 monto |-> q.vista.monto, saldo_nuevo |-> p.anterior + q.vista.monto,
                 leidos |-> p.leidos]
<1>1. /\ q.op = "aplicar" /\ c \in Cargas /\ q.vista \in CargaType /\ q.vista.mes \in Meses
      /\ q.vista.estado = "draft"
  <2>1. request[r].op = "aplicar" /\ Pedido(nomina, request[r])
    BY DEF AplicarCarga, Todo, Tipos, Pedidos
  <2> QED BY <2>1 DEF Pedido, CargaOK
<1>2. /\ End(r) /\ UNCHANGED <<acumulado, nomina, aplicando, repetido>>
      /\ carga' = [carga EXCEPT ![c].estado = "applied"]
      /\ carga[c].estado # "none" /\ libro' = Append(libro, t)
  BY DEF AplicarCarga, Asiento
<1>3. carga \in [Cargas -> CargaType] /\ carga[c] \in CargaType /\ CargaOK(carga[c]) /\ Renglones
  BY <1>1 DEF Todo, Tipos, Renglones
<1>4. x \in CargaType /\ CargaOK(x) /\ x.estado = "applied"
  BY <1>2, <1>3 DEF CargaType, CargaOK
<1>5. carga' = [carga EXCEPT ![c] = x]
  BY <1>1, <1>2, <1>3
<1>6. /\ t \in Transaccion /\ t.origen = c /\ t.saldo_nuevo = p.anterior + t.monto
      /\ t.leidos = p.leidos /\ p.anterior = 0 /\ p.leidos = 0
  <2>1. q.vista.monto \in 0 .. MaxMonto
    BY <1>1 DEF CargaType
  <2>2. 0 + q.vista.monto = q.vista.monto /\ q.vista.monto \in Nat
    BY <2>1, BoundsAssumption
  <2>3. hoy \in 1 .. MaxHoy
    BY DEF Todo, Tipos
  <2> QED BY <1>1, <2>1, <2>2, <2>3 DEF Transaccion
<1> HIDE DEF x, p, t
<1>7. /\ carga' \in [Cargas -> CargaType] /\ \A d \in Cargas : CargaOK(carga'[d])
      /\ carga'[c] = x /\ \A d \in Cargas \ {c} : carga'[d] = carga[d]
  BY <1>1, <1>3, <1>4, <1>5, UnaCarga
<1>8. libro \in Seq(Transaccion) /\ libro' \in Seq(Transaccion)
  BY <1>2, <1>6 DEF Todo, Tipos
<1>9. Tipos' /\ Anuales' /\ mensual' = mensual /\ (~incidentes' => ~incidentes)
  BY <1>2, <1>7, <1>8, CargasCambian
<1>10. Beneficio'
  <2> SUFFICES ASSUME ~incidentes'
               PROVE  /\ Unicos(libro')
                      /\ \A i \in DOMAIN libro' : Aplicado(nomina', carga', libro'[i])
                      /\ \A i \in DOMAIN libro' : SaldoCuadra(libro', mensual', i)
                      /\ \A n \in Nominas :
                           aplicando'[n] # Idle => LeidoCuadra(libro', mensual', aplicando'[n], nomina'[n].fin)
    BY DEF Beneficio
  <2>1. carga[c].estado = "draft"
    BY <1>1, <1>2, SinCambios DEF Todo
  <2>2. /\ Unicos(libro) /\ \A i \in DOMAIN libro : SaldoCuadra(libro, mensual, i)
        /\ \A i \in DOMAIN libro : Aplicado(nomina, carga, libro[i])
        /\ \A n \in Nominas :
             aplicando[n] # Idle => LeidoCuadra(libro, mensual, aplicando[n], nomina[n].fin)
    BY <1>9 DEF Todo, Beneficio
  <2>3. \A i \in DOMAIN libro : libro[i].origen # c
    BY <1>1, <2>1, <2>2 DEF Aplicado
  <2>4. Unicos(libro')
    <3> HIDE DEF q
    <3> QED BY <1>2, <1>6, <1>8, <2>2, <2>3, UnicosConUna
  <2>5. \A i \in DOMAIN libro' : Aplicado(nomina', carga', libro'[i])
    <3>1. \A i \in DOMAIN libro : Aplicado(nomina', carga', libro[i])
      <4> TAKE i \in DOMAIN libro
      <4>1. Aplicado(nomina, carga, libro[i]) /\ libro[i].origen # c
        BY <2>2, <2>3
      <4> QED BY <1>2, <1>7, <4>1 DEF Aplicado
    <3>2. Aplicado(nomina', carga', t)
      BY <1>1, <1>4, <1>6, <1>7, NamesAssumption DEF Aplicado
    <3> HIDE DEF q
    <3> QED BY <1>2, <1>6, <1>8, <3>1, <3>2, AplicadosConUna
  <2>6. mensual \in BOOLEAN /\ mensual' = mensual /\ aplicando \in [Nominas -> {Idle} \cup Leido]
    BY <1>9 DEF Todo, Tipos, Aplicandose
  <2>7. LeidoCuadra(libro, mensual, p, t.mes)
    BY <1>6, <1>8, SinLeer
  <2>8. \A i \in DOMAIN libro' : SaldoCuadra(libro', mensual', i)
    <3>1. /\ libro \in Seq(Transaccion) /\ mensual \in BOOLEAN /\ t \in Transaccion
          /\ p.anterior \in Nat /\ p.leidos \in Nat /\ t.saldo_nuevo = p.anterior + t.monto
          /\ t.leidos = p.leidos
      BY <1>6, <1>8, <2>6
    <3>2. \A i \in DOMAIN libro : SaldoCuadra(libro, mensual, i)
      BY <2>2
    <3>3. \A i \in DOMAIN Append(libro, t) : SaldoCuadra(Append(libro, t), mensual, i)
      BY <2>7, <3>1, <3>2, SaldosMasUna
    <3>4. libro' = Append(libro, t)
      BY <1>2
    <3> QED BY <2>6, <3>3, <3>4
  <2>9. \A n \in Nominas :
          aplicando'[n] # Idle => LeidoCuadra(libro', mensual', aplicando'[n], nomina'[n].fin)
    BY <1>2, <1>6, <1>8, <2>2, <2>6, LeidosMasUna
  <2> QED BY <2>4, <2>5, <2>8, <2>9
<1> QED BY <1>9, <1>10 DEF Todo

\* There is always a balance to start from.
LEMMA SaldoAnteriorNat ==
  ASSUME libro \in Seq(Transaccion), NEW mes, NEW i \in Ultimas
  PROVE  SaldoAnterior(i, mes) \in Nat
<1>1. i \in DOMAIN libro /\ libro[i] \in Transaccion
  BY LibroFields DEF Ultimas
<1>2. libro[i].saldo_nuevo \in Nat
  BY <1>1, TransaccionFields
<1>3. CASE mensual /\ libro[i].mes # mes
  BY <1>3 DEF SaldoAnterior
<1>4. CASE ~(mensual /\ libro[i].mes # mes)
  BY <1>2, <1>4 DEF SaldoAnterior
<1> QED BY <1>3, <1>4

LEMMA FallaTodo ==
  ASSUME Todo, NEW r \in Requests, Fails(r)
  PROVE  Todo'
<1>1. request' = [request EXCEPT ![r] = Idle]
      /\ UNCHANGED <<acumulado, nomina, carga, mensual, libro, aplicando, hoy, operations,
                     incidentes, repetido>>
  BY DEF Fails, papeles, beneficio, historia
<1>2. \A s \in Requests \ {r} : request[s].op = "calcular" => nomina[request[s].k].estado = "none"
  BY DEF Todo, Tipos, Pedidos, Pedido
<1>3. Pedidos(nomina, [request EXCEPT ![r] = Idle])
  BY <1>2, PedidosAlSalir DEF Todo, Tipos
<1>4. Pedidos(nomina', request')
  BY <1>1, <1>3
<1>5. Tipos'
  BY <1>1, <1>4 DEF Todo, Tipos, Renglones
<1>6. Anuales' /\ Beneficio'
  BY <1>1 DEF Todo, Anuales, Beneficio
<1> QED BY <1>5, <1>6 DEF Todo

\* Steps that are no request's: the payrolls and the loads change in one step.
LEMMA SinSolicitud ==
  ASSUME Todo, NEW n \in Nominas, NEW x \in NominaType, NominaOK(x),
         nomina' = [nomina EXCEPT ![n] = x], nomina[n].estado # "none", x.estado # "none",
         libro' \in Seq(Transaccion), Aplicandose(nomina', aplicando'),
         UNCHANGED <<acumulado, carga, mensual, hoy, request, operations, incidentes, repetido>>
  PROVE  Tipos'
<1>1. nomina \in [Nominas -> NominaType] /\ \A z \in Nominas : NominaOK(nomina[z])
  BY DEF Todo, Tipos, Renglones
<1>2. nomina' \in [Nominas -> NominaType] /\ nomina'[n] = x /\ \A z \in Nominas \ {n} : nomina'[z] = nomina[z]
  BY <1>1
<1>3. \A z \in Nominas : NominaOK(nomina'[z])
  BY <1>1, <1>2
<1>4. Renglones'
  BY <1>2, <1>3 DEF Todo, Tipos, Renglones
<1>5. Pedidos(nomina', request)
  <2>1. Pedidos(nomina, request)
    BY DEF Todo, Tipos
  <2> DEFINE M == nomina'
  <2>2. \A z \in Nominas : nomina[z].estado = "none" <=> M[z].estado = "none"
    <3> TAKE z \in Nominas
    <3>1. z = n \/ nomina'[z] = nomina[z]
      BY <1>2
    <3> QED BY <1>2, <3>1
  <2> HIDE DEF M
  <2>3. Pedidos(M, request)
    BY <2>1, <2>2, PedidosSiguen
  <2> QED BY <2>3 DEF M
<1> QED BY <1>4, <1>5 DEF Todo, Tipos

\* A payroll that begins to be applied reads a balance, and changes nothing.
LEMMA AplicarLeeTodo ==
  ASSUME Todo, NEW n \in Nominas, AplicarLee(n)
  PROVE  Todo'
<1>1. PICK anterior \in (IF libro = <<>> THEN {0}
                         ELSE {SaldoAnterior(i, nomina[n].fin) : i \in Ultimas}) :
        aplicando' = [aplicando EXCEPT ![n] =
          [anterior |-> anterior, creado |-> hoy, leidos |-> Len(libro)]]
  BY Zenon DEF AplicarLee
<1> DEFINE p == [anterior |-> anterior, creado |-> hoy, leidos |-> Len(libro)]
<1>2. /\ UNCHANGED <<acumulado, nomina, carga, mensual, libro, hoy, request, operations,
                     incidentes, repetido>>
      /\ nomina[n].estado = "ready"
  BY DEF AplicarLee, papeles, historia
<1>3. /\ libro \in Seq(Transaccion) /\ mensual \in BOOLEAN /\ hoy \in 1 .. MaxHoy
      /\ aplicando \in [Nominas -> {Idle} \cup Leido] /\ nomina[n] \in NominaType
      /\ \A z \in Nominas : aplicando[z] # Idle => nomina[z].estado = "ready"
  BY DEF Todo, Tipos, Renglones, Aplicandose
<1>4. anterior \in Nat
  <2>1. CASE libro = <<>>
    BY <2>1
  <2>2. CASE libro # <<>>
    <3>1. PICK i \in Ultimas : anterior = SaldoAnterior(i, nomina[n].fin)
      BY <2>2
    <3> QED BY <1>3, <3>1, SaldoAnteriorNat
  <2> QED BY <2>1, <2>2
<1>5. p \in Leido /\ p.anterior = anterior /\ p.leidos = Len(libro)
  BY <1>3, <1>4, LibroFields DEF Leido
<1> HIDE DEF p
<1>6. /\ aplicando' \in [Nominas -> {Idle} \cup Leido] /\ aplicando'[n] = p
      /\ \A z \in Nominas \ {n} : aplicando'[z] = aplicando[z]
  BY <1>1, <1>3, <1>5 DEF p
<1>7. Aplicandose(nomina', aplicando')
  <2>1. \A z \in Nominas : aplicando'[z] # Idle => nomina'[z].estado = "ready"
    <3> TAKE z \in Nominas
    <3>1. z = n \/ aplicando'[z] = aplicando[z]
      BY <1>6
    <3> QED BY <1>2, <1>3, <3>1
  <2> QED BY <1>6, <2>1 DEF Aplicandose
<1>8. Pedidos(nomina', request')
  BY <1>2 DEF Todo, Tipos
<1>9. Tipos'
  BY <1>2, <1>7, <1>8 DEF Todo, Tipos, Renglones
<1>10. Anuales'
  BY <1>2 DEF Todo, Anuales
<1>11. Beneficio'
  <2> SUFFICES ASSUME ~incidentes'
               PROVE  /\ Unicos(libro')
                      /\ \A i \in DOMAIN libro' : Aplicado(nomina', carga', libro'[i])
                      /\ \A i \in DOMAIN libro' : SaldoCuadra(libro', mensual', i)
                      /\ \A z \in Nominas :
                           aplicando'[z] # Idle => LeidoCuadra(libro', mensual', aplicando'[z], nomina'[z].fin)
    BY DEF Beneficio
  <2>1. /\ Unicos(libro) /\ \A i \in DOMAIN libro : SaldoCuadra(libro, mensual, i)
        /\ \A i \in DOMAIN libro : Aplicado(nomina, carga, libro[i])
        /\ \A z \in Nominas :
             aplicando[z] # Idle => LeidoCuadra(libro, mensual, aplicando[z], nomina[z].fin)
    BY <1>2 DEF Todo, Beneficio
  <2>2. LeidoCuadra(libro, mensual, p, nomina[n].fin)
    <3>1. CASE libro = <<>>
      <4>1. p.anterior = 0 /\ p.leidos = 0
        BY <1>5, <3>1
      <4> QED BY <1>3, <4>1, SinLeer
    <3>2. CASE libro # <<>>
      <4>1. PICK i \in Ultimas : anterior = SaldoAnterior(i, nomina[n].fin)
        BY <3>2
      <4>2. nomina[n].fin \in Nat
        BY <1>3, BoundsAssumption DEF NominaType
      <4>3. p.anterior = SaldoAnterior(i, nomina[n].fin) /\ p.leidos = Len(libro)
        BY <1>5, <4>1
      <4> QED BY <1>3, <2>1, <3>2, <4>2, <4>3, LeeUltima
    <3> QED BY <3>1, <3>2
  <2>3. ASSUME NEW z \in Nominas, aplicando'[z] # Idle
        PROVE  LeidoCuadra(libro, mensual, aplicando'[z], nomina[z].fin)
    <3>1. CASE z = n
      BY <1>6, <2>2, <3>1
    <3>2. CASE z # n
      BY <1>6, <2>1, <2>3, <3>2
    <3> QED BY <3>1, <3>2
  <2> QED BY <1>2, <2>1, <2>3
<1> QED BY <1>9, <1>10, <1>11 DEF Todo

LEMMA AplicarNominaTodo ==
  ASSUME Todo, NEW n \in Nominas, AplicarNomina(n)
  PROVE  Todo'
<1> DEFINE x == [nomina[n] EXCEPT !.estado = "applied"]
           p == aplicando[n]
           t == [origen |-> n, fecha |-> nomina[n].fecha, creado |-> p.creado,
                 mes |-> nomina[n].fin, monto |-> nomina[n].monto,
                 saldo_nuevo |-> p.anterior + nomina[n].monto, leidos |-> p.leidos]
<1>1. /\ UNCHANGED <<acumulado, carga, mensual, hoy, request, operations, incidentes, repetido>>
      /\ nomina' = [nomina EXCEPT ![n].estado = "applied"] /\ p # Idle
      /\ aplicando' = [aplicando EXCEPT ![n] = Idle]
      /\ (\E i \in DOMAIN libro : libro[i].origen = n) => libro' = libro
      /\ (\A i \in DOMAIN libro : libro[i].origen # n) => libro' = Append(libro, t)
  BY DEF AplicarNomina, Asiento, historia
<1>2. /\ nomina \in [Nominas -> NominaType] /\ nomina[n] \in NominaType /\ NominaOK(nomina[n])
      /\ libro \in Seq(Transaccion) /\ mensual \in BOOLEAN
      /\ aplicando \in [Nominas -> {Idle} \cup Leido]
      /\ \A z \in Nominas : aplicando[z] # Idle => nomina[z].estado = "ready"
  BY DEF Todo, Tipos, Renglones, Aplicandose
<1>0. /\ p \in Leido /\ nomina[n].estado = "ready"
  BY <1>1, <1>2
<1>3. /\ x \in NominaType /\ NominaOK(x) /\ x.estado = "applied" /\ x.monto = nomina[n].monto
      /\ x.fin = nomina[n].fin
  BY <1>0, <1>2 DEF NominaType, NominaOK
<1>4. nomina' = [nomina EXCEPT ![n] = x]
  BY <1>1, <1>2
<1> HIDE DEF x
<1>5. p.anterior \in Nat /\ p.leidos \in Nat /\ p.creado \in 1 .. MaxHoy
  BY <1>0 DEF Leido
<1>6. /\ t \in Transaccion /\ t.origen = n /\ t.monto = nomina[n].monto /\ t.mes = nomina[n].fin
      /\ t.saldo_nuevo = p.anterior + t.monto /\ t.leidos = p.leidos
  <2>1. nomina[n].monto \in 0 .. MaxMonto /\ nomina[n].fin \in Meses /\ nomina[n].fecha \in 1 .. MaxHoy
    BY <1>0, <1>2 DEF NominaType, NominaOK
  <2> HIDE DEF p
  <2>2. p.anterior + nomina[n].monto \in Nat
    BY <1>5, <2>1, BoundsAssumption
  <2> QED BY <1>5, <2>1, <2>2 DEF Transaccion
<1> HIDE DEF t
<1>7. libro' \in Seq(Transaccion)
  <2>1. CASE \E i \in DOMAIN libro : libro[i].origen = n
    BY <1>1, <1>2, <2>1
  <2>2. CASE \A i \in DOMAIN libro : libro[i].origen # n
    BY <1>1, <1>2, <1>6, <2>2
  <2> QED BY <2>1, <2>2
<1>9. nomina'[n] = x /\ \A z \in Nominas \ {n} : nomina'[z] = nomina[z]
  BY <1>2, <1>4
<1>13. /\ aplicando' \in [Nominas -> {Idle} \cup Leido] /\ aplicando'[n] = Idle
       /\ \A z \in Nominas \ {n} : aplicando'[z] = aplicando[z]
  BY <1>1, <1>2
<1>12. Aplicandose(nomina', aplicando')
  <2>1. \A z \in Nominas : aplicando'[z] # Idle => nomina'[z].estado = "ready"
    <3> TAKE z \in Nominas
    <3> HAVE aplicando'[z] # Idle
    <3>1. z # n
      BY <1>13
    <3> QED BY <1>2, <1>9, <1>13, <3>1
  <2> QED BY <1>13, <2>1 DEF Aplicandose
<1>8. Tipos'
  <2>1. nomina[n].estado # "none" /\ x.estado # "none"
    BY <1>0, <1>3
  <2> QED BY <1>1, <1>3, <1>4, <1>7, <1>12, <2>1, SinSolicitud
<1>10. Anuales'
  <2>1. \A z \in Nominas : \A a \in Anios : EnAnio(nomina'[z], a) <=> EnAnio(nomina[z], a)
    <3> TAKE z \in Nominas
    <3>1. z = n \/ nomina'[z] = nomina[z]
      BY <1>9
    <3> QED BY <1>0, <1>3, <1>9, <3>1 DEF EnAnio
  <2>2. \A z \in Nominas : \A a \in Anios : EnAnio(nomina[z], a) => nomina'[z].monto = nomina[z].monto
    <3> TAKE z \in Nominas
    <3>1. z = n \/ nomina'[z] = nomina[z]
      BY <1>9
    <3> QED BY <1>3, <1>9, <3>1
  <2> QED BY <1>1, <2>1, <2>2, AniosIguales DEF Todo
<1>11. Beneficio'
  <2> SUFFICES ASSUME ~incidentes'
               PROVE  /\ Unicos(libro')
                      /\ \A i \in DOMAIN libro' : Aplicado(nomina', carga', libro'[i])
                      /\ \A i \in DOMAIN libro' : SaldoCuadra(libro', mensual', i)
                      /\ \A z \in Nominas :
                           aplicando'[z] # Idle => LeidoCuadra(libro', mensual', aplicando'[z], nomina'[z].fin)
    BY DEF Beneficio
  <2>1. /\ Unicos(libro) /\ \A i \in DOMAIN libro : SaldoCuadra(libro, mensual, i)
        /\ \A i \in DOMAIN libro : Aplicado(nomina, carga, libro[i])
        /\ \A z \in Nominas :
             aplicando[z] # Idle => LeidoCuadra(libro, mensual, aplicando[z], nomina[z].fin)
    BY <1>1 DEF Todo, Beneficio
  <2>2. \A i \in DOMAIN libro : libro[i].origen # n
    BY <1>0, <2>1 DEF Aplicado
  <2>3. libro' = Append(libro, t)
    BY <1>1, <2>2
  <2>4. Unicos(libro')
    BY <1>2, <1>6, <2>1, <2>2, <2>3, UnicosConUna
  <2>5. \A i \in DOMAIN libro' : Aplicado(nomina', carga', libro'[i])
    <3>1. \A i \in DOMAIN libro : Aplicado(nomina', carga', libro[i])
      <4> TAKE i \in DOMAIN libro
      <4>1. Aplicado(nomina, carga, libro[i]) /\ libro[i].origen # n
        BY <2>1, <2>2
      <4> QED BY <1>1, <1>9, <4>1 DEF Aplicado
    <3>2. Aplicado(nomina', carga', t)
      BY <1>3, <1>6, <1>9, NamesAssumption DEF Aplicado
    <3> QED BY <1>2, <1>6, <2>3, <3>1, <3>2, AplicadosConUna
  <2>6. mensual' = mensual
    BY <1>1
  <2>7. LeidoCuadra(libro, mensual, p, t.mes)
    BY <1>1, <1>6, <2>1
  <2>8. \A i \in DOMAIN libro' : SaldoCuadra(libro', mensual', i)
    <3> HIDE DEF p
    <3> QED BY <1>2, <1>5, <1>6, <2>1, <2>3, <2>6, <2>7, SaldosMasUna
  <2>9. ASSUME NEW z \in Nominas, aplicando'[z] # Idle
        PROVE  LeidoCuadra(libro', mensual', aplicando'[z], nomina'[z].fin)
    <3>1. z # n /\ aplicando'[z] = aplicando[z] /\ nomina'[z] = nomina[z]
      BY <1>9, <1>13, <2>9
    <3>2. LeidoCuadra(Append(libro, t), mensual, aplicando[z], nomina[z].fin)
      <4>1. aplicando[z] \in Leido /\ LeidoCuadra(libro, mensual, aplicando[z], nomina[z].fin)
        BY <1>2, <2>1, <2>9, <3>1
      <4> HIDE DEF p
      <4> QED BY <1>2, <1>6, <4>1, LeidoConUna
    <3> QED BY <2>3, <2>6, <3>1, <3>2
  <2> QED BY <2>4, <2>5, <2>8, <2>9
<1> QED BY <1>8, <1>10, <1>11 DEF Todo

LEMMA AplicarFallaTodo ==
  ASSUME Todo, NEW n \in Nominas, AplicarFalla(n)
  PROVE  Todo'
<1>1. /\ UNCHANGED <<acumulado, nomina, carga, mensual, libro, hoy, request, operations,
                     incidentes, repetido>>
      /\ aplicando' = [aplicando EXCEPT ![n] = Idle]
  BY DEF AplicarFalla, papeles, historia
<1>2. /\ aplicando \in [Nominas -> {Idle} \cup Leido]
      /\ \A z \in Nominas : aplicando[z] # Idle => nomina[z].estado = "ready"
  BY DEF Todo, Tipos, Aplicandose
<1>3. /\ aplicando' \in [Nominas -> {Idle} \cup Leido]
      /\ \A z \in Nominas : aplicando'[z] # Idle => aplicando'[z] = aplicando[z]
  BY <1>1, <1>2
<1>4. Aplicandose(nomina', aplicando')
  BY <1>1, <1>2, <1>3 DEF Aplicandose
<1>5. Pedidos(nomina', request')
  BY <1>1 DEF Todo, Tipos
<1>6. Tipos'
  BY <1>1, <1>4, <1>5 DEF Todo, Tipos, Renglones
<1>7. Anuales'
  BY <1>1 DEF Todo, Anuales
<1>8. Beneficio'
  BY <1>1, <1>3 DEF Todo, Beneficio
<1> QED BY <1>6, <1>7, <1>8 DEF Todo

\* New loads: only rows that were free are written.
LEMMA CargasNuevas ==
  ASSUME Todo, UNCHANGED <<acumulado, nomina, mensual, libro, aplicando, hoy, request, operations,
                           incidentes, repetido>>,
         carga' \in [Cargas -> CargaType], \A c \in Cargas : CargaOK(carga'[c]),
         \A c \in Cargas : carga[c].estado # "none" => carga'[c] = carga[c]
  PROVE  Todo'
<1>1. Pedidos(nomina', request')
  BY DEF Todo, Tipos
<1>2. Tipos'
  BY <1>1 DEF Todo, Tipos, Renglones
<1>3. Anuales'
  BY DEF Todo, Anuales
<1>4. Beneficio'
  <2>1. \A c \in Cargas : carga[c].estado = "applied" => carga'[c].estado = "applied"
    OBVIOUS
  <2> QED BY <2>1, LibroIgual DEF Todo
<1> QED BY <1>2, <1>3, <1>4 DEF Todo

LEMMA NuevaCargaTodo ==
  ASSUME Todo, NEW c \in Cargas, NEW mes \in Meses, NEW monto \in 1 .. MaxMonto,
         NuevaCarga(c, mes, monto)
  PROVE  Todo'
<1> DEFINE x == [estado |-> "draft", mes |-> mes, monto |-> monto]
<1>1. x \in CargaType /\ CargaOK(x)
  <2>1. mes \in 0 .. MaxMes /\ monto \in 0 .. MaxMonto
    BY BoundsAssumption DEF Meses
  <2> QED BY <2>1 DEF CargaType, CargaOK
<1>2. /\ carga' = [carga EXCEPT ![c] = x] /\ carga[c].estado = "none"
      /\ UNCHANGED <<acumulado, nomina, mensual, libro, aplicando, hoy, request, operations,
                     incidentes, repetido>>
  BY DEF NuevaCarga, beneficio, historia
<1> HIDE DEF x
<1>3. /\ carga' \in [Cargas -> CargaType] /\ \A d \in Cargas : CargaOK(carga'[d])
      /\ carga'[c] = x /\ \A d \in Cargas \ {c} : carga'[d] = carga[d]
  <2>1. Renglones
    BY DEF Todo, Tipos
  <2> QED BY <1>1, <1>2, <2>1, UnaCarga
<1>4. \A d \in Cargas : carga[d].estado # "none" => carga'[d] = carga[d]
  BY <1>2, <1>3
<1> QED BY <1>2, <1>3, <1>4, CargasNuevas

LEMMA CargaMasivaTodo ==
  ASSUME Todo, NEW filas \in [1 .. Cardinality(Cargas) -> Archivo], CargaMasiva(filas)
  PROVE  Todo'
<1> DEFINE V == Validas(filas)
           x(c) == LET i == CHOOSE i \in V : filas[i].carga = c
                   IN  [estado |-> "draft", mes |-> filas[i].mes, monto |-> filas[i].monto]
<1>1. /\ carga' = [c \in Cargas |-> IF \E i \in V : filas[i].carga = c THEN x(c) ELSE carga[c]]
      /\ \A i \in DOMAIN filas : carga[filas[i].carga].estado = "none"
      /\ UNCHANGED <<acumulado, nomina, mensual, libro, aplicando, hoy, request, operations,
                     incidentes, repetido>>
  BY DEF CargaMasiva, beneficio, historia
<1>2. V \subseteq DOMAIN filas /\ \A i \in DOMAIN filas : filas[i] \in Archivo
  BY DEF Validas
<1> HIDE DEF V
<1>3. carga \in [Cargas -> CargaType] /\ \A c \in Cargas : CargaOK(carga[c])
  BY DEF Todo, Tipos, Renglones
<1>4. ASSUME NEW c \in Cargas, NEW j \in V, filas[j].carga = c
      PROVE  x(c) \in CargaType /\ CargaOK(x(c))
  <2> DEFINE i == CHOOSE i \in V : filas[i].carga = c
  <2>1. i \in V
    BY <1>4
  <2> HIDE DEF i
  <2>2. filas[i].mes \in Meses /\ filas[i].monto \in 1 .. MaxMonto
    BY <1>2, <2>1 DEF Archivo
  <2>3. filas[i].mes \in 0 .. MaxMes /\ filas[i].monto \in 0 .. MaxMonto
    BY <2>2, BoundsAssumption DEF Meses
  <2> DEFINE y == [estado |-> "draft", mes |-> filas[i].mes, monto |-> filas[i].monto]
  <2>4. y \in CargaType /\ CargaOK(y)
    BY <2>2, <2>3 DEF CargaType, CargaOK
  <2>5. x(c) = y
    BY DEF i
  <2> QED BY <2>4, <2>5
<1> HIDE DEF x
<1>5. ASSUME NEW c \in Cargas
      PROVE  /\ carga'[c] \in CargaType /\ CargaOK(carga'[c])
             /\ carga[c].estado # "none" => carga'[c] = carga[c]
  <2>1. CASE \E i \in V : filas[i].carga = c
    <3>1. carga'[c] = x(c)
      BY <1>1, <2>1
    <3>2. carga[c].estado = "none"
      BY <1>1, <1>2, <2>1
    <3> QED BY <1>4, <2>1, <3>1, <3>2
  <2>2. CASE ~\E i \in V : filas[i].carga = c
    <3>1. carga'[c] = carga[c]
      BY <1>1, <2>2
    <3> QED BY <1>3, <3>1
  <2> QED BY <2>1, <2>2
<1>6. carga' \in [Cargas -> CargaType]
  <2>1. carga' = [c \in Cargas |-> carga'[c]]
    BY <1>1
  <2> QED BY <1>5, <2>1
<1> QED BY <1>1, <1>5, <1>6, CargasNuevas

LEMMA AmaneceTodo == Todo /\ Amanece => Todo'
<1> SUFFICES ASSUME Todo, Amanece PROVE Todo'
  OBVIOUS
<1>1. UNCHANGED <<acumulado, nomina, carga, mensual, libro, aplicando, request, operations,
                  incidentes, repetido>>
  BY DEF Amanece, papeles, beneficio, historia
<1>2. hoy' \in 1 .. MaxHoy
  BY BoundsAssumption DEF Todo, Tipos, Amanece
<1>3. Pedidos(nomina', request')
  BY <1>1 DEF Todo, Tipos
<1>4. Tipos'
  BY <1>1, <1>2, <1>3 DEF Todo, Tipos, Renglones
<1>5. Anuales' /\ Beneficio'
  BY <1>1 DEF Todo, Anuales, Beneficio
<1> QED BY <1>4, <1>5 DEF Todo

LEMMA QuietoTodo == Todo /\ UNCHANGED acumuladosVars => Todo'
<1> SUFFICES ASSUME Todo, UNCHANGED acumuladosVars PROVE Todo'
  OBVIOUS
<1>1. UNCHANGED <<acumulado, nomina, carga, mensual, libro, aplicando, hoy, request, operations,
                  incidentes, repetido>>
  BY DEF acumuladosVars, papeles, beneficio, historia
<1>2. Tipos'
  BY <1>1 DEF Todo, Tipos, Renglones, Pedidos
<1>3. Anuales' /\ Beneficio'
  BY <1>1 DEF Todo, Anuales, Beneficio
<1> QED BY <1>2, <1>3 DEF Todo

LEMMA EmpiezaTodo ==
  ASSUME Todo, NEW r \in Requests, EmpiezaSolicitud(r)
  PROVE  Todo'
<1>1. ASSUME NEW n \in Nominas, CalcularLee(r, n) PROVE Todo'
  <2>1. /\ "calcular" \in Ops /\ Lee(r, "calcular", n) /\ nomina[n].estado = "none"
        /\ \A q \in Requests : request[q] # Idle => request[q].k # n
    BY <1>1 DEF CalcularLee, Ops
  <2> DEFINE op == "calcular"
  <2>2. op = "calcular" /\ op \in Ops /\ Lee(r, op, n)
    BY <2>1
  <2> HIDE DEF op
  <2> QED BY <2>1, <2>2, LeeTodo
<1>2. ASSUME NEW n \in Nominas, AnularLee(r, n) PROVE Todo'
  <2> DEFINE op == "anular"
  <2>1. op = "anular" /\ op \in Ops /\ Lee(r, op, n) /\ nomina[n].estado = "ready"
    BY <1>2 DEF AnularLee, Ops
  <2> HIDE DEF op
  <2> QED BY <2>1, LeeTodo
<1>4. ASSUME NEW n \in Nominas, RecalcularLee(r, n) PROVE Todo'
  <2> DEFINE op == "recalcular"
  <2>1. op = "recalcular" /\ op \in Ops /\ Lee(r, op, n) /\ nomina[n].estado \in {"ready", "cancelled"}
    BY <1>4 DEF RecalcularLee, Ops
  <2> HIDE DEF op
  <2> QED BY <2>1, LeeTodo
<1>3. ASSUME NEW c \in Cargas, NEW op \in {"editar", "aplicar", "eliminar"}, CargaLee(r, op, c)
      PROVE  Todo'
  <2>1. op \in Ops /\ Lee(r, op, c) /\ carga[c].estado = "draft"
    BY <1>3 DEF CargaLee, Ops
  <2> QED BY <2>1, LeeTodo
<1> QED BY <1>1, <1>2, <1>3, <1>4 DEF EmpiezaSolicitud

LEMMA PasoTodo == Todo /\ [AcumuladosNext]_acumuladosVars => Todo'
<1> SUFFICES ASSUME Todo, [AcumuladosNext]_acumuladosVars PROVE Todo'
  OBVIOUS
<1>1. ASSUME NEW r \in Requests, EmpiezaSolicitud(r) PROVE Todo'
  BY <1>1, EmpiezaTodo
<1>2. ASSUME NEW r \in Requests, TerminaSolicitud(r) PROVE Todo'
  BY <1>2, CalcularTodo, AnularTodo, RecalcularTodo, EditarTodo, AplicarCargaTodo,
     EliminarTodo, FallaTodo DEF TerminaSolicitud
<1>3. ASSUME NEW n \in Nominas, AplicarLee(n) \/ AplicarNomina(n) \/ AplicarFalla(n) PROVE Todo'
  BY <1>3, AplicarLeeTodo, AplicarNominaTodo, AplicarFallaTodo
<1>4. ASSUME NEW c \in Cargas, NEW mes \in Meses, NEW monto \in 1 .. MaxMonto,
             NuevaCarga(c, mes, monto)
      PROVE  Todo'
  BY <1>4, NuevaCargaTodo
<1>5. ASSUME NEW filas \in [1 .. Cardinality(Cargas) -> Archivo], CargaMasiva(filas)
      PROVE  Todo'
  BY <1>5, CargaMasivaTodo
<1>6. CASE Amanece
  BY <1>6, AmaneceTodo
<1>7. CASE UNCHANGED acumuladosVars
  BY <1>7, QuietoTodo
<1> QED BY <1>1, <1>2, <1>3, <1>4, <1>5, <1>6, <1>7 DEF AcumuladosNext

LEMMA SiempreTodo == AcumuladosSpec => []Todo
BY InicioTodo, PasoTodo, PTL DEF AcumuladosSpec

-----------------------------------------------------------------------------
(* Theorems                                                                  *)

\* Every step of the years and of the benefit leaves each variable in its type.
THEOREM AcumuladosTypeCorrect == AcumuladosSpec => []AcumuladosTypeOK
<1>1. Todo => AcumuladosTypeOK
  <2> SUFFICES ASSUME Todo PROVE AcumuladosTypeOK
    OBVIOUS
  <2>1. \A r \in Requests : request[r].op \in Ops \cup {"idle"}
    BY DEF Todo, Tipos, Pedidos, Pedido
  <2> QED BY <2>1 DEF Todo, Tipos, Renglones, Aplicandose, Repetido, AcumuladosTypeOK
<1> QED BY <1>1, SiempreTodo, PTL

\* The row of a fiscal year never exceeds what the payrolls that end in it paid and
\* what it was created with, and lacks at most what was taken back again when a
\* voided payroll was recalculated.
THEOREM YearsAreTheirPayrolls == AcumuladosSpec => []TotalesSonNominas
<1>1. Todo => TotalesSonNominas
  <2> SUFFICES ASSUME Todo, ~incidentes, NEW a \in Anios
               PROVE  LET fila == acumulado[a]
                          pagado == (IF fila.inicial THEN SalarioInicial ELSE 0)
                                   + MapThenSumSet(LAMBDA n : nomina[n].monto, Contadas(a))
                          pagos == (IF fila.inicial THEN PeriodosIniciales ELSE 0)
                                      + Cardinality(Contadas(a))
                      IN  /\ fila.bruto \in pagado - repetido[a].bruto .. pagado
                          /\ fila.periodos \in pagos - repetido[a].periodos .. pagos
                          /\ ~fila.existe => Contadas(a) = {}
    BY DEF TotalesSonNominas, Orderly
  <2> DEFINE fila == acumulado[a]
             pagado == (IF fila.inicial THEN SalarioInicial ELSE 0)
                      + MapThenSumSet(LAMBDA n : nomina[n].monto, Contadas(a))
             pagos == (IF fila.inicial THEN PeriodosIniciales ELSE 0)
                         + Cardinality(Contadas(a))
  <2>1. Contadas(a) = De(nomina, a)
    BY DEF Contadas, De, EnAnio
  <2>2. AnioCuadra(fila, nomina, a, repetido[a])
    BY DEF Todo, Anuales
  <2>3. MapThenSumSet(LAMBDA n : nomina[n].monto, De(nomina, a)) = Montos(nomina, De(nomina, a))
    <3>1. IsFiniteSet(De(nomina, a)) /\ De(nomina, a) \subseteq Nominas
      BY DeFinito
    <3>2. \A n \in Nominas : nomina[n].monto \in Int
      <4> TAKE n \in Nominas
      <4>1. nomina[n] \in NominaType
        BY DEF Todo, Tipos, Renglones
      <4> QED BY <4>1, BoundsAssumption DEF NominaType
    <3>3. \A n \in De(nomina, a) : nomina[n].monto \in Int
      BY <3>1, <3>2
    <3> QED BY <3>1, <3>3, SumaDeMontos DEF Montos
  <2>4. pagado = BrutoDe(fila) + Montos(nomina, De(nomina, a))
        /\ pagos = PeriodosDe(fila) + Cardinality(De(nomina, a))
    BY <2>1, <2>3 DEF BrutoDe, PeriodosDe
  <2>5. /\ Cuadra(fila.bruto, pagado, repetido[a].bruto)
        /\ Cuadra(fila.periodos, pagos, repetido[a].periodos)
        /\ ~fila.existe => Contadas(a) = {}
    BY <2>1, <2>2, <2>4 DEF AnioCuadra
  <2>6. /\ fila.bruto \in Nat /\ fila.periodos \in Nat
        /\ repetido[a].bruto \in Nat /\ repetido[a].periodos \in Nat
    <3>1. fila \in AcumuladoType /\ repetido[a] \in Repetido
      BY DEF Todo, Tipos, Renglones
    <3> QED BY <3>1, AcumuladoFields DEF Repetido
  <2>7. pagado \in Nat /\ pagos \in Nat
    <3>1. BrutoDe(fila) \in Nat /\ PeriodosDe(fila) \in Nat
      BY IniciosNat
    <3>2. Montos(nomina, De(nomina, a)) \in Nat /\ Cardinality(De(nomina, a)) \in Nat
      BY MontosNat, DeFinito DEF Todo, Tipos, Renglones
    <3> QED BY <2>4, <3>1, <3>2
  <2> HIDE DEF fila, pagado, pagos
  <2>8. /\ fila.bruto \in pagado - repetido[a].bruto .. pagado
        /\ fila.periodos \in pagos - repetido[a].periodos .. pagos
    BY <2>5, <2>6, <2>7 DEF Cuadra
  <2> QED BY <2>5, <2>8 DEF fila, pagado, pagos
<1> QED BY <1>1, SiempreTodo, PTL

\* A payroll or a load that was applied, and no other, makes one transaction; no
\* balance exceeds the sum of the transactions up to it, however their payrolls
\* were applied at once, and while each read those before it and has a later date
\* it is that sum.
THEOREM BenefitAddsUp == AcumuladosSpec => []BeneficioCuadra
<1>1. Todo => BeneficioCuadra
  <2> SUFFICES ASSUME Todo, ~incidentes PROVE BeneficioCuadra
    BY DEF BeneficioCuadra, Orderly
  <2>1. /\ Unicos(libro) /\ libro \in Seq(Transaccion)
        /\ \A i \in DOMAIN libro : SaldoCuadra(libro, mensual, i)
        /\ \A i \in DOMAIN libro : Aplicado(nomina, carga, libro[i])
    BY DEF Todo, Tipos, Beneficio
  <2>2. \A i, j \in DOMAIN libro : i # j => libro[i].origen # libro[j].origen
    BY <2>1 DEF Unicos
  <2>3. \A i \in DOMAIN libro :
          LET z == libro[i].origen
          IN  IF z \in Nominas THEN nomina[z].estado = "applied" ELSE carga[z].estado = "applied"
    <3> TAKE i \in DOMAIN libro
    <3>1. libro[i].origen \in Nominas \cup Cargas
      BY <2>1, LibroFields, TransaccionFields
    <3> QED BY <2>1, <3>1 DEF Aplicado
  <2>4. ASSUME NEW i \in DOMAIN libro
        PROVE  /\ libro[i].saldo_nuevo <= Movido(DelMes(i))
               /\ LibroEnOrden(i) => libro[i].saldo_nuevo = Movido(DelMes(i))
    <3> DEFINE S == Hasta(libro, mensual, i, libro[i].mes)
    <3>0. i \in Nat /\ i <= Len(libro)
      BY <2>1, LibroFields
    <3>1. DelMes(i) = S
      BY DEF DelMes, Hasta
    <3>2. S \subseteq DOMAIN libro /\ IsFiniteSet(S)
      BY <2>1, <3>0, HastaFields
    <3>3. \A j \in DOMAIN libro : libro[j].monto \in Int
      BY <2>1, LibroFields, TransaccionFields
    <3> HIDE DEF S
    <3>4. Movido(S) = Montos(libro, S)
      BY <3>2, <3>3, SumaDeMontos DEF Movido, Montos
    <3>5. SaldoCuadra(libro, mensual, i)
      BY <2>1
    <3>6. LibroEnOrden(i) => OrdenHasta(libro, mensual, i)
      BY DEF LibroEnOrden, OrdenHasta
    <3> QED BY <3>1, <3>4, <3>5, <3>6 DEF SaldoCuadra, S
  <2> QED BY <2>2, <2>3, <2>4, Zenon DEF BeneficioCuadra
<1> QED BY <1>1, SiempreTodo, PTL
================================================================================
