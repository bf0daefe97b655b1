---------------------------- MODULE PrestamoProofs ----------------------------
(***************************************************************************)
(* What Prestamo guarantees for any number of requests and payroll runs,   *)
(* for any amounts and dates, and whatever the bounds.                     *)
(***************************************************************************)
EXTENDS Prestamo, Integers, FiniteSetTheorems, WellFoundedInduction, TLAPS

-----------------------------------------------------------------------------
(* What the operations on the row do to each of its columns                  *)

\* Three columns of the row are set, one after the other.
Pago(l, s, a, e) == [l EXCEPT !.saldo = s, !.aplicado = a, !.estado = e]
Interes(l, s, i, u) == [l EXCEPT !.saldo = s, !.interes = i, !.ultimo = u]

LEMMA PagoRow ==
  ASSUME NEW l \in Columnas, NEW s \in Nat, NEW a \in Nat, NEW e \in Estados
  PROVE  LET c == Pago(l, s, a, e)
         IN  /\ c \in Columnas
             /\ c.estado = e /\ c.saldo = s /\ c.aplicado = a
             /\ c.aprobado = l.aprobado /\ c.interes = l.interes /\ c.ultimo = l.ultimo
<1> DEFINE c1 == [l EXCEPT !.saldo = s]
           c2 == [c1 EXCEPT !.aplicado = a]
           c3 == [c2 EXCEPT !.estado = e]
<1>1. Pago(l, s, a, e) = c3
  BY DEF Pago
<1>2. /\ c1 \in Columnas /\ c1.saldo = s /\ c1.estado = l.estado /\ c1.aplicado = l.aplicado
      /\ c1.aprobado = l.aprobado /\ c1.interes = l.interes /\ c1.ultimo = l.ultimo
  BY DEF Columnas
<1>3. /\ c2 \in Columnas /\ c2.saldo = s /\ c2.estado = l.estado /\ c2.aplicado = a
      /\ c2.aprobado = l.aprobado /\ c2.interes = l.interes /\ c2.ultimo = l.ultimo
  <2> HIDE DEF c1
  <2> QED BY <1>2 DEF Columnas
<1>4. /\ c3 \in Columnas /\ c3.saldo = s /\ c3.estado = e /\ c3.aplicado = a
      /\ c3.aprobado = l.aprobado /\ c3.interes = l.interes /\ c3.ultimo = l.ultimo
  <2> HIDE DEF c2
  <2> QED BY <1>3 DEF Columnas
<1> HIDE DEF c3
<1> QED BY <1>1, <1>4

LEMMA InteresRow ==
  ASSUME NEW l \in Columnas, NEW s \in Nat, NEW i \in Nat, NEW u \in Nat
  PROVE  LET c == Interes(l, s, i, u)
         IN  /\ c \in Columnas
             /\ c.saldo = s /\ c.interes = i /\ c.ultimo = u
             /\ c.estado = l.estado /\ c.aprobado = l.aprobado /\ c.aplicado = l.aplicado
<1> DEFINE c1 == [l EXCEPT !.saldo = s]
           c2 == [c1 EXCEPT !.interes = i]
           c3 == [c2 EXCEPT !.ultimo = u]
<1>1. Interes(l, s, i, u) = c3
  BY DEF Interes
<1>2. /\ c1 \in Columnas /\ c1.saldo = s /\ c1.interes = l.interes /\ c1.ultimo = l.ultimo
      /\ c1.estado = l.estado /\ c1.aprobado = l.aprobado /\ c1.aplicado = l.aplicado
  BY DEF Columnas
<1>3. /\ c2 \in Columnas /\ c2.saldo = s /\ c2.interes = i /\ c2.ultimo = l.ultimo
      /\ c2.estado = l.estado /\ c2.aprobado = l.aprobado /\ c2.aplicado = l.aplicado
  <2> HIDE DEF c1
  <2> QED BY <1>2 DEF Columnas
<1>4. /\ c3 \in Columnas /\ c3.saldo = s /\ c3.interes = i /\ c3.ultimo = u
      /\ c3.estado = l.estado /\ c3.aprobado = l.aprobado /\ c3.aplicado = l.aplicado
  <2> HIDE DEF c2
  <2> QED BY <1>3 DEF Columnas
<1> HIDE DEF c3
<1> QED BY <1>1, <1>4

LEMMA ConInteresColumns ==
  ASSUME NEW l \in Columnas, NEW interes \in Nat, NEW fecha \in Nat
  PROVE  LET c == ConInteres(l, interes, fecha)
         IN  /\ c \in Columnas
             /\ c.estado = l.estado /\ c.aprobado = l.aprobado /\ c.aplicado = l.aplicado
             /\ c.saldo = l.saldo + interes
             /\ c.interes = l.interes + interes
             /\ c.ultimo = IF interes = 0 THEN l.ultimo ELSE fecha
<1>1. l.saldo + interes \in Nat /\ l.interes + interes \in Nat /\ l.saldo \in Nat
      /\ l.interes \in Nat
  BY DEF Columnas
<1>2. CASE interes = 0
  BY <1>1, <1>2 DEF ConInteres
<1>3. CASE interes # 0
  <2> DEFINE s == l.saldo + interes
             i == l.interes + interes
             c == Interes(l, s, i, fecha)
  <2>1. s \in Nat /\ i \in Nat
    BY <1>1
  <2>2. ConInteres(l, interes, fecha) = c
    BY <1>3 DEF ConInteres, Interes
  <2>3. /\ c \in Columnas
        /\ c.saldo = s /\ c.interes = i /\ c.ultimo = fecha
        /\ c.estado = l.estado /\ c.aprobado = l.aprobado /\ c.aplicado = l.aplicado
    <3> HIDE DEF s, i
    <3> QED BY <2>1, InteresRow
  <2> HIDE DEF c
  <2> QED BY <1>3, <2>2, <2>3
<1> QED BY <1>2, <1>3

LEMMA ConPagoColumns ==
  ASSUME NEW l \in Columnas, NEW monto \in Nat, monto <= l.saldo
  PROVE  LET c == ConPago(l, monto)
         IN  /\ c \in Columnas
             /\ c.estado = (IF monto > 0 /\ monto = l.saldo THEN "paid" ELSE l.estado)
             /\ c.aprobado = l.aprobado /\ c.interes = l.interes /\ c.ultimo = l.ultimo
             /\ c.saldo = l.saldo - monto
             /\ c.aplicado = l.aplicado + monto
<1>1. l.saldo \in Nat /\ l.aplicado \in Nat /\ l.estado \in Estados /\ "paid" \in Estados
  BY DEF Columnas, Estados
<1>2. CASE monto = 0
  BY <1>1, <1>2 DEF ConPago
<1>3. CASE monto # 0
  <2> DEFINE s == Menos(l.saldo, monto)
             a == l.aplicado + monto
             e == IF l.saldo <= monto THEN "paid" ELSE l.estado
             c == Pago(l, s, a, e)
  <2>1. s \in Nat /\ s = l.saldo - monto /\ e \in Estados
    BY <1>1 DEF Menos
  <2>2. ConPago(l, monto) = c
    BY <1>3 DEF ConPago, Pago
  <2>3. e = IF monto > 0 /\ monto = l.saldo THEN "paid" ELSE l.estado
    BY <1>1, <1>3
  <2>4. a \in Nat
    BY <1>1
  <2>5. /\ c \in Columnas
        /\ c.estado = e /\ c.saldo = s /\ c.aplicado = a
        /\ c.aprobado = l.aprobado /\ c.interes = l.interes /\ c.ultimo = l.ultimo
    <3> HIDE DEF s, a, e
    <3>1. s \in Nat /\ e \in Estados
      BY <2>1
    <3> QED BY <2>4, <3>1, PagoRow
  <2> HIDE DEF c, e, s
  <2> QED BY <2>1, <2>2, <2>3, <2>5
<1> QED BY <1>2, <1>3

\* A run: interest first, then the payment.
LEMMA CobroColumns ==
  ASSUME NEW l \in Columnas, NEW interes \in Nat, NEW fecha \in Nat, NEW monto \in Nat,
         monto <= l.saldo + interes
  PROVE  LET c == Cobro(l, interes, fecha, monto)
         IN  /\ c \in Columnas
             /\ c.estado \in {l.estado, "paid"}
             /\ c.estado = "paid" => l.estado = "paid" \/ c.saldo = 0
             /\ c.aprobado = l.aprobado
             /\ c.saldo + monto = l.saldo + interes
             /\ c.aplicado = l.aplicado + monto
             /\ c.interes = l.interes + interes
             /\ c.ultimo = IF interes = 0 THEN l.ultimo ELSE fecha
<1> DEFINE i == ConInteres(l, interes, fecha)
<1>1. /\ i \in Columnas
      /\ i.estado = l.estado /\ i.aprobado = l.aprobado /\ i.aplicado = l.aplicado
      /\ i.saldo = l.saldo + interes
      /\ i.interes = l.interes + interes
      /\ i.ultimo = IF interes = 0 THEN l.ultimo ELSE fecha
  BY ConInteresColumns
<1>2. Cobro(l, interes, fecha, monto) = ConPago(i, monto)
  BY DEF Cobro
<1> HIDE DEF i
<1>3. LET c == ConPago(i, monto)
      IN  /\ c \in Columnas
          /\ c.estado = (IF monto > 0 /\ monto = i.saldo THEN "paid" ELSE i.estado)
          /\ c.aprobado = i.aprobado /\ c.interes = i.interes /\ c.ultimo = i.ultimo
          /\ c.saldo = i.saldo - monto
          /\ c.aplicado = i.aplicado + monto
  BY <1>1, ConPagoColumns
<1>4. i.saldo \in Nat
  BY <1>1 DEF Columnas
<1> QED BY <1>1, <1>2, <1>3, <1>4

LEMMA SinPagoColumns ==
  ASSUME NEW l \in Columnas, NEW monto \in Nat
  PROVE  LET c == SinPago(l, monto)
         IN  /\ c \in Columnas
             /\ c.estado = (IF monto > 0 /\ l.estado = "paid" THEN "approved" ELSE l.estado)
             /\ c.aprobado = l.aprobado /\ c.interes = l.interes /\ c.ultimo = l.ultimo
             /\ c.saldo = l.saldo + monto
             /\ monto <= l.aplicado => c.aplicado + monto = l.aplicado
<1>1. l.saldo \in Nat /\ l.aplicado \in Nat /\ l.estado \in Estados /\ "approved" \in Estados
  BY DEF Columnas, Estados
<1>2. CASE monto = 0
  BY <1>1, <1>2 DEF SinPago
<1>3. CASE monto # 0
  <2> DEFINE a == Menos(l.aplicado, monto)
             s == l.saldo + monto
             e == IF l.estado = "paid" THEN "approved" ELSE l.estado
             c == Pago(l, s, a, e)
  <2>1. a \in Nat /\ (monto <= l.aplicado => a + monto = l.aplicado) /\ e \in Estados
    BY <1>1 DEF Menos
  <2>2. SinPago(l, monto) = c
    BY <1>3 DEF SinPago, Pago
  <2>3. e = IF monto > 0 /\ l.estado = "paid" THEN "approved" ELSE l.estado
    BY <1>3
  <2>4. s \in Nat
    BY <1>1
  <2>5. /\ c \in Columnas
        /\ c.estado = e /\ c.saldo = s /\ c.aplicado = a
        /\ c.aprobado = l.aprobado /\ c.interes = l.interes /\ c.ultimo = l.ultimo
    <3> HIDE DEF s, a, e
    <3> QED BY <2>1, <2>4, PagoRow
  <2> HIDE DEF c, e, a
  <2> QED BY <2>1, <2>2, <2>3, <2>5
<1> QED BY <1>2, <1>3

LEMMA SinInteresColumns ==
  ASSUME NEW l \in Columnas, NEW fila \in Filas
  PROVE  LET c == SinInteres(l, fila)
         IN  /\ c \in Columnas
             /\ c.estado = l.estado /\ c.aprobado = l.aprobado /\ c.aplicado = l.aplicado
             /\ c.saldo <= l.saldo
             /\ fila.interes <= l.saldo => c.saldo + fila.interes = l.saldo
             /\ fila.interes <= l.interes => c.interes + fila.interes = l.interes
             /\ c.ultimo = IF fila.interes = 0 THEN l.ultimo ELSE fila.desde
<1>1. /\ l.saldo \in Nat /\ l.interes \in Nat
      /\ fila.interes \in Nat /\ fila.desde \in Nat
  BY DEF Columnas, Filas
<1>2. CASE fila.interes = 0
  BY <1>1, <1>2 DEF SinInteres
<1>3. CASE fila.interes # 0
  <2> DEFINE s == Menos(l.saldo, fila.interes)
             i == Menos(l.interes, fila.interes)
             u == fila.desde
             c == Interes(l, s, i, u)
  <2>1. /\ s \in Nat /\ s <= l.saldo /\ (fila.interes <= l.saldo => s + fila.interes = l.saldo)
        /\ i \in Nat /\ (fila.interes <= l.interes => i + fila.interes = l.interes)
    BY <1>1 DEF Menos
  <2>2. SinInteres(l, fila) = c
    BY <1>3 DEF SinInteres, Interes
  <2>3. /\ c \in Columnas
        /\ c.saldo = s /\ c.interes = i /\ c.ultimo = u
        /\ c.estado = l.estado /\ c.aprobado = l.aprobado /\ c.aplicado = l.aplicado
    <3>1. u \in Nat
      BY <1>1
    <3> HIDE DEF s, i, u
    <3>2. s \in Nat /\ i \in Nat
      BY <2>1
    <3> QED BY <3>1, <3>2, InteresRow
  <2> HIDE DEF c, s, i
  <2> QED BY <1>3, <2>1, <2>2, <2>3
<1> QED BY <1>2, <1>3

\* A rollback: the payment comes back, then the interest goes.
LEMMA DeshechoColumns ==
  ASSUME NEW l \in Columnas, NEW fila \in Filas
  PROVE  LET c == Deshecho(l, fila)
         IN  /\ c \in Columnas
             /\ c.estado = (IF fila.abono > 0 /\ l.estado = "paid" THEN "approved"
                                                                    ELSE l.estado)
             /\ c.aprobado = l.aprobado
             /\ c.saldo <= l.saldo + fila.abono
             /\ c.ultimo = (IF fila.interes = 0 THEN l.ultimo ELSE fila.desde)
             /\ fila.abono <= l.aplicado => c.aplicado + fila.abono = l.aplicado
             /\ fila.interes <= l.interes => c.interes + fila.interes = l.interes
             /\ ~Recorta(l, fila) =>
                  /\ c.saldo + fila.interes = l.saldo + fila.abono
                  /\ c.aplicado + fila.abono = l.aplicado
                  /\ c.interes + fila.interes = l.interes
<1> DEFINE p == SinPago(l, fila.abono)
<1>1. fila.abono \in Nat /\ fila.interes \in Nat
  BY DEF Filas
<1>2. /\ p \in Columnas
      /\ p.estado = (IF fila.abono > 0 /\ l.estado = "paid" THEN "approved" ELSE l.estado)
      /\ p.aprobado = l.aprobado /\ p.interes = l.interes /\ p.ultimo = l.ultimo
      /\ p.saldo = l.saldo + fila.abono
      /\ fila.abono <= l.aplicado => p.aplicado + fila.abono = l.aplicado
  BY <1>1, SinPagoColumns
<1>3. Deshecho(l, fila) = SinInteres(p, fila)
  BY DEF Deshecho
<1> HIDE DEF p
<1>4. LET c == SinInteres(p, fila)
      IN  /\ c \in Columnas
          /\ c.estado = p.estado /\ c.aprobado = p.aprobado /\ c.aplicado = p.aplicado
          /\ c.saldo <= p.saldo
          /\ fila.interes <= p.saldo => c.saldo + fila.interes = p.saldo
          /\ fila.interes <= p.interes => c.interes + fila.interes = p.interes
          /\ c.ultimo = IF fila.interes = 0 THEN p.ultimo ELSE fila.desde
  BY <1>2, SinInteresColumns
<1>5. l.saldo \in Nat /\ l.aplicado \in Nat /\ l.interes \in Nat
  BY DEF Columnas
<1>6. ~Recorta(l, fila) => /\ fila.abono <= l.aplicado
                           /\ fila.interes <= l.interes
                           /\ fila.interes <= l.saldo + fila.abono
  BY <1>1, <1>5 DEF Recorta
<1> QED BY <1>2, <1>3, <1>4, <1>6

LEMMA ConAbonoColumns ==
  ASSUME NEW l \in Columnas, NEW monto \in 1 .. l.saldo
  PROVE  LET c == ConAbono(l, monto)
         IN  /\ c \in Columnas
             /\ c.estado \in {l.estado, "paid"}
             /\ c.estado = "paid" => l.estado = "paid" \/ c.saldo = 0
             /\ c.saldo <= l.saldo
             /\ c.aprobado = l.aprobado /\ c.aplicado = l.aplicado
             /\ c.interes = l.interes /\ c.ultimo = l.ultimo
             /\ Centavo(l, monto) \in Nat
             /\ c.saldo + monto + Centavo(l, monto) = l.saldo
<1> DEFINE s == IF l.saldo - monto <= 1 THEN 0 ELSE l.saldo - monto
           e == IF l.saldo - monto <= 1 THEN "paid" ELSE l.estado
           c1 == [l EXCEPT !.saldo = s]
           c2 == [c1 EXCEPT !.estado = e]
<1>1. ConAbono(l, monto) = c2
  BY DEF ConAbono
<1>2. l.saldo \in Nat /\ l.estado \in Estados /\ "paid" \in Estados
  BY DEF Columnas, Estados
<1>3. /\ s \in Nat /\ s <= l.saldo
      /\ e \in Estados /\ e \in {l.estado, "paid"}
      /\ e = "paid" => l.estado = "paid" \/ s = 0
      /\ Centavo(l, monto) \in Nat
      /\ s + monto + Centavo(l, monto) = l.saldo
  BY <1>2 DEF Centavo
<1> HIDE DEF s, e
<1>4. /\ c1 \in Columnas /\ c1.saldo = s /\ c1.interes = l.interes /\ c1.ultimo = l.ultimo
      /\ c1.aprobado = l.aprobado /\ c1.aplicado = l.aplicado
  BY <1>3 DEF Columnas
<1> HIDE DEF c1
<1>5. /\ c2 \in Columnas /\ c2.estado = e
      /\ c2.saldo = s /\ c2.interes = l.interes /\ c2.ultimo = l.ultimo
      /\ c2.aprobado = l.aprobado /\ c2.aplicado = l.aplicado
  BY <1>3, <1>4 DEF Columnas
<1> HIDE DEF c2
<1> QED BY <1>1, <1>3, <1>5

LEMMA FilaColumns ==
  ASSUME NEW l \in Columnas, NEW interes \in Nat, NEW fecha \in Nat, NEW monto \in Nat
  PROVE  LET f == Fila(l, interes, fecha, monto)
         IN  /\ f \in Filas
             /\ f.fecha = fecha /\ f.interes = interes
             /\ interes > 0 => f.desde = l.ultimo
BY DEF Fila, Filas, Columnas

-----------------------------------------------------------------------------
(* Types                                                                     *)

\* What a request knows: the row it read and, when it takes a run back, that
\* run and its rows.
LEMMA RequestFields ==
  ASSUME TypeOK, NEW r \in Requests, request[r].op # "idle"
  PROVE  /\ request[r].op \in Ops
         /\ request[r].leido \in Columnas
         /\ request[r].fila \in Filas
         /\ request[r].n \in Nominas \cup {"none"}
<1>1. request[r] \in RequestType
  BY DEF TypeOK
<1> QED BY <1>1 DEF RequestType, Idle

LEMMA TypeEscribe ==
  ASSUME TypeOK, NEW r \in Requests, request[r].op # "idle", NEW nuevo \in Columnas,
         Escribe(r, nuevo)
  PROVE  prestamo' \in Columnas
<1>1. request[r].leido \in Columnas /\ prestamo \in Columnas
  BY RequestFields DEF TypeOK
<1> QED BY <1>1 DEF Escribe, Columna, Columnas

LEMMA TypeEnd ==
  ASSUME TypeOK, NEW r \in Requests, NEW S \in SUBSET Incidentes, End(r, S)
  PROVE  /\ request' \in [Requests -> RequestType]
         /\ operations' \in 0 .. MaxOperations
         /\ incidentes' \in SUBSET Incidentes
BY DEF TypeOK, End, RequestType, Idle

LEMMA IncidentesOf ==
  ASSUME NEW r \in Requests
  PROVE  Stale(r) \in SUBSET Incidentes /\ Takeback(r) \in SUBSET Incidentes
BY DEF Stale, Takeback, Incidentes

LEMMA TypeBegin ==
  ASSUME TypeOK, NEW r \in Requests, NEW operation \in RequestType, Begin(r, operation)
  PROVE  TypeOK'
BY BoundsAssumption DEF TypeOK, Begin, abonos

\* What a commit has to establish for the types.
LEMMA TypeCommit ==
  ASSUME TypeOK, NEW r \in Requests, NEW S \in SUBSET Incidentes, End(r, S),
         prestamo' \in Columnas, nominas' \in [Nominas -> Filas],
         manual' \in Nat, condonado' \in Nat, liquidado' \in Nat, redondeo' \in Nat
  PROVE  TypeOK'
BY TypeEnd DEF TypeOK

LEMMA NadaType == Nada \in Filas
BY DEF Nada, Filas

\* A run and a recalculation write a row of the right type.
LEMMA TypeRun ==
  ASSUME NEW l \in Columnas, NEW fecha \in Nat, NEW interes \in Intereses(l, fecha),
         NEW monto \in 0 .. l.saldo + interes
  PROVE  /\ Cobro(l, interes, fecha, monto) \in Columnas
         /\ Fila(l, interes, fecha, monto) \in Filas
<1>1. l.saldo \in Nat
  BY DEF Columnas
<1>2. interes \in Nat
  BY BoundsAssumption DEF Intereses
<1>3. monto \in Nat /\ monto <= l.saldo + interes
  BY <1>1, <1>2
<1>4. Cobro(l, interes, fecha, monto) \in Columnas
  BY <1>2, <1>3, CobroColumns
<1>5. Fila(l, interes, fecha, monto) \in Filas
  BY <1>2, <1>3, FilaColumns
<1> QED BY <1>4, <1>5

\* Every value of every variable stays of its type: no column of the loan, and
\* none of the totals, is ever negative, whatever is voided in whatever order.
THEOREM TypeCorrect == Spec => []TypeOK
<1>1. Init => TypeOK
  BY BoundsAssumption, NadaType DEF Init, TypeOK, Columnas, Estados, RequestType, Incidentes
<1>2. TypeOK /\ [Next]_vars => TypeOK'
  <2> SUFFICES ASSUME TypeOK, [Next]_vars PROVE TypeOK'
    OBVIOUS
  <2>1. ASSUME NEW r \in Requests, NEW op \in Ops, Lee(r, op) PROVE TypeOK'
    <3>1. [op |-> op, n |-> "none", leido |-> prestamo, fila |-> Nada] \in RequestType
      BY NadaType DEF TypeOK, RequestType
    <3> QED BY <2>1, <3>1, TypeBegin DEF Lee
  <2>2. ASSUME NEW r \in Requests, NEW op \in {"anular", "recalcular"}, NEW n \in Nominas,
               LeeNomina(r, op, n)
        PROVE  TypeOK'
    <3>1. [op |-> op, n |-> n, leido |-> prestamo, fila |-> nominas[n]] \in RequestType
      BY DEF TypeOK, RequestType, Ops
    <3> QED BY <2>2, <3>1, TypeBegin DEF LeeNomina
  <2>3. ASSUME NEW r \in Requests, Enviar(r) \/ Rechazar(r) \/ Cancelar(r) PROVE TypeOK'
    <3>1. request[r].op # "idle" /\ request[r].leido \in Columnas
      BY <2>3, RequestFields DEF Enviar, Rechazar, Cancelar
    <3>2. \A e \in Estados : [request[r].leido EXCEPT !.estado = e] \in Columnas
      BY <3>1 DEF Columnas
    <3>3. PICK e \in Estados : Escribe(r, [request[r].leido EXCEPT !.estado = e])
      BY <2>3 DEF Enviar, Rechazar, Cancelar, Estados
    <3>4. prestamo' \in Columnas
      BY <3>1, <3>2, <3>3, TypeEscribe
    <3>5. End(r, Stale(r)) /\ UNCHANGED <<nominas, abonos>>
      BY <2>3 DEF Enviar, Rechazar, Cancelar
    <3> QED BY <3>4, <3>5, IncidentesOf, TypeCommit DEF TypeOK, abonos
  <2>4. ASSUME NEW r \in Requests, Aprobar(r) PROVE TypeOK'
    <3>1. request[r].op # "idle" /\ request[r].leido \in Columnas
      BY <2>4, RequestFields DEF Aprobar
    <3>2. PICK monto \in Montos, fecha \in Fechas : Escribe(r, Aprobado(request[r].leido, monto, fecha))
      BY <2>4 DEF Aprobar
    <3>3. Aprobado(request[r].leido, monto, fecha) \in Columnas
      BY <3>1, BoundsAssumption DEF Aprobado, Columnas, Montos, Fechas, Estados
    <3>4. prestamo' \in Columnas
      BY <3>1, <3>2, <3>3, TypeEscribe
    <3> QED BY <2>4, <3>4, IncidentesOf, TypeCommit DEF Aprobar, TypeOK, abonos
  <2>5. ASSUME NEW r \in Requests, PagoExtraordinario(r) \/ Condonacion(r) PROVE TypeOK'
    <3>1. request[r].op # "idle" /\ request[r].leido \in Columnas
      BY <2>5, RequestFields DEF PagoExtraordinario, Condonacion
    <3>2. PICK monto \in 1 .. request[r].leido.saldo :
            /\ Escribe(r, ConAbono(request[r].leido, monto))
            /\ redondeo' = redondeo + Centavo(request[r].leido, monto)
            /\ \/ manual' = manual + monto /\ condonado' = condonado
               \/ condonado' = condonado + monto /\ manual' = manual
      BY <2>5 DEF PagoExtraordinario, Condonacion
    <3>3. /\ ConAbono(request[r].leido, monto) \in Columnas
          /\ Centavo(request[r].leido, monto) \in Nat
      BY <3>1, ConAbonoColumns
    <3>4. prestamo' \in Columnas
      BY <3>1, <3>2, <3>3, TypeEscribe
    <3>5. monto \in Nat
      BY <3>1 DEF Columnas
    <3>6. manual' \in Nat /\ condonado' \in Nat /\ redondeo' \in Nat
      BY <3>2, <3>3, <3>5 DEF TypeOK
    <3>7. End(r, Stale(r)) /\ UNCHANGED <<nominas, liquidado>>
      BY <2>5 DEF PagoExtraordinario, Condonacion
    <3> QED BY <3>4, <3>6, <3>7, IncidentesOf, TypeCommit DEF TypeOK
  <2>6. ASSUME NEW r \in Requests, Liquidar(r) PROVE TypeOK'
    <3>1. request[r].op # "idle" /\ request[r].leido \in Columnas
      BY <2>6, RequestFields DEF Liquidar
    <3>2. PICK monto \in 1 .. request[r].leido.saldo :
            Escribe(r, ConPago(request[r].leido, monto)) /\ liquidado' = liquidado + monto
      BY <2>6 DEF Liquidar
    <3>3. monto \in Nat /\ monto <= request[r].leido.saldo
      BY <3>1 DEF Columnas
    <3>4. ConPago(request[r].leido, monto) \in Columnas
      BY <3>1, <3>3, ConPagoColumns
    <3>5. prestamo' \in Columnas /\ liquidado' \in Nat
      BY <3>1, <3>2, <3>3, <3>4, TypeEscribe DEF TypeOK
    <3> QED BY <2>6, <3>5, IncidentesOf, TypeCommit DEF Liquidar, TypeOK
  <2>7. ASSUME NEW r \in Requests, NEW n \in Nominas, Nomina(r, n) PROVE TypeOK'
    <3>1. request[r].op # "idle" /\ request[r].leido \in Columnas
      BY <2>7, RequestFields DEF Nomina
    <3>2. PICK fecha \in Fechas : \E interes \in Intereses(request[r].leido, fecha) :
            \E monto \in 0 .. request[r].leido.saldo + interes :
              /\ Escribe(r, Cobro(request[r].leido, interes, fecha, monto))
              /\ nominas' = [nominas EXCEPT ![n] = Fila(request[r].leido, interes, fecha, monto)]
      BY <2>7 DEF Nomina
    <3>3. fecha \in Nat
      BY BoundsAssumption DEF Fechas
    <3>4. prestamo' \in Columnas /\ nominas' \in [Nominas -> Filas]
      BY <3>1, <3>2, <3>3, TypeRun, TypeEscribe DEF TypeOK
    <3> QED BY <2>7, <3>4, IncidentesOf, TypeCommit DEF Nomina, TypeOK, abonos
  <2>8. ASSUME NEW r \in Requests, Anular(r) \/ RecalcularSinCobro(r) PROVE TypeOK'
    <3>1. /\ request[r].op # "idle"
          /\ request[r].leido \in Columnas /\ request[r].fila \in Filas
      BY <2>8, RequestFields DEF Anular, RecalcularSinCobro
    <3>2. Deshecho(request[r].leido, request[r].fila) \in Columnas
      BY <3>1, DeshechoColumns
    <3>3. /\ Escribe(r, Deshecho(request[r].leido, request[r].fila))
          /\ nominas' = [nominas EXCEPT ![request[r].n] = Nada]
          /\ End(r, Stale(r) \cup Takeback(r)) /\ UNCHANGED abonos
      BY <2>8 DEF Anular, RecalcularSinCobro
    <3>4. prestamo' \in Columnas /\ nominas' \in [Nominas -> Filas]
      BY <3>1, <3>2, <3>3, NadaType, TypeEscribe DEF TypeOK
    <3>5. Stale(r) \cup Takeback(r) \in SUBSET Incidentes
      BY IncidentesOf
    <3> QED BY <3>3, <3>4, <3>5, TypeCommit DEF TypeOK, abonos
  <2>9. ASSUME NEW r \in Requests, NEW m \in Nominas, Recalcular(r, m) PROVE TypeOK'
    <3> DEFINE l == Deshecho(request[r].leido, request[r].fila)
               fecha == request[r].fila.fecha
    <3>1. /\ request[r].op # "idle"
          /\ request[r].leido \in Columnas /\ request[r].fila \in Filas
      BY <2>9, RequestFields DEF Recalcular
    <3>2. l \in Columnas /\ fecha \in Nat
      BY <3>1, DeshechoColumns DEF Filas
    <3>3. PICK interes \in Intereses(l, fecha), monto \in 1 .. l.saldo :
            /\ Escribe(r, Cobro(l, interes, fecha, monto))
            /\ nominas' = [nominas EXCEPT ![request[r].n] = Nada,
                                          ![m] = Fila(l, interes, fecha, monto)]
      BY <2>9 DEF Recalcular
    <3>4. monto \in 0 .. l.saldo + interes
      BY <3>2, BoundsAssumption DEF Columnas, Intereses
    <3>5. Cobro(l, interes, fecha, monto) \in Columnas /\ Fila(l, interes, fecha, monto) \in Filas
      BY <3>2, <3>4, TypeRun
    <3>6. prestamo' \in Columnas
      BY <3>1, <3>3, <3>5, TypeEscribe
    <3>7. nominas' \in [Nominas -> Filas]
      <4> HIDE DEF l, fecha
      <4> QED BY <3>3, <3>5, NadaType DEF TypeOK
    <3>8. Stale(r) \cup Takeback(r) \in SUBSET Incidentes
      BY IncidentesOf
    <3> QED BY <2>9, <3>6, <3>7, <3>8, TypeCommit DEF Recalcular, TypeOK, abonos
  <2>10. ASSUME NEW r \in Requests, Fails(r) PROVE TypeOK'
    <3>1. {} \in SUBSET Incidentes
      OBVIOUS
    <3> QED BY <2>10, <3>1, TypeCommit DEF Fails, TypeOK, abonos
  <2>11. CASE UNCHANGED vars
    BY <2>11 DEF TypeOK, vars, abonos
  <2> QED
    BY <2>1, <2>2, <2>3, <2>4, <2>5, <2>6, <2>7, <2>8, <2>9, <2>10, <2>11 DEF Next
<1> QED BY <1>1, <1>2, PTL DEF Spec

-----------------------------------------------------------------------------
(* The inductive invariant                                                   *)

\* What the guards that a request passed say of the row it read.
LeidoInv ==
  \A r \in Requests :
    LET q == request[r]
    IN  /\ q.op \in {"enviar", "resolver"} => q.leido.estado \in {"draft", "pending"}
        /\ q.op = "cancelar" => q.leido.estado # "cancelled"
        /\ q.op \in {"abonar", "condonar"} => q.leido.estado \in {"approved", "applied"}
        /\ q.op \in {"nomina", "liquidar"} => q.leido.estado = "approved"
        /\ q.op \in {"anular", "recalcular"} => q.n \in Nominas /\ q.fila # Nada

\* A loan not yet approved has no movements.
SinMovimientos ==
  Orderly /\ prestamo.estado \in {"draft", "pending"} =>
    /\ prestamo.aplicado = 0
    /\ manual = 0 /\ condonado = 0 /\ redondeo = 0
    /\ \A n \in Nominas : nominas[n] = Nada

\* The spans of interest of the rows f are disjoint, none is empty and none
\* goes beyond the date u.
Tramos(f, u) ==
  \A n \in Nominas : f[n].interes > 0 =>
    /\ f[n].desde < f[n].fecha
    /\ f[n].fecha <= u
    /\ \A m \in Nominas \ {n} : f[m].interes > 0 =>
         f[n].fecha <= f[m].desde \/ f[m].fecha <= f[n].desde

TramosInv ==
  incidentes \cap {"stale", "disordered"} = {} => Tramos(nominas, prestamo.ultimo)

IInv ==
  /\ TypeOK /\ LeidoInv /\ SinMovimientos /\ PaidOwesNothing /\ BalanceIsAccounted
  /\ TramosInv

-----------------------------------------------------------------------------
(* A commit that overwrites nothing                                          *)

\* The request read what is there: its columns are the row.
LEMMA InOrder ==
  ASSUME TypeOK, NEW r \in Requests, NEW S, Stale(r) \subseteq S, End(r, S), Orderly'
  PROVE  /\ Orderly
         /\ prestamo = request[r].leido
         /\ request[r].n # "none" => nominas[request[r].n] = request[r].fila
         /\ incidentes' = incidentes \cup S
BY DEF End, Orderly, Stale, Overtaken

LEMMA EscribeEntera ==
  ASSUME TypeOK, NEW r \in Requests, prestamo = request[r].leido, NEW nuevo \in Columnas,
         Escribe(r, nuevo)
  PROVE  prestamo' = nuevo
BY DEF TypeOK, Escribe, Columna, Columnas

\* The steps that change nothing but what the requests are doing.
LEMMA Quiet ==
  ASSUME IInv, UNCHANGED <<prestamo, nominas, abonos, incidentes>>
  PROVE  /\ SinMovimientos' /\ PaidOwesNothing' /\ BalanceIsAccounted'
         /\ TramosInv'
BY DEF IInv, SinMovimientos, PaidOwesNothing, BalanceIsAccounted, TramosInv, Tramos,
   Orderly, abonos

LEMMA LeidoEnd ==
  ASSUME TypeOK, LeidoInv, NEW r \in Requests, NEW S, End(r, S)
  PROVE  LeidoInv'
BY DEF TypeOK, LeidoInv, End, Idle

LEMMA LeidoStep ==
  ASSUME TypeOK, LeidoInv, Next
  PROVE  LeidoInv'
<1>1. ASSUME NEW r \in Requests, NEW op \in Ops, Lee(r, op) PROVE LeidoInv'
  <2> DEFINE q == [op |-> op, n |-> "none", leido |-> prestamo, fila |-> Nada]
  <2>1. request' = [request EXCEPT ![r] = q]
    BY <1>1 DEF Lee, Begin
  <2>2. /\ q.op \in {"enviar", "resolver"} => q.leido.estado \in {"draft", "pending"}
        /\ q.op = "cancelar" => q.leido.estado # "cancelled"
        /\ q.op \in {"abonar", "condonar"} => q.leido.estado \in {"approved", "applied"}
        /\ q.op \in {"nomina", "liquidar"} => q.leido.estado = "approved"
        /\ q.op \notin {"anular", "recalcular"}
    BY <1>1 DEF Lee, Cobrable
  <2> HIDE DEF q
  <2> QED BY <2>1, <2>2 DEF TypeOK, LeidoInv
<1>2. ASSUME NEW r \in Requests, NEW op \in {"anular", "recalcular"}, NEW n \in Nominas,
             LeeNomina(r, op, n)
      PROVE  LeidoInv'
  <2> DEFINE q == [op |-> op, n |-> n, leido |-> prestamo, fila |-> nominas[n]]
  <2>1. request' = [request EXCEPT ![r] = q]
    BY <1>2 DEF LeeNomina, Begin
  <2>2. q.op \in {"anular", "recalcular"} /\ q.n \in Nominas /\ q.fila # Nada
    BY <1>2 DEF LeeNomina
  <2> HIDE DEF q
  <2> QED BY <2>1, <2>2 DEF TypeOK, LeidoInv
<1>3. ASSUME NEW r \in Requests, NEW S, End(r, S) PROVE LeidoInv'
  BY <1>3, LeidoEnd
<1>4. ASSUME NEW r \in Requests,
             \/ Enviar(r) \/ Aprobar(r) \/ Rechazar(r) \/ Cancelar(r)
             \/ PagoExtraordinario(r) \/ Condonacion(r) \/ Liquidar(r)
             \/ \E n \in Nominas : Nomina(r, n) \/ Recalcular(r, n)
             \/ Anular(r) \/ RecalcularSinCobro(r) \/ Fails(r)
      PROVE  LeidoInv'
  <2>1. \E S : End(r, S)
    BY <1>4 DEF Enviar, Aprobar, Rechazar, Cancelar, PagoExtraordinario, Condonacion, Liquidar,
         Nomina, Recalcular, Anular, RecalcularSinCobro, Fails
  <2> QED BY <1>3, <2>1
<1> QED BY <1>1, <1>2, <1>4 DEF Next

-----------------------------------------------------------------------------
(* The spans of interest                                                     *)

\* Taking back the last span leaves the date where that span began.
LEMMA TramosSin ==
  ASSUME NEW f \in [Nominas -> Filas], NEW u \in Nat, Tramos(f, u), NEW n \in Nominas,
         f[n].interes > 0 => f[n].fecha = u
  PROVE  Tramos([f EXCEPT ![n] = Nada], IF f[n].interes = 0 THEN u ELSE f[n].desde)
<1> DEFINE g == [f EXCEPT ![n] = Nada]
           v == IF f[n].interes = 0 THEN u ELSE f[n].desde
<1>1. g[n].interes = 0 /\ \A m \in Nominas \ {n} : g[m] = f[m]
  BY DEF Nada
<1>2. \A m \in Nominas : /\ f[m].interes \in Nat /\ f[m].fecha \in Nat /\ f[m].desde \in Nat
  BY DEF Filas
<1>3. ASSUME NEW m \in Nominas \ {n}, f[m].interes > 0 PROVE f[m].fecha <= v
  <2>1. CASE f[n].interes = 0
    BY <1>3, <2>1 DEF Tramos
  <2>2. CASE f[n].interes # 0
    <3>1. f[m].desde < f[m].fecha /\ f[m].fecha <= u /\ f[n].fecha = u
      BY <1>2, <1>3, <2>2 DEF Tramos
    <3>2. f[m].fecha <= f[n].desde \/ f[n].fecha <= f[m].desde
      BY <1>2, <1>3, <2>2 DEF Tramos
    <3> QED BY <1>2, <2>2, <3>1, <3>2
  <2> QED BY <2>1, <2>2
<1>4. \A m \in Nominas : g[m].interes > 0 => m # n
  BY <1>1
<1>5. Tramos(g, v)
  <2> HIDE DEF g, v
  <2> QED BY <1>1, <1>2, <1>3, <1>4 DEF Tramos
<1> QED BY <1>5

\* A span that begins where the last one ended.
LEMMA TramosCon ==
  ASSUME NEW f \in [Nominas -> Filas], NEW u \in Nat, Tramos(f, u), NEW n \in Nominas,
         NEW fila \in Filas, fila.interes > 0 => fila.desde = u /\ u < fila.fecha
  PROVE  Tramos([f EXCEPT ![n] = fila], IF fila.interes = 0 THEN u ELSE fila.fecha)
<1> DEFINE g == [f EXCEPT ![n] = fila]
           v == IF fila.interes = 0 THEN u ELSE fila.fecha
<1>1. g[n] = fila /\ \A m \in Nominas \ {n} : g[m] = f[m]
  OBVIOUS
<1>2. /\ \A m \in Nominas : /\ f[m].interes \in Nat /\ f[m].fecha \in Nat /\ f[m].desde \in Nat
      /\ fila.interes \in Nat /\ fila.fecha \in Nat /\ fila.desde \in Nat
  BY DEF Filas
<1>3. v \in Nat /\ u <= v
  BY <1>2
<1>4. fila.interes > 0 => v = fila.fecha
  BY <1>2
<1>5. ASSUME NEW m \in Nominas \ {n}, g[m].interes > 0
      PROVE  /\ g[m].desde < g[m].fecha
             /\ g[m].fecha <= u
             /\ \A k \in Nominas \ {m} : g[k].interes > 0 =>
                  g[m].fecha <= g[k].desde \/ g[k].fecha <= g[m].desde
  <2> HIDE DEF g, v
  <2>1. /\ f[m].interes > 0
        /\ f[m].desde < f[m].fecha
        /\ f[m].fecha <= u
    BY <1>1, <1>5 DEF Tramos
  <2>2. ASSUME NEW k \in Nominas \ {m}, g[k].interes > 0
        PROVE  g[m].fecha <= g[k].desde \/ g[k].fecha <= g[m].desde
    <3>1. CASE k = n
      BY <1>1, <2>1, <2>2, <3>1
    <3>2. CASE k # n
      BY <1>1, <2>1, <2>2, <3>2 DEF Tramos
    <3> QED BY <3>1, <3>2
  <2> QED BY <1>1, <2>1, <2>2
<1>6. ASSUME g[n].interes > 0
      PROVE  /\ g[n].desde < g[n].fecha
             /\ g[n].fecha <= v
             /\ \A k \in Nominas \ {n} : g[k].interes > 0 => g[k].fecha <= g[n].desde
  <2> HIDE DEF g, v
  <2> QED BY <1>1, <1>2, <1>3, <1>4, <1>5, <1>6
<1>7. ASSUME NEW m \in Nominas \ {n}, g[m].interes > 0 PROVE g[m].fecha <= v
  <2> HIDE DEF g, v
  <2> QED BY <1>1, <1>2, <1>3, <1>5, <1>7
<1>8. Tramos(g, v)
  <2> HIDE DEF g, v
  <2> QED BY <1>5, <1>6, <1>7 DEF Tramos
<1> QED BY <1>8

-----------------------------------------------------------------------------
(* One step                                                                  *)

\* The parts of the invariant that a commit can disturb.
Cuentas == SinMovimientos /\ PaidOwesNothing /\ BalanceIsAccounted /\ TramosInv

\* Once something was overwritten, nothing is claimed of the amounts.
LEMMA Vacuous == ASSUME ~Orderly' PROVE Cuentas'
BY DEF Cuentas, Orderly, SinMovimientos, PaidOwesNothing, BalanceIsAccounted, TramosInv

\* Only the estado changes, and the loan is neither paid nor reopened.
LEMMA EstadoStep ==
  ASSUME IInv, NEW r \in Requests, Enviar(r) \/ Rechazar(r) \/ Cancelar(r)
  PROVE  Cuentas'
<1> SUFFICES ASSUME Orderly' PROVE Cuentas'
  BY Vacuous
<1>1. PICK e \in {"pending", "rejected", "cancelled"} :
        /\ Escribe(r, [request[r].leido EXCEPT !.estado = e])
        /\ e = "pending" => request[r].op = "enviar"
  BY DEF Enviar, Rechazar, Cancelar
<1>2. /\ End(r, Stale(r)) /\ UNCHANGED <<nominas, manual, condonado, liquidado, redondeo>>
      /\ request[r].op # "idle"
  BY DEF Enviar, Rechazar, Cancelar, abonos
<1>3. Orderly /\ prestamo = request[r].leido /\ incidentes' = incidentes \cup Stale(r)
  BY <1>2, InOrder DEF IInv
<1>4. prestamo \in Columnas /\ e \in Estados
  BY DEF IInv, TypeOK, Estados
<1> DEFINE nuevo == [prestamo EXCEPT !.estado = e]
<1>5. /\ nuevo \in Columnas /\ nuevo.estado = e /\ nuevo.ultimo = prestamo.ultimo
      /\ nuevo.aprobado = prestamo.aprobado /\ nuevo.saldo = prestamo.saldo
      /\ nuevo.aplicado = prestamo.aplicado /\ nuevo.interes = prestamo.interes
  BY <1>4 DEF Columnas
<1>6. prestamo' = nuevo
  BY <1>1, <1>3, <1>5, EscribeEntera DEF IInv
<1>7. e = "pending" => prestamo.estado \in {"draft", "pending"}
  BY <1>1, <1>3 DEF IInv, LeidoInv
<1> HIDE DEF nuevo
<1>8. SinMovimientos' /\ PaidOwesNothing'
  BY <1>2, <1>3, <1>5, <1>6, <1>7 DEF IInv, SinMovimientos, PaidOwesNothing
<1>9. BalanceIsAccounted'
  BY <1>2, <1>3, <1>5, <1>6 DEF IInv, BalanceIsAccounted
<1>10. TramosInv'
  BY <1>2, <1>3, <1>5, <1>6 DEF IInv, TramosInv, Tramos
<1> QED BY <1>8, <1>9, <1>10 DEF Cuentas

LEMMA AprobarStep ==
  ASSUME IInv, NEW r \in Requests, Aprobar(r)
  PROVE  Cuentas'
<1> SUFFICES ASSUME Orderly' PROVE Cuentas'
  BY Vacuous
<1>1. PICK monto \in Montos, fecha \in Fechas :
        Escribe(r, Aprobado(request[r].leido, monto, fecha))
  BY DEF Aprobar
<1>2. /\ End(r, Stale(r)) /\ UNCHANGED <<nominas, manual, condonado, liquidado, redondeo>>
      /\ request[r].op = "resolver"
  BY DEF Aprobar, abonos
<1>3. Orderly /\ prestamo = request[r].leido /\ incidentes' = incidentes \cup Stale(r)
  BY <1>2, InOrder DEF IInv
<1> DEFINE nuevo == Aprobado(prestamo, monto, fecha)
<1>4. /\ nuevo \in Columnas /\ nuevo.estado = "approved" /\ nuevo.aprobado = monto
      /\ nuevo.saldo = monto /\ nuevo.aplicado = prestamo.aplicado /\ nuevo.interes = 0
      /\ monto \in Nat
  BY BoundsAssumption DEF IInv, TypeOK, Aprobado, Columnas, Estados, Montos, Fechas
<1>5. prestamo' = nuevo
  BY <1>1, <1>3, <1>4, EscribeEntera DEF IInv
<1>6. /\ prestamo.aplicado = 0 /\ manual = 0 /\ condonado = 0 /\ redondeo = 0
      /\ \A n \in Nominas : nominas[n] = Nada
  BY <1>2, <1>3 DEF IInv, LeidoInv, SinMovimientos
<1> HIDE DEF nuevo
<1>7. SinMovimientos' /\ PaidOwesNothing'
  BY <1>4, <1>5 DEF SinMovimientos, PaidOwesNothing
<1>8. BalanceIsAccounted'
  BY <1>2, <1>4, <1>5, <1>6 DEF BalanceIsAccounted
<1>9. TramosInv'
  BY <1>2, <1>6 DEF TramosInv, Tramos, Nada
<1> QED BY <1>7, <1>8, <1>9 DEF Cuentas

\* Extraordinary payments, forgiveness and settlements lower the balance.
LEMMA AbonoStep ==
  ASSUME IInv, NEW r \in Requests, PagoExtraordinario(r) \/ Condonacion(r) \/ Liquidar(r)
  PROVE  Cuentas'
<1> SUFFICES ASSUME Orderly' PROVE Cuentas'
  BY Vacuous
<1>1. /\ End(r, Stale(r)) /\ nominas' = nominas
      /\ request[r].op \in {"abonar", "condonar", "liquidar"}
  BY DEF PagoExtraordinario, Condonacion, Liquidar
<1>2. Orderly /\ prestamo = request[r].leido /\ incidentes' = incidentes \cup Stale(r)
  BY <1>1, InOrder DEF IInv
<1>3. prestamo \in Columnas /\ prestamo.saldo \in Nat
  BY DEF IInv, TypeOK, Columnas
<1>4. prestamo.estado \in {"approved", "applied"}
  BY <1>1, <1>2 DEF IInv, LeidoInv
<1>5. /\ prestamo'.estado \in {prestamo.estado, "paid"}
      /\ prestamo'.estado = "paid" => prestamo'.saldo = 0
      /\ prestamo'.ultimo = prestamo.ultimo
      /\ prestamo'.saldo + prestamo'.aplicado + manual' + condonado' + redondeo'
           = prestamo.saldo + prestamo.aplicado + manual + condonado + redondeo
      /\ prestamo'.aprobado = prestamo.aprobado /\ prestamo'.interes = prestamo.interes
  <2>1. CASE PagoExtraordinario(r) \/ Condonacion(r)
    <3>1. PICK monto \in 1 .. prestamo.saldo :
            /\ Escribe(r, ConAbono(prestamo, monto))
            /\ redondeo' = redondeo + Centavo(prestamo, monto)
            /\ \/ manual' = manual + monto /\ condonado' = condonado
               \/ condonado' = condonado + monto /\ manual' = manual
      BY <1>2, <2>1 DEF PagoExtraordinario, Condonacion
    <3> DEFINE c == ConAbono(prestamo, monto)
               centavo == Centavo(prestamo, monto)
    <3>2. /\ c \in Columnas
          /\ c.estado \in {prestamo.estado, "paid"}
          /\ c.estado = "paid" => prestamo.estado = "paid" \/ c.saldo = 0
          /\ c.aprobado = prestamo.aprobado /\ c.aplicado = prestamo.aplicado
          /\ c.interes = prestamo.interes /\ c.ultimo = prestamo.ultimo
          /\ centavo \in Nat
          /\ c.saldo + monto + centavo = prestamo.saldo
      BY <1>3, ConAbonoColumns
    <3>3. prestamo' = c
      BY <1>2, <3>1, <3>2, EscribeEntera DEF IInv
    <3>4. /\ c.saldo \in Nat /\ c.aplicado \in Nat /\ monto \in Nat
          /\ manual \in Nat /\ condonado \in Nat /\ redondeo \in Nat
      BY <1>3, <3>2 DEF Columnas, IInv, TypeOK
    <3>5. redondeo' = redondeo + centavo
      BY <3>1
    <3> HIDE DEF c, centavo
    <3>6. c.saldo + c.aplicado + manual' + condonado' + redondeo'
           = prestamo.saldo + prestamo.aplicado + manual + condonado + redondeo
      BY <3>1, <3>2, <3>4, <3>5
    <3> QED BY <1>4, <3>2, <3>3, <3>6
  <2>2. CASE Liquidar(r)
    <3>1. PICK monto \in 1 .. prestamo.saldo : Escribe(r, ConPago(prestamo, monto))
      BY <1>2, <2>2 DEF Liquidar
    <3> DEFINE c == ConPago(prestamo, monto)
    <3>2. monto \in Nat /\ monto <= prestamo.saldo
      BY <1>3
    <3>3. /\ c \in Columnas
          /\ c.estado = (IF monto > 0 /\ monto = prestamo.saldo THEN "paid" ELSE prestamo.estado)
          /\ c.aprobado = prestamo.aprobado /\ c.interes = prestamo.interes
          /\ c.ultimo = prestamo.ultimo
          /\ c.saldo = prestamo.saldo - monto
          /\ c.aplicado = prestamo.aplicado + monto
      BY <1>3, <3>2, ConPagoColumns
    <3>4. prestamo' = c
      BY <1>2, <3>1, <3>3, EscribeEntera DEF IInv
    <3>5. prestamo.aplicado \in Nat /\ manual \in Nat /\ condonado \in Nat /\ redondeo \in Nat
      BY <1>3 DEF Columnas, IInv, TypeOK
    <3>6. manual' = manual /\ condonado' = condonado /\ redondeo' = redondeo
      BY <2>2 DEF Liquidar
    <3> HIDE DEF c
    <3>7. /\ c.estado \in {prestamo.estado, "paid"}
          /\ c.estado = "paid" => c.saldo = 0
      BY <1>3, <1>4, <3>2, <3>3
    <3>8. c.saldo + c.aplicado + manual' + condonado' + redondeo'
           = prestamo.saldo + prestamo.aplicado + manual + condonado + redondeo
      BY <1>3, <3>2, <3>3, <3>5, <3>6
    <3> QED BY <3>3, <3>4, <3>7, <3>8
  <2> QED BY <2>1, <2>2
<1>6. SinMovimientos' /\ PaidOwesNothing'
  BY <1>4, <1>5 DEF SinMovimientos, PaidOwesNothing
<1>7. BalanceIsAccounted'
  BY <1>2, <1>5 DEF IInv, BalanceIsAccounted
<1>8. TramosInv'
  BY <1>1, <1>2, <1>5 DEF IInv, TramosInv, Tramos
<1> QED BY <1>6, <1>7, <1>8 DEF Cuentas

LEMMA NominaStep ==
  ASSUME IInv, NEW r \in Requests, NEW n \in Nominas, Nomina(r, n)
  PROVE  Cuentas'
<1> SUFFICES ASSUME Orderly' PROVE Cuentas'
  BY Vacuous
<1>1. /\ End(r, Stale(r)) /\ UNCHANGED <<manual, condonado, redondeo>>
      /\ request[r].op = "nomina"
  BY DEF Nomina, abonos
<1>2. Orderly /\ prestamo = request[r].leido /\ incidentes' = incidentes \cup Stale(r)
  BY <1>1, InOrder DEF IInv
<1>3. PICK fecha \in Fechas : \E interes \in Intereses(prestamo, fecha) :
        \E monto \in 0 .. prestamo.saldo + interes :
          /\ Escribe(r, Cobro(prestamo, interes, fecha, monto))
          /\ nominas' = [nominas EXCEPT ![n] = Fila(prestamo, interes, fecha, monto)]
  BY <1>2 DEF Nomina
<1>4. PICK interes \in Intereses(prestamo, fecha) : \E monto \in 0 .. prestamo.saldo + interes :
        /\ Escribe(r, Cobro(prestamo, interes, fecha, monto))
        /\ nominas' = [nominas EXCEPT ![n] = Fila(prestamo, interes, fecha, monto)]
  BY <1>3
<1>5. PICK monto \in 0 .. prestamo.saldo + interes :
        /\ Escribe(r, Cobro(prestamo, interes, fecha, monto))
        /\ nominas' = [nominas EXCEPT ![n] = Fila(prestamo, interes, fecha, monto)]
  BY <1>4
<1> DEFINE c == Cobro(prestamo, interes, fecha, monto)
           f == Fila(prestamo, interes, fecha, monto)
<1>6. /\ prestamo \in Columnas /\ prestamo.saldo \in Nat /\ prestamo.aplicado \in Nat
      /\ prestamo.interes \in Nat /\ prestamo.ultimo \in Nat /\ prestamo.aprobado \in Nat
      /\ manual \in Nat /\ condonado \in Nat /\ redondeo \in Nat
      /\ nominas \in [Nominas -> Filas]
  BY DEF IInv, TypeOK, Columnas
<1>7. /\ fecha \in Nat /\ interes \in Nat
      /\ interes > 0 => prestamo.ultimo < fecha
  BY BoundsAssumption DEF Fechas, Intereses
<1>8. monto \in Nat /\ monto <= prestamo.saldo + interes
  BY <1>6, <1>7
<1>9. prestamo.estado = "approved"
  BY <1>1, <1>2 DEF IInv, LeidoInv
<1>10. /\ c \in Columnas
       /\ c.estado \in {prestamo.estado, "paid"}
       /\ c.estado = "paid" => prestamo.estado = "paid" \/ c.saldo = 0
       /\ c.aprobado = prestamo.aprobado
       /\ c.saldo + monto = prestamo.saldo + interes
       /\ c.aplicado = prestamo.aplicado + monto
       /\ c.interes = prestamo.interes + interes
       /\ c.ultimo = IF interes = 0 THEN prestamo.ultimo ELSE fecha
  BY <1>6, <1>7, <1>8, CobroColumns
<1>11. /\ f \in Filas /\ f.fecha = fecha /\ f.interes = interes
       /\ interes > 0 => f.desde = prestamo.ultimo
  BY <1>6, <1>7, <1>8, FilaColumns
<1>12. prestamo' = c
  BY <1>2, <1>5, <1>10, EscribeEntera DEF IInv
<1>13. nominas' = [nominas EXCEPT ![n] = f]
  BY <1>5
<1>14. c.saldo \in Nat
  BY <1>10 DEF Columnas
<1> HIDE DEF c, f
<1>15. SinMovimientos' /\ PaidOwesNothing'
  BY <1>9, <1>10, <1>12 DEF SinMovimientos, PaidOwesNothing
<1>16. BalanceIsAccounted'
  <2> SUFFICES ASSUME incidentes' \cap {"stale", "clamped"} = {}
               PROVE  prestamo'.saldo + prestamo'.aplicado + manual' + condonado' + redondeo'
                        = prestamo'.aprobado + prestamo'.interes
    BY DEF BalanceIsAccounted
  <2>1. prestamo.saldo + prestamo.aplicado + manual + condonado + redondeo
          = prestamo.aprobado + prestamo.interes
    BY <1>2 DEF IInv, BalanceIsAccounted
  <2>2. c.saldo + c.aplicado + manual + condonado + redondeo = c.aprobado + c.interes
    BY <1>6, <1>7, <1>8, <1>10, <1>14, <2>1
  <2> QED BY <1>1, <1>12, <2>2
<1>17. TramosInv'
  <2> SUFFICES ASSUME incidentes' \cap {"stale", "disordered"} = {}
               PROVE  Tramos(nominas, prestamo.ultimo)'
    BY DEF TramosInv
  <2>1. Tramos(nominas, prestamo.ultimo)
    BY <1>2 DEF IInv, TramosInv
  <2>2. Tramos([nominas EXCEPT ![n] = f], IF f.interes = 0 THEN prestamo.ultimo ELSE f.fecha)
    BY <1>6, <1>7, <1>11, <2>1, TramosCon
  <2>3. Tramos(nominas', prestamo'.ultimo)
    BY <1>10, <1>11, <1>12, <1>13, <2>2
  <2> QED BY <2>3 DEF Tramos
<1> QED BY <1>15, <1>16, <1>17 DEF Cuentas

\* What a request that takes a run back finds, when nothing was overwritten.
LEMMA Devuelve ==
  ASSUME IInv, NEW r \in Requests, request[r].op \in {"anular", "recalcular"},
         End(r, Stale(r) \cup Takeback(r)), Orderly'
  PROVE  LET n == request[r].n
             fila == request[r].fila
             c == Deshecho(prestamo, fila)
         IN  /\ prestamo = request[r].leido
             /\ n \in Nominas /\ nominas[n] = fila /\ fila \in Filas
             /\ incidentes' = incidentes \cup Stale(r) \cup Takeback(r)
             /\ Orderly
             /\ c \in Columnas
             /\ c.estado \notin {"draft", "pending"}
             /\ c.estado = "paid" => c.saldo = 0
             /\ c.estado # "approved" => c.estado = prestamo.estado
             /\ c.aprobado = prestamo.aprobado
             /\ incidentes' \cap {"stale", "clamped"} = {} =>
                  /\ incidentes \cap {"stale", "clamped"} = {}
                  /\ c.saldo + fila.interes = prestamo.saldo + fila.abono
                  /\ c.aplicado + fila.abono = prestamo.aplicado
                  /\ c.interes + fila.interes = prestamo.interes
             /\ incidentes' \cap {"stale", "disordered"} = {} =>
                  Tramos([nominas EXCEPT ![n] = Nada], c.ultimo)
<1> DEFINE n == request[r].n
           fila == request[r].fila
           c == Deshecho(prestamo, fila)
<1>1. Stale(r) \subseteq Stale(r) \cup Takeback(r)
  OBVIOUS
<1>2. /\ Orderly /\ prestamo = request[r].leido
      /\ n # "none" => nominas[n] = fila
      /\ incidentes' = incidentes \cup Stale(r) \cup Takeback(r)
  BY <1>1, InOrder DEF IInv
<1>3. n \in Nominas /\ fila # Nada
  BY DEF IInv, LeidoInv
<1>4. nominas[n] = fila
  BY <1>2, <1>3, NamesAssumption
<1>5. /\ nominas \in [Nominas -> Filas] /\ fila \in Filas /\ prestamo \in Columnas
      /\ fila.abono \in Nat /\ prestamo.ultimo \in Nat /\ prestamo.saldo \in Nat
  BY <1>3, <1>4 DEF IInv, TypeOK, Filas, Columnas
<1>6. prestamo.estado \notin {"draft", "pending"}
  BY <1>2, <1>3, <1>4 DEF IInv, SinMovimientos
<1>7. /\ c \in Columnas
      /\ c.estado = (IF fila.abono > 0 /\ prestamo.estado = "paid" THEN "approved"
                                                                   ELSE prestamo.estado)
      /\ c.aprobado = prestamo.aprobado
      /\ c.saldo <= prestamo.saldo + fila.abono
      /\ c.ultimo = (IF fila.interes = 0 THEN prestamo.ultimo ELSE fila.desde)
      /\ ~Recorta(prestamo, fila) =>
           /\ c.saldo + fila.interes = prestamo.saldo + fila.abono
           /\ c.aplicado + fila.abono = prestamo.aplicado
           /\ c.interes + fila.interes = prestamo.interes
  BY <1>5, DeshechoColumns
<1>8. /\ Recorta(prestamo, fila) => "clamped" \in incidentes'
      /\ fila.interes > 0 /\ fila.fecha # prestamo.ultimo => "disordered" \in incidentes'
  BY <1>2 DEF Takeback
<1>9. prestamo.estado = "paid" => prestamo.saldo = 0
  BY <1>2 DEF IInv, PaidOwesNothing
<1>10. c.saldo \in Nat
  BY <1>7 DEF Columnas
<1>11. ASSUME incidentes' \cap {"stale", "disordered"} = {}
       PROVE  Tramos([nominas EXCEPT ![n] = Nada], c.ultimo)
  <2>1. Tramos(nominas, prestamo.ultimo)
    BY <1>2, <1>11 DEF IInv, TramosInv
  <2>2. nominas[n].interes > 0 => nominas[n].fecha = prestamo.ultimo
    BY <1>4, <1>8, <1>11
  <2>3. Tramos([nominas EXCEPT ![n] = Nada],
               IF nominas[n].interes = 0 THEN prestamo.ultimo ELSE nominas[n].desde)
    BY <1>3, <1>5, <2>1, <2>2, TramosSin
  <2> QED BY <1>4, <1>7, <2>3
<1> HIDE DEF c
<1>12. /\ c.estado \notin {"draft", "pending"}
       /\ c.estado # "approved" => c.estado = prestamo.estado
  BY <1>6, <1>7
<1>13. c.estado = "paid" => c.saldo = 0
  BY <1>5, <1>7, <1>9, <1>10
<1>14. ASSUME incidentes' \cap {"stale", "clamped"} = {}
       PROVE  /\ incidentes \cap {"stale", "clamped"} = {}
              /\ ~Recorta(prestamo, fila)
  BY <1>2, <1>8, <1>14
<1> QED BY <1>2, <1>3, <1>4, <1>5, <1>7, <1>11, <1>12, <1>13, <1>14 DEF c

LEMMA DeshacerStep ==
  ASSUME IInv, NEW r \in Requests, Anular(r) \/ RecalcularSinCobro(r)
  PROVE  Cuentas'
<1> SUFFICES ASSUME Orderly' PROVE Cuentas'
  BY Vacuous
<1> DEFINE n == request[r].n
           fila == request[r].fila
           c == Deshecho(prestamo, fila)
<1>1. /\ request[r].op \in {"anular", "recalcular"}
      /\ Escribe(r, Deshecho(request[r].leido, fila))
      /\ nominas' = [nominas EXCEPT ![n] = Nada]
      /\ End(r, Stale(r) \cup Takeback(r))
      /\ UNCHANGED <<manual, condonado, redondeo>>
  BY DEF Anular, RecalcularSinCobro, abonos
<1>2. /\ prestamo = request[r].leido
      /\ fila \in Filas
      /\ c \in Columnas
      /\ c.estado \notin {"draft", "pending"}
      /\ c.estado = "paid" => c.saldo = 0
      /\ c.aprobado = prestamo.aprobado
      /\ incidentes' \cap {"stale", "clamped"} = {} =>
           /\ incidentes \cap {"stale", "clamped"} = {}
           /\ c.saldo + fila.interes = prestamo.saldo + fila.abono
           /\ c.aplicado + fila.abono = prestamo.aplicado
           /\ c.interes + fila.interes = prestamo.interes
      /\ incidentes' \cap {"stale", "disordered"} = {} =>
           Tramos([nominas EXCEPT ![n] = Nada], c.ultimo)
  BY <1>1, Devuelve
<1>3. prestamo' = c
  BY <1>1, <1>2, EscribeEntera DEF IInv
<1>4. /\ c.saldo \in Nat /\ c.aplicado \in Nat /\ c.interes \in Nat /\ c.aprobado \in Nat
      /\ fila.abono \in Nat /\ fila.interes \in Nat
      /\ prestamo.saldo \in Nat
      /\ manual \in Nat /\ condonado \in Nat /\ redondeo \in Nat
  BY <1>2 DEF Columnas, Filas, IInv, TypeOK
<1> HIDE DEF c, fila, n
<1>5. SinMovimientos' /\ PaidOwesNothing'
  BY <1>2, <1>3 DEF SinMovimientos, PaidOwesNothing
<1>6. BalanceIsAccounted'
  <2> SUFFICES ASSUME incidentes' \cap {"stale", "clamped"} = {}
               PROVE  prestamo'.saldo + prestamo'.aplicado + manual' + condonado' + redondeo'
                        = prestamo'.aprobado + prestamo'.interes
    BY DEF BalanceIsAccounted
  <2>1. /\ c.saldo + fila.interes = prestamo.saldo + fila.abono
        /\ c.aplicado + fila.abono = prestamo.aplicado
        /\ c.interes + fila.interes = prestamo.interes
        /\ prestamo.saldo + prestamo.aplicado + manual + condonado + redondeo
             = prestamo.aprobado + prestamo.interes
    BY <1>2 DEF IInv, BalanceIsAccounted
  <2>2. c.saldo + c.aplicado + manual + condonado + redondeo = c.aprobado + c.interes
    BY <1>2, <1>4, <2>1
  <2> QED BY <1>1, <1>3, <2>2
<1>7. TramosInv'
  <2> SUFFICES ASSUME incidentes' \cap {"stale", "disordered"} = {}
               PROVE  Tramos(nominas, prestamo.ultimo)'
    BY DEF TramosInv
  <2>1. Tramos(nominas', prestamo'.ultimo)
    BY <1>1, <1>2, <1>3
  <2> QED BY <2>1 DEF Tramos
<1> QED BY <1>5, <1>6, <1>7 DEF Cuentas

\* A recalculation: the old run goes, and a new one charges the loan it leaves.
LEMMA RecalcularStep ==
  ASSUME IInv, NEW r \in Requests, NEW m \in Nominas, Recalcular(r, m)
  PROVE  Cuentas'
<1> SUFFICES ASSUME Orderly' PROVE Cuentas'
  BY Vacuous
<1> DEFINE n == request[r].n
           fila == request[r].fila
           l == Deshecho(prestamo, fila)
           fecha == fila.fecha
<1>1. /\ request[r].op \in {"anular", "recalcular"}
      /\ End(r, Stale(r) \cup Takeback(r))
      /\ UNCHANGED <<manual, condonado, redondeo>>
  BY DEF Recalcular, abonos
<1>2. /\ prestamo = request[r].leido
      /\ n \in Nominas /\ nominas[n] = fila /\ fila \in Filas
      /\ l \in Columnas
      /\ l.aprobado = prestamo.aprobado
      /\ incidentes' \cap {"stale", "clamped"} = {} =>
           /\ incidentes \cap {"stale", "clamped"} = {}
           /\ l.saldo + fila.interes = prestamo.saldo + fila.abono
           /\ l.aplicado + fila.abono = prestamo.aplicado
           /\ l.interes + fila.interes = prestamo.interes
      /\ incidentes' \cap {"stale", "disordered"} = {} =>
           Tramos([nominas EXCEPT ![n] = Nada], l.ultimo)
  BY <1>1, Devuelve
<1>3. /\ l.estado = "approved"
      /\ \E interes \in Intereses(l, fecha) : \E monto \in 1 .. l.saldo :
           /\ Escribe(r, Cobro(l, interes, fecha, monto))
           /\ nominas' = [nominas EXCEPT ![n] = Nada,
                                         ![m] = Fila(l, interes, fecha, monto)]
  BY <1>2 DEF Recalcular, Cobrable
<1>4. PICK interes \in Intereses(l, fecha) : \E monto \in 1 .. l.saldo :
        /\ Escribe(r, Cobro(l, interes, fecha, monto))
        /\ nominas' = [nominas EXCEPT ![n] = Nada,
                                      ![m] = Fila(l, interes, fecha, monto)]
  BY <1>3
<1>5. PICK monto \in 1 .. l.saldo :
        /\ Escribe(r, Cobro(l, interes, fecha, monto))
        /\ nominas' = [nominas EXCEPT ![n] = Nada,
                                      ![m] = Fila(l, interes, fecha, monto)]
  BY <1>4
<1> DEFINE c == Cobro(l, interes, fecha, monto)
           f == Fila(l, interes, fecha, monto)
           resto == [nominas EXCEPT ![n] = Nada]
<1>6. nominas' = [resto EXCEPT ![m] = f]
  BY <1>5
<1>7. resto \in [Nominas -> Filas]
  BY NadaType DEF IInv, TypeOK
<1>8. /\ fecha \in Nat /\ interes \in Nat
      /\ interes > 0 => l.ultimo < fecha
  BY <1>2, BoundsAssumption DEF Filas, Intereses
<1>9. /\ l.saldo \in Nat /\ l.aplicado \in Nat /\ l.interes \in Nat /\ l.ultimo \in Nat
      /\ l.aprobado \in Nat
      /\ fila.abono \in Nat /\ fila.interes \in Nat
      /\ prestamo.saldo \in Nat /\ prestamo.aplicado \in Nat /\ prestamo.interes \in Nat
      /\ manual \in Nat /\ condonado \in Nat /\ redondeo \in Nat
  BY <1>2 DEF Columnas, Filas, IInv, TypeOK
<1> HIDE DEF l, fecha, resto
<1>10. monto \in Nat /\ monto <= l.saldo + interes
  BY <1>8, <1>9
<1>11. /\ c \in Columnas
       /\ c.estado \in {l.estado, "paid"}
       /\ c.estado = "paid" => l.estado = "paid" \/ c.saldo = 0
       /\ c.aprobado = l.aprobado
       /\ c.saldo + monto = l.saldo + interes
       /\ c.aplicado = l.aplicado + monto
       /\ c.interes = l.interes + interes
       /\ c.ultimo = IF interes = 0 THEN l.ultimo ELSE fecha
  BY <1>2, <1>8, <1>10, CobroColumns
<1>12. /\ f \in Filas /\ f.fecha = fecha /\ f.interes = interes
       /\ interes > 0 => f.desde = l.ultimo
  <2>1. l \in Columnas /\ fecha \in Nat /\ interes \in Nat /\ monto \in Nat
    BY <1>2, <1>8, <1>10
  <2> QED BY <2>1, FilaColumns
<1>13. prestamo' = c
  BY <1>2, <1>5, <1>11, EscribeEntera DEF IInv
<1>14. c.saldo \in Nat
  BY <1>11 DEF Columnas
<1> HIDE DEF c, f
<1>15. SinMovimientos' /\ PaidOwesNothing'
  BY <1>3, <1>11, <1>13 DEF SinMovimientos, PaidOwesNothing
<1>16. BalanceIsAccounted'
  <2> SUFFICES ASSUME incidentes' \cap {"stale", "clamped"} = {}
               PROVE  prestamo'.saldo + prestamo'.aplicado + manual' + condonado' + redondeo'
                        = prestamo'.aprobado + prestamo'.interes
    BY DEF BalanceIsAccounted
  <2>1. /\ l.saldo + fila.interes = prestamo.saldo + fila.abono
        /\ l.aplicado + fila.abono = prestamo.aplicado
        /\ l.interes + fila.interes = prestamo.interes
        /\ prestamo.saldo + prestamo.aplicado + manual + condonado + redondeo
             = prestamo.aprobado + prestamo.interes
    BY <1>2 DEF IInv, BalanceIsAccounted
  <2>2. l.saldo + l.aplicado + manual + condonado + redondeo = l.aprobado + l.interes
    BY <1>2, <1>9, <2>1
  <2>3. c.saldo + c.aplicado + manual + condonado + redondeo = c.aprobado + c.interes
    BY <1>8, <1>9, <1>10, <1>11, <1>14, <2>2
  <2> QED BY <1>1, <1>13, <2>3
<1>17. TramosInv'
  <2> SUFFICES ASSUME incidentes' \cap {"stale", "disordered"} = {}
               PROVE  Tramos(nominas, prestamo.ultimo)'
    BY DEF TramosInv
  <2>1. Tramos(resto, l.ultimo)
    BY <1>2 DEF resto
  <2>2. Tramos([resto EXCEPT ![m] = f], IF f.interes = 0 THEN l.ultimo ELSE f.fecha)
    BY <1>7, <1>8, <1>9, <1>12, <2>1, TramosCon
  <2>3. Tramos(nominas', prestamo'.ultimo)
    BY <1>6, <1>11, <1>12, <1>13, <2>2
  <2> QED BY <2>3 DEF Tramos
<1> QED BY <1>15, <1>16, <1>17 DEF Cuentas

-----------------------------------------------------------------------------
(* The theorems                                                              *)

LEMMA Inductive == Spec => []IInv
<1>1. Init => IInv
  <2> SUFFICES ASSUME Init PROVE IInv
    OBVIOUS
  <2>1. TypeOK
    BY BoundsAssumption, NadaType DEF Init, TypeOK, Columnas, Estados, RequestType, Incidentes
  <2>2. LeidoInv
    BY DEF Init, LeidoInv, Idle
  <2>3. SinMovimientos /\ PaidOwesNothing /\ BalanceIsAccounted
    BY DEF Init, SinMovimientos, PaidOwesNothing, BalanceIsAccounted
  <2>4. TramosInv
    BY DEF Init, TramosInv, Tramos, Nada
  <2> QED BY <2>1, <2>2, <2>3, <2>4 DEF IInv
<1>2. IInv /\ TypeOK' /\ [Next]_vars => IInv'
  <2> SUFFICES ASSUME IInv, TypeOK', [Next]_vars PROVE IInv'
    OBVIOUS
  <2>1. LeidoInv'
    <3>1. CASE Next
      BY <3>1, LeidoStep DEF IInv
    <3>2. CASE UNCHANGED vars
      BY <3>2 DEF IInv, LeidoInv, vars
    <3> QED BY <3>1, <3>2
  <2>2. Cuentas'
    <3>1. ASSUME UNCHANGED <<prestamo, nominas, abonos, incidentes>> PROVE Cuentas'
      BY <3>1, Quiet DEF Cuentas
    <3>2. ASSUME NEW r \in Requests, \E op \in Ops : Lee(r, op) PROVE Cuentas'
      BY <3>1, <3>2 DEF Lee, Begin
    <3>3. ASSUME NEW r \in Requests,
                 \E op \in {"anular", "recalcular"}, n \in Nominas : LeeNomina(r, op, n)
          PROVE  Cuentas'
      BY <3>1, <3>3 DEF LeeNomina, Begin
    <3>4. ASSUME NEW r \in Requests, Fails(r) PROVE Cuentas'
      BY <3>1, <3>4 DEF Fails, End
    <3>5. ASSUME NEW r \in Requests,
                 \/ Enviar(r) \/ Aprobar(r) \/ Rechazar(r) \/ Cancelar(r)
                 \/ PagoExtraordinario(r) \/ Condonacion(r) \/ Liquidar(r)
          PROVE  Cuentas'
      BY <3>5, EstadoStep, AprobarStep, AbonoStep
    <3>6. ASSUME NEW r \in Requests, NEW n \in Nominas, Nomina(r, n) \/ Recalcular(r, n)
          PROVE  Cuentas'
      BY <3>6, NominaStep, RecalcularStep
    <3>7. ASSUME NEW r \in Requests, Anular(r) \/ RecalcularSinCobro(r) PROVE Cuentas'
      BY <3>7, DeshacerStep
    <3>8. CASE UNCHANGED vars
      BY <3>1, <3>8 DEF vars
    <3> QED BY <3>2, <3>3, <3>4, <3>5, <3>6, <3>7, <3>8 DEF Next
  <2> QED BY <2>1, <2>2 DEF IInv, Cuentas
<1> QED BY <1>1, <1>2, TypeCorrect, PTL DEF Spec

\* The balance of the loan is what was approved and the interest charged, less
\* what was paid and forgiven, as long as nothing was overwritten and no
\* rollback stopped at zero.
THEOREM BalanceIsCorrect == Spec => []BalanceIsAccounted
<1>1. IInv => BalanceIsAccounted
  BY DEF IInv
<1> QED BY <1>1, Inductive, PTL

\* A loan marked PAGADO owes nothing, although its runs are voided and
\* recalculated.
THEOREM PaidMeansPaid == Spec => []PaidOwesNothing
<1>1. IInv => PaidOwesNothing
  BY DEF IInv
<1> QED BY <1>1, Inductive, PTL

\* While only the last span of interest is ever taken back, no day of interest
\* is charged twice.
THEOREM InterestIsChargedOnce == Spec => []InterestOnce
<1>1. IInv => InterestOnce
  BY DEF IInv, TramosInv, Tramos, InterestOnce
<1> QED BY <1>1, Inductive, PTL

\* A cancelled loan stays cancelled.
THEOREM CancelledStaysCancelled == Spec => CancelledIsFinal
<1>1. IInv /\ [Next]_vars =>
        [Orderly' /\ prestamo.estado = "cancelled" => prestamo'.estado = "cancelled"]_vars
  <2> SUFFICES ASSUME IInv, Next, Orderly', prestamo.estado = "cancelled"
               PROVE  prestamo'.estado = "cancelled"
    OBVIOUS
  <2>1. ASSUME NEW r \in Requests,
               \/ \E op \in Ops : Lee(r, op)
               \/ \E op \in {"anular", "recalcular"}, n \in Nominas : LeeNomina(r, op, n)
               \/ Fails(r)
        PROVE  prestamo'.estado = "cancelled"
    BY <2>1 DEF Lee, LeeNomina, Begin, Fails
  <2>2. ASSUME NEW r \in Requests,
               \/ Enviar(r) \/ Aprobar(r) \/ Rechazar(r) \/ Cancelar(r)
               \/ PagoExtraordinario(r) \/ Condonacion(r) \/ Liquidar(r)
               \/ \E n \in Nominas : Nomina(r, n)
        PROVE  FALSE
    <3>1. End(r, Stale(r))
      BY <2>2 DEF Enviar, Aprobar, Rechazar, Cancelar, PagoExtraordinario, Condonacion,
           Liquidar, Nomina
    <3>2. prestamo = request[r].leido
      BY <3>1, InOrder DEF IInv
    <3>3. request[r].op \in {"enviar", "resolver", "cancelar", "abonar", "condonar", "liquidar",
                             "nomina"}
      BY <2>2 DEF Enviar, Aprobar, Rechazar, Cancelar, PagoExtraordinario, Condonacion,
           Liquidar, Nomina
    <3> QED BY <3>2, <3>3 DEF IInv, LeidoInv
  <2>3. ASSUME NEW r \in Requests,
               Anular(r) \/ RecalcularSinCobro(r) \/ \E m \in Nominas : Recalcular(r, m)
        PROVE  prestamo'.estado = "cancelled"
    <3> DEFINE fila == request[r].fila
               c == Deshecho(prestamo, fila)
    <3>1. /\ request[r].op \in {"anular", "recalcular"}
          /\ End(r, Stale(r) \cup Takeback(r))
      BY <2>3 DEF Anular, RecalcularSinCobro, Recalcular
    <3>2. prestamo = request[r].leido
      BY <3>1, Devuelve
    <3>3. fila \in Filas /\ prestamo \in Columnas
      BY <3>1, RequestFields DEF IInv, TypeOK
    <3>4. /\ c \in Columnas
          /\ c.estado = IF fila.abono > 0 /\ prestamo.estado = "paid" THEN "approved"
                                                                       ELSE prestamo.estado
      BY <3>3, DeshechoColumns
    <3>5. c.estado = "cancelled"
      BY <3>4
    <3>6. Escribe(r, c)
      BY <2>3, <3>2, <3>5 DEF Anular, RecalcularSinCobro, Recalcular, Cobrable
    <3>7. prestamo' = c
      BY <3>2, <3>4, <3>6, EscribeEntera DEF IInv
    <3> QED BY <3>5, <3>7
  <2> QED BY <2>1, <2>2, <2>3 DEF Next
<1> QED BY <1>1, Inductive, PTL DEF Spec, CancelledIsFinal

-----------------------------------------------------------------------------
(* Sums                                                                      *)

\* F adds up f over every subset of S, in whatever order.
EsSuma(F, f, S) ==
  /\ F \in [SUBSET S -> Int] /\ F[{}] = 0
  /\ \A T \in SUBSET S : \A x \in T : F[T] = f[x] + F[T \ {x}]

\* A property of the subsets of a finite set that fails fails for a smallest one.
LEMMA Minimo ==
  ASSUME NEW S, IsFiniteSet(S), NEW M \in SUBSET SUBSET S, M # {}
  PROVE  \E T \in M : \A U \in M : ~(U \subseteq T /\ U # T)
<1> DEFINE R == StrictSubsetOrdering(S)
<1>1. IsWellFoundedOn(R, FiniteSubsetsOf(S))
  BY FS_StrictSubsetOrderingWellFounded
<1>2. M \subseteq FiniteSubsetsOf(S)
  BY FS_FiniteSubsetsOfFinite
<1>3. PICK T \in M : \A U \in M : ~(<<U, T>> \in R)
  <2> HIDE DEF R
  <2> QED BY <1>1, <1>2, WFMin
<1>4. ASSUME NEW U \in M, U \subseteq T, U # T
      PROVE  FALSE
  <2>1. <<U, T>> \in R
    BY <1>4 DEF StrictSubsetOrdering
  <2> HIDE DEF R
  <2> QED BY <1>3, <2>1
<1> QED BY <1>4

LEMMA SumaExiste ==
  ASSUME NEW S, IsFiniteSet(S), NEW f \in [S -> Int]
  PROVE  \E F : EsSuma(F, f, S)
<1> DEFINE M == {T \in SUBSET S : \A F : ~EsSuma(F, f, T)}
<1> SUFFICES ASSUME M # {} PROVE FALSE
  OBVIOUS
<1>1. PICK T \in M : \A U \in M : ~(U \subseteq T /\ U # T)
  <2>1. M \in SUBSET SUBSET S
    OBVIOUS
  <2> HIDE DEF M
  <2> QED BY <2>1, Minimo
<1>2. T # {}
  <2> SUFFICES ASSUME T = {} PROVE FALSE
    OBVIOUS
  <2>1. EsSuma([X \in SUBSET {} |-> 0], f, {})
    BY DEF EsSuma
  <2> QED BY <2>1
<1>3. PICK x \in T : TRUE
  BY <1>2
<1> DEFINE V == T \ {x}
<1>4. PICK F : EsSuma(F, f, V)
  <2>1. V \in SUBSET S /\ V \subseteq T /\ V # T
    BY <1>3
  <2> QED BY <1>1, <2>1
<1> DEFINE G == [X \in SUBSET T |-> IF x \in X THEN f[x] + F[X \ {x}] ELSE F[X]]
<1>5. \A X \in SUBSET T : X \ {x} \in SUBSET V /\ (x \notin X => X \in SUBSET V)
  OBVIOUS
<1>6. \A X \in SUBSET V : F[X] \in Int
  BY <1>4 DEF EsSuma
<1>7. \A y \in T : f[y] \in Int
  OBVIOUS
<1>8. G \in [SUBSET T -> Int] /\ G[{}] = 0
  <2>1. F[{}] = 0
    BY <1>4 DEF EsSuma
  <2> QED BY <2>1, <1>5, <1>6, <1>7
<1>9. ASSUME NEW X \in SUBSET T, NEW y \in X
      PROVE  G[X] = f[y] + G[X \ {y}]
  <2>0. X \ {y} \in SUBSET T /\ y \in T
    OBVIOUS
  <2>1. CASE x \notin X
    <3>1. X \in SUBSET V
      BY <2>1
    <3>2. F[X] = f[y] + F[X \ {y}]
      BY <1>4, <3>1 DEF EsSuma
    <3> QED BY <2>0, <2>1, <3>2
  <2>2. CASE x \in X /\ y = x
    BY <2>0, <2>2
  <2>3. CASE x \in X /\ y # x
    <3>1. X \ {x} \in SUBSET V /\ y \in X \ {x} /\ x \in X \ {y}
      BY <2>3
    <3>2. F[X \ {x}] = f[y] + F[(X \ {x}) \ {y}]
      BY <1>4, <3>1 DEF EsSuma
    <3>3. (X \ {x}) \ {y} = (X \ {y}) \ {x}
      OBVIOUS
    <3>4. G[X] = f[x] + F[X \ {x}] /\ G[X \ {y}] = f[x] + F[(X \ {x}) \ {y}]
      BY <2>0, <2>3, <3>1, <3>3
    <3>5. F[(X \ {x}) \ {y}] \in Int /\ f[x] \in Int /\ f[y] \in Int
      BY <1>3, <1>6, <1>7, <2>0
    <3> HIDE DEF G
    <3> QED BY <3>2, <3>4, <3>5
  <2> QED BY <2>1, <2>2, <2>3
<1>10. EsSuma(G, f, T)
  <2> HIDE DEF G
  <2> QED BY <1>8, <1>9 DEF EsSuma
<1> QED BY <1>10

\* The sums of MapThenSumSet, which takes the members in an order of its own,
\* are those.
LEMMA SumaUnica ==
  ASSUME NEW S, IsFiniteSet(S), NEW f \in [S -> Int], NEW F, NEW G,
         EsSuma(F, f, S),
         G = [s \in SUBSET S |-> IF s = {} THEN 0
                 ELSE f[CHOOSE x \in s : TRUE] + G[s \ {CHOOSE x \in s : TRUE}]]
  PROVE  G = F
<1> DEFINE M == {T \in SUBSET S : F[T] # G[T]}
<1>1. M = {}
  <2> SUFFICES ASSUME M # {} PROVE FALSE
    OBVIOUS
  <2>1. PICK T \in M : \A U \in M : ~(U \subseteq T /\ U # T)
    <3>1. M \in SUBSET SUBSET S
      OBVIOUS
    <3> HIDE DEF M
    <3> QED BY <3>1, Minimo
  <2>2. CASE T = {}
    <3>1. G[{}] = 0
      OBVIOUS
    <3> QED BY <2>2, <3>1 DEF EsSuma
  <2>3. CASE T # {}
    <3> DEFINE x == CHOOSE x \in T : TRUE
    <3>1. x \in T
      BY <2>3
    <3>2. G[T] = f[x] + G[T \ {x}]
      BY <2>3
    <3>3. F[T] = f[x] + F[T \ {x}]
      BY <3>1 DEF EsSuma
    <3>4. T \ {x} \notin M
      BY <2>1, <3>1
    <3>5. T \ {x} \in SUBSET S
      OBVIOUS
    <3> HIDE DEF x
    <3> QED BY <3>2, <3>3, <3>4, <3>5
  <2> QED BY <2>2, <2>3
<1>2. G = [s \in SUBSET S |-> G[s]] /\ F = [s \in SUBSET S |-> F[s]]
  BY DEF EsSuma
<1> QED BY <1>1, <1>2

\* Changing one amount moves the sum by the difference.
LEMMA SumaCambia ==
  ASSUME NEW S, IsFiniteSet(S), NEW f \in [S -> Int], NEW h \in [S -> Int], NEW x \in S,
         \A k \in S \ {x} : h[k] = f[k],
         NEW F, EsSuma(F, f, S), NEW H, EsSuma(H, h, S)
  PROVE  H[S] = F[S] + h[x] - f[x]
<1> DEFINE G == [T \in SUBSET S |-> F[T] + (IF x \in T THEN h[x] - f[x] ELSE 0)]
<1>1. G \in [SUBSET S -> Int] /\ G[{}] = 0
  BY DEF EsSuma
<1>2. ASSUME NEW T \in SUBSET S, NEW y \in T
      PROVE  G[T] = h[y] + G[T \ {y}]
  <2>1. T \ {y} \in SUBSET S /\ y \in S
    OBVIOUS
  <2>2. F[T] = f[y] + F[T \ {y}] /\ F[T \ {y}] \in Int
    BY <2>1 DEF EsSuma
  <2> QED BY <2>1, <2>2
<1>3. EsSuma(G, h, S)
  <2> HIDE DEF G
  <2> QED BY <1>1, <1>2 DEF EsSuma
<1>4. G[S] = F[S] + h[x] - f[x]
  BY DEF EsSuma
<1>5. H = [s \in SUBSET S |-> IF s = {} THEN 0
              ELSE h[CHOOSE y \in s : TRUE] + H[s \ {CHOOSE y \in s : TRUE}]]
  BY DEF EsSuma
<1> HIDE DEF G
<1>6. H = G
  BY <1>3, <1>5, SumaUnica
<1> QED BY <1>4, <1>6

\* A sum of what is not negative is not, and is no less than what it adds.
LEMMA SumaCota ==
  ASSUME NEW S, IsFiniteSet(S), NEW f \in [S -> Nat], NEW F, EsSuma(F, f, S)
  PROVE  F[S] \in Nat /\ \A x \in S : f[x] <= F[S]
<1> DEFINE M == {T \in SUBSET S : F[T] \notin Nat}
<1>1. M = {}
  <2> SUFFICES ASSUME M # {} PROVE FALSE
    OBVIOUS
  <2>1. PICK T \in M : \A U \in M : ~(U \subseteq T /\ U # T)
    <3>1. M \in SUBSET SUBSET S
      OBVIOUS
    <3> HIDE DEF M
    <3> QED BY <3>1, Minimo
  <2>2. T # {}
    <3>1. F[T] \notin Nat /\ F[{}] = 0
      BY DEF EsSuma
    <3> QED BY <3>1
  <2>3. PICK x \in T : TRUE
    BY <2>2
  <2>4. F[T] = f[x] + F[T \ {x}]
    BY <2>3 DEF EsSuma
  <2>5. F[T \ {x}] \in Nat
    BY <2>1, <2>3
  <2> QED BY <2>4, <2>5
<1>2. \A T \in SUBSET S : F[T] \in Nat
  BY <1>1
<1>3. ASSUME NEW x \in S
      PROVE  f[x] <= F[S]
  <2>1. F[S] = f[x] + F[S \ {x}] /\ F[S \ {x}] \in Nat
    BY <1>2 DEF EsSuma
  <2> QED BY <2>1
<1> QED BY <1>2, <1>3

-----------------------------------------------------------------------------
(* The totals of the rows                                                    *)

SumaAbonos(f) == MapThenSumSet(LAMBDA n : f[n].abono, Nominas)
SumaIntereses(f) == MapThenSumSet(LAMBDA n : f[n].interes, Nominas)

LEMMA SumaAbonosEs ==
  ASSUME NEW f, NEW u \in [Nominas -> Int], \A n \in Nominas : u[n] = f[n].abono,
         NEW U, EsSuma(U, u, Nominas)
  PROVE  SumaAbonos(f) = U[Nominas]
<1> DEFINE P(g) == g = [s \in SUBSET Nominas |-> IF s = {} THEN 0
                  ELSE f[CHOOSE x \in s : TRUE].abono + g[s \ {CHOOSE x \in s : TRUE}]]
           G == CHOOSE g : P(g)
<1>1. U = [s \in SUBSET Nominas |-> IF s = {} THEN 0
              ELSE u[CHOOSE x \in s : TRUE] + U[s \ {CHOOSE x \in s : TRUE}]]
  BY DEF EsSuma
<1>2. P(U)
  BY <1>1
<1>3. P(G)
  <2> HIDE DEF P
  <2> QED BY <1>2, Zenon
<1>4. SumaAbonos(f) = G[Nominas]
  BY DEF SumaAbonos, MapThenSumSet, MapThenFoldSet
<1> HIDE DEF G
<1>5. G = [s \in SUBSET Nominas |-> IF s = {} THEN 0
              ELSE u[CHOOSE x \in s : TRUE] + G[s \ {CHOOSE x \in s : TRUE}]]
  BY <1>3
<1>6. G = U
  BY <1>5, NamesAssumption, SumaUnica
<1> QED BY <1>4, <1>6

LEMMA SumaInteresesEs ==
  ASSUME NEW f, NEW u \in [Nominas -> Int], \A n \in Nominas : u[n] = f[n].interes,
         NEW U, EsSuma(U, u, Nominas)
  PROVE  SumaIntereses(f) = U[Nominas]
<1> DEFINE P(g) == g = [s \in SUBSET Nominas |-> IF s = {} THEN 0
                  ELSE f[CHOOSE x \in s : TRUE].interes + g[s \ {CHOOSE x \in s : TRUE}]]
           G == CHOOSE g : P(g)
<1>1. U = [s \in SUBSET Nominas |-> IF s = {} THEN 0
              ELSE u[CHOOSE x \in s : TRUE] + U[s \ {CHOOSE x \in s : TRUE}]]
  BY DEF EsSuma
<1>2. P(U)
  BY <1>1
<1>3. P(G)
  <2> HIDE DEF P
  <2> QED BY <1>2, Zenon
<1>4. SumaIntereses(f) = G[Nominas]
  BY DEF SumaIntereses, MapThenSumSet, MapThenFoldSet
<1> HIDE DEF G
<1>5. G = [s \in SUBSET Nominas |-> IF s = {} THEN 0
              ELSE u[CHOOSE x \in s : TRUE] + G[s \ {CHOOSE x \in s : TRUE}]]
  BY <1>3
<1>6. G = U
  BY <1>5, NamesAssumption, SumaUnica
<1> QED BY <1>4, <1>6

\* What a row adds is in the totals, and replacing it moves them by the
\* difference.
LEMMA UnaFila ==
  ASSUME NEW f \in [Nominas -> Filas], NEW n \in Nominas, NEW fila \in Filas
  PROVE  /\ SumaAbonos(f) \in Nat /\ SumaIntereses(f) \in Nat
         /\ f[n].abono \in Nat /\ f[n].abono <= SumaAbonos(f)
         /\ f[n].interes \in Nat /\ f[n].interes <= SumaIntereses(f)
         /\ SumaAbonos([f EXCEPT ![n] = fila]) + f[n].abono = SumaAbonos(f) + fila.abono
         /\ SumaIntereses([f EXCEPT ![n] = fila]) + f[n].interes
              = SumaIntereses(f) + fila.interes
<1> DEFINE g == [f EXCEPT ![n] = fila]
           a == [k \in Nominas |-> f[k].abono]
           i == [k \in Nominas |-> f[k].interes]
           b == [k \in Nominas |-> g[k].abono]
           j == [k \in Nominas |-> g[k].interes]
<1>1. a \in [Nominas -> Nat] /\ i \in [Nominas -> Nat]
  BY DEF Filas
<1>2. g \in [Nominas -> Filas] /\ g[n] = fila /\ \A k \in Nominas \ {n} : g[k] = f[k]
  OBVIOUS
<1> HIDE DEF g
<1>3. b \in [Nominas -> Nat] /\ j \in [Nominas -> Nat]
  BY <1>2 DEF Filas
<1>4. /\ \A k \in Nominas : a[k] = f[k].abono /\ i[k] = f[k].interes
      /\ \A k \in Nominas : b[k] = g[k].abono /\ j[k] = g[k].interes
      /\ \A k \in Nominas \ {n} : b[k] = a[k]
      /\ \A k \in Nominas \ {n} : j[k] = i[k]
      /\ b[n] = fila.abono /\ j[n] = fila.interes
  BY <1>2
<1> HIDE DEF a, i, b, j
<1>5. /\ a \in [Nominas -> Int] /\ i \in [Nominas -> Int]
      /\ b \in [Nominas -> Int] /\ j \in [Nominas -> Int] /\ IsFiniteSet(Nominas)
  BY <1>1, <1>3, NamesAssumption
<1>6. PICK A : EsSuma(A, a, Nominas)
  BY <1>5, SumaExiste
<1>7. PICK I : EsSuma(I, i, Nominas)
  BY <1>5, SumaExiste
<1>8. PICK B : EsSuma(B, b, Nominas)
  BY <1>5, SumaExiste
<1>9. PICK J : EsSuma(J, j, Nominas)
  BY <1>5, SumaExiste
<1>10. B[Nominas] = A[Nominas] + b[n] - a[n]
  <2>1. \A k \in Nominas \ {n} : b[k] = a[k]
    BY <1>4
  <2> QED BY <1>5, <1>6, <1>8, <2>1, SumaCambia
<1>11. J[Nominas] = I[Nominas] + j[n] - i[n]
  <2>1. \A k \in Nominas \ {n} : j[k] = i[k]
    BY <1>4
  <2> QED BY <1>5, <1>7, <1>9, <2>1, SumaCambia
<1>12. /\ A[Nominas] \in Nat /\ a[n] <= A[Nominas]
       /\ I[Nominas] \in Nat /\ i[n] <= I[Nominas]
  BY <1>1, <1>5, <1>6, <1>7, SumaCota
<1>13. SumaAbonos(f) = A[Nominas] /\ SumaAbonos(g) = B[Nominas]
  BY <1>4, <1>5, <1>6, <1>8, SumaAbonosEs
<1>14. SumaIntereses(f) = I[Nominas] /\ SumaIntereses(g) = J[Nominas]
  BY <1>4, <1>5, <1>7, <1>9, SumaInteresesEs
<1>15. /\ a[n] \in Nat /\ i[n] \in Nat /\ b[n] \in Nat /\ j[n] \in Nat
       /\ a[n] = f[n].abono /\ i[n] = f[n].interes
       /\ b[n] = fila.abono /\ j[n] = fila.interes
  BY <1>1, <1>3, <1>4
<1>16. /\ SumaAbonos(g) + f[n].abono = SumaAbonos(f) + fila.abono
       /\ SumaIntereses(g) + f[n].interes = SumaIntereses(f) + fila.interes
  BY <1>10, <1>11, <1>12, <1>13, <1>14, <1>15
<1> QED BY <1>12, <1>13, <1>14, <1>15, <1>16 DEF g

LEMMA SinFilas ==
  ASSUME NEW f \in [Nominas -> Filas], \A n \in Nominas : f[n] = Nada
  PROVE  SumaAbonos(f) = 0 /\ SumaIntereses(f) = 0
<1> DEFINE u == [n \in Nominas |-> 0]
           U == [T \in SUBSET Nominas |-> 0]
<1>1. u \in [Nominas -> Int] /\ EsSuma(U, u, Nominas) /\ U[Nominas] = 0
  BY DEF EsSuma
<1>2. \A n \in Nominas : u[n] = f[n].abono /\ u[n] = f[n].interes
  BY DEF Nada
<1> HIDE DEF u, U
<1> QED BY <1>1, <1>2, SumaAbonosEs, SumaInteresesEs

-----------------------------------------------------------------------------
(* The totals kept in the row                                                *)

Totales(l, f, q) == l.aplicado = q + SumaAbonos(f) /\ l.interes = SumaIntereses(f)

LEMMA TotalesSon == TotalsMatchRows <=> (Orderly => Totales(prestamo, nominas, liquidado))
BY DEF TotalsMatchRows, Totales, SumaAbonos, SumaIntereses

LEMMA SumasEnteras ==
  ASSUME NEW f \in [Nominas -> Filas]
  PROVE  SumaAbonos(f) \in Int
<1> DEFINE a == [k \in Nominas |-> f[k].abono]
<1>1. a \in [Nominas -> Int] /\ \A k \in Nominas : a[k] = f[k].abono
  BY DEF Filas
<1> HIDE DEF a
<1>2. PICK A : EsSuma(A, a, Nominas)
  BY <1>1, NamesAssumption, SumaExiste
<1>3. SumaAbonos(f) = A[Nominas]
  BY <1>1, <1>2, SumaAbonosEs
<1> QED BY <1>2, <1>3 DEF EsSuma

\* A run writes its rows in the place of none.
LEMMA TotalesCon ==
  ASSUME NEW l, NEW f \in [Nominas -> Filas], NEW q \in Nat, Totales(l, f, q),
         NEW n \in Nominas, f[n] = Nada, NEW fila \in Filas, NEW c,
         c.aplicado = l.aplicado + fila.abono, c.interes = l.interes + fila.interes
  PROVE  Totales(c, [f EXCEPT ![n] = fila], q)
<1> DEFINE g == [f EXCEPT ![n] = fila]
           sa == SumaAbonos(f)
           si == SumaIntereses(f)
<1>1. /\ sa \in Nat /\ si \in Nat
      /\ SumaAbonos(g) + f[n].abono = sa + fila.abono
      /\ SumaIntereses(g) + f[n].interes = si + fila.interes
  BY UnaFila
<1>2. f[n].abono = 0 /\ f[n].interes = 0 /\ fila.abono \in Nat /\ fila.interes \in Nat
  BY DEF Nada, Filas
<1>3. g \in [Nominas -> Filas]
  OBVIOUS
<1> HIDE DEF g
<1>4. SumaAbonos(g) \in Nat /\ SumaIntereses(g) \in Nat
  BY <1>3, UnaFila
<1>5. l.aplicado = q + sa /\ l.interes = si
  BY DEF Totales
<1> HIDE DEF sa, si
<1>6. Totales(c, g, q)
  BY <1>1, <1>2, <1>4, <1>5 DEF Totales
<1> QED BY <1>6 DEF g

\* Taking a run back takes from the totals what it added: the row holds at least
\* that much, and no max(0, ...) applies to them.
LEMMA TotalesSin ==
  ASSUME NEW l \in Columnas, NEW f \in [Nominas -> Filas], NEW q \in Nat, Totales(l, f, q),
         NEW n \in Nominas
  PROVE  Totales(Deshecho(l, f[n]), [f EXCEPT ![n] = Nada], q)
<1> DEFINE fila == f[n]
           c == Deshecho(l, fila)
           g == [f EXCEPT ![n] = Nada]
           sa == SumaAbonos(f)
           si == SumaIntereses(f)
<1>1. /\ sa \in Nat /\ si \in Nat
      /\ fila.abono \in Nat /\ fila.abono <= sa
      /\ fila.interes \in Nat /\ fila.interes <= si
      /\ SumaAbonos(g) + fila.abono = sa + Nada.abono
      /\ SumaIntereses(g) + fila.interes = si + Nada.interes
  BY NadaType, UnaFila
<1>2. Nada.abono = 0 /\ Nada.interes = 0
  BY DEF Nada
<1>3. g \in [Nominas -> Filas] /\ fila \in Filas
  BY NadaType
<1>4. /\ c \in Columnas
      /\ fila.abono <= l.aplicado => c.aplicado + fila.abono = l.aplicado
      /\ fila.interes <= l.interes => c.interes + fila.interes = l.interes
  <2> HIDE DEF fila
  <2> QED BY <1>3, DeshechoColumns
<1> HIDE DEF g, c
<1>5. SumaAbonos(g) \in Nat /\ SumaIntereses(g) \in Nat
  BY <1>3, UnaFila
<1>6. l.aplicado = q + sa /\ l.interes = si /\ c.aplicado \in Nat /\ c.interes \in Nat
  BY <1>4 DEF Totales, Columnas
<1> HIDE DEF sa, si, fila
<1>7. Totales(c, g, q)
  BY <1>1, <1>2, <1>4, <1>5, <1>6 DEF Totales
<1> QED BY <1>7 DEF g, c, fila

LEMMA TotalesCobro ==
  ASSUME TypeOK, NEW r \in Requests, prestamo = request[r].leido,
         NEW l \in Columnas, NEW f \in [Nominas -> Filas], Totales(l, f, liquidado),
         NEW n \in Nominas, f[n] = Nada,
         NEW interes \in Nat, NEW fecha \in Nat, NEW monto \in Nat, monto <= l.saldo + interes,
         Escribe(r, Cobro(l, interes, fecha, monto)),
         nominas' = [f EXCEPT ![n] = Fila(l, interes, fecha, monto)],
         liquidado' = liquidado
  PROVE  Totales(prestamo', nominas', liquidado')
<1> DEFINE c == Cobro(l, interes, fecha, monto)
           fila == Fila(l, interes, fecha, monto)
<1>1. /\ c \in Columnas /\ c.aplicado = l.aplicado + monto
      /\ c.interes = l.interes + interes
  BY CobroColumns
<1>2. fila \in Filas /\ fila.abono = monto /\ fila.interes = interes
  BY FilaColumns DEF Fila
<1>3. Escribe(r, c) /\ nominas' = [f EXCEPT ![n] = fila]
  OBVIOUS
<1> HIDE DEF c, fila
<1>4. prestamo' = c
  BY <1>1, <1>3, EscribeEntera
<1>5. c.aplicado = l.aplicado + fila.abono /\ c.interes = l.interes + fila.interes
  BY <1>1, <1>2
<1>6. Totales(c, [f EXCEPT ![n] = fila], liquidado)
  BY <1>2, <1>5, TotalesCon DEF TypeOK
<1> QED BY <1>3, <1>4, <1>6

LEMMA TotalesStep ==
  ASSUME IInv, TotalsMatchRows, Next, Orderly'
  PROVE  Totales(prestamo', nominas', liquidado')
<1> USE DEF IInv
<1>1. Orderly => Totales(prestamo, nominas, liquidado)
  BY TotalesSon
<1>2. /\ prestamo \in Columnas /\ nominas \in [Nominas -> Filas] /\ liquidado \in Nat
      /\ prestamo.aplicado \in Nat /\ prestamo.interes \in Nat
  BY DEF TypeOK, Columnas
<1>3. ASSUME UNCHANGED <<prestamo, nominas, abonos>>, Orderly
      PROVE  Totales(prestamo', nominas', liquidado')
  BY <1>1, <1>3 DEF abonos
<1>4. ASSUME NEW r \in Requests,
             \/ \E op \in Ops : Lee(r, op)
             \/ \E op \in {"anular", "recalcular"}, n \in Nominas : LeeNomina(r, op, n)
             \/ Fails(r)
      PROVE  Totales(prestamo', nominas', liquidado')
  BY <1>3, <1>4 DEF Lee, LeeNomina, Begin, Fails, End, Orderly
<1>5. ASSUME NEW r \in Requests, End(r, Stale(r))
      PROVE  prestamo = request[r].leido /\ Totales(prestamo, nominas, liquidado)
  BY <1>1, <1>5, InOrder
<1>6. ASSUME NEW r \in Requests, Enviar(r) \/ Rechazar(r) \/ Cancelar(r)
      PROVE  Totales(prestamo', nominas', liquidado')
  <2>1. End(r, Stale(r)) /\ UNCHANGED <<nominas, liquidado>>
    BY <1>6 DEF Enviar, Rechazar, Cancelar, abonos
  <2>2. PICK e \in Estados : Escribe(r, [prestamo EXCEPT !.estado = e])
    BY <1>5, <1>6, <2>1 DEF Enviar, Rechazar, Cancelar, Estados
  <2> DEFINE nuevo == [prestamo EXCEPT !.estado = e]
  <2>3. /\ nuevo \in Columnas /\ nuevo.aplicado = prestamo.aplicado
        /\ nuevo.interes = prestamo.interes
    BY <1>2 DEF Columnas
  <2> HIDE DEF nuevo
  <2>4. Escribe(r, nuevo)
    BY <2>2 DEF nuevo
  <2>5. prestamo' = nuevo
    BY <1>5, <2>1, <2>3, <2>4, EscribeEntera
  <2> QED BY <1>5, <2>1, <2>3, <2>5 DEF Totales
<1>7. ASSUME NEW r \in Requests, Aprobar(r)
      PROVE  Totales(prestamo', nominas', liquidado')
  <2>1. End(r, Stale(r)) /\ UNCHANGED <<nominas, liquidado>> /\ request[r].op = "resolver"
    BY <1>7 DEF Aprobar, abonos
  <2>2. prestamo = request[r].leido /\ Totales(prestamo, nominas, liquidado) /\ Orderly
    BY <1>5, <2>1, InOrder
  <2>3. PICK monto \in Montos, fecha \in Fechas : Escribe(r, Aprobado(prestamo, monto, fecha))
    BY <1>7, <2>2 DEF Aprobar
  <2> DEFINE nuevo == Aprobado(prestamo, monto, fecha)
  <2>4. nuevo \in Columnas /\ nuevo.aplicado = prestamo.aplicado /\ nuevo.interes = 0
    BY <1>2, BoundsAssumption DEF Aprobado, Columnas, Estados, Montos, Fechas
  <2> HIDE DEF nuevo
  <2>5. Escribe(r, nuevo)
    BY <2>3 DEF nuevo
  <2>6. prestamo' = nuevo
    BY <2>2, <2>4, <2>5, EscribeEntera
  <2>7. SumaIntereses(nominas) = 0
    <3>1. prestamo.estado \in {"draft", "pending"}
      BY <2>1, <2>2 DEF LeidoInv
    <3>2. \A n \in Nominas : nominas[n] = Nada
      BY <2>2, <3>1 DEF SinMovimientos
    <3> QED BY <1>2, <3>2, SinFilas
  <2> QED BY <2>1, <2>2, <2>4, <2>6, <2>7 DEF Totales
<1>8. ASSUME NEW r \in Requests, PagoExtraordinario(r) \/ Condonacion(r)
      PROVE  Totales(prestamo', nominas', liquidado')
  <2>1. End(r, Stale(r)) /\ UNCHANGED <<nominas, liquidado>>
    BY <1>8 DEF PagoExtraordinario, Condonacion
  <2>2. PICK monto \in 1 .. prestamo.saldo : Escribe(r, ConAbono(prestamo, monto))
    BY <1>5, <1>8, <2>1 DEF PagoExtraordinario, Condonacion
  <2> DEFINE nuevo == ConAbono(prestamo, monto)
  <2>3. /\ nuevo \in Columnas /\ nuevo.aplicado = prestamo.aplicado
        /\ nuevo.interes = prestamo.interes
    BY <1>2, ConAbonoColumns
  <2> HIDE DEF nuevo
  <2>4. Escribe(r, nuevo)
    BY <2>2 DEF nuevo
  <2>5. prestamo' = nuevo
    BY <1>5, <2>1, <2>3, <2>4, EscribeEntera
  <2> QED BY <1>5, <2>1, <2>3, <2>5 DEF Totales
<1>9. ASSUME NEW r \in Requests, Liquidar(r)
      PROVE  Totales(prestamo', nominas', liquidado')
  <2>1. End(r, Stale(r)) /\ nominas' = nominas
    BY <1>9 DEF Liquidar
  <2>2. PICK monto \in 1 .. prestamo.saldo :
          Escribe(r, ConPago(prestamo, monto)) /\ liquidado' = liquidado + monto
    BY <1>5, <1>9, <2>1 DEF Liquidar
  <2> DEFINE nuevo == ConPago(prestamo, monto)
  <2>3. monto \in Nat /\ monto <= prestamo.saldo
    BY <1>2 DEF Columnas
  <2>4. /\ nuevo \in Columnas /\ nuevo.aplicado = prestamo.aplicado + monto
        /\ nuevo.interes = prestamo.interes
    BY <1>2, <2>3, ConPagoColumns
  <2> HIDE DEF nuevo
  <2>5. Escribe(r, nuevo)
    BY <2>2 DEF nuevo
  <2>6. prestamo' = nuevo
    BY <1>5, <2>1, <2>4, <2>5, EscribeEntera
  <2> DEFINE sa == SumaAbonos(nominas)
  <2>7. sa \in Int
    BY <1>2, SumasEnteras
  <2>8. prestamo.aplicado = liquidado + sa /\ prestamo.interes = SumaIntereses(nominas)
    BY <1>5, <2>1 DEF Totales
  <2> HIDE DEF sa
  <2>9. prestamo'.aplicado = liquidado' + sa
    BY <1>2, <2>2, <2>3, <2>4, <2>6, <2>7, <2>8
  <2> QED BY <2>1, <2>4, <2>6, <2>8, <2>9 DEF Totales, sa
<1>10. ASSUME NEW r \in Requests, NEW n \in Nominas, Nomina(r, n)
       PROVE  Totales(prestamo', nominas', liquidado')
  <2>1. End(r, Stale(r)) /\ liquidado' = liquidado /\ nominas[n] = Nada
    BY <1>10 DEF Nomina, abonos, Libre
  <2>2. PICK fecha \in Fechas : \E interes \in Intereses(prestamo, fecha) :
          \E monto \in 0 .. prestamo.saldo + interes :
            /\ Escribe(r, Cobro(prestamo, interes, fecha, monto))
            /\ nominas' = [nominas EXCEPT ![n] = Fila(prestamo, interes, fecha, monto)]
    BY <1>5, <1>10, <2>1 DEF Nomina
  <2>3. PICK interes \in Intereses(prestamo, fecha) :
          \E monto \in 0 .. prestamo.saldo + interes :
            /\ Escribe(r, Cobro(prestamo, interes, fecha, monto))
            /\ nominas' = [nominas EXCEPT ![n] = Fila(prestamo, interes, fecha, monto)]
    BY <2>2
  <2>4. PICK monto \in 0 .. prestamo.saldo + interes :
          /\ Escribe(r, Cobro(prestamo, interes, fecha, monto))
          /\ nominas' = [nominas EXCEPT ![n] = Fila(prestamo, interes, fecha, monto)]
    BY <2>3
  <2>5. fecha \in Nat /\ interes \in Nat /\ prestamo.saldo \in Nat
    BY <1>2, BoundsAssumption DEF Fechas, Intereses, Columnas
  <2>6. monto \in Nat /\ monto <= prestamo.saldo + interes
    BY <2>5
  <2> QED BY <1>2, <1>5, <2>1, <2>4, <2>5, <2>6, TotalesCobro
<1>11. ASSUME NEW r \in Requests, Anular(r) \/ RecalcularSinCobro(r)
       PROVE  Totales(prestamo', nominas', liquidado')
  <2> DEFINE n == request[r].n
             fila == request[r].fila
             c == Deshecho(prestamo, fila)
  <2>1. /\ request[r].op \in {"anular", "recalcular"}
        /\ Escribe(r, Deshecho(request[r].leido, fila))
        /\ nominas' = [nominas EXCEPT ![n] = Nada]
        /\ End(r, Stale(r) \cup Takeback(r)) /\ liquidado' = liquidado
    BY <1>11 DEF Anular, RecalcularSinCobro, abonos
  <2>2. /\ prestamo = request[r].leido /\ Orderly
        /\ n \in Nominas /\ nominas[n] = fila /\ c \in Columnas
    BY <2>1, Devuelve
  <2>3. prestamo' = c
    BY <2>1, <2>2, EscribeEntera
  <2>4. Totales(Deshecho(prestamo, nominas[n]), [nominas EXCEPT ![n] = Nada], liquidado)
    BY <1>1, <1>2, <2>2, TotalesSin
  <2> QED BY <2>1, <2>2, <2>3, <2>4
<1>12. ASSUME NEW r \in Requests, NEW m \in Nominas, Recalcular(r, m)
       PROVE  Totales(prestamo', nominas', liquidado')
  <2> DEFINE n == request[r].n
             fila == request[r].fila
             l == Deshecho(prestamo, fila)
             fecha == fila.fecha
             resto == [nominas EXCEPT ![n] = Nada]
  <2>1. /\ request[r].op \in {"anular", "recalcular"}
        /\ End(r, Stale(r) \cup Takeback(r)) /\ liquidado' = liquidado
        /\ nominas[m] = Nada /\ m # n
    BY <1>12 DEF Recalcular, abonos, Libre
  <2>2. /\ prestamo = request[r].leido /\ Orderly
        /\ n \in Nominas /\ nominas[n] = fila /\ fila \in Filas /\ l \in Columnas
    BY <2>1, Devuelve
  <2>3. PICK interes \in Intereses(l, fecha) : \E monto \in 1 .. l.saldo :
          /\ Escribe(r, Cobro(l, interes, fecha, monto))
          /\ nominas' = [nominas EXCEPT ![n] = Nada,
                                        ![m] = Fila(l, interes, fecha, monto)]
    BY <1>12, <2>2 DEF Recalcular
  <2>4. PICK monto \in 1 .. l.saldo :
          /\ Escribe(r, Cobro(l, interes, fecha, monto))
          /\ nominas' = [nominas EXCEPT ![n] = Nada,
                                        ![m] = Fila(l, interes, fecha, monto)]
    BY <2>3
  <2>5. nominas' = [resto EXCEPT ![m] = Fila(l, interes, fecha, monto)]
    BY <2>4
  <2>6. Totales(l, resto, liquidado)
    BY <1>1, <1>2, <2>2, TotalesSin
  <2>7. resto \in [Nominas -> Filas] /\ resto[m] = Nada
    BY <1>2, <2>1, <2>2, NadaType
  <2>8. fecha \in Nat /\ interes \in Nat /\ l.saldo \in Nat
    BY <2>2, BoundsAssumption DEF Intereses, Columnas, Filas
  <2> HIDE DEF l, resto, fecha
  <2>9. monto \in Nat /\ monto <= l.saldo + interes
    BY <2>8
  <2>10. Escribe(r, Cobro(l, interes, fecha, monto)) /\ TypeOK /\ liquidado' = liquidado
    BY <2>1, <2>4
  <2>11. prestamo = request[r].leido /\ l \in Columnas
    BY <2>2
  <2> HIDE DEF IInv
  <2> QED BY <2>5, <2>6, <2>7, <2>8, <2>9, <2>10, <2>11, TotalesCobro
<1> QED BY <1>4, <1>6, <1>7, <1>8, <1>9, <1>10, <1>11, <1>12 DEF Next

\* The totals in the row of a loan are the sums of the rows its runs and
\* settlements left, through voidings and recalculations in any order, and no
\* max(0, ...) of a rollback ever applies to them.
THEOREM TotalsAreSums == Spec => []TotalsMatchRows
<1>1. Init => TotalsMatchRows
  <2> SUFFICES ASSUME Init PROVE Totales(prestamo, nominas, liquidado)
    BY TotalesSon
  <2>1. nominas \in [Nominas -> Filas] /\ \A n \in Nominas : nominas[n] = Nada
    BY NadaType DEF Init
  <2>2. SumaAbonos(nominas) = 0 /\ SumaIntereses(nominas) = 0
    BY <2>1, SinFilas
  <2> QED BY <2>2 DEF Init, Totales
<1>2. IInv /\ TotalsMatchRows /\ [Next]_vars => TotalsMatchRows'
  <2> SUFFICES ASSUME IInv, TotalsMatchRows, [Next]_vars
               PROVE  TotalsMatchRows'
    OBVIOUS
  <2>1. ASSUME Orderly' PROVE Totales(prestamo', nominas', liquidado')
    <3>1. CASE Next
      BY <2>1, <3>1, TotalesStep
    <3>2. CASE UNCHANGED vars
      BY <2>1, <3>2, TotalesSon DEF vars, abonos, Orderly
    <3> QED BY <3>1, <3>2
  <2>2. (TotalsMatchRows <=> (Orderly => Totales(prestamo, nominas, liquidado)))'
    BY TotalesSon, PTL
  <2> QED BY <2>1, <2>2
<1> QED BY <1>1, <1>2, Inductive, PTL DEF Spec
=============================================================================
