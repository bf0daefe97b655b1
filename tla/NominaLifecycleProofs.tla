------------------------- MODULE NominaLifecycleProofs -------------------------
(***************************************************************************)
(* What NominaLifecycle guarantees for any number of requests, periods and *)
(* nominas, and whatever the bounds.                                       *)
(***************************************************************************)
EXTENDS NominaLifecycle, FiniteSetTheorems, TLAPS

-----------------------------------------------------------------------------
(* Types                                                                     *)

\* What a request knows, by the operation it is doing.
LEMMA RequestFields ==
  ASSUME TypeOK, NEW r \in Requests
  PROVE  /\ request[r].op \in Ops \cup {"reemplazar"} =>
              request[r].n \in Nominas /\ request[r].visto \in Estados
         /\ request[r].op = "ejecutar" => request[r].periodo \in Periodos
         /\ request[r].op = "reemplazar" => request[r].m \in Nominas
<1>1. request[r] \in RequestType
  BY DEF TypeOK
<1> QED BY <1>1 DEF RequestType, Ops, Idle

\* End and Begin keep the type of what the requests do.
LEMMA TypeEnd ==
  ASSUME TypeOK, NEW r \in Requests, End(r)
  PROVE  request' \in [Requests -> RequestType] /\ operations' \in 0 .. MaxOperations
BY DEF TypeOK, End, RequestType, Idle

LEMMA TypeBegin ==
  ASSUME TypeOK, NEW r \in Requests, NEW operation \in RequestType, Begin(r, operation)
  PROVE  request' \in [Requests -> RequestType] /\ operations' \in 0 .. MaxOperations
BY BoundsAssumption DEF TypeOK, Begin

LEMMA TypeLeer ==
  ASSUME TypeOK, NEW r \in Requests, NEW n \in Nominas, NEW op \in Ops, Leer(r, op, n)
  PROVE  TypeOK'
<1>1. [op |-> op, n |-> n, visto |-> Estado(n)] \in RequestType
  BY DEF TypeOK, NominaType, Estado, RequestType
<1>2. request' \in [Requests -> RequestType] /\ operations' \in 0 .. MaxOperations
  BY <1>1, TypeBegin DEF Leer
<1> QED BY <1>2 DEF TypeOK, Leer, books, vacations, locks

LEMMA TypeRecord ==
  ASSUME TypeOK, NEW incidente \in Incidentes, NEW happened \in BOOLEAN,
         Record(incidente, happened)
  PROVE  incidentes' \in SUBSET Incidentes
BY DEF TypeOK, Record

LEMMA TypeNewNomina ==
  ASSUME NEW p \in Periodos, NEW estado \in Estados, NEW background \in BOOLEAN,
         NEW posted \in BOOLEAN
  PROVE  NewNomina(p, estado, background, posted) \in NominaType
BY DEF NewNomina, NominaType

LEMMA TypeTake ==
  ASSUME NEW x \in 0 .. MaxPostings, NEW had
  PROVE  Take(x, had) \in 0 .. MaxPostings
BY BoundsAssumption DEF Take, Subtract

\* Every value of every variable stays of its type.
THEOREM TypeCorrect == Spec => []TypeOK
<1>1. Init => TypeOK
  BY BoundsAssumption DEF Init, TypeOK, NominaType, Estados, RequestType, Incidentes
<1>2. TypeOK /\ [Next]_vars => TypeOK'
  <2> SUFFICES ASSUME TypeOK, [Next]_vars PROVE TypeOK'
    OBVIOUS
  <2>1. ASSUME NEW r \in Requests, NEW p \in Periodos, EjecutarValida(r, p) PROVE TypeOK'
    <3>1. [op |-> "ejecutar", periodo |-> p] \in RequestType
      BY DEF RequestType
    <3> QED BY <2>1, <3>1, TypeBegin DEF EjecutarValida, TypeOK, books, vacations
  <2>2. ASSUME NEW r \in Requests, NEW p \in Periodos, EjecutarEnBackground(r, p) PROVE TypeOK'
    <3>1. PICK n \in Fresh :
            /\ nomina' = [nomina EXCEPT ![n] = NewNomina(p, "calculating", TRUE, FALSE)]
            /\ Begin(r, [op |-> "encolar", n |-> n, visto |-> "calculating"])
      BY <2>2 DEF EjecutarEnBackground
    <3>2. n \in Nominas
      BY DEF Fresh
    <3>3. [op |-> "encolar", n |-> n, visto |-> "calculating"] \in RequestType
      BY <3>2 DEF RequestType, Ops, Estados
    <3>4. NewNomina(p, "calculating", TRUE, FALSE) \in NominaType
      BY TypeNewNomina DEF Estados
    <3>5. nomina' \in [Nominas -> NominaType]
      BY <3>1, <3>4 DEF TypeOK
    <3> QED BY <2>2, <3>1, <3>3, <3>5, TypeBegin
            DEF EjecutarEnBackground, TypeOK, books, vacations, locks
  <2>3. ASSUME NEW r \in Requests, NEW n \in Nominas,
               \/ AprobarLee(r, n) \/ AnularLee(r, n) \/ VacacionesLee(r, n)
               \/ ReintentarLee(r, n) \/ RecalcularLee(r, n)
        PROVE  TypeOK'
    <3>1. \E op \in Ops : Leer(r, op, n)
      BY <2>3 DEF AprobarLee, AnularLee, VacacionesLee, ReintentarLee, RecalcularLee, Ops
    <3> QED BY <3>1, TypeLeer
  <2>4. ASSUME NEW r \in Requests, NEW n \in Nominas, AplicarBloquea(r, n) PROVE TypeOK'
    <3>1. [op |-> "aplicar", n |-> n, visto |-> "approved"] \in RequestType
      BY DEF RequestType, Ops, Estados
    <3> QED BY <2>4, <3>1, TypeBegin DEF AplicarBloquea, TakeRowLock, TypeOK, books, vacations
  <2>5. ASSUME NEW r \in Requests, EjecutarCommit(r) PROVE TypeOK'
    <3>1. PICK n \in Fresh, ok \in BOOLEAN :
            /\ ok => CanPost
            /\ nomina' = [nomina EXCEPT ![n] =
                 NewNomina(request[r].periodo, IF ok THEN "generated" ELSE "error", FALSE, ok)]
            /\ acumulado' = IF ok THEN acumulado + 1 ELSE acumulado
            /\ pagado' = IF ok THEN pagado + 1 ELSE pagado
      BY <2>5 DEF EjecutarCommit
    <3>2. NewNomina(request[r].periodo, IF ok THEN "generated" ELSE "error", FALSE, ok) \in NominaType
      BY <2>5, RequestFields, TypeNewNomina DEF EjecutarCommit, Estados
    <3>3. nomina' \in [Nominas -> NominaType]
      BY <3>1, <3>2 DEF TypeOK
    <3>4. acumulado' \in 0 .. MaxPostings /\ pagado' \in 0 .. MaxPostings
      BY <3>1, BoundsAssumption DEF TypeOK, CanPost
    <3> QED BY <2>5, <3>3, <3>4, TypeEnd DEF EjecutarCommit, TypeOK, vacations
  <2>6. ASSUME NEW r \in Requests, Encolar(r) PROVE TypeOK'
    BY <2>6, TypeEnd DEF Encolar, TypeOK, books, vacations, locks
  <2>7. ASSUME NEW r \in Requests,
               EncolarFalla(r) \/ Aprobar(r) \/ Anular(r) \/ Vacaciones(r) \/ Reintentar(r)
                 \/ Reemplazar(r)
        PROVE  TypeOK'
    <3> DEFINE n == request[r].n
    <3>1. n \in Nominas /\ request[r].op \in Ops \cup {"reemplazar"}
      BY <2>7, RequestFields DEF EncolarFalla, Aprobar, Anular, Vacaciones, Reintentar,
           Reemplazar, Escribe, Ops
    <3>2. nomina' \in [Nominas -> NominaType]
      <4>1. CASE EncolarFalla(r) \/ Aprobar(r) \/ Anular(r) \/ Reemplazar(r)
        BY <3>1, <4>1 DEF EncolarFalla, Aprobar, Anular, Reemplazar, TypeOK, NominaType, Estados
      <4>2. CASE Reintentar(r)
        <5>1. NewNomina(nomina[n].periodo, "calculating", TRUE, FALSE) \in NominaType
          BY <3>1, TypeNewNomina DEF TypeOK, NominaType, Estados
        <5> QED BY <3>1, <4>2, <5>1 DEF Reintentar, TypeOK
      <4>3. CASE Vacaciones(r)
        BY <4>3 DEF Vacaciones, TypeOK
      <4> QED BY <2>7, <4>1, <4>2, <4>3
    <3>3. acumulado' \in 0 .. MaxPostings /\ pagado' \in 0 .. MaxPostings
      <4>1. CASE Anular(r)
        BY <4>1, TypeTake DEF Anular, TypeOK
      <4>2. CASE ~Anular(r)
        BY <2>7, <4>2 DEF EncolarFalla, Aprobar, Vacaciones, Reintentar, Reemplazar, books, TypeOK
      <4> QED BY <4>1, <4>2
    <3>4. vacacion' \in {"approved", "applied"} /\ puentes' \in SUBSET Nominas
      <4>1. Reemplazar(r) => request[r].m \in Nominas
        BY RequestFields DEF Reemplazar, Escribe
      <4> QED BY <2>7, <3>1, <4>1 DEF EncolarFalla, Aprobar, Anular, Vacaciones, Reintentar,
           Reemplazar, Relink, vacations, TypeOK
    <3>5. incidentes' \in SUBSET Incidentes
      BY <2>7 DEF EncolarFalla, Aprobar, Anular, Vacaciones, Reintentar, Reemplazar, Record,
           TypeOK, Incidentes
    <3>6. End(r) /\ UNCHANGED <<ejecutadas, locks>>
      BY <2>7 DEF EncolarFalla, Aprobar, Anular, Vacaciones, Reintentar, Reemplazar
    <3> QED BY <3>2, <3>3, <3>4, <3>5, <3>6, TypeEnd DEF TypeOK, locks
  <2>8. ASSUME NEW r \in Requests, Aplicar(r) PROVE TypeOK'
    <3>1. request[r].n \in Nominas
      BY <2>8, RequestFields DEF Aplicar, Ops
    <3>2. nomina' \in [Nominas -> NominaType] /\ ejecutadas' \in SUBSET Periodos
      BY <2>8, <3>1 DEF Aplicar, EjecutaPeriod, TypeOK, NominaType, Estados
    <3>3. rowLock' \in [Nominas -> Requests \cup {"nobody"}]
      BY <2>8 DEF Aplicar, TypeOK
    <3> QED BY <2>8, <3>2, <3>3, TypeEnd DEF Aplicar, TypeOK, books, vacations
  <2>9. ASSUME NEW r \in Requests, Recalcular(r) PROVE TypeOK'
    <3> DEFINE n == request[r].n
    <3>1. n \in Nominas /\ request[r].visto \in Estados
      BY <2>9, RequestFields DEF Recalcular, Ops
    <3>2. PICK m \in Fresh, ok \in BOOLEAN :
            /\ nomina' = [nomina EXCEPT ![n].abonos = FALSE, ![m] =
                 NewNomina(nomina[n].periodo, IF ok THEN "generated" ELSE "error", FALSE, ok)]
            /\ acumulado' = TakeBackOld(acumulado, nomina[n].filas) + (IF ok THEN 1 ELSE 0)
            /\ pagado' = TakeBackOld(pagado, nomina[n].abonos) + (IF ok THEN 1 ELSE 0)
            /\ acumulado' <= MaxPostings /\ pagado' <= MaxPostings
            /\ request' = [request EXCEPT ![r] =
                 [op |-> "reemplazar", n |-> n, m |-> m, visto |-> request[r].visto]]
      BY <2>9 DEF Recalcular
    <3>3. m \in Nominas
      BY DEF Fresh
    <3>4. NewNomina(nomina[n].periodo, IF ok THEN "generated" ELSE "error", FALSE, ok) \in NominaType
      <4>1. nomina[n].periodo \in Periodos
        BY <3>1 DEF TypeOK, NominaType
      <4>2. (IF ok THEN "generated" ELSE "error") \in Estados
        BY DEF Estados
      <4> QED BY <4>1, <4>2, TypeNewNomina
    <3>5. nomina' \in [Nominas -> NominaType]
      <4> DEFINE new == NewNomina(nomina[n].periodo, IF ok THEN "generated" ELSE "error", FALSE, ok)
                 half == [nomina EXCEPT ![n].abonos = FALSE]
      <4>1. half \in [Nominas -> NominaType]
        BY <3>1 DEF TypeOK, NominaType
      <4>2. new \in NominaType
        BY <3>4
      <4>3. nomina' = [half EXCEPT ![m] = new]
        BY <3>2
      <4> HIDE DEF new, half
      <4> QED BY <4>1, <4>2, <4>3
    <3>6. acumulado' \in 0 .. MaxPostings /\ pagado' \in 0 .. MaxPostings
      <4> DEFINE a == TakeBackOld(acumulado, nomina[n].filas)
                 b == TakeBackOld(pagado, nomina[n].abonos)
                 one == IF ok THEN 1 ELSE 0
      <4>1. a \in 0 .. MaxPostings /\ b \in 0 .. MaxPostings
        BY TypeTake DEF TypeOK, TakeBackOld
      <4>2. acumulado' = a + one /\ pagado' = b + one /\ one \in {0, 1}
        BY <3>2
      <4>3. acumulado' <= MaxPostings /\ pagado' <= MaxPostings
        BY <3>2
      <4> HIDE DEF a, b, one
      <4> QED BY <4>1, <4>2, <4>3, BoundsAssumption
    <3>7. request' \in [Requests -> RequestType]
      <4>1. [op |-> "reemplazar", n |-> n, m |-> m, visto |-> request[r].visto] \in RequestType
        BY <3>1, <3>3 DEF RequestType
      <4> QED BY <3>2, <4>1 DEF TypeOK
    <3>8. incidentes' \in SUBSET Incidentes
      BY <2>9 DEF Recalcular, TypeOK, Incidentes
    <3> QED BY <2>9, <3>5, <3>6, <3>7, <3>8 DEF Recalcular, TypeOK, vacations, locks
  <2>10. ASSUME NEW r \in Requests, Fails(r) PROVE TypeOK'
    <3>1. incidentes' \in SUBSET Incidentes
      BY <2>10 DEF Fails, Record, TypeOK, Incidentes
    <3> QED BY <2>10, <3>1, TypeEnd DEF Fails, TypeOK, books, vacations
  <2>11. ASSUME NEW n \in Nominas, JobFinish(n) PROVE TypeOK'
    <3>1. PICK estado \in {"generated", "generated_with_errors", "error"}, posted \in BOOLEAN :
            /\ posted => CanPost
            /\ nomina' = [nomina EXCEPT ![n].estado = estado, ![n].filas = posted,
                                       ![n].abonos = posted]
            /\ acumulado' = IF posted THEN acumulado + 1 ELSE acumulado
            /\ pagado' = IF posted THEN pagado + 1 ELSE pagado
      BY <2>11 DEF JobFinish
    <3>2. nomina' \in [Nominas -> NominaType]
      <4> DEFINE new == [nomina[n] EXCEPT !.estado = estado, !.filas = posted, !.abonos = posted]
      <4>1. new \in NominaType
        BY DEF TypeOK, NominaType, Estados
      <4>2. nomina' = [nomina EXCEPT ![n] = new]
        BY <3>1 DEF TypeOK
      <4> HIDE DEF new
      <4> QED BY <4>1, <4>2 DEF TypeOK
    <3>3. acumulado' \in 0 .. MaxPostings /\ pagado' \in 0 .. MaxPostings
      BY <3>1, BoundsAssumption DEF TypeOK, CanPost
    <3> QED BY <2>11, <3>2, <3>3 DEF JobFinish, TypeOK, vacations, locks
  <2>12. CASE UNCHANGED vars
    BY <2>12 DEF TypeOK, vars, books, vacations, locks
  <2> QED
    BY <2>1, <2>2, <2>3, <2>4, <2>5, <2>6, <2>7, <2>8, <2>9, <2>10, <2>11, <2>12 DEF Next
<1> QED BY <1>1, <1>2, PTL DEF Spec

-----------------------------------------------------------------------------
(* Who changes the estado of a nomina                                        *)

\* The handlers that test estado without a lock and later write the row.
Writes(r) ==
  EncolarFalla(r) \/ Aprobar(r) \/ Anular(r) \/ Reintentar(r) \/ Reemplazar(r)

\* An estado changes because aplicar_nomina commits, because a handler without
\* a lock writes it (and records whether it was overtaken), because the job
\* ends, or because the nomina is created.
LEMMA EstadoChanges ==
  ASSUME TypeOK, [Next]_vars, NEW n \in Nominas, Estado(n)' # Estado(n)
  PROVE  \/ \E r \in Requests : Aplicar(r) /\ request[r].n = n
         \/ /\ Estado(n)' # "applied" /\ rowLock[n] = "nobody"
            /\ \E r \in Requests : Writes(r) /\ request[r].n = n
         \/ Estado(n)' # "applied" /\ rowLock[n] = "nobody" /\ Estado(n) = "calculating"
         \/ Estado(n)' # "applied" /\ Estado(n) = "none"
<1> USE DEF TypeOK, NominaType
<1>1. ASSUME NEW r \in Requests, NEW p \in Periodos,
             EjecutarValida(r, p) \/ EjecutarEnBackground(r, p)
      PROVE  Estado(n)' # "applied" /\ Estado(n) = "none"
  <2>1. CASE EjecutarValida(r, p)
    BY <2>1 DEF EjecutarValida, Estado
  <2>2. CASE EjecutarEnBackground(r, p)
    <3>1. PICK k \in Fresh :
            nomina' = [nomina EXCEPT ![k] = NewNomina(p, "calculating", TRUE, FALSE)]
      BY <2>2 DEF EjecutarEnBackground
    <3> QED BY <3>1 DEF NewNomina, Estado, Fresh
  <2> QED BY <1>1, <2>1, <2>2
<1>2. ASSUME NEW r \in Requests, NEW k \in Nominas,
             \/ AprobarLee(r, k) \/ AplicarBloquea(r, k) \/ AnularLee(r, k)
             \/ VacacionesLee(r, k) \/ ReintentarLee(r, k) \/ RecalcularLee(r, k)
      PROVE  FALSE
  BY <1>2 DEF AprobarLee, AplicarBloquea, AnularLee, VacacionesLee, ReintentarLee,
              RecalcularLee, Leer, Estado
<1>3. ASSUME NEW r \in Requests, EjecutarCommit(r)
      PROVE  Estado(n)' # "applied" /\ Estado(n) = "none"
  <2>1. PICK k \in Fresh, ok \in BOOLEAN :
          nomina' = [nomina EXCEPT ![k] =
            NewNomina(request[r].periodo, IF ok THEN "generated" ELSE "error", FALSE, ok)]
    BY <1>3 DEF EjecutarCommit
  <2> QED BY <2>1 DEF NewNomina, Estado, Fresh
<1>4. ASSUME NEW r \in Requests, Recalcular(r)
      PROVE  Estado(n)' # "applied" /\ Estado(n) = "none"
  <2>1. PICK m \in Fresh, ok \in BOOLEAN :
          nomina' = [nomina EXCEPT ![request[r].n].abonos = FALSE, ![m] =
            NewNomina(nomina[request[r].n].periodo, IF ok THEN "generated" ELSE "error", FALSE, ok)]
    BY <1>4 DEF Recalcular
  <2>2. request[r].n \in Nominas
    BY <1>4, RequestFields DEF Recalcular, Ops
  <2>3. n # m => nomina'[n].estado = nomina[n].estado
    BY <2>1, <2>2
  <2> QED BY <2>1, <2>2, <2>3 DEF NewNomina, Estado, Fresh
<1>5. ASSUME NEW r \in Requests, Encolar(r) \/ Vacaciones(r) \/ Fails(r)
      PROVE  FALSE
  BY <1>5 DEF Encolar, Vacaciones, Fails, Estado
<1>6. ASSUME NEW r \in Requests, Aplicar(r)
      PROVE  request[r].n = n
  <2>1. request[r].n \in Nominas
    BY <1>6, RequestFields DEF Aplicar, Ops
  <2> QED BY <1>6, <2>1 DEF Aplicar, Estado
<1>7. ASSUME NEW r \in Requests, Writes(r)
      PROVE  /\ request[r].n = n
             /\ Estado(n)' # "applied" /\ rowLock[n] = "nobody"
  <2>1. request[r].n \in Nominas /\ rowLock[request[r].n] = "nobody"
    BY <1>7, RequestFields DEF Writes, EncolarFalla, Aprobar, Anular, Reintentar, Reemplazar,
         Escribe, Ops
  <2>2. CASE EncolarFalla(r) \/ Aprobar(r) \/ Anular(r) \/ Reemplazar(r)
    BY <2>1, <2>2 DEF EncolarFalla, Aprobar, Anular, Reemplazar, Estado
  <2>3. CASE Reintentar(r)
    BY <2>1, <2>3 DEF Reintentar, NewNomina, Estado
  <2> QED BY <1>7, <2>2, <2>3 DEF Writes
<1>8. ASSUME NEW k \in Nominas, JobFinish(k)
      PROVE  Estado(n)' # "applied" /\ rowLock[n] = "nobody" /\ Estado(n) = "calculating"
  BY <1>8 DEF JobFinish, Estado
<1>9. CASE UNCHANGED vars
  BY <1>9 DEF vars, Estado
<1> QED
  BY <1>1, <1>2, <1>3, <1>4, <1>5, <1>6, <1>7, <1>8, <1>9 DEF Next, Writes

-----------------------------------------------------------------------------
(* The row lock of aplicar_nomina                                            *)

\* A request that is applying holds the lock of a nomina that is APROBADO.
ApplyLock ==
  \A r \in Requests :
    request[r].op = "aplicar" =>
      rowLock[request[r].n] = r /\ Estado(request[r].n) = "approved"

\* A request is applying because it took the lock, now or earlier.
LEMMA RequestApplying ==
  ASSUME TypeOK, [Next]_vars, NEW r \in Requests, request'[r].op = "aplicar"
  PROVE  request'[r] = request[r] \/ \E n \in Nominas : AplicarBloquea(r, n)
<1> USE DEF TypeOK
<1>1. ASSUME NEW q \in Requests, NEW p \in Periodos,
             EjecutarValida(q, p) \/ EjecutarEnBackground(q, p)
      PROVE  request'[r] = request[r]
  <2>1. CASE EjecutarValida(q, p)
    BY <2>1 DEF EjecutarValida, Begin
  <2>2. CASE EjecutarEnBackground(q, p)
    <3>1. PICK n \in Fresh : Begin(q, [op |-> "encolar", n |-> n, visto |-> "calculating"])
      BY <2>2 DEF EjecutarEnBackground
    <3> QED BY <3>1 DEF Begin
  <2> QED BY <1>1, <2>1, <2>2
<1>2. ASSUME NEW q \in Requests, NEW k \in Nominas,
             \/ AprobarLee(q, k) \/ AnularLee(q, k) \/ VacacionesLee(q, k)
             \/ ReintentarLee(q, k) \/ RecalcularLee(q, k)
      PROVE  request'[r] = request[r]
  BY <1>2 DEF AprobarLee, AnularLee, VacacionesLee, ReintentarLee, RecalcularLee, Leer, Begin
<1>3. ASSUME NEW q \in Requests, NEW k \in Nominas, AplicarBloquea(q, k)
      PROVE  request'[r] = request[r] \/ q = r
  BY <1>3 DEF AplicarBloquea, Begin
<1>4. ASSUME NEW q \in Requests,
             \/ EjecutarCommit(q) \/ Encolar(q) \/ EncolarFalla(q) \/ Aprobar(q)
             \/ Aplicar(q) \/ Anular(q) \/ Vacaciones(q) \/ Reintentar(q) \/ Reemplazar(q)
             \/ Fails(q)
      PROVE  request'[r] = request[r]
  <2>1. End(q)
    BY <1>4 DEF EjecutarCommit, Encolar, EncolarFalla, Aprobar, Aplicar, Anular, Vacaciones,
         Reintentar, Reemplazar, Fails
  <2> QED BY <2>1 DEF End, Idle
<1>5. ASSUME NEW q \in Requests, Recalcular(q)
      PROVE  request'[r] = request[r]
  BY <1>5 DEF Recalcular
<1>6. CASE UNCHANGED request
  BY <1>6
<1>7. (\E n \in Nominas : JobFinish(n)) \/ UNCHANGED vars => UNCHANGED request
  BY DEF JobFinish, vars
<1> QED BY <1>1, <1>2, <1>3, <1>4, <1>5, <1>6, <1>7 DEF Next

\* The row lock of a nomina changes hands only by way of aplicar_nomina, or
\* because the request that holds it fails.
LEMMA RowLockChanges ==
  ASSUME TypeOK, [Next]_vars, NEW n \in Nominas, rowLock'[n] # rowLock[n]
  PROVE  \/ rowLock[n] = "nobody"
         \/ \E r \in Requests : Aplicar(r) /\ request[r].n = n
         \/ \E r \in Requests : Fails(r) /\ rowLock[n] = r
<1> USE DEF TypeOK
<1>1. ASSUME NEW r \in Requests, NEW k \in Nominas, AplicarBloquea(r, k)
      PROVE  rowLock[n] = "nobody"
  BY <1>1 DEF AplicarBloquea, TakeRowLock
<1>2. ASSUME NEW r \in Requests, Aplicar(r)
      PROVE  request[r].n = n
  BY <1>2 DEF Aplicar
<1>3. ASSUME NEW r \in Requests, Fails(r)
      PROVE  rowLock[n] = r
  BY <1>3 DEF Fails
<1>4. ASSUME NEW r \in Requests,
             \/ \E p \in Periodos : EjecutarValida(r, p) \/ EjecutarEnBackground(r, p)
             \/ \E k \in Nominas : \/ AprobarLee(r, k) \/ AnularLee(r, k) \/ VacacionesLee(r, k)
                                   \/ ReintentarLee(r, k) \/ RecalcularLee(r, k)
             \/ EjecutarCommit(r) \/ Encolar(r) \/ EncolarFalla(r) \/ Aprobar(r)
             \/ Anular(r) \/ Vacaciones(r) \/ Reintentar(r) \/ Recalcular(r) \/ Reemplazar(r)
      PROVE  UNCHANGED rowLock
  BY <1>4 DEF EjecutarValida, EjecutarEnBackground, AprobarLee, AnularLee, VacacionesLee,
       ReintentarLee, RecalcularLee, Leer, EjecutarCommit, Encolar, EncolarFalla, Aprobar,
       Anular, Vacaciones, Reintentar, Recalcular, Reemplazar, locks
<1>5. (\E k \in Nominas : JobFinish(k)) \/ UNCHANGED vars => UNCHANGED rowLock
  BY DEF JobFinish, vars, locks
<1> QED BY <1>1, <1>2, <1>3, <1>4, <1>5 DEF Next

LEMMA ApplyLockInvariant == Spec => []ApplyLock
<1>1. Init => ApplyLock
  BY DEF Init, ApplyLock, Idle
<1>2. TypeOK /\ TypeOK' /\ ApplyLock /\ [Next]_vars => ApplyLock'
  <2> SUFFICES ASSUME TypeOK, TypeOK', ApplyLock, [Next]_vars,
                      NEW r \in Requests, request'[r].op = "aplicar"
               PROVE  rowLock'[request'[r].n] = r /\ nomina'[request'[r].n].estado = "approved"
    BY DEF ApplyLock, Estado
  <2>1. ASSUME NEW n \in Nominas, AplicarBloquea(r, n)
        PROVE  rowLock'[request'[r].n] = r /\ nomina'[request'[r].n].estado = "approved"
    <3>1. request'[r].n = n
      BY <2>1 DEF AplicarBloquea, Begin, TypeOK
    <3> QED BY <2>1, <3>1 DEF AplicarBloquea, TakeRowLock, TypeOK, Estado
  <2>2. CASE request'[r] = request[r]
    <3>0. request[r].n \in Nominas
      BY <2>2, RequestFields DEF Ops
    <3>1. PICK n \in Nominas : n = request[r].n /\ request[r].op = "aplicar"
      BY <2>2, <3>0
    <3>2. rowLock[n] = r /\ Estado(n) = "approved" /\ r # "nobody"
      BY <3>1, RequestsAssumption DEF ApplyLock
    <3>3. ~ End(r)
      BY <2>2, <3>1 DEF End, Idle, TypeOK
    <3>4. ASSUME NEW q \in Requests, Aplicar(q), request[q].n = n
          PROVE  FALSE
      <4>1. rowLock[n] = q
        BY <3>4 DEF ApplyLock, Aplicar
      <4>2. End(q)
        BY <3>4 DEF Aplicar
      <4> QED BY <3>2, <3>3, <4>1, <4>2
    <3>5. rowLock'[n] = rowLock[n]
      <4>1. ASSUME NEW q \in Requests, Fails(q), rowLock[n] = q
            PROVE  FALSE
        BY <3>2, <3>3, <4>1 DEF Fails
      <4> QED BY <3>1, <3>2, <3>4, <4>1, RowLockChanges
    <3>6. Estado(n)' = Estado(n)
      <4>1. Estado(n) = "approved" /\ rowLock[n] # "nobody"
        BY <3>2
      <4> QED BY <3>1, <3>4, <4>1, EstadoChanges
    <3>7. nomina'[n].estado = "approved"
      BY <3>2, <3>6 DEF Estado
    <3> QED BY <2>2, <3>1, <3>2, <3>5, <3>7
  <2> QED BY <2>1, <2>2, RequestApplying
<1> QED BY <1>1, <1>2, TypeCorrect, PTL DEF Spec

\* The deferred effects of a payroll are materialized for an APROBADO nomina
\* only, whatever the other handlers commit while aplicar_nomina runs.
THEOREM ApplicationIsExclusive == Spec => AppliedFromApproved
<1>1. TypeOK /\ ApplyLock /\ [Next]_vars =>
        \A n \in Nominas :
          Estado(n) # "applied" /\ Estado(n)' = "applied" => Estado(n) = "approved"
  <2> SUFFICES ASSUME TypeOK, ApplyLock, [Next]_vars, NEW n \in Nominas,
                      Estado(n) # "applied", Estado(n)' = "applied"
               PROVE  Estado(n) = "approved"
    OBVIOUS
  <2>1. PICK r \in Requests : Aplicar(r) /\ request[r].n = n
    BY EstadoChanges
  <2> QED BY <2>1 DEF ApplyLock, Aplicar
<1> QED BY <1>1, TypeCorrect, ApplyLockInvariant, PTL DEF Spec, AppliedFromApproved

-----------------------------------------------------------------------------
(* Applied nominas                                                           *)

\* What is recorded stays recorded.
LEMMA IncidentesGrow ==
  ASSUME TypeOK, [Next]_vars
  PROVE  incidentes \subseteq incidentes'
<1>1. ASSUME NEW r \in Requests, NEW p \in Periodos,
             EjecutarValida(r, p) \/ EjecutarEnBackground(r, p)
      PROVE  incidentes' = incidentes
  BY <1>1 DEF EjecutarValida, EjecutarEnBackground
<1>2. ASSUME NEW r \in Requests, NEW n \in Nominas,
             \/ AprobarLee(r, n) \/ AplicarBloquea(r, n) \/ AnularLee(r, n)
             \/ VacacionesLee(r, n) \/ ReintentarLee(r, n) \/ RecalcularLee(r, n)
      PROVE  incidentes' = incidentes
  BY <1>2 DEF AprobarLee, AplicarBloquea, AnularLee, VacacionesLee, ReintentarLee,
              RecalcularLee, Leer
<1>3. ASSUME NEW r \in Requests, EjecutarCommit(r) \/ Encolar(r) \/ Aplicar(r)
      PROVE  incidentes' = incidentes
  BY <1>3 DEF EjecutarCommit, Encolar, Aplicar
<1>4. ASSUME NEW r \in Requests,
             \/ EncolarFalla(r) \/ Aprobar(r) \/ Anular(r) \/ Vacaciones(r) \/ Reintentar(r)
             \/ Recalcular(r) \/ Reemplazar(r) \/ Fails(r)
      PROVE  incidentes \subseteq incidentes'
  BY <1>4 DEF EncolarFalla, Aprobar, Anular, Vacaciones, Reintentar, Recalcular, Reemplazar,
              Fails, Record
<1>5. ASSUME NEW n \in Nominas, JobFinish(n)
      PROVE  incidentes' = incidentes
  BY <1>5 DEF JobFinish
<1>6. CASE UNCHANGED vars
  BY <1>6 DEF vars
<1> QED BY <1>1, <1>2, <1>3, <1>4, <1>5, <1>6 DEF Next

\* No request goes on from an estado "applied".
VistoInv ==
  \A r \in Requests :
    request[r].op \in Ops \cup {"reemplazar"} => request[r].visto # "applied"

LEMMA VistoInvariant == Spec => []VistoInv
<1>1. Init => VistoInv
  BY DEF Init, VistoInv, Idle, Ops
<1>2. TypeOK /\ VistoInv /\ [Next]_vars => VistoInv'
  <2> SUFFICES ASSUME TypeOK, VistoInv, [Next]_vars, NEW q \in Requests,
                      request'[q].op \in Ops \cup {"reemplazar"}
               PROVE  request'[q].visto # "applied"
    BY DEF VistoInv, Ops
  <2> USE DEF TypeOK, VistoInv
  <2>1. ASSUME NEW r \in Requests, NEW p \in Periodos, EjecutarValida(r, p)
        PROVE  request'[q].visto # "applied"
    BY <2>1 DEF EjecutarValida, Begin, Ops
  <2>2. ASSUME NEW r \in Requests, NEW p \in Periodos, EjecutarEnBackground(r, p)
        PROVE  request'[q].visto # "applied"
    <3>1. PICK n \in Fresh : Begin(r, [op |-> "encolar", n |-> n, visto |-> "calculating"])
      BY <2>2 DEF EjecutarEnBackground
    <3> QED BY <3>1 DEF Begin
  <2>3. ASSUME NEW r \in Requests, NEW n \in Nominas,
               \/ AprobarLee(r, n) \/ AnularLee(r, n) \/ VacacionesLee(r, n)
               \/ ReintentarLee(r, n) \/ RecalcularLee(r, n)
        PROVE  request'[q].visto # "applied"
    <3>1. PICK op \in Ops : Leer(r, op, n)
      BY <2>3 DEF AprobarLee, AnularLee, VacacionesLee, ReintentarLee, RecalcularLee, Ops
    <3>2. Estado(n) # "applied"
      BY <2>3 DEF AprobarLee, AnularLee, Voidable, VacacionesLee, ReintentarLee, RecalcularLee
    <3> QED BY <3>1, <3>2 DEF Leer, Begin
  <2>4. ASSUME NEW r \in Requests, NEW n \in Nominas, AplicarBloquea(r, n)
        PROVE  request'[q].visto # "applied"
    BY <2>4 DEF AplicarBloquea, Begin
  <2>5. ASSUME NEW r \in Requests,
               \/ EjecutarCommit(r) \/ Encolar(r) \/ EncolarFalla(r) \/ Aprobar(r)
               \/ Aplicar(r) \/ Anular(r) \/ Vacaciones(r) \/ Reintentar(r) \/ Reemplazar(r)
               \/ Fails(r)
        PROVE  request'[q].visto # "applied"
    <3>1. End(r)
      BY <2>5 DEF EjecutarCommit, Encolar, EncolarFalla, Aprobar, Aplicar, Anular, Vacaciones,
           Reintentar, Reemplazar, Fails
    <3> QED BY <3>1 DEF End, Idle, Ops
  <2>6. ASSUME NEW r \in Requests, Recalcular(r)
        PROVE  request'[q].visto # "applied"
    <3>1. PICK m \in Fresh :
            request' = [request EXCEPT ![r] =
              [op |-> "reemplazar", n |-> request[r].n, m |-> m, visto |-> request[r].visto]]
      BY <2>6 DEF Recalcular
    <3>2. request[r].visto # "applied"
      BY <2>6 DEF Recalcular, Ops
    <3> QED BY <3>1, <3>2
  <2>7. (\E n \in Nominas : JobFinish(n)) \/ UNCHANGED vars => UNCHANGED request
    BY DEF JobFinish, vars
  <2> QED BY <2>1, <2>2, <2>3, <2>4, <2>5, <2>6, <2>7 DEF Next
<1> QED BY <1>1, <1>2, TypeCorrect, PTL DEF Spec

\* One step leaves an applied nomina applied, or is recorded as stale.
LEMMA AppliedStep ==
  ASSUME TypeOK, ApplyLock, VistoInv, [Next]_vars, Orderly',
         NEW n \in Nominas, Estado(n) = "applied"
  PROVE  Estado(n)' = "applied"
<1> SUFFICES ASSUME Estado(n)' # Estado(n) PROVE FALSE
  OBVIOUS
<1>1. ASSUME NEW r \in Requests, Aplicar(r), request[r].n = n PROVE FALSE
  BY <1>1 DEF ApplyLock, Aplicar
<1>2. ASSUME NEW r \in Requests, Writes(r), request[r].n = n PROVE FALSE
  <2>1. request[r].op \in Ops \cup {"reemplazar"}
    BY <1>2 DEF Writes, EncolarFalla, Aprobar, Anular, Reintentar, Reemplazar, Escribe, Ops
  <2>2. Overtaken(r)
    BY <1>2, <2>1 DEF VistoInv, Overtaken
  <2>3. Record("stale", Overtaken(r))
    BY <1>2 DEF Writes, EncolarFalla, Aprobar, Anular, Reintentar, Reemplazar
  <2> QED BY <2>2, <2>3 DEF Record, Orderly
<1> QED BY <1>1, <1>2, EstadoChanges

\* An applied nomina is final: unless a handler wrote over an estado that had
\* changed since it tested it, no handler and no job moves or deletes it.
THEOREM AppliedStaysApplied == Spec => AppliedIsFinal
<1>1. TypeOK /\ ApplyLock /\ VistoInv /\ [Next]_vars =>
        \A n \in Nominas : Orderly' /\ Estado(n) = "applied" => Estado(n)' = "applied"
  BY AppliedStep
<1> QED
  BY <1>1, TypeCorrect, ApplyLockInvariant, VistoInvariant, PTL DEF Spec, AppliedIsFinal

-----------------------------------------------------------------------------
(* The deferred effects                                                      *)

\* Only aplicar_nomina writes benefit rows.
LEMMA PrestacionesChange ==
  ASSUME TypeOK, [Next]_vars, NEW n \in Nominas, nomina'[n].prestaciones
  PROVE  \/ nomina[n].prestaciones
         \/ \E r \in Requests : Aplicar(r) /\ request[r].n = n
<1> USE DEF TypeOK, NominaType
<1>1. ASSUME NEW r \in Requests, NEW p \in Periodos,
             EjecutarValida(r, p) \/ EjecutarEnBackground(r, p)
      PROVE  nomina[n].prestaciones
  <2>1. CASE EjecutarValida(r, p)
    BY <2>1 DEF EjecutarValida
  <2>2. CASE EjecutarEnBackground(r, p)
    <3>1. PICK k \in Fresh :
            nomina' = [nomina EXCEPT ![k] = NewNomina(p, "calculating", TRUE, FALSE)]
      BY <2>2 DEF EjecutarEnBackground
    <3> QED BY <3>1 DEF NewNomina, Fresh
  <2> QED BY <1>1, <2>1, <2>2
<1>2. ASSUME NEW r \in Requests, NEW k \in Nominas,
             \/ AprobarLee(r, k) \/ AplicarBloquea(r, k) \/ AnularLee(r, k)
             \/ VacacionesLee(r, k) \/ ReintentarLee(r, k) \/ RecalcularLee(r, k)
      PROVE  nomina[n].prestaciones
  BY <1>2 DEF AprobarLee, AplicarBloquea, AnularLee, VacacionesLee, ReintentarLee,
              RecalcularLee, Leer
<1>3. ASSUME NEW r \in Requests, EjecutarCommit(r)
      PROVE  nomina[n].prestaciones
  <2>1. PICK k \in Fresh, ok \in BOOLEAN :
          nomina' = [nomina EXCEPT ![k] =
            NewNomina(request[r].periodo, IF ok THEN "generated" ELSE "error", FALSE, ok)]
    BY <1>3 DEF EjecutarCommit
  <2> QED BY <2>1 DEF NewNomina, Fresh
<1>4. ASSUME NEW r \in Requests, Recalcular(r)
      PROVE  nomina[n].prestaciones
  <2>1. PICK m \in Fresh, ok \in BOOLEAN :
          nomina' = [nomina EXCEPT ![request[r].n].abonos = FALSE, ![m] =
            NewNomina(nomina[request[r].n].periodo, IF ok THEN "generated" ELSE "error", FALSE, ok)]
    BY <1>4 DEF Recalcular
  <2>2. request[r].n \in Nominas
    BY <1>4, RequestFields DEF Recalcular, Ops
  <2>3. n # m => nomina'[n].prestaciones = nomina[n].prestaciones
    BY <2>1, <2>2
  <2> QED BY <2>1, <2>2, <2>3 DEF NewNomina, Fresh
<1>5. ASSUME NEW r \in Requests, Encolar(r) \/ Vacaciones(r) \/ Fails(r)
      PROVE  nomina[n].prestaciones
  BY <1>5 DEF Encolar, Vacaciones, Fails
<1>6. ASSUME NEW r \in Requests, Aplicar(r)
      PROVE  nomina[n].prestaciones \/ request[r].n = n
  <2>1. request[r].n \in Nominas
    BY <1>6, RequestFields DEF Aplicar, Ops
  <2> QED BY <1>6, <2>1 DEF Aplicar
<1>7. ASSUME NEW r \in Requests, Writes(r)
      PROVE  nomina[n].prestaciones
  <2>1. request[r].n \in Nominas
    BY <1>7, RequestFields DEF Writes, EncolarFalla, Aprobar, Anular, Reintentar, Reemplazar,
         Escribe, Ops
  <2>2. CASE EncolarFalla(r) \/ Aprobar(r) \/ Anular(r) \/ Reemplazar(r)
    BY <2>1, <2>2 DEF EncolarFalla, Aprobar, Anular, Reemplazar
  <2>3. CASE Reintentar(r)
    BY <2>1, <2>3 DEF Reintentar, NewNomina
  <2> QED BY <1>7, <2>2, <2>3 DEF Writes
<1>8. ASSUME NEW k \in Nominas, JobFinish(k)
      PROVE  nomina[n].prestaciones
  BY <1>8 DEF JobFinish
<1>9. CASE UNCHANGED vars
  BY <1>9 DEF vars
<1> QED
  BY <1>1, <1>2, <1>3, <1>4, <1>5, <1>6, <1>7, <1>8, <1>9 DEF Next, Writes

\* A nomina that exists keeps its period.
LEMMA PeriodoStays ==
  ASSUME TypeOK, [Next]_vars, NEW n \in Nominas, Estado(n) # "none"
  PROVE  nomina'[n].periodo = nomina[n].periodo
<1> USE DEF TypeOK, NominaType
<1>1. ASSUME NEW r \in Requests, NEW p \in Periodos,
             EjecutarValida(r, p) \/ EjecutarEnBackground(r, p)
      PROVE  nomina'[n].periodo = nomina[n].periodo
  BY <1>1 DEF EjecutarValida, EjecutarEnBackground, Fresh
<1>2. ASSUME NEW r \in Requests, NEW k \in Nominas,
             \/ AprobarLee(r, k) \/ AplicarBloquea(r, k) \/ AnularLee(r, k)
             \/ VacacionesLee(r, k) \/ ReintentarLee(r, k) \/ RecalcularLee(r, k)
      PROVE  nomina'[n].periodo = nomina[n].periodo
  BY <1>2 DEF AprobarLee, AplicarBloquea, AnularLee, VacacionesLee, ReintentarLee,
              RecalcularLee, Leer
<1>3. ASSUME NEW r \in Requests, EjecutarCommit(r)
      PROVE  nomina'[n].periodo = nomina[n].periodo
  BY <1>3 DEF EjecutarCommit, Fresh
<1>4. ASSUME NEW r \in Requests, Recalcular(r)
      PROVE  nomina'[n].periodo = nomina[n].periodo
  <2>1. PICK m \in Fresh, ok \in BOOLEAN :
          nomina' = [nomina EXCEPT ![request[r].n].abonos = FALSE, ![m] =
            NewNomina(nomina[request[r].n].periodo, IF ok THEN "generated" ELSE "error", FALSE, ok)]
    BY <1>4 DEF Recalcular
  <2>2. request[r].n \in Nominas /\ n # m
    BY <1>4, RequestFields DEF Recalcular, Ops, Fresh
  <2> QED BY <2>1, <2>2
<1>5. ASSUME NEW r \in Requests, Encolar(r) \/ Vacaciones(r) \/ Fails(r)
      PROVE  nomina'[n].periodo = nomina[n].periodo
  BY <1>5 DEF Encolar, Vacaciones, Fails
<1>6. ASSUME NEW r \in Requests, Aplicar(r) \/ Writes(r)
      PROVE  nomina'[n].periodo = nomina[n].periodo
  <2>1. CASE Aplicar(r) \/ EncolarFalla(r) \/ Aprobar(r) \/ Anular(r) \/ Reemplazar(r)
    BY <2>1 DEF Aplicar, EncolarFalla, Aprobar, Anular, Reemplazar
  <2>2. CASE Reintentar(r)
    BY <2>2 DEF Reintentar, NewNomina
  <2> QED BY <1>6, <2>1, <2>2 DEF Writes
<1>7. ASSUME NEW k \in Nominas, JobFinish(k)
      PROVE  nomina'[n].periodo = nomina[n].periodo
  BY <1>7 DEF JobFinish
<1>8. CASE UNCHANGED vars
  BY <1>8 DEF vars
<1> QED
  BY <1>1, <1>2, <1>3, <1>4, <1>5, <1>6, <1>7, <1>8 DEF Next, Writes

\* Only aplicar_nomina executes novedades, those of the period of its nomina.
LEMMA EjecutadasChange ==
  ASSUME TypeOK, [Next]_vars, NEW p \in ejecutadas', p \notin ejecutadas
  PROVE  \E r \in Requests : Aplicar(r) /\ p = nomina[request[r].n].periodo
<1>1. ASSUME NEW r \in Requests, Aplicar(r)
      PROVE  p = nomina[request[r].n].periodo
  BY <1>1 DEF Aplicar, EjecutaPeriod
<1>2. ASSUME NEW r \in Requests,
             \/ \E q \in Periodos : EjecutarValida(r, q) \/ EjecutarEnBackground(r, q)
             \/ \E k \in Nominas : \/ AprobarLee(r, k) \/ AplicarBloquea(r, k)
                                   \/ AnularLee(r, k) \/ VacacionesLee(r, k)
                                   \/ ReintentarLee(r, k) \/ RecalcularLee(r, k)
             \/ EjecutarCommit(r) \/ Encolar(r) \/ EncolarFalla(r) \/ Aprobar(r)
             \/ Anular(r) \/ Vacaciones(r) \/ Reintentar(r) \/ Recalcular(r) \/ Reemplazar(r)
             \/ Fails(r)
      PROVE  UNCHANGED ejecutadas
  BY <1>2 DEF EjecutarValida, EjecutarEnBackground, AprobarLee, AplicarBloquea, AnularLee,
       VacacionesLee, ReintentarLee, RecalcularLee, Leer, EjecutarCommit, Encolar,
       EncolarFalla, Aprobar, Anular, Vacaciones, Reintentar, Recalcular, Reemplazar, Fails
<1>3. (\E k \in Nominas : JobFinish(k)) \/ UNCHANGED vars => UNCHANGED ejecutadas
  BY DEF JobFinish, vars
<1> QED BY <1>1, <1>2, <1>3 DEF Next

\* The nomina that aplicar_nomina commits is applied.
LEMMA AplicarApplies ==
  ASSUME TypeOK, NEW r \in Requests, Aplicar(r), NEW n \in Nominas, n = request[r].n
  PROVE  Estado(n)' = "applied"
BY DEF TypeOK, NominaType, Aplicar, Estado

\* Benefit rows and executed novedades belong to applied nominas: no handler
\* leaves the deferred effects of a payroll behind without the payroll.
THEOREM EffectsBelongToApplied == Spec => []EffectsOnlyOfApplied
<1>1. Init => EffectsOnlyOfApplied
  BY DEF Init, EffectsOnlyOfApplied
<1>2. TypeOK /\ ApplyLock /\ VistoInv /\ EffectsOnlyOfApplied /\ [Next]_vars
        => EffectsOnlyOfApplied'
  <2> SUFFICES ASSUME TypeOK, ApplyLock, VistoInv, EffectsOnlyOfApplied, [Next]_vars, Orderly'
               PROVE  /\ \A n \in Nominas : nomina'[n].prestaciones => Estado(n)' = "applied"
                      /\ \A p \in ejecutadas' :
                           \E n \in Nominas : nomina'[n].periodo = p /\ Estado(n)' = "applied"
    BY DEF EffectsOnlyOfApplied
  <2>1. Orderly
    BY IncidentesGrow DEF Orderly
  <2>2. ASSUME NEW n \in Nominas, nomina'[n].prestaciones
        PROVE  Estado(n)' = "applied"
    <3>1. CASE nomina[n].prestaciones
      <4>1. Estado(n) = "applied"
        BY <2>1, <3>1 DEF EffectsOnlyOfApplied
      <4> QED BY <4>1, AppliedStep
    <3>2. CASE \E r \in Requests : Aplicar(r) /\ request[r].n = n
      BY <3>2, AplicarApplies
    <3> QED BY <2>2, <3>1, <3>2, PrestacionesChange
  <2>3. ASSUME NEW p \in ejecutadas'
        PROVE  \E n \in Nominas : nomina'[n].periodo = p /\ Estado(n)' = "applied"
    <3>1. CASE p \in ejecutadas
      <4>1. PICK n \in Nominas : nomina[n].periodo = p /\ Estado(n) = "applied"
        BY <2>1, <3>1 DEF EffectsOnlyOfApplied
      <4> QED BY <4>1, AppliedStep, PeriodoStays
    <3>2. CASE p \notin ejecutadas
      <4>1. PICK r \in Requests : Aplicar(r) /\ p = nomina[request[r].n].periodo
        BY <3>2, EjecutadasChange
      <4>2. PICK n \in Nominas : n = request[r].n
        BY <4>1, RequestFields DEF Aplicar, Ops
      <4>3. Estado(n) # "none"
        BY <4>1, <4>2 DEF ApplyLock, Aplicar
      <4> QED BY <4>1, <4>2, <4>3, AplicarApplies, PeriodoStays
    <3> QED BY <3>1, <3>2
  <2> QED BY <2>2, <2>3
<1> QED BY <1>1, <1>2, TypeCorrect, ApplyLockInvariant, VistoInvariant, PTL DEF Spec

-----------------------------------------------------------------------------
(* What a request goes on from                                               *)

\* The handlers that read a nomina without a lock and go on.
Reads(r, n) ==
  \/ AprobarLee(r, n) \/ AnularLee(r, n) \/ VacacionesLee(r, n)
  \/ ReintentarLee(r, n) \/ RecalcularLee(r, n)

\* What a request is doing changes because it begins, because it reaches the
\* second transaction of a recalculation, or because it is over.
LEMMA RequestChanges ==
  ASSUME TypeOK, [Next]_vars, NEW r \in Requests
  PROVE  \/ request'[r] = request[r] \/ request'[r] = Idle
         \/ \E p \in Periodos : EjecutarValida(r, p) \/ EjecutarEnBackground(r, p)
         \/ \E n \in Nominas : Reads(r, n) \/ AplicarBloquea(r, n)
         \/ Recalcular(r)
<1> USE DEF TypeOK
<1>1. ASSUME NEW q \in Requests, q # r, NEW p \in Periodos,
             EjecutarValida(q, p) \/ EjecutarEnBackground(q, p)
      PROVE  request'[r] = request[r]
  <2>1. CASE EjecutarValida(q, p)
    BY <1>1, <2>1 DEF EjecutarValida, Begin
  <2>2. CASE EjecutarEnBackground(q, p)
    <3>1. PICK n \in Fresh : Begin(q, [op |-> "encolar", n |-> n, visto |-> "calculating"])
      BY <2>2 DEF EjecutarEnBackground
    <3> QED BY <1>1, <3>1 DEF Begin
  <2> QED BY <1>1, <2>1, <2>2
<1>2. ASSUME NEW q \in Requests, q # r, NEW k \in Nominas, Reads(q, k) \/ AplicarBloquea(q, k)
      PROVE  request'[r] = request[r]
  BY <1>2 DEF Reads, AplicarBloquea, AprobarLee, AnularLee, VacacionesLee, ReintentarLee,
              RecalcularLee, Leer, Begin
<1>3. ASSUME NEW q \in Requests,
             \/ EjecutarCommit(q) \/ Encolar(q) \/ EncolarFalla(q) \/ Aprobar(q)
             \/ Aplicar(q) \/ Anular(q) \/ Vacaciones(q) \/ Reintentar(q) \/ Reemplazar(q)
             \/ Fails(q)
      PROVE  request'[r] = request[r] \/ request'[r] = Idle
  <2>1. End(q)
    BY <1>3 DEF EjecutarCommit, Encolar, EncolarFalla, Aprobar, Aplicar, Anular, Vacaciones,
         Reintentar, Reemplazar, Fails
  <2> QED BY <2>1 DEF End
<1>4. ASSUME NEW q \in Requests, q # r, Recalcular(q)
      PROVE  request'[r] = request[r]
  BY <1>4 DEF Recalcular
<1>5. (\E n \in Nominas : JobFinish(n)) \/ UNCHANGED vars => UNCHANGED request
  BY DEF JobFinish, vars
<1> QED BY <1>1, <1>2, <1>3, <1>4, <1>5 DEF Next, Reads

\* A nomina that was created stays created.
LEMMA CreatedStays ==
  ASSUME TypeOK, [Next]_vars, NEW n \in Nominas, Estado(n) # "none"
  PROVE  Estado(n)' # "none"
<1> USE DEF TypeOK, NominaType
<1>1. ASSUME NEW r \in Requests, NEW p \in Periodos,
             EjecutarValida(r, p) \/ EjecutarEnBackground(r, p)
      PROVE  Estado(n)' # "none"
  BY <1>1 DEF EjecutarValida, EjecutarEnBackground, Fresh, Estado
<1>2. ASSUME NEW r \in Requests, NEW k \in Nominas, Reads(r, k) \/ AplicarBloquea(r, k)
      PROVE  Estado(n)' # "none"
  BY <1>2 DEF Reads, AprobarLee, AplicarBloquea, AnularLee, VacacionesLee, ReintentarLee,
              RecalcularLee, Leer, Estado
<1>3. ASSUME NEW r \in Requests, EjecutarCommit(r)
      PROVE  Estado(n)' # "none"
  BY <1>3 DEF EjecutarCommit, Fresh, Estado
<1>4. ASSUME NEW r \in Requests, Recalcular(r)
      PROVE  Estado(n)' # "none"
  <2>1. PICK m \in Fresh, ok \in BOOLEAN :
          nomina' = [nomina EXCEPT ![request[r].n].abonos = FALSE, ![m] =
            NewNomina(nomina[request[r].n].periodo, IF ok THEN "generated" ELSE "error", FALSE, ok)]
    BY <1>4 DEF Recalcular
  <2>2. request[r].n \in Nominas /\ n # m
    BY <1>4, RequestFields DEF Recalcular, Ops, Fresh
  <2> QED BY <2>1, <2>2 DEF Estado
<1>5. ASSUME NEW r \in Requests, Encolar(r) \/ Vacaciones(r) \/ Fails(r)
      PROVE  Estado(n)' # "none"
  BY <1>5 DEF Encolar, Vacaciones, Fails, Estado
<1>6. ASSUME NEW r \in Requests, Aplicar(r) \/ Writes(r)
      PROVE  Estado(n)' # "none"
  <2>1. CASE Aplicar(r) \/ EncolarFalla(r) \/ Aprobar(r) \/ Anular(r) \/ Reemplazar(r)
    BY <2>1 DEF Aplicar, EncolarFalla, Aprobar, Anular, Reemplazar, Estado
  <2>2. CASE Reintentar(r)
    BY <2>2 DEF Reintentar, NewNomina, Estado
  <2> QED BY <1>6, <2>1, <2>2 DEF Writes
<1>7. ASSUME NEW k \in Nominas, JobFinish(k)
      PROVE  Estado(n)' # "none"
  BY <1>7 DEF JobFinish, Estado
<1>8. CASE UNCHANGED vars
  BY <1>8 DEF vars, Estado
<1> QED
  BY <1>1, <1>2, <1>3, <1>4, <1>5, <1>6, <1>7, <1>8 DEF Next, Writes, Reads

\* The nomina of a request was created, and a recalculation replaces it by
\* another; the estado it went on from is one its test admits.
LeidoInv ==
  \A r \in Requests :
    /\ request[r].op \in Ops \cup {"reemplazar"} => Estado(request[r].n) # "none"
    /\ request[r].op = "reemplazar" =>
         request[r].m # request[r].n /\ Estado(request[r].m) # "none"
    /\ request[r].op = "encolar" => request[r].visto = "calculating"
    /\ request[r].op = "aprobar" => request[r].visto = "generated"
    /\ request[r].op = "reintentar" => request[r].visto = "error"
    /\ request[r].op = "anular" => request[r].visto \notin {"calculating", "cancelled"}

\* The new nomina of a recalculation, and the request that made it.
LEMMA Recalculada ==
  ASSUME TypeOK, NEW r \in Requests, Recalcular(r)
  PROVE  /\ request[r].n \in Nominas /\ request[r].op = "recalcular"
         /\ \E m \in Fresh :
              /\ request' = [request EXCEPT ![r] =
                   [op |-> "reemplazar", n |-> request[r].n, m |-> m, visto |-> request[r].visto]]
              /\ Estado(m)' \in {"generated", "error"}
<1>1. PICK m \in Fresh, ok \in BOOLEAN :
        /\ nomina' = [nomina EXCEPT ![request[r].n].abonos = FALSE, ![m] =
             NewNomina(nomina[request[r].n].periodo, IF ok THEN "generated" ELSE "error", FALSE, ok)]
        /\ request' = [request EXCEPT ![r] =
             [op |-> "reemplazar", n |-> request[r].n, m |-> m, visto |-> request[r].visto]]
  BY DEF Recalcular
<1>2. request[r].n \in Nominas /\ request[r].op = "recalcular"
  BY RequestFields DEF Recalcular, Ops
<1>3. Estado(m)' \in {"generated", "error"}
  BY <1>1, <1>2 DEF TypeOK, NominaType, Estado, NewNomina, Fresh
<1> QED BY <1>1, <1>2, <1>3

LEMMA LeidoInvariant == Spec => []LeidoInv
<1>1. Init => LeidoInv
  BY DEF Init, LeidoInv, Idle, Ops
<1>2. TypeOK /\ TypeOK' /\ LeidoInv /\ [Next]_vars => LeidoInv'
  <2> SUFFICES ASSUME TypeOK, TypeOK', LeidoInv, [Next]_vars, NEW r \in Requests
      PROVE
        /\ request'[r].op \in Ops \cup {"reemplazar"} => nomina'[request'[r].n].estado # "none"
        /\ request'[r].op = "reemplazar" =>
             request'[r].m # request'[r].n /\ nomina'[request'[r].m].estado # "none"
        /\ request'[r].op = "encolar" => request'[r].visto = "calculating"
        /\ request'[r].op = "aprobar" => request'[r].visto = "generated"
        /\ request'[r].op = "reintentar" => request'[r].visto = "error"
        /\ request'[r].op = "anular" => request'[r].visto \notin {"calculating", "cancelled"}
    BY DEF LeidoInv, Estado, Ops
  <2>0. \A n \in Nominas : nomina[n].estado # "none" => nomina'[n].estado # "none"
    BY CreatedStays DEF Estado
  <2>1. CASE request'[r] = request[r]
    <3>1. /\ request[r].op \in Ops \cup {"reemplazar"} => request[r].n \in Nominas
          /\ request[r].op = "reemplazar" => request[r].m \in Nominas
      BY RequestFields
    <3> QED BY <2>0, <2>1, <3>1 DEF LeidoInv, Estado
  <2>2. CASE request'[r] = Idle
    BY <2>2 DEF Idle, Ops
  <2>3. ASSUME NEW p \in Periodos, EjecutarValida(r, p)
        PROVE  request'[r].op = "ejecutar"
    BY <2>3 DEF EjecutarValida, Begin, TypeOK
  <2>4. ASSUME NEW p \in Periodos, EjecutarEnBackground(r, p)
        PROVE  /\ request'[r].op = "encolar" /\ request'[r].visto = "calculating"
               /\ nomina'[request'[r].n].estado # "none"
    <3>1. PICK n \in Fresh :
            /\ nomina' = [nomina EXCEPT ![n] = NewNomina(p, "calculating", TRUE, FALSE)]
            /\ Begin(r, [op |-> "encolar", n |-> n, visto |-> "calculating"])
      BY <2>4 DEF EjecutarEnBackground
    <3> QED BY <3>1 DEF Begin, TypeOK, NewNomina, Fresh
  <2>5. ASSUME NEW n \in Nominas, NEW op \in Ops, Leer(r, op, n)
        PROVE  /\ request'[r].op = op /\ request'[r].visto = Estado(n)
               /\ nomina'[request'[r].n].estado # "none"
    BY <2>5 DEF Leer, Begin, Exists, Estado, TypeOK
  <2>6. ASSUME NEW n \in Nominas, Reads(r, n)
        PROVE  \/ Leer(r, "aprobar", n) /\ Estado(n) = "generated"
               \/ Leer(r, "anular", n) /\ Estado(n) \notin {"calculating", "cancelled"}
               \/ Leer(r, "vacaciones", n) \/ Leer(r, "recalcular", n)
               \/ Leer(r, "reintentar", n) /\ Estado(n) = "error"
    BY <2>6 DEF Reads, AprobarLee, AnularLee, Voidable, VacacionesLee, ReintentarLee, RecalcularLee
  <2>7. CASE \E n \in Nominas : Reads(r, n)
    <3>1. PICK n \in Nominas : Reads(r, n)
      BY <2>7
    <3> QED BY <2>5, <2>6, <3>1 DEF Ops
  <2>8. ASSUME NEW n \in Nominas, AplicarBloquea(r, n)
        PROVE  request'[r].op = "aplicar" /\ nomina'[request'[r].n].estado # "none"
    BY <2>8 DEF AplicarBloquea, Begin, Estado, TypeOK
  <2>9. CASE Recalcular(r)
    <3>1. PICK m \in Fresh :
              /\ request' = [request EXCEPT ![r] =
                   [op |-> "reemplazar", n |-> request[r].n, m |-> m, visto |-> request[r].visto]]
              /\ nomina'[m].estado \in {"generated", "error"}
      BY <2>9, Recalculada DEF Estado
    <3>2. request[r].n \in Nominas /\ nomina[request[r].n].estado # "none"
      BY <2>9, Recalculada DEF LeidoInv, Ops, Estado
    <3>3. /\ request'[r].op = "reemplazar" /\ request'[r].n = request[r].n
          /\ request'[r].m = m
      BY <3>1 DEF TypeOK
    <3>4. m # request[r].n
      BY <3>2 DEF Fresh, Estado
    <3> QED BY <2>0, <3>1, <3>2, <3>3, <3>4
  <2> QED BY <2>1, <2>2, <2>3, <2>4, <2>7, <2>8, <2>9, RequestChanges DEF Ops
<1> QED BY <1>1, <1>2, TypeCorrect, PTL DEF Spec

-----------------------------------------------------------------------------
(* The vacation request                                                      *)

\* A request is attached to one nomina, which exists, or to none: the form of
\* VacationAttached that one step preserves.
UnaSolicitud ==
  Orderly => \/ vacacion = "approved" /\ puentes = {}
             \/ vacacion = "applied" /\ \E n \in Nominas : puentes = {n} /\ Exists(n)

\* The handlers that move the request or delete a nomina.
Moves(r) == EncolarFalla(r) \/ Anular(r) \/ Vacaciones(r) \/ Reemplazar(r)

\* Every other step leaves the request, and no nomina ceases to exist.
LEMMA AttachedStays ==
  ASSUME TypeOK, [Next]_vars
  PROVE  \/ \E r \in Requests : Moves(r)
         \/ /\ UNCHANGED vacations
            /\ \A n \in Nominas : Exists(n) => Exists(n)'
<1> SUFFICES ASSUME ~ \E r \in Requests : Moves(r)
             PROVE  /\ UNCHANGED vacations
                    /\ \A n \in Nominas : Exists(n) => Exists(n)'
  OBVIOUS
<1>1. UNCHANGED vacations
  <2>1. ASSUME NEW r \in Requests,
               \/ \E p \in Periodos : EjecutarValida(r, p) \/ EjecutarEnBackground(r, p)
               \/ \E n \in Nominas : Reads(r, n) \/ AplicarBloquea(r, n)
               \/ EjecutarCommit(r) \/ Encolar(r) \/ Aprobar(r) \/ Aplicar(r)
               \/ Reintentar(r) \/ Recalcular(r) \/ Fails(r)
        PROVE  UNCHANGED vacations
    BY <2>1 DEF EjecutarValida, EjecutarEnBackground, Reads, AprobarLee, AplicarBloquea,
         AnularLee, VacacionesLee, ReintentarLee, RecalcularLee, Leer, EjecutarCommit, Encolar,
         Aprobar, Aplicar, Reintentar, Recalcular, Fails
  <2>2. (\E n \in Nominas : JobFinish(n)) \/ UNCHANGED vars => UNCHANGED vacations
    BY DEF JobFinish, vars
  <2> QED BY <2>1, <2>2 DEF Next, Moves, Reads
<1>2. ASSUME NEW n \in Nominas, Exists(n)
      PROVE  Exists(n)'
  <2> USE <1>2 DEF Exists, Estado, TypeOK, NominaType
  <2>1. ASSUME NEW r \in Requests, NEW p \in Periodos,
               EjecutarValida(r, p) \/ EjecutarEnBackground(r, p)
        PROVE  Exists(n)'
    BY <2>1 DEF EjecutarValida, EjecutarEnBackground, Fresh
  <2>2. ASSUME NEW r \in Requests, NEW k \in Nominas, Reads(r, k) \/ AplicarBloquea(r, k)
        PROVE  Exists(n)'
    BY <2>2 DEF Reads, AprobarLee, AplicarBloquea, AnularLee, VacacionesLee, ReintentarLee,
         RecalcularLee, Leer
  <2>3. ASSUME NEW r \in Requests, EjecutarCommit(r)
        PROVE  Exists(n)'
    BY <2>3 DEF EjecutarCommit, Fresh
  <2>4. ASSUME NEW r \in Requests, Recalcular(r)
        PROVE  Exists(n)'
    <3>1. PICK m \in Fresh, ok \in BOOLEAN :
            nomina' = [nomina EXCEPT ![request[r].n].abonos = FALSE, ![m] =
              NewNomina(nomina[request[r].n].periodo, IF ok THEN "generated" ELSE "error", FALSE, ok)]
      BY <2>4 DEF Recalcular
    <3>2. request[r].n \in Nominas /\ n # m
      BY <2>4, RequestFields DEF Recalcular, Ops, Fresh
    <3> QED BY <3>1, <3>2
  <2>5. ASSUME NEW r \in Requests, Encolar(r) \/ Fails(r) \/ Aprobar(r) \/ Aplicar(r)
        PROVE  Exists(n)'
    BY <2>5 DEF Encolar, Fails, Aprobar, Aplicar
  <2>6. ASSUME NEW r \in Requests, Reintentar(r)
        PROVE  Exists(n)'
    BY <2>6 DEF Reintentar, NewNomina
  <2>7. ASSUME NEW k \in Nominas, JobFinish(k)
        PROVE  Exists(n)'
    BY <2>7 DEF JobFinish
  <2>8. CASE UNCHANGED vars
    BY <2>8 DEF vars
  <2> QED BY <2>1, <2>2, <2>3, <2>4, <2>5, <2>6, <2>7, <2>8 DEF Next, Moves, Reads
<1> QED BY <1>1, <1>2

LEMMA UnaSolicitudInvariant == Spec => []UnaSolicitud
<1>1. Init => UnaSolicitud
  BY DEF Init, UnaSolicitud
<1>2. TypeOK /\ LeidoInv /\ UnaSolicitud /\ [Next]_vars => UnaSolicitud'
  <2> SUFFICES ASSUME TypeOK, LeidoInv, UnaSolicitud, [Next]_vars, Orderly'
      PROVE \/ vacacion' = "approved" /\ puentes' = {}
            \/ vacacion' = "applied" /\ \E n \in Nominas : puentes' = {n} /\ Exists(n)'
    BY DEF UnaSolicitud
  <2>1. \/ vacacion = "approved" /\ puentes = {}
        \/ vacacion = "applied" /\ \E n \in Nominas : puentes = {n} /\ Exists(n)
    BY IncidentesGrow DEF UnaSolicitud, Orderly
  <2>2. CASE UNCHANGED vacations /\ \A n \in Nominas : Exists(n) => Exists(n)'
    BY <2>1, <2>2 DEF vacations
  <2>3. ASSUME NEW r \in Requests, Moves(r)
        PROVE  request[r].n \in Nominas /\ Exists(request[r].n)
    <3>1. request[r].op \in Ops \cup {"reemplazar"} /\ Exists(request[r].n)
      BY <2>3 DEF Moves, EncolarFalla, Anular, Vacaciones, Reemplazar, Escribe, Ops
    <3> QED BY <3>1, RequestFields
  <2>4. ASSUME NEW r \in Requests, EncolarFalla(r)
        PROVE \/ vacacion' = "approved" /\ puentes' = {}
              \/ vacacion' = "applied" /\ \E n \in Nominas : puentes' = {n} /\ Exists(n)'
    <3>1. ASSUME NEW n \in Nominas, puentes = {n}, Exists(n)
          PROVE  Exists(n)'
      BY <2>4, <3>1 DEF EncolarFalla, Exists, Estado, TypeOK, NominaType
    <3> QED BY <2>1, <2>4, <3>1 DEF EncolarFalla, vacations
  <2>5. ASSUME NEW r \in Requests, Anular(r)
        PROVE \/ vacacion' = "approved" /\ puentes' = {}
              \/ vacacion' = "applied" /\ \E n \in Nominas : puentes' = {n} /\ Exists(n)'
    <3> DEFINE k == request[r].n
    <3>1. vacacion' = (IF k \in puentes THEN "approved" ELSE vacacion) /\ puentes' = puentes \ {k}
      BY <2>5 DEF Anular
    <3>2. ASSUME NEW n \in Nominas, Exists(n), n # k
          PROVE  Exists(n)'
      BY <2>5, <3>2 DEF Anular, Exists, Estado, TypeOK, NominaType
    <3> HIDE DEF k
    <3> QED BY <2>1, <3>1, <3>2
  <2>6. ASSUME NEW r \in Requests, Vacaciones(r)
        PROVE \/ vacacion' = "approved" /\ puentes' = {}
              \/ vacacion' = "applied" /\ \E n \in Nominas : puentes' = {n} /\ Exists(n)'
    <3>1. vacacion = "approved"
      BY <2>6 DEF Vacaciones, Record, Orderly
    <3>2. PICK k \in Nominas : k = request[r].n /\ Exists(k)
      BY <2>3, <2>6 DEF Moves
    <3>3. vacacion' = "applied" /\ puentes' = {k}
      BY <2>1, <2>6, <3>1, <3>2 DEF Vacaciones
    <3>4. Exists(k)'
      BY <2>6, <3>2 DEF Exists, Estado, Vacaciones
    <3> QED BY <3>2, <3>3, <3>4
  <2>7. ASSUME NEW r \in Requests, Reemplazar(r)
        PROVE \/ vacacion' = "approved" /\ puentes' = {}
              \/ vacacion' = "applied" /\ \E n \in Nominas : puentes' = {n} /\ Exists(n)'
    <3>1. PICK k \in Nominas, m \in Nominas : k = request[r].n /\ m = request[r].m
      BY <2>3, <2>7, RequestFields DEF Moves, Reemplazar, Escribe
    <3>2. k # m /\ Exists(m)
      BY <2>7, <3>1 DEF LeidoInv, Reemplazar, Escribe
    <3>3. puentes' = (IF k \in puentes THEN (puentes \ {k}) \cup {m} ELSE puentes)
          /\ UNCHANGED vacacion
      BY <2>7, <3>1 DEF Reemplazar, Relink
    <3>4. ASSUME NEW n \in Nominas, Exists(n), n # k
          PROVE  Exists(n)'
      BY <2>7, <3>1, <3>4 DEF Reemplazar, Exists, Estado, TypeOK, NominaType
    <3> QED BY <2>1, <3>2, <3>3, <3>4
  <2> QED BY <2>2, <2>4, <2>5, <2>6, <2>7, AttachedStays DEF Moves
<1> QED BY <1>1, <1>2, TypeCorrect, LeidoInvariant, PTL DEF Spec

\* A vacation request is APLICADO exactly while one bridge attaches it to a
\* nomina that exists, whichever handlers attach, void and recalculate.
THEOREM VacationIsAttachedOnce == Spec => []VacationAttached
<1>1. UnaSolicitud => VacationAttached
  <2> SUFFICES ASSUME UnaSolicitud, Orderly
               PROVE  /\ Cardinality(puentes) = IF vacacion = "applied" THEN 1 ELSE 0
                      /\ \A n \in puentes : Exists(n)
    BY DEF VacationAttached
  <2>1. CASE vacacion = "approved" /\ puentes = {}
    BY <2>1, FS_EmptySet
  <2>2. CASE vacacion = "applied" /\ \E n \in Nominas : puentes = {n} /\ Exists(n)
    BY <2>2, FS_Singleton
  <2> QED BY <2>1, <2>2 DEF UnaSolicitud
<1> QED BY <1>1, UnaSolicitudInvariant, PTL

-----------------------------------------------------------------------------
(* One payroll per period                                                    *)

\* A request that calculates a period holds the lock of the planilla, and the
\* period is free but for nominas calculated in the background.
PlanillaInv ==
  \A r \in Requests : request[r].op = "ejecutar" =>
    /\ planillaLock = r
    /\ Orderly =>
         \A n \in Nominas :
           nomina[n].periodo = request[r].periodo /\ Estado(n) \in Blocking => nomina[n].background

\* The nomina keeps its period taken and was not calculated in the background.
Ocupa(n) == Estado(n) \in Blocking /\ ~nomina[n].background

\* The handlers that calculate within the request.
Calculates(r) == EjecutarCommit(r) \/ Recalcular(r)

\* In any other step, what keeps a period taken did so before: an approval
\* finds its nomina calculated, a retry is a background calculation.
LEMMA OcupaBefore ==
  ASSUME TypeOK, ApplyLock, LeidoInv, [Next]_vars, Orderly', ~ \E r \in Requests : Calculates(r),
         NEW n \in Nominas, Ocupa(n)'
  PROVE  Ocupa(n) /\ nomina'[n].periodo = nomina[n].periodo
<1> USE DEF TypeOK, NominaType, Ocupa, Estado
<1>1. ASSUME NEW r \in Requests, NEW p \in Periodos,
             EjecutarValida(r, p) \/ EjecutarEnBackground(r, p)
      PROVE  Ocupa(n) /\ nomina'[n].periodo = nomina[n].periodo
  <2>1. CASE EjecutarValida(r, p)
    BY <2>1 DEF EjecutarValida
  <2>2. CASE EjecutarEnBackground(r, p)
    <3>1. PICK k \in Fresh : nomina' = [nomina EXCEPT ![k] = NewNomina(p, "calculating", TRUE, FALSE)]
      BY <2>2 DEF EjecutarEnBackground
    <3>2. n # k
      BY <3>1 DEF NewNomina, Fresh
    <3> QED BY <3>1, <3>2
  <2> QED BY <1>1, <2>1, <2>2
<1>2. ASSUME NEW r \in Requests, NEW k \in Nominas, Reads(r, k) \/ AplicarBloquea(r, k)
      PROVE  Ocupa(n) /\ nomina'[n].periodo = nomina[n].periodo
  BY <1>2 DEF Reads, AprobarLee, AplicarBloquea, AnularLee, VacacionesLee, ReintentarLee,
              RecalcularLee, Leer
<1>3. ASSUME NEW r \in Requests, Encolar(r) \/ Vacaciones(r) \/ Fails(r)
      PROVE  Ocupa(n) /\ nomina'[n].periodo = nomina[n].periodo
  BY <1>3 DEF Encolar, Vacaciones, Fails
<1>4. ASSUME NEW r \in Requests, EncolarFalla(r) \/ Anular(r) \/ Reemplazar(r)
      PROVE  Ocupa(n) /\ nomina'[n].periodo = nomina[n].periodo
  BY <1>4 DEF EncolarFalla, Anular, Reemplazar, Blocking
<1>5. ASSUME NEW r \in Requests, Aprobar(r)
      PROVE  Ocupa(n) /\ nomina'[n].periodo = nomina[n].periodo
  <2>1. Estado(request[r].n) = "generated"
    BY <1>5 DEF Aprobar, Escribe, LeidoInv, Record, Overtaken, Orderly
  <2> QED BY <1>5, <2>1 DEF Aprobar, Blocking
<1>6. ASSUME NEW r \in Requests, Aplicar(r)
      PROVE  Ocupa(n) /\ nomina'[n].periodo = nomina[n].periodo
  <2>1. Estado(request[r].n) = "approved"
    BY <1>6 DEF Aplicar, ApplyLock
  <2> QED BY <1>6, <2>1 DEF Aplicar, Blocking
<1>7. ASSUME NEW r \in Requests, Reintentar(r)
      PROVE  Ocupa(n) /\ nomina'[n].periodo = nomina[n].periodo
  BY <1>7 DEF Reintentar, NewNomina
<1>8. ASSUME NEW k \in Nominas, JobFinish(k)
      PROVE  Ocupa(n) /\ nomina'[n].periodo = nomina[n].periodo
  BY <1>8 DEF JobFinish, Blocking
<1>9. CASE UNCHANGED vars
  BY <1>9 DEF vars
<1> QED
  BY <1>1, <1>2, <1>3, <1>4, <1>5, <1>6, <1>7, <1>8, <1>9 DEF Next, Calculates, Reads

\* Nobody takes the lock of the planilla from a request that goes on
\* calculating, and nobody else calculates within a request meanwhile.
LEMMA PlanillaLockHeld ==
  ASSUME TypeOK, PlanillaInv, [Next]_vars,
         NEW q \in Requests, request[q].op = "ejecutar", request'[q] = request[q]
  PROVE  planillaLock' = q /\ ~ \E r \in Requests : Calculates(r)
<1>1. planillaLock = q /\ q # "nobody"
  BY RequestsAssumption DEF PlanillaInv
<1>2. ~ End(q)
  BY DEF TypeOK, End, Idle
<1>3. ASSUME NEW r \in Requests, EjecutarCommit(r)
      PROVE  FALSE
  BY <1>1, <1>2, <1>3 DEF EjecutarCommit, PlanillaInv
<1>4. ASSUME NEW r \in Requests, Recalcular(r)
      PROVE  FALSE
  BY <1>1, <1>4 DEF Recalcular
<1>5. ASSUME NEW r \in Requests, Fails(r)
      PROVE  planillaLock' = planillaLock
  BY <1>1, <1>2, <1>5 DEF Fails
<1>6. ASSUME NEW r \in Requests, NEW p \in Periodos, EjecutarValida(r, p)
      PROVE  FALSE
  BY <1>1, <1>6 DEF EjecutarValida, PlanillaLockFree
<1>7. ASSUME NEW r \in Requests,
             \/ \E p \in Periodos : EjecutarEnBackground(r, p)
             \/ \E n \in Nominas : Reads(r, n) \/ AplicarBloquea(r, n)
             \/ Encolar(r) \/ EncolarFalla(r) \/ Aprobar(r) \/ Aplicar(r) \/ Anular(r)
             \/ Vacaciones(r) \/ Reintentar(r) \/ Reemplazar(r)
      PROVE  planillaLock' = planillaLock
  BY <1>7 DEF EjecutarEnBackground, Reads, AprobarLee, AplicarBloquea, AnularLee, VacacionesLee,
       ReintentarLee, RecalcularLee, Leer, Encolar, EncolarFalla, Aprobar, Aplicar, Anular,
       Vacaciones, Reintentar, Reemplazar, locks
<1>8. (\E n \in Nominas : JobFinish(n)) \/ UNCHANGED vars => planillaLock' = planillaLock
  BY DEF JobFinish, vars, locks
<1> QED
  BY <1>1, <1>3, <1>4, <1>5, <1>6, <1>7, <1>8 DEF Next, Calculates, Reads

LEMMA PlanillaInvariant == Spec => []PlanillaInv
<1>1. Init => PlanillaInv
  BY DEF Init, PlanillaInv, Idle
<1>2. TypeOK /\ TypeOK' /\ ApplyLock /\ LeidoInv /\ PlanillaInv /\ [Next]_vars => PlanillaInv'
  <2> SUFFICES ASSUME TypeOK, TypeOK', ApplyLock, LeidoInv, PlanillaInv, [Next]_vars,
                      NEW q \in Requests, request'[q].op = "ejecutar"
               PROVE  /\ planillaLock' = q
                      /\ Orderly' => \A n \in Nominas :
                           nomina'[n].periodo = request'[q].periodo /\ Ocupa(n)' => FALSE
    BY DEF PlanillaInv, Ocupa, Estado
  <2>1. CASE request'[q] = request[q]
    <3>1. planillaLock' = q /\ ~ \E r \in Requests : Calculates(r)
      BY <2>1, PlanillaLockHeld
    <3>2. ASSUME Orderly', NEW n \in Nominas, nomina'[n].periodo = request'[q].periodo, Ocupa(n)'
          PROVE  FALSE
      <4>1. Ocupa(n) /\ nomina[n].periodo = request[q].periodo
        BY <2>1, <3>1, <3>2, OcupaBefore
      <4>2. Orderly
        BY <3>2, IncidentesGrow DEF Orderly
      <4> QED BY <2>1, <4>1, <4>2 DEF PlanillaInv, Ocupa
    <3> QED BY <3>1, <3>2
  <2>2. ASSUME NEW p \in Periodos, EjecutarValida(q, p)
        PROVE  /\ planillaLock' = q
               /\ \A n \in Nominas : nomina'[n].periodo = request'[q].periodo /\ Ocupa(n)' => FALSE
    <3>1. planillaLock' = q /\ UNCHANGED nomina /\ PeriodoLibre(p, 0)
      BY <2>2 DEF EjecutarValida
    <3>2. request'[q].periodo = p
      BY <2>2 DEF EjecutarValida, Begin, TypeOK
    <3>3. ASSUME NEW n \in Nominas, nomina'[n].periodo = p, Ocupa(n)'
          PROVE  FALSE
      BY <3>1, <3>3 DEF PeriodoLibre, Ocupa, Estado, Nominas
    <3> QED BY <3>1, <3>2, <3>3
  <2>3. ASSUME NEW p \in Periodos, EjecutarEnBackground(q, p)
        PROVE  request'[q].op = "encolar"
    <3>1. PICK n \in Fresh : Begin(q, [op |-> "encolar", n |-> n, visto |-> "calculating"])
      BY <2>3 DEF EjecutarEnBackground
    <3> QED BY <3>1 DEF Begin, TypeOK
  <2>4. ASSUME NEW n \in Nominas, Reads(q, n) \/ AplicarBloquea(q, n)
        PROVE  request'[q].op # "ejecutar"
    BY <2>4 DEF Reads, AprobarLee, AplicarBloquea, AnularLee, VacacionesLee, ReintentarLee,
         RecalcularLee, Leer, Begin, TypeOK
  <2>5. Recalcular(q) => request'[q].op = "reemplazar"
    BY DEF Recalcular, TypeOK
  <2>6. Idle.op = "idle"
    BY DEF Idle
  <2> QED BY <2>1, <2>2, <2>3, <2>4, <2>5, <2>6, RequestChanges
<1> QED BY <1>1, <1>2, TypeCorrect, ApplyLockInvariant, LeidoInvariant, PTL DEF Spec

\* A recalculation between its two transactions goes on until its second one,
\* or fails.
LEMMA ReemplazoStays ==
  ASSUME TypeOK, [Next]_vars, NEW q \in Requests, request[q].op = "reemplazar"
  PROVE  request'[q] = request[q] \/ Reemplazar(q) \/ Fails(q)
<1> USE DEF TypeOK
<1>1. ASSUME NEW r \in Requests, NEW p \in Periodos,
             EjecutarValida(r, p) \/ EjecutarEnBackground(r, p)
      PROVE  request'[q] = request[q]
  <2>1. CASE EjecutarValida(r, p)
    BY <2>1 DEF EjecutarValida, Begin, Busy
  <2>2. CASE EjecutarEnBackground(r, p)
    <3>1. PICK n \in Fresh : Begin(r, [op |-> "encolar", n |-> n, visto |-> "calculating"])
      BY <2>2 DEF EjecutarEnBackground
    <3> QED BY <3>1 DEF Begin, Busy
  <2> QED BY <1>1, <2>1, <2>2
<1>2. ASSUME NEW r \in Requests, NEW k \in Nominas, Reads(r, k) \/ AplicarBloquea(r, k)
      PROVE  request'[q] = request[q]
  BY <1>2 DEF Reads, AplicarBloquea, AprobarLee, AnularLee, VacacionesLee, ReintentarLee,
              RecalcularLee, Leer, Begin, Busy
<1>3. ASSUME NEW r \in Requests,
             \/ EjecutarCommit(r) \/ Encolar(r) \/ EncolarFalla(r) \/ Aprobar(r)
             \/ Aplicar(r) \/ Anular(r) \/ Vacaciones(r) \/ Reintentar(r)
      PROVE  request'[q] = request[q]
  <2>1. End(r) /\ request[r].op # "reemplazar"
    BY <1>3 DEF EjecutarCommit, Encolar, EncolarFalla, Aprobar, Aplicar, Anular, Vacaciones,
         Reintentar, Escribe
  <2> QED BY <2>1 DEF End
<1>4. ASSUME NEW r \in Requests, Reemplazar(r) \/ Fails(r)
      PROVE  request'[q] = request[q] \/ r = q
  <2>1. End(r)
    BY <1>4 DEF Reemplazar, Fails
  <2> QED BY <2>1 DEF End
<1>5. ASSUME NEW r \in Requests, Recalcular(r)
      PROVE  request'[q] = request[q]
  BY <1>5 DEF Recalcular
<1>6. (\E n \in Nominas : JobFinish(n)) \/ UNCHANGED vars => UNCHANGED request
  BY DEF JobFinish, vars
<1> QED BY <1>1, <1>2, <1>3, <1>4, <1>5, <1>6 DEF Next, Reads

\* Outside the background, two nominas that keep one period taken are the two
\* of a recalculation between its transactions.
UnaPorPeriodo ==
  incidentes \cap {"stale", "interrupted"} = {} =>
    \A n, m \in Nominas :
      n # m /\ nomina[n].periodo = nomina[m].periodo /\ Ocupa(n) /\ Ocupa(m) => Reemplazando(n, m)

\* The step that calculates a period finds it free: its pair is the nomina it
\* recalculates, or there is none.
LEMMA CalculaAparte ==
  ASSUME TypeOK, PlanillaInv, LeidoInv, Orderly, NEW r \in Requests, Calculates(r),
         NEW n \in Nominas, NEW m \in Nominas, n # m,
         nomina'[n].periodo = nomina'[m].periodo, Ocupa(n)', Ocupa(m)'
  PROVE  \/ /\ Ocupa(n) /\ Ocupa(m) /\ nomina[n].periodo = nomina[m].periodo
            /\ \A q \in Requests \ {r} : request'[q] = request[q]
            /\ request[r].op # "reemplazar"
         \/ Reemplazando(n, m)'
<1> USE DEF TypeOK, NominaType
<1>1. CASE EjecutarCommit(r)
  <2>1. PICK k \in Fresh, ok \in BOOLEAN :
          nomina' = [nomina EXCEPT ![k] =
            NewNomina(request[r].periodo, IF ok THEN "generated" ELSE "error", FALSE, ok)]
    BY <1>1 DEF EjecutarCommit
  <2>2. k \in Nominas /\ nomina'[k].periodo = request[r].periodo
    BY <2>1 DEF Fresh, NewNomina
  <2>3. \A j \in Nominas : j # k => nomina'[j] = nomina[j]
    BY <2>1
  <2>4. ASSUME NEW j \in Nominas, j # k, Ocupa(j)', nomina'[j].periodo = request[r].periodo
        PROVE  FALSE
    BY <1>1, <2>3, <2>4 DEF PlanillaInv, EjecutarCommit, Ocupa, Estado
  <2>5. n # k /\ m # k
    BY <2>2, <2>4
  <2>6. \A q \in Requests \ {r} : request'[q] = request[q]
    BY <1>1 DEF EjecutarCommit, End
  <2>7. request[r].op = "ejecutar"
    BY <1>1 DEF EjecutarCommit
  <2> QED BY <2>3, <2>5, <2>6, <2>7 DEF Ocupa, Estado
<1>2. CASE Recalcular(r)
  <2>1. PICK k \in Nominas, nueva \in Fresh, ok \in BOOLEAN :
          /\ k = request[r].n
          /\ PeriodoLibre(nomina[k].periodo, k)
          /\ nomina' = [nomina EXCEPT ![k].abonos = FALSE, ![nueva] =
               NewNomina(nomina[k].periodo, IF ok THEN "generated" ELSE "error", FALSE, ok)]
          /\ request' = [request EXCEPT ![r] =
               [op |-> "reemplazar", n |-> k, m |-> nueva, visto |-> request[r].visto]]
    BY <1>2, RequestFields DEF Recalcular, Ops
  <2>2. nueva \in Nominas /\ k # nueva
    BY <1>2, <2>1 DEF Fresh, LeidoInv, Recalcular, Ops
  <2>3. nomina'[nueva].periodo = nomina[k].periodo
    BY <2>1, <2>2 DEF NewNomina
  <2>4. \A j \in Nominas : j # nueva =>
          /\ nomina'[j].estado = nomina[j].estado /\ nomina'[j].periodo = nomina[j].periodo
          /\ nomina'[j].background = nomina[j].background
    BY <2>1, <2>2
  <2>5. ASSUME NEW j \in Nominas, j # nueva, Ocupa(j)', nomina'[j].periodo = nomina[k].periodo
        PROVE  j = k
    BY <2>1, <2>4, <2>5 DEF PeriodoLibre, Ocupa, Estado
  <2>6. request'[r].op = "reemplazar" /\ request'[r].n = k /\ request'[r].m = nueva
    BY <2>1
  <2>7. n = nueva \/ m = nueva => {n, m} = {k, nueva}
    BY <2>3, <2>5
  <2>8. {n, m} = {k, nueva} => Reemplazando(n, m)'
    BY <2>6 DEF Reemplazando
  <2>9. \A q \in Requests \ {r} : request'[q] = request[q]
    BY <2>1
  <2>10. request[r].op = "recalcular"
    BY <1>2 DEF Recalcular
  <2> QED BY <2>4, <2>7, <2>8, <2>9, <2>10 DEF Ocupa, Estado
<1> QED BY <1>1, <1>2 DEF Calculates

LEMMA UnaPorPeriodoInvariant == Spec => []UnaPorPeriodo
<1>1. Init => UnaPorPeriodo
  BY DEF Init, UnaPorPeriodo, Ocupa, Estado, Blocking
<1>2. TypeOK /\ ApplyLock /\ LeidoInv /\ PlanillaInv /\ UnaPorPeriodo /\ [Next]_vars
        => UnaPorPeriodo'
  <2> SUFFICES ASSUME TypeOK, ApplyLock, LeidoInv, PlanillaInv, UnaPorPeriodo, [Next]_vars,
                      incidentes' \cap {"stale", "interrupted"} = {},
                      NEW n \in Nominas, NEW m \in Nominas,
                      n # m, nomina'[n].periodo = nomina'[m].periodo, Ocupa(n)', Ocupa(m)'
               PROVE  Reemplazando(n, m)'
    BY DEF UnaPorPeriodo
  <2>1. Orderly /\ Orderly' /\ incidentes \cap {"stale", "interrupted"} = {}
    BY IncidentesGrow DEF Orderly
  <2>2. \/ /\ Ocupa(n) /\ Ocupa(m) /\ nomina[n].periodo = nomina[m].periodo
           /\ \A r \in Requests : request[r].op = "reemplazar" =>
                request'[r] = request[r] \/ Reemplazar(r) \/ Fails(r)
        \/ Reemplazando(n, m)'
    <3>1. CASE ~ \E r \in Requests : Calculates(r)
      BY <2>1, <3>1, OcupaBefore, ReemplazoStays
    <3>2. CASE \E r \in Requests : Calculates(r)
      BY <2>1, <3>2, CalculaAparte, ReemplazoStays
    <3> QED BY <3>1, <3>2
  <2>3. CASE /\ Ocupa(n) /\ Ocupa(m) /\ nomina[n].periodo = nomina[m].periodo
             /\ \A r \in Requests : request[r].op = "reemplazar" =>
                  request'[r] = request[r] \/ Reemplazar(r) \/ Fails(r)
    <3>1. PICK r \in Requests :
            request[r].op = "reemplazar" /\ {request[r].n, request[r].m} = {n, m}
      BY <2>1, <2>3 DEF UnaPorPeriodo, Reemplazando
    <3>2. ~Fails(r)
      BY <3>1 DEF Fails, Record
    <3>3. ~Reemplazar(r)
      <4>1. PICK k \in Nominas : k = request[r].n /\ (k = n \/ k = m)
        BY <3>1, RequestFields
      <4>2. Reemplazar(r) => nomina'[k].estado = "deleted"
        BY <4>1 DEF Reemplazar, TypeOK, NominaType
      <4> QED BY <4>1, <4>2 DEF Ocupa, Estado, Blocking
    <3> QED BY <2>3, <3>1, <3>2, <3>3 DEF Reemplazando
  <2> QED BY <2>2, <2>3
<1> QED BY <1>1, <1>2, TypeCorrect, ApplyLockInvariant, LeidoInvariant, PlanillaInvariant, PTL DEF Spec

\* While no handler wrote over an estado that had changed and no recalculation
\* was cut in two, the lock of the planilla and the check of the period keep
\* the payrolls calculated within a request apart, however many requests run.
THEOREM OnePerPeriod == Spec => []OnePayrollPerPeriod
<1>1. UnaPorPeriodo => OnePayrollPerPeriod
  BY DEF UnaPorPeriodo, OnePayrollPerPeriod, Overlap, Ocupa
<1> QED BY <1>1, UnaPorPeriodoInvariant, PTL

-----------------------------------------------------------------------------
(* The books                                                                 *)

\* A request reaches the second transaction of a recalculation only through
\* the first.
LEMMA ReemplazoBegins ==
  ASSUME TypeOK, [Next]_vars, NEW q \in Requests, request'[q].op = "reemplazar"
  PROVE  request'[q] = request[q] \/ Recalcular(q)
<1> USE DEF TypeOK
<1>1. ASSUME NEW p \in Periodos, EjecutarValida(q, p)
      PROVE  FALSE
  BY <1>1 DEF EjecutarValida, Begin
<1>2. ASSUME NEW p \in Periodos, EjecutarEnBackground(q, p)
      PROVE  FALSE
  <2>1. PICK n \in Fresh : Begin(q, [op |-> "encolar", n |-> n, visto |-> "calculating"])
    BY <1>2 DEF EjecutarEnBackground
  <2> QED BY <2>1 DEF Begin
<1>3. ASSUME NEW k \in Nominas, Reads(q, k) \/ AplicarBloquea(q, k)
      PROVE  FALSE
  BY <1>3 DEF Reads, AplicarBloquea, AprobarLee, AnularLee, VacacionesLee, ReintentarLee,
              RecalcularLee, Leer, Begin
<1> QED BY <1>1, <1>2, <1>3, RequestChanges DEF Idle

\* Without an incident, only the two transactions of a recalculation change
\* which nominas are being replaced.
LEMMA ReemplazadaSame ==
  ASSUME TypeOK, [Next]_vars, incidentes' = {},
         ~ \E r \in Requests : Recalcular(r) \/ Reemplazar(r)
  PROVE  \A n \in Nominas : Reemplazada(n)' <=> Reemplazada(n)
<1>1. ASSUME NEW r \in Requests, Fails(r), request[r].op = "reemplazar"
      PROVE  FALSE
  BY <1>1 DEF Fails, Record
<1>2. \A q \in Requests : request[q].op = "reemplazar" => request'[q] = request[q]
  BY <1>1, ReemplazoStays
<1>3. \A q \in Requests : request'[q].op = "reemplazar" => request'[q] = request[q]
  BY ReemplazoBegins
<1> QED BY <1>2, <1>3 DEF Reemplazada

\* The first transaction of the recalculation of n: m replaces it, and its
\* calculation succeeds or not.
RecalculaComo(r, n, m, ok) ==
  /\ request[r].n = n /\ request[r].op = "recalcular"
  /\ nomina' = [nomina EXCEPT ![n].abonos = FALSE, ![m] =
       NewNomina(nomina[n].periodo, IF ok THEN "generated" ELSE "error", FALSE, ok)]
  /\ acumulado' = Take(acumulado, nomina[n].filas) + (IF ok THEN 1 ELSE 0)
  /\ pagado' = Take(pagado, nomina[n].abonos) + (IF ok THEN 1 ELSE 0)
  /\ request' = [request EXCEPT ![r] =
       [op |-> "reemplazar", n |-> n, m |-> m, visto |-> request[r].visto]]
  /\ incidentes' = {} =>
       ~Overtaken(r) /\ Estado(n) # "cancelled" /\ Estado(n) # "calculating"

LEMMA RecalculaNomina ==
  ASSUME TypeOK, NEW r \in Requests, Recalcular(r)
  PROVE  \E n \in Nominas, m \in Fresh, ok \in BOOLEAN : RecalculaComo(r, n, m, ok)
<1>1. PICK n \in Nominas : n = request[r].n
  BY RequestFields DEF Recalcular, Ops
<1>2. PICK m \in Fresh, ok \in BOOLEAN :
        /\ nomina' = [nomina EXCEPT ![n].abonos = FALSE, ![m] =
             NewNomina(nomina[n].periodo, IF ok THEN "generated" ELSE "error", FALSE, ok)]
        /\ acumulado' = Take(acumulado, nomina[n].filas) + (IF ok THEN 1 ELSE 0)
        /\ pagado' = Take(pagado, nomina[n].abonos) + (IF ok THEN 1 ELSE 0)
        /\ request' = [request EXCEPT ![r] =
             [op |-> "reemplazar", n |-> n, m |-> m, visto |-> request[r].visto]]
        /\ incidentes' = incidentes
             \cup (IF Overtaken(r) THEN {"stale"} ELSE {})
             \cup (IF Estado(n) = "cancelled" THEN {"unvoided"} ELSE {})
             \cup (IF Estado(n) = "calculating" THEN {"unfinished"} ELSE {})
  BY <1>1 DEF Recalcular, TakeBackOld
<1>3. incidentes' = {} =>
        ~Overtaken(r) /\ Estado(n) # "cancelled" /\ Estado(n) # "calculating"
  BY <1>2
<1>4. request[r].op = "recalcular"
  BY DEF Recalcular
<1> QED BY <1>1, <1>2, <1>3, <1>4 DEF RecalculaComo

\* A nomina that is not calculated yet, or failed, has posted nothing.
SinFilas ==
  \A n \in Nominas :
    Estado(n) \in {"none", "calculating", "error"} => ~nomina[n].filas /\ ~nomina[n].abonos

LEMMA SinFilasInvariant == Spec => []SinFilas
<1>1. Init => SinFilas
  BY DEF Init, SinFilas
<1>2. TypeOK /\ ApplyLock /\ SinFilas /\ [Next]_vars => SinFilas'
  <2> SUFFICES ASSUME TypeOK, ApplyLock, SinFilas, [Next]_vars,
                      NEW n \in Nominas, Estado(n)' \in {"none", "calculating", "error"}
               PROVE  ~nomina'[n].filas /\ ~nomina'[n].abonos
    BY DEF SinFilas, Estado
  <2> USE DEF TypeOK, NominaType, SinFilas, Estado
  <2>1. ASSUME NEW r \in Requests, NEW p \in Periodos, EjecutarValida(r, p)
        PROVE  ~nomina'[n].filas /\ ~nomina'[n].abonos
    BY <2>1 DEF EjecutarValida
  <2>2. ASSUME NEW r \in Requests, NEW p \in Periodos, EjecutarEnBackground(r, p)
        PROVE  ~nomina'[n].filas /\ ~nomina'[n].abonos
    <3>1. PICK k \in Fresh : nomina' = [nomina EXCEPT ![k] = NewNomina(p, "calculating", TRUE, FALSE)]
      BY <2>2 DEF EjecutarEnBackground
    <3> QED BY <3>1 DEF NewNomina, Fresh
  <2>3. ASSUME NEW r \in Requests, NEW k \in Nominas, Reads(r, k) \/ AplicarBloquea(r, k)
        PROVE  ~nomina'[n].filas /\ ~nomina'[n].abonos
    BY <2>3 DEF Reads, AprobarLee, AplicarBloquea, AnularLee, VacacionesLee, ReintentarLee,
         RecalcularLee, Leer
  <2>4. ASSUME NEW r \in Requests, EjecutarCommit(r)
        PROVE  ~nomina'[n].filas /\ ~nomina'[n].abonos
    <3>1. PICK k \in Fresh, ok \in BOOLEAN :
            nomina' = [nomina EXCEPT ![k] =
              NewNomina(request[r].periodo, IF ok THEN "generated" ELSE "error", FALSE, ok)]
      BY <2>4 DEF EjecutarCommit
    <3> QED BY <3>1 DEF NewNomina, Fresh
  <2>5. ASSUME NEW r \in Requests, Recalcular(r)
        PROVE  ~nomina'[n].filas /\ ~nomina'[n].abonos
    <3>1. PICK k \in Nominas, m \in Fresh, ok \in BOOLEAN : RecalculaComo(r, k, m, ok)
      BY <2>5, RecalculaNomina
    <3> QED BY <3>1 DEF RecalculaComo, NewNomina, Fresh
  <2>6. ASSUME NEW r \in Requests, Encolar(r) \/ Vacaciones(r) \/ Fails(r)
        PROVE  ~nomina'[n].filas /\ ~nomina'[n].abonos
    BY <2>6 DEF Encolar, Vacaciones, Fails
  <2>7. ASSUME NEW r \in Requests,
               EncolarFalla(r) \/ Aprobar(r) \/ Aplicar(r) \/ Anular(r) \/ Reemplazar(r)
        PROVE  ~nomina'[n].filas /\ ~nomina'[n].abonos
    BY <2>7 DEF EncolarFalla, Aprobar, Aplicar, Anular, Reemplazar
  <2>8. ASSUME NEW r \in Requests, Reintentar(r)
        PROVE  ~nomina'[n].filas /\ ~nomina'[n].abonos
    BY <2>8 DEF Reintentar, NewNomina
  <2>9. ASSUME NEW k \in Nominas, JobFinish(k)
        PROVE  ~nomina'[n].filas /\ ~nomina'[n].abonos
    BY <2>9 DEF JobFinish
  <2>10. CASE UNCHANGED vars
    BY <2>10 DEF vars
  <2> QED
    BY <2>1, <2>2, <2>3, <2>4, <2>5, <2>6, <2>7, <2>8, <2>9, <2>10 DEF Next, Reads
<1> QED BY <1>1, <1>2, TypeCorrect, ApplyLockInvariant, PTL DEF Spec

\* Without an incident, the nomina of a recalculation between its transactions
\* is neither being calculated nor voided.
ReemplazoInv ==
  incidentes = {} =>
    \A r \in Requests :
      request[r].op = "reemplazar" => Estado(request[r].n) \notin {"calculating", "cancelled"}
LEMMA ReemplazoInvariant == Spec => []ReemplazoInv
<1>1. Init => ReemplazoInv
  BY DEF Init, ReemplazoInv, Idle
<1>2. TypeOK /\ LeidoInv /\ ReemplazoInv /\ [Next]_vars => ReemplazoInv'
  <2> SUFFICES ASSUME TypeOK, LeidoInv, ReemplazoInv, [Next]_vars, incidentes' = {},
                      NEW q \in Requests, request'[q].op = "reemplazar"
               PROVE  Estado(request[q].n)' \notin {"calculating", "cancelled"}
    BY DEF ReemplazoInv, Estado
  <2>1. incidentes = {}
    BY IncidentesGrow
  <2>2. CASE Recalcular(q)
    <3>1. PICK n \in Nominas, m \in Fresh, ok \in BOOLEAN : RecalculaComo(q, n, m, ok)
      BY <2>2, RecalculaNomina
    <3>2. request'[q].n = n
      BY <3>1 DEF RecalculaComo, TypeOK
    <3>3. Estado(n) \notin {"calculating", "cancelled"} /\ Estado(n) # "none"
      BY <3>1 DEF RecalculaComo, LeidoInv, Ops
    <3>4. nomina'[n].estado = nomina[n].estado
      BY <3>1, <3>3 DEF RecalculaComo, Fresh, Estado, TypeOK, NominaType
    <3> QED BY <3>2, <3>3, <3>4 DEF Estado
  <2>3. CASE request'[q] = request[q]
    <3>1. PICK n \in Nominas : n = request[q].n
      BY <2>3, RequestFields
    <3>2. request[q].op = "reemplazar" /\ Estado(n) \notin {"none", "calculating", "cancelled"}
      BY <2>1, <2>3, <3>1 DEF ReemplazoInv, LeidoInv
    <3>3. CASE Estado(n)' = Estado(n)
      BY <2>3, <3>1, <3>2, <3>3 DEF Estado
    <3>4. CASE Estado(n)' # Estado(n)
      <4>1. \/ \E r \in Requests : Aplicar(r) /\ request[r].n = n
            \/ \E r \in Requests : Writes(r) /\ request[r].n = n
        BY <3>2, <3>4, EstadoChanges
      <4>2. ASSUME NEW r \in Requests, Writes(r), request[r].n = n
            PROVE  r = q
        BY <3>1, <3>2, <4>2 DEF Writes, EncolarFalla, Aprobar, Anular, Reintentar, Reemplazar,
           Record, Overtaken
      <4>3. ASSUME NEW r \in Requests, Aplicar(r), request[r].n = n
            PROVE  Estado(n)' = "applied"
        BY <4>3 DEF Aplicar, Estado, TypeOK, NominaType
      <4>4. ASSUME Writes(q)
            PROVE  FALSE
        <5>1. Reemplazar(q)
          BY <3>2, <4>4 DEF Writes, EncolarFalla, Aprobar, Anular, Reintentar, Escribe
        <5>2. request'[q] = Idle
          BY <5>1 DEF Reemplazar, End, TypeOK
        <5> QED BY <5>2 DEF Idle
      <4> QED BY <2>3, <3>1, <4>1, <4>2, <4>3, <4>4 DEF Estado
    <3> QED BY <3>3, <3>4
  <2> QED BY <2>2, <2>3, ReemplazoBegins
<1> QED BY <1>1, <1>2, TypeCorrect, LeidoInvariant, PTL DEF Spec

\* Taking a member out of a set and counting it down, or putting one in and
\* counting it up.
LEMMA CuentaMenos ==
  ASSUME NEW S, IsFiniteSet(S), NEW n
  PROVE  Take(Cardinality(S), n \in S) = Cardinality(S \ {n})
<1>1. Cardinality(S) \in Nat
  BY FS_CardinalityType
<1>2. CASE n \in S
  <2>1. Cardinality(S) # 0
    BY <1>2, FS_EmptySet
  <2>2. Cardinality(S \ {n}) = Cardinality(S) - 1
    BY <1>2, FS_RemoveElement
  <2> QED BY <1>1, <1>2, <2>1, <2>2 DEF Take, Subtract
<1>3. CASE n \notin S
  <2>1. S \ {n} = S
    BY <1>3
  <2> QED BY <1>3, <2>1 DEF Take
<1> QED BY <1>2, <1>3

LEMMA CuentaMas ==
  ASSUME NEW S, IsFiniteSet(S), NEW n, n \notin S, NEW posted \in BOOLEAN
  PROVE  Cardinality(IF posted THEN S \cup {n} ELSE S)
           = Cardinality(S) + (IF posted THEN 1 ELSE 0)
<1>1. Cardinality(S) \in Nat
  BY FS_CardinalityType
<1>2. Cardinality(S \cup {n}) = Cardinality(S) + 1
  BY FS_AddElement
<1> QED BY <1>1, <1>2

Puestas == {n \in Nominas : Posted(n)}
ConAbonos == {n \in Nominas : nomina[n].abonos}

LEMMA Finitas ==
  /\ IsFiniteSet(Nominas)
  /\ IsFiniteSet(Puestas) /\ IsFiniteSet(ConAbonos)
  /\ \A n : IsFiniteSet(Puestas \ {n}) /\ IsFiniteSet(ConAbonos \ {n})
<1>1. IsFiniteSet(Nominas)
  BY BoundsAssumption, FS_Interval DEF Nominas
<1>2. \A S \in SUBSET Nominas : IsFiniteSet(S)
  BY <1>1, FS_Subset
<1> QED BY <1>1, <1>2 DEF Puestas, ConAbonos

\* A nomina not created yet, or being calculated, has nothing posted.
LEMMA NadaPuesto ==
  ASSUME SinFilas, NEW n \in Nominas, Estado(n) \in {"none", "calculating", "error"}
  PROVE  n \notin Puestas /\ n \notin ConAbonos
BY DEF SinFilas, Puestas, Posted, ConAbonos

\* The handlers that post to the books or take back.
Posts ==
  \/ \E r \in Requests : EjecutarCommit(r) \/ Anular(r) \/ Recalcular(r)
  \/ \E n \in Nominas : JobFinish(n)

\* Any other handler leaves what each nomina has posted.
LEMMA OtherStepsKeepBooks ==
  ASSUME TypeOK, ApplyLock, LeidoInv, SinFilas, [Next]_vars, incidentes' = {}, ~Posts
  PROVE  /\ UNCHANGED books
         /\ \A n \in Nominas :
              /\ n \in Puestas' <=> n \in Puestas
              /\ n \in ConAbonos' <=> n \in ConAbonos
<1>1. UNCHANGED books
  <2>1. ASSUME NEW r \in Requests,
               \/ \E p \in Periodos : EjecutarValida(r, p) \/ EjecutarEnBackground(r, p)
               \/ \E n \in Nominas : Reads(r, n) \/ AplicarBloquea(r, n)
               \/ Encolar(r) \/ EncolarFalla(r) \/ Aprobar(r) \/ Aplicar(r) \/ Vacaciones(r)
               \/ Reintentar(r) \/ Reemplazar(r) \/ Fails(r)
        PROVE  UNCHANGED books
    BY <2>1 DEF EjecutarValida, EjecutarEnBackground, Reads, AprobarLee, AplicarBloquea,
         AnularLee, VacacionesLee, ReintentarLee, RecalcularLee, Leer, Encolar, EncolarFalla,
         Aprobar, Aplicar, Vacaciones, Reintentar, Reemplazar, Fails
  <2>2. UNCHANGED vars => UNCHANGED books
    BY DEF vars
  <2> QED BY <2>1, <2>2 DEF Next, Posts, Reads
<1>2. ASSUME NEW n \in Nominas
      PROVE  /\ n \in Puestas' <=> n \in Puestas
             /\ n \in ConAbonos' <=> n \in ConAbonos
  <2> USE DEF Puestas, ConAbonos, Posted, Estado
  <2>1. CASE \E r \in Requests : Reemplazar(r)
    <3>1. PICK r \in Requests : Reemplazar(r)
      BY <2>1
    <3>2. PICK k \in Nominas : k = request[r].n /\ request[r].op = "reemplazar"
      BY <3>1, RequestFields DEF Reemplazar, Escribe
    <3>3. Reemplazada(k) /\ ~nomina'[k].filas /\ nomina'[k].abonos = nomina[k].abonos
      BY <3>1, <3>2 DEF Reemplazada, Reemplazar, TypeOK, NominaType
    <3>4. n # k => nomina'[n] = nomina[n]
      BY <3>1, <3>2 DEF Reemplazar, TypeOK, NominaType
    <3>5. n # k => (Reemplazada(n)' <=> Reemplazada(n))
      <4>1. \A q \in Requests \ {r} : request'[q] = request[q]
        BY <3>1 DEF Reemplazar, End
      <4>2. request'[r] = Idle
        BY <3>1 DEF Reemplazar, End, TypeOK
      <4> QED BY <3>2, <4>1, <4>2 DEF Reemplazada, Idle
    <3> QED BY <3>3, <3>4, <3>5
  <2>2. CASE ~ \E r \in Requests : Reemplazar(r)
    <3>1. Reemplazada(n)' <=> Reemplazada(n)
      BY <2>2, ReemplazadaSame DEF Posts
    <3>2. /\ nomina'[n].filas = nomina[n].filas /\ nomina'[n].abonos = nomina[n].abonos
          /\ nomina'[n].estado = "cancelled" <=> nomina[n].estado = "cancelled"
      <4> DEFINE Same == /\ nomina'[n].filas = nomina[n].filas
                         /\ nomina'[n].abonos = nomina[n].abonos
                         /\ nomina'[n].estado = "cancelled" <=> nomina[n].estado = "cancelled"
      <4> USE DEF TypeOK, NominaType
      <4>1. ASSUME NEW r \in Requests, NEW p \in Periodos, EjecutarValida(r, p)
            PROVE  Same
        BY <4>1 DEF EjecutarValida
      <4>2. ASSUME NEW r \in Requests, NEW p \in Periodos, EjecutarEnBackground(r, p)
            PROVE  Same
        <5>1. PICK k \in Fresh :
                nomina' = [nomina EXCEPT ![k] = NewNomina(p, "calculating", TRUE, FALSE)]
          BY <4>2 DEF EjecutarEnBackground
        <5>2. k \in Nominas /\ Estado(k) = "none" /\ ~nomina[k].filas /\ ~nomina[k].abonos
          BY <5>1 DEF Fresh, SinFilas
        <5> QED BY <5>1, <5>2 DEF NewNomina
      <4>3. ASSUME NEW r \in Requests, NEW k \in Nominas, Reads(r, k) \/ AplicarBloquea(r, k)
            PROVE  Same
        BY <4>3 DEF Reads, AprobarLee, AplicarBloquea, AnularLee, VacacionesLee, ReintentarLee,
             RecalcularLee, Leer
      <4>4. ASSUME NEW r \in Requests, Encolar(r) \/ Vacaciones(r) \/ Fails(r)
            PROVE  Same
        BY <4>4 DEF Encolar, Vacaciones, Fails
      <4>5. ASSUME NEW r \in Requests, EncolarFalla(r) \/ Aprobar(r) \/ Reintentar(r)
            PROVE  Same
        <5>1. PICK k \in Nominas : k = request[r].n
          BY <4>5, RequestFields DEF EncolarFalla, Aprobar, Reintentar, Escribe, Ops
        <5>2. Estado(k) = request[r].visto
          BY <4>5, <5>1 DEF EncolarFalla, Aprobar, Reintentar, Record, Overtaken
        <5>3. EncolarFalla(r) \/ Aprobar(r) => Same
          BY <5>1, <5>2 DEF EncolarFalla, Aprobar, Escribe, LeidoInv
        <5>4. ASSUME Reintentar(r)
              PROVE  Same
          <6>1. Estado(k) = "error"
            BY <5>2, <5>4 DEF Reintentar, Escribe, LeidoInv
          <6>2. ~nomina[k].filas /\ ~nomina[k].abonos
            BY <6>1 DEF SinFilas
          <6> QED BY <5>1, <5>4, <6>1, <6>2 DEF Reintentar, NewNomina
        <5> QED BY <4>5, <5>3, <5>4
      <4>6. ASSUME NEW r \in Requests, Aplicar(r)
            PROVE  Same
        <5>1. PICK k \in Nominas : k = request[r].n /\ Estado(k) = "approved"
          BY <4>6, RequestFields DEF Aplicar, ApplyLock, Ops
        <5> QED BY <4>6, <5>1 DEF Aplicar
      <4>7. CASE UNCHANGED vars
        BY <4>7 DEF vars
      <4> QED BY <2>2, <4>1, <4>2, <4>3, <4>4, <4>5, <4>6, <4>7 DEF Next, Posts, Reads
    <3> QED BY <3>1, <3>2
  <2> QED BY <2>1, <2>2
<1> QED BY <1>1, <1>2

\* Each handler that posts moves the books by what it adds to the posted
\* nominas or takes from them.
LEMMA PostingStepsKeepBooks ==
  ASSUME TypeOK, TypeOK', LeidoInv, SinFilas, ReemplazoInv, [Next]_vars, incidentes = {},
         incidentes' = {}, BooksAgree, Posts
  PROVE  BooksAgree'
<1>1. BooksAgree <=> acumulado = Cardinality(Puestas) /\ pagado = Cardinality(ConAbonos)
  BY DEF BooksAgree, Puestas, ConAbonos
<1>2. BooksAgree' <=> acumulado' = Cardinality(Puestas') /\ pagado' = Cardinality(ConAbonos')
  BY DEF BooksAgree, Puestas, ConAbonos
<1>3. /\ \A n \in Nominas : n \in Puestas <=> nomina[n].filas /\ Estado(n) # "cancelled" /\ ~Reemplazada(n)
      /\ \A n \in Nominas : n \in ConAbonos <=> nomina[n].abonos
  BY DEF Puestas, ConAbonos, Posted
<1>4. /\ \A n \in Nominas : n \in Puestas' <=>
           nomina'[n].filas /\ nomina'[n].estado # "cancelled" /\ ~Reemplazada(n)'
      /\ \A n \in Nominas : n \in ConAbonos' <=> nomina'[n].abonos
  BY DEF Puestas, ConAbonos, Posted, Estado
<1>5. Puestas \subseteq Nominas /\ Puestas' \subseteq Nominas
      /\ ConAbonos \subseteq Nominas /\ ConAbonos' \subseteq Nominas
  BY DEF Puestas, ConAbonos
<1>6. ASSUME NEW r \in Requests, EjecutarCommit(r)
      PROVE  BooksAgree'
  <2>1. PICK k \in Fresh, ok \in BOOLEAN :
          /\ nomina' = [nomina EXCEPT ![k] =
               NewNomina(request[r].periodo, IF ok THEN "generated" ELSE "error", FALSE, ok)]
          /\ acumulado' = (IF ok THEN acumulado + 1 ELSE acumulado)
          /\ pagado' = (IF ok THEN pagado + 1 ELSE pagado)
    BY <1>6 DEF EjecutarCommit
  <2>2. k \in Nominas /\ Estado(k) = "none"
    BY <2>1 DEF Fresh
  <2>3. k \notin Puestas /\ k \notin ConAbonos
    BY <2>2, NadaPuesto
  <2>4. ~Reemplazada(k)
    BY <2>2 DEF LeidoInv, Reemplazada, Ops
  <2>5. \A n \in Nominas : Reemplazada(n)' <=> Reemplazada(n)
    <3>1. request[r].op = "ejecutar" /\ End(r)
      BY <1>6 DEF EjecutarCommit
    <3>2. request' = [request EXCEPT ![r] = [op |-> "idle"]]
      BY <3>1 DEF End, Idle
    <3> QED BY <3>1, <3>2 DEF Reemplazada, TypeOK
  <2>6. /\ nomina'[k].filas = ok /\ nomina'[k].abonos = ok
        /\ nomina'[k].estado # "cancelled"
        /\ \A n \in Nominas : n # k => nomina'[n] = nomina[n]
    BY <2>1, <2>2 DEF NewNomina, TypeOK
  <2>7. Puestas' = (IF ok THEN Puestas \cup {k} ELSE Puestas)
    <3>1. k \in Puestas' <=> ok
      BY <1>4, <2>2, <2>4, <2>5, <2>6
    <3>2. \A n \in Nominas : n # k => (n \in Puestas' <=> n \in Puestas)
      BY <1>3, <1>4, <2>5, <2>6 DEF Estado
    <3> QED BY <1>5, <2>2, <2>3, <3>1, <3>2
  <2>8. ConAbonos' = (IF ok THEN ConAbonos \cup {k} ELSE ConAbonos)
    BY <1>3, <1>4, <1>5, <2>2, <2>3, <2>6
  <2>9. /\ Cardinality(Puestas') = Cardinality(Puestas) + (IF ok THEN 1 ELSE 0)
        /\ Cardinality(ConAbonos') = Cardinality(ConAbonos) + (IF ok THEN 1 ELSE 0)
    BY <2>3, <2>7, <2>8, CuentaMas, Finitas
  <2> QED BY <1>1, <1>2, <2>1, <2>9 DEF TypeOK
<1>7. ASSUME NEW k \in Nominas, JobFinish(k)
      PROVE  BooksAgree'
  <2>1. PICK estado \in {"generated", "generated_with_errors", "error"}, posted \in BOOLEAN :
          /\ nomina' = [nomina EXCEPT ![k].estado = estado, ![k].filas = posted, ![k].abonos = posted]
          /\ acumulado' = (IF posted THEN acumulado + 1 ELSE acumulado)
          /\ pagado' = (IF posted THEN pagado + 1 ELSE pagado)
    BY <1>7 DEF JobFinish
  <2>2. Estado(k) = "calculating" /\ UNCHANGED request
    BY <1>7 DEF JobFinish
  <2>3. k \notin Puestas /\ k \notin ConAbonos
    BY <2>2, NadaPuesto
  <2>4. ~Reemplazada(k)
    BY <2>2 DEF ReemplazoInv, Reemplazada
  <2>5. \A n \in Nominas : Reemplazada(n)' <=> Reemplazada(n)
    BY <2>2 DEF Reemplazada
  <2>6. /\ nomina'[k].filas = posted /\ nomina'[k].abonos = posted
        /\ nomina'[k].estado # "cancelled"
        /\ \A n \in Nominas : n # k => nomina'[n] = nomina[n]
    BY <2>1 DEF TypeOK, NominaType
  <2>7. Puestas' = (IF posted THEN Puestas \cup {k} ELSE Puestas)
    BY <1>3, <1>4, <1>5, <2>3, <2>4, <2>5, <2>6 DEF Estado
  <2>8. ConAbonos' = (IF posted THEN ConAbonos \cup {k} ELSE ConAbonos)
    BY <1>3, <1>4, <1>5, <2>3, <2>6
  <2>9. /\ Cardinality(Puestas') = Cardinality(Puestas) + (IF posted THEN 1 ELSE 0)
        /\ Cardinality(ConAbonos') = Cardinality(ConAbonos) + (IF posted THEN 1 ELSE 0)
    BY <2>3, <2>7, <2>8, CuentaMas, Finitas
  <2> QED BY <1>1, <1>2, <2>1, <2>9 DEF TypeOK
<1>8. ASSUME NEW r \in Requests, Anular(r)
      PROVE  BooksAgree'
  <2>1. PICK k \in Nominas : k = request[r].n /\ request[r].op = "anular"
    BY <1>8, RequestFields DEF Anular, Escribe, Ops
  <2>2. /\ nomina' = [nomina EXCEPT ![k].estado = "cancelled", ![k].abonos = FALSE]
        /\ acumulado' = Take(acumulado, nomina[k].filas)
        /\ pagado' = Take(pagado, nomina[k].abonos)
        /\ End(r) /\ ~Overtaken(r)
    BY <1>8, <2>1 DEF Anular, Record
  <2>3. Estado(k) # "cancelled"
    BY <2>1, <2>2 DEF LeidoInv, Overtaken
  <2>4. ~Reemplazada(k)
    BY <2>1, <2>2 DEF Overtaken, Reemplazada
  <2>5. \A n \in Nominas : Reemplazada(n)' <=> Reemplazada(n)
    <3>1. request' = [request EXCEPT ![r] = [op |-> "idle"]]
      BY <2>2 DEF End, Idle
    <3> QED BY <2>1, <3>1 DEF Reemplazada, TypeOK
  <2>6. /\ nomina'[k].estado = "cancelled" /\ ~nomina'[k].abonos
        /\ \A n \in Nominas : n # k => nomina'[n] = nomina[n]
    BY <2>2 DEF TypeOK, NominaType
  <2>7. Puestas' = Puestas \ {k}
    BY <1>3, <1>4, <1>5, <2>5, <2>6 DEF Estado
  <2>8. ConAbonos' = ConAbonos \ {k}
    BY <1>3, <1>4, <1>5, <2>6
  <2>9. (nomina[k].filas <=> k \in Puestas) /\ (nomina[k].abonos <=> k \in ConAbonos)
    BY <1>3, <2>3, <2>4
  <2>10. acumulado' = Take(Cardinality(Puestas), k \in Puestas)
         /\ pagado' = Take(Cardinality(ConAbonos), k \in ConAbonos)
    BY <1>1, <2>2, <2>9 DEF Take
  <2> QED BY <1>2, <2>7, <2>8, <2>10, CuentaMenos, Finitas
<1>9. ASSUME NEW r \in Requests, Recalcular(r)
      PROVE  BooksAgree'
  <2>1. PICK n \in Nominas, m \in Fresh, ok \in BOOLEAN : RecalculaComo(r, n, m, ok)
    BY <1>9, RecalculaNomina
  <2>2. m \in Nominas /\ Estado(m) = "none"
    BY <2>1 DEF Fresh
  <2>3. n # m /\ Estado(n) # "cancelled" /\ ~Overtaken(r)
    BY <2>1, <2>2 DEF RecalculaComo, LeidoInv, Ops
  <2>4. m \notin Puestas /\ m \notin ConAbonos
    BY <2>2, NadaPuesto
  <2>5. ~Reemplazada(n)
    BY <2>1, <2>3 DEF RecalculaComo, Overtaken, Reemplazada
  <2>6. ~Reemplazada(m)
    BY <2>2 DEF LeidoInv, Reemplazada, Ops
  <2>7. \A k \in Nominas : Reemplazada(k)' <=> k = n \/ Reemplazada(k)
    <3>1. request'[r].op = "reemplazar" /\ request'[r].n = n /\ request[r].op # "reemplazar"
      BY <2>1 DEF RecalculaComo, TypeOK
    <3>2. \A q \in Requests \ {r} : request'[q] = request[q]
      BY <2>1 DEF RecalculaComo
    <3> QED BY <3>1, <3>2 DEF Reemplazada
  <2>8. /\ nomina'[m].filas = ok /\ nomina'[m].abonos = ok /\ nomina'[m].estado # "cancelled"
        /\ nomina'[n].abonos = FALSE
        /\ \A k \in Nominas \ {n, m} : nomina'[k] = nomina[k]
    BY <2>1, <2>2, <2>3 DEF RecalculaComo, NewNomina, TypeOK, NominaType
  <2>9. Puestas' = (IF ok THEN (Puestas \ {n}) \cup {m} ELSE Puestas \ {n})
    BY <1>3, <1>4, <1>5, <2>2, <2>3, <2>4, <2>6, <2>7, <2>8 DEF Estado
  <2>10. ConAbonos' = (IF ok THEN (ConAbonos \ {n}) \cup {m} ELSE ConAbonos \ {n})
    BY <1>3, <1>4, <1>5, <2>2, <2>3, <2>4, <2>8
  <2>11. (nomina[n].filas <=> n \in Puestas) /\ (nomina[n].abonos <=> n \in ConAbonos)
    BY <1>3, <2>3, <2>5
  <2>12. /\ acumulado' = Take(Cardinality(Puestas), n \in Puestas) + (IF ok THEN 1 ELSE 0)
         /\ pagado' = Take(Cardinality(ConAbonos), n \in ConAbonos) + (IF ok THEN 1 ELSE 0)
    BY <1>1, <2>1, <2>11 DEF RecalculaComo, Take
  <2>13. /\ Take(Cardinality(Puestas), n \in Puestas) = Cardinality(Puestas \ {n})
         /\ Take(Cardinality(ConAbonos), n \in ConAbonos) = Cardinality(ConAbonos \ {n})
    BY CuentaMenos, Finitas
  <2>14. /\ Cardinality(Puestas') = Cardinality(Puestas \ {n}) + (IF ok THEN 1 ELSE 0)
         /\ Cardinality(ConAbonos') = Cardinality(ConAbonos \ {n}) + (IF ok THEN 1 ELSE 0)
    <3>1. m \notin Puestas \ {n} /\ m \notin ConAbonos \ {n}
      BY <2>4
    <3> QED BY <2>9, <2>10, <3>1, CuentaMas, Finitas
  <2> QED BY <1>2, <2>12, <2>13, <2>14
<1> QED BY <1>6, <1>7, <1>8, <1>9 DEF Posts

\* Whatever was executed, failed, retried, voided and recalculated, the annual
\* accumulation holds the nominas that are posted and the loan has lost one
\* instalment for each nomina with payment rows, while no incident happened.
THEOREM BooksAlwaysMatch == Spec => []BooksMatch
<1>1. Init => BooksMatch
  <2> SUFFICES ASSUME Init PROVE BooksAgree
    BY DEF BooksMatch
  <2>1. {n \in Nominas : Posted(n)} = {} /\ {n \in Nominas : nomina[n].abonos} = {}
    BY DEF Init, Posted
  <2> QED BY <2>1, FS_EmptySet DEF Init, BooksAgree
<1>2. /\ TypeOK /\ TypeOK' /\ ApplyLock /\ LeidoInv /\ SinFilas /\ ReemplazoInv
      /\ BooksMatch /\ [Next]_vars
      => BooksMatch'
  <2> SUFFICES ASSUME TypeOK, TypeOK', ApplyLock, LeidoInv, SinFilas, ReemplazoInv, BooksMatch,
                      [Next]_vars, incidentes' = {}
               PROVE  BooksAgree'
    BY DEF BooksMatch
  <2>1. incidentes = {} /\ BooksAgree
    BY IncidentesGrow DEF BooksMatch
  <2>2. CASE Posts
    BY <2>1, <2>2, PostingStepsKeepBooks
  <2>3. CASE ~Posts
    <3>1. /\ UNCHANGED books
          /\ \A n \in Nominas : (n \in Puestas' <=> n \in Puestas)
                                /\ (n \in ConAbonos' <=> n \in ConAbonos)
      BY <2>3, OtherStepsKeepBooks
    <3>2. Puestas' = Puestas /\ ConAbonos' = ConAbonos
      BY <3>1 DEF Puestas, ConAbonos
    <3> QED BY <2>1, <3>1, <3>2 DEF BooksAgree, Puestas, ConAbonos, books
  <2> QED BY <2>2, <2>3
<1> QED
  BY <1>1, <1>2, TypeCorrect, ApplyLockInvariant, LeidoInvariant, SinFilasInvariant,
     ReemplazoInvariant, PTL DEF Spec
=============================================================================
