------------------------------ MODULE Novedades ------------------------------
(***************************************************************************)
(* The novedades (NominaNovedad) of the payrolls: overtime, absences and   *)
(* bonuses that users register on an open payroll, or that hang from none  *)
(* and wait for the payroll of their date.  Which of them a calculation    *)
(* counts, a list shows and an application marks as executed is decided by *)
(* three queries at three moments, while requests create, edit and delete  *)
(* them and a recalculation hands them from the old payroll to the new.    *)
(*                                                                         *)
(* A request tests the payroll when it reads it and commits later.  A      *)
(* calculation holds the lock of its planilla; a recalculation is three    *)
(* steps, and its old and its new payroll are both there before the last.  *)
(* The other handlers of a payroll are single steps here: NominaLifecycle  *)
(* has their interleavings.                                                *)
(***************************************************************************)
EXTENDS Integers, FiniteSets

CONSTANTS
  Requests,       \* requests in progress at the same time
  Planillas,
  Empleados,
  Miembros,       \* active employees of each planilla
  Nominas,        \* payrolls ever created
  Novedades,      \* novedades ever created
  NULL,
  MaxFecha,       \* bound: dates
  MaxOperations   \* bound: requests and loose novedades ever begun

ASSUME MiembrosAssumption ==
  Planillas # {} /\ Empleados # {} /\ Miembros \in [Planillas -> SUBSET Empleados]
ASSUME NullAssumption == NULL \notin Nominas
ASSUME BoundsAssumption == MaxFecha \in Nat \ {0} /\ MaxOperations \in Nat

VARIABLES
  nomina,       \* the payrolls
  novedad,      \* the rows
  contadas,     \* the novedades whose amounts the payslips of a payroll hold
  tocadas,      \* history: novedades that changed since a payroll counted them
  request,      \* what each request is doing
  operations,   \* requests and loose novedades begun
  incidentes    \* history: payrolls applied while they were recalculated, or
                \* left beside the old one by a recalculation that failed

historia == <<tocadas, incidentes>>
vars == <<nomina, novedad, contadas, historia, request, operations>>

-----------------------------------------------------------------------------
(* Types                                                                     *)

\* "naciente": inserted by a transaction that has not committed.
Estados == {"none", "naciente", "generated", "error", "approved", "applied", "cancelled", "deleted"}

\* The date 0 is NULL.
Fechas == 0 .. MaxFecha

NominaType == [estado : Estados, planilla : Planillas, inicio : 1 .. MaxFecha, fin : 1 .. MaxFecha]
NovedadType ==
  [estado : {"none", "pending", "executed", "deleted"}, nomina : Nominas \cup {NULL},
   empleado : Empleados, fecha : Fechas]

\* ids: the novedades bound to the payroll n when its recalculation began;
\* m is the payroll being calculated.
Idle == [op |-> "idle"]
Doing ==
  [op : {"crear"}, n : Nominas]
    \cup [op : {"editar", "eliminar"}, n : Nominas, v : Novedades]
    \cup [op : {"recalcular"}, n : Nominas, ids : SUBSET Novedades]
    \cup [op : {"calcular"}, n : Nominas \cup {NULL}, m : Nominas, ids : SUBSET Novedades]
    \cup [op : {"reenlazar"}, n : Nominas, m : Nominas, ids : SUBSET Novedades]

TypeOK ==
  /\ nomina \in [Nominas -> NominaType]
  /\ novedad \in [Novedades -> NovedadType]
  /\ contadas \in [Nominas -> SUBSET Novedades]
  /\ tocadas \in [Nominas -> SUBSET Novedades]
  /\ incidentes \subseteq Nominas
  /\ request \in [Requests -> Doing \cup {Idle}]
  /\ operations \in 0 .. MaxOperations

Init ==
  /\ nomina = [n \in Nominas |->
       [estado |-> "none", planilla |-> CHOOSE p \in Planillas : TRUE, inicio |-> 1, fin |-> 1]]
  /\ novedad = [v \in Novedades |->
       [estado |-> "none", nomina |-> NULL, empleado |-> CHOOSE e \in Empleados : TRUE, fecha |-> 0]]
  /\ contadas = [n \in Nominas |-> {}]
  /\ incidentes = {}
  /\ tocadas = [n \in Nominas |-> {}]
  /\ request = [r \in Requests |-> Idle]
  /\ operations = 0

-----------------------------------------------------------------------------
(* The queries                                                               *)

Estado(n) == nomina[n].estado
Existe(n) == Estado(n) \notin {"none", "naciente", "deleted"}
Vigentes == {n \in Nominas : Estado(n) \in {"naciente", "generated", "approved", "applied"}}
Viva(v) == novedad[v].estado \in {"pending", "executed"}

\* Bound to the payroll n, or loose with a date of the period.
Pertenece(v, n, i, f) ==
  \/ novedad[v].nomina = n
  \/ novedad[v].nomina = NULL /\ novedad[v].fecha \in i .. f

\* The novedades of the employees of p that a payroll of this period reads as n.
Cuenta(n, p, i, f) ==
  {v \in Novedades : Viva(v) /\ novedad[v].empleado \in Miembros[p] /\ Pertenece(v, n, i, f)}

Lista(n) == Cuenta(n, nomina[n].planilla, nomina[n].inicio, nomina[n].fin)

Ligadas(n) == {v \in Novedades : Viva(v) /\ novedad[v].nomina = n}

-----------------------------------------------------------------------------
(* Novedades                                                                 *)

\* NOVEDAD_LOCKED_NOMINA_STATES
Cerradas == {"applied", "cancelled"}

\* The form offers the employees with a payslip.
ConRecibos == {"generated", "approved"}

Begin(r, operation) ==
  /\ request[r] = Idle
  /\ operations < MaxOperations
  /\ operations' = operations + 1
  /\ request' = [request EXCEPT ![r] = operation]

End(r) == request' = [request EXCEPT ![r] = Idle] /\ UNCHANGED operations

Leer(r, operation) == Begin(r, operation) /\ UNCHANGED <<nomina, novedad, contadas, historia>>

Abierta(n) == Existe(n) /\ Estado(n) \notin Cerradas

CrearLee(r, n) ==
  /\ Abierta(n) /\ Estado(n) \in ConRecibos
  /\ Leer(r, [op |-> "crear", n |-> n])

EditarLee(r, n, v) ==
  /\ Abierta(n) /\ Estado(n) \in ConRecibos
  /\ Viva(v) /\ Pertenece(v, n, nomina[n].inicio, nomina[n].fin)
  /\ Leer(r, [op |-> "editar", n |-> n, v |-> v])

EliminarLee(r, n, v) ==
  /\ Abierta(n)
  /\ Viva(v) /\ Pertenece(v, n, nomina[n].inicio, nomina[n].fin)
  /\ Leer(r, [op |-> "eliminar", n |-> n, v |-> v])

\* Who counted these rows before counted something else.
Toca(V) ==
  tocadas' = [n \in Nominas |-> IF n \in Vigentes THEN tocadas[n] \cup V ELSE tocadas[n]]

Escribe(v, fila) == novedad' = [novedad EXCEPT ![v] = fila] /\ Toca({v})

\* validar_fecha_novedad: no date, or one of the period.
FechaValida(n) == {0} \cup (nomina[n].inicio .. nomina[n].fin)

Fresca(v) == novedad[v].estado = "none"

\* The payroll may have been replaced since: the row is then bound to one that
\* is no more, or is refused where foreign keys are enforced (Fails).
Crear(r) ==
  /\ request[r].op = "crear"
  /\ LET n == request[r].n
     IN  \E v \in Novedades, e \in Miembros[nomina[n].planilla], f \in FechaValida(n) :
           /\ Fresca(v)
           /\ Escribe(v, [estado |-> "pending", nomina |-> n, empleado |-> e, fecha |-> f])
  /\ End(r)
  /\ UNCHANGED <<nomina, contadas, incidentes>>

\* The payroll it is bound to and its estado stay.
Editar(r) ==
  /\ request[r].op = "editar"
  /\ LET n == request[r].n
         v == request[r].v
     IN  /\ Viva(v)
         /\ \E e \in Miembros[nomina[n].planilla], f \in FechaValida(n) :
              Escribe(v, [novedad[v] EXCEPT !.empleado = e, !.fecha = f])
  /\ End(r)
  /\ UNCHANGED <<nomina, contadas, incidentes>>

Eliminar(r) ==
  /\ request[r].op = "eliminar"
  /\ LET v == request[r].v
     IN  Viva(v) /\ Escribe(v, [novedad[v] EXCEPT !.estado = "deleted"])
  /\ End(r)
  /\ UNCHANGED <<nomina, contadas, incidentes>>

\* A loose novedad: leave already taken, on any date, or one of the interface
\* for other programs, which has no date.
Suelta(v, e, f) ==
  /\ Fresca(v)
  /\ operations < MaxOperations
  /\ operations' = operations + 1
  /\ Escribe(v, [estado |-> "pending", nomina |-> NULL, empleado |-> e, fecha |-> f])
  /\ UNCHANGED <<nomina, contadas, incidentes, request>>

-----------------------------------------------------------------------------
(* Calculation                                                               *)

\* The estados that keep a period taken; "calculating" is never seen here, as
\* the planilla is locked while a payroll is naciente.
Ocupan == {"generated", "approved", "applied"}

\* A slip: only a payroll of the same dates takes a period.
MismasFechas(k, i, f) == nomina[k].inicio = i /\ nomina[k].fin = f
Traslapa(k, i, f) ==
  \/ nomina[k].inicio \in i .. f
  \/ nomina[k].fin \in i .. f
  \/ nomina[k].inicio <= i /\ nomina[k].fin >= f

PeriodoLibre(p, i, f, excluida) ==
  \A k \in Nominas \ {excluida} :
    nomina[k].planilla = p /\ Estado(k) \in Ocupan => ~Traslapa(k, i, f)

PlanillaLibre(p) ==
  \A q \in Requests : request[q].op = "calcular" => nomina[request[q].m].planilla # p

\* The payroll is inserted and reads the novedades of its context c.
Inserta(m, c, p, i, f) ==
  /\ Estado(m) = "none"
  /\ nomina' = [nomina EXCEPT ![m] =
       [estado |-> "naciente", planilla |-> p, inicio |-> i, fin |-> f]]
  /\ contadas' = [contadas EXCEPT ![m] = Cuenta(c, p, i, f)]
  /\ tocadas' = [tocadas EXCEPT ![m] = {}]
  /\ UNCHANGED <<novedad, incidentes>>

Ejecutar(r, p, i, f) ==
  /\ i <= f
  /\ PlanillaLibre(p) /\ PeriodoLibre(p, i, f, NULL)
  /\ \E m \in Nominas :
       /\ Inserta(m, m, p, i, f)
       /\ Begin(r, [op |-> "calcular", n |-> NULL, m |-> m, ids |-> {}])

\* recalcular_nomina lists the novedades bound to the payroll first.
RecalcularLee(r, n) ==
  /\ Existe(n) /\ Estado(n) # "applied"
  /\ Leer(r, [op |-> "recalcular", n |-> n, ids |-> Ligadas(n)])

\* A slip: the new payroll reads the novedades bound to itself, which are none.
Propias(n, m) == m
Contexto(n, m) == n

Recalcular(r) ==
  /\ request[r].op = "recalcular"
  /\ LET n == request[r].n
         fila == nomina[n]
     IN  /\ Existe(n)
         /\ PlanillaLibre(fila.planilla)
         /\ PeriodoLibre(fila.planilla, fila.inicio, fila.fin, n)
         /\ \E m \in Nominas :
              /\ Inserta(m, Contexto(n, m), fila.planilla, fila.inicio, fila.fin)
              /\ request' = [request EXCEPT ![r] =
                   [op |-> "calcular", n |-> n, m |-> m, ids |-> request[r].ids]]
  /\ UNCHANGED operations

\* It commits, with the payslips of everybody or, when somebody failed, as an
\* ERROR payroll without any.
Calculada(r) ==
  /\ request[r].op = "calcular"
  /\ LET n == request[r].n
         m == request[r].m
     IN  /\ \E ok \in BOOLEAN :
              /\ nomina' = [nomina EXCEPT ![m].estado = IF ok THEN "generated" ELSE "error"]
              /\ contadas' = [contadas EXCEPT ![m] = IF ok THEN @ ELSE {}]
         /\ IF n = NULL
            THEN End(r)
            ELSE /\ request' = [request EXCEPT ![r] =
                      [op |-> "reenlazar", n |-> n, m |-> m, ids |-> request[r].ids]]
                 /\ UNCHANGED operations
  /\ UNCHANGED <<novedad, historia>>

Pasa(v, r) == IF v \in request[r].ids THEN request[r].m ELSE NULL

\* The novedades of the list pass to the new payroll and the old one is
\* deleted; those bound to it since are left without a payroll.
Reenlazar(r) ==
  /\ request[r].op = "reenlazar"
  /\ LET n == request[r].n
         m == request[r].m
         ids == request[r].ids
     IN  /\ Existe(n) /\ Existe(m)
         /\ nomina' = [nomina EXCEPT ![n].estado = "deleted"]
         /\ novedad' = [v \in Novedades |->
              IF Viva(v) /\ (v \in ids \/ novedad[v].nomina = n)
              THEN [novedad[v] EXCEPT !.nomina = Pasa(v, r)] ELSE novedad[v]]
         /\ Toca(Ligadas(n) \ ids)
         /\ contadas' = [contadas EXCEPT ![n] = {}]
  /\ End(r)
  /\ UNCHANGED incidentes

\* A transaction that fails is rolled back.  A recalculation that fails in its
\* last step leaves both payrolls.
Fails(r) ==
  /\ request[r] # Idle
  /\ nomina' = IF request[r].op = "calcular"
               THEN [nomina EXCEPT ![request[r].m].estado = "deleted"] ELSE nomina
  /\ incidentes' = IF request[r].op = "reenlazar"
                   THEN incidentes \cup {request[r].m} ELSE incidentes
  /\ contadas' = IF request[r].op = "calcular"
                 THEN [contadas EXCEPT ![request[r].m] = {}] ELSE contadas
  /\ End(r)
  /\ UNCHANGED <<novedad, tocadas>>

-----------------------------------------------------------------------------
(* The life of a payroll                                                     *)

Cambia(n, estado) == nomina' = [nomina EXCEPT ![n].estado = estado]

Aprobar(n) ==
  /\ Estado(n) = "generated"
  /\ Cambia(n, "approved")
  /\ UNCHANGED <<novedad, contadas, historia, request, operations>>

PorEjecutar(n) == Lista(n)

\* A recalculation has read the payroll, or has not handed it over yet.
EnRecalculo(n) ==
  \E r \in Requests :
    \/ request[r].op \in {"recalcular", "calcular"} /\ request[r].n = n
    \/ request[r].op = "reenlazar" /\ n \in {request[r].n, request[r].m}

Aplicar(n) ==
  /\ Estado(n) = "approved"
  /\ Cambia(n, "applied")
  /\ novedad' = [v \in Novedades |->
       IF v \in PorEjecutar(n) THEN [novedad[v] EXCEPT !.estado = "executed"] ELSE novedad[v]]
  /\ incidentes' = IF EnRecalculo(n) THEN incidentes \cup {n} ELSE incidentes
  /\ UNCHANGED <<contadas, tocadas, request, operations>>

\* What is bound to a voided payroll stays bound to it.
Anular(n) ==
  /\ Estado(n) \in {"generated", "error", "approved"}
  /\ Cambia(n, "cancelled")
  /\ UNCHANGED <<novedad, contadas, historia, request, operations>>

Next ==
  \/ \E r \in Requests :
       \/ \E p \in Planillas, i, f \in 1 .. MaxFecha : Ejecutar(r, p, i, f)
       \/ \E n \in Nominas :
            \/ CrearLee(r, n) \/ RecalcularLee(r, n)
            \/ \E v \in Novedades : EditarLee(r, n, v) \/ EliminarLee(r, n, v)
       \/ Crear(r) \/ Editar(r) \/ Eliminar(r)
       \/ Recalcular(r) \/ Calculada(r) \/ Reenlazar(r) \/ Fails(r)
  \/ \E n \in Nominas : Aprobar(n) \/ Aplicar(n) \/ Anular(n)
  \/ \E v \in Novedades, e \in Empleados, f \in Fechas : Suelta(v, e, f)

Spec == Init /\ [][Next]_vars

-----------------------------------------------------------------------------
(* Properties                                                                *)

Reenlazando(n) == \E r \in Requests : request[r].op = "reenlazar" /\ request[r].m = n

\* The calculation, the list and the application agree: but for the novedades
\* that changed since it read them, a payroll has counted those its list
\* shows, also after any number of recalculations, and an applied payroll has
\* marked them all as executed.
CuentaLoListado ==
  \A n \in Nominas \ incidentes :
    Estado(n) \in Ocupan /\ ~Reenlazando(n) =>
      /\ contadas[n] \ tocadas[n] = Lista(n) \ tocadas[n]
      /\ Estado(n) = "applied" =>
           \A v \in contadas[n] \ tocadas[n] : novedad[v].estado = "executed"

Aplicadas == {n \in Nominas : Estado(n) = "applied"}

\* No planilla pays a novedad in two payrolls, although no calculation looks
\* at the estado of a novedad, unless it was edited between the two.
PagadaUnaVez ==
  \A n, k \in Aplicadas \ incidentes :
    n # k /\ nomina[n].planilla = nomina[k].planilla =>
      contadas[n] \cap contadas[k] \subseteq tocadas[n] \cup tocadas[k]
==============================================================================
