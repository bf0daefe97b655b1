--------------------------- MODULE NominaLifecycle ---------------------------
(***************************************************************************)
(* The life of the payroll runs (nominas) of one planilla: the web         *)
(* handlers that create, approve, apply, void, recalculate and retry them, *)
(* the handler that attaches approved vacations, and what each of them     *)
(* does to the books of one representative employee with one loan.         *)
(*                                                                         *)
(* A handler is a request with a database transaction of its own, under    *)
(* READ COMMITTED.  Most handlers read nomina.estado without a lock, test  *)
(* it, and later write the row by its primary key: they are two steps      *)
(* here, the read (Leer...) and the commit, and any other commit may fall  *)
(* between them.  What a handler reads after that test it is taken to read *)
(* when it commits.  A SELECT ... FOR UPDATE is a lock held from the read  *)
(* to the commit: planillaLock (execute_payroll) and rowLock               *)
(* (aplicar_nomina).                                                       *)
(*                                                                         *)
(* The background calculation is one step here; NominaJob has its detail.  *)
(***************************************************************************)
EXTENDS Naturals, FiniteSets

CONSTANTS
  Requests,       \* HTTP requests that may be in progress at the same time
  Periodos,       \* payroll periods, pairwise disjoint
  MaxNominas,     \* bound: nominas ever created
  MaxPostings,    \* bound: units a book may hold
  MaxOperations   \* bound: operations ever begun

ASSUME RequestsAssumption == "nobody" \notin Requests
ASSUME BoundsAssumption == MaxNominas \in Nat /\ MaxPostings \in Nat /\ MaxOperations \in Nat

Nominas == 1 .. MaxNominas

VARIABLES
  nomina,        \* the row of each nomina and what hangs from it
  acumulado,     \* payrolls the AcumuladoAnual of the employee holds
  pagado,        \* instalments taken off the balance of the loan
  vacacion,      \* estado of the vacation request of the employee
  puentes,       \* nominas with a VacationNominaNovedad of that request
  ejecutadas,    \* periods whose unbound novedad is EJECUTADA
  planillaLock, rowLock,
  request,       \* what each request is doing
  operations,    \* operations begun
  incidentes     \* history: what went on that the code does not guard against

books == <<acumulado, pagado>>
vacations == <<vacacion, puentes>>
locks == <<planillaLock, rowLock>>
vars == <<nomina, books, vacations, ejecutadas, locks, request, operations, incidentes>>

-----------------------------------------------------------------------------
(* Types                                                                     *)

\* "none" is a nomina not created yet, "deleted" one that was.
Estados == {"none", "deleted", "calculating", "generated", "generated_with_errors",
            "error", "approved", "applied", "cancelled"}

\* filas: it has NominaEmpleado rows; abonos: AdelantoAbono rows;
\* prestaciones: PrestacionAcumulada rows; background: a queued job does, or
\* did, its calculation.
NominaType == [estado : Estados, periodo : Periodos, background : BOOLEAN,
               filas : BOOLEAN, abonos : BOOLEAN, prestaciones : BOOLEAN]

Ops == {"encolar", "aprobar", "aplicar", "anular", "vacaciones", "reintentar", "recalcular"}

\* n is the nomina of the request, m the one that replaces it, visto the
\* estado it read, periodo the period it executes.
Idle == [op |-> "idle"]
RequestType ==
  {Idle} \cup [op : {"ejecutar"}, periodo : Periodos]
         \cup [op : Ops, n : Nominas, visto : Estados]
         \cup [op : {"reemplazar"}, n : Nominas, m : Nominas, visto : Estados]

\* "stale": a handler wrote over an estado that had changed since it tested it;
\* "interrupted": a recalculation ended between its two transactions;
\* "unvoided", "unfinished": a voided nomina, or one whose job may still be
\* running, was recalculated.
Incidentes == {"stale", "interrupted", "unvoided", "unfinished"}

TypeOK ==
  /\ nomina \in [Nominas -> NominaType]
  /\ acumulado \in 0 .. MaxPostings /\ pagado \in 0 .. MaxPostings
  /\ vacacion \in {"approved", "applied"}
  /\ puentes \in SUBSET Nominas
  /\ ejecutadas \in SUBSET Periodos
  /\ planillaLock \in Requests \cup {"nobody"}
  /\ rowLock \in [Nominas -> Requests \cup {"nobody"}]
  /\ request \in [Requests -> RequestType]
  /\ operations \in 0 .. MaxOperations
  /\ incidentes \in SUBSET Incidentes

Init ==
  /\ \E p \in Periodos :
       nomina = [n \in Nominas |->
                   [estado |-> "none", periodo |-> p, background |-> FALSE,
                    filas |-> FALSE, abonos |-> FALSE, prestaciones |-> FALSE]]
  /\ acumulado = 0 /\ pagado = 0
  /\ vacacion = "approved" /\ puentes = {}
  /\ ejecutadas = {}
  /\ planillaLock = "nobody" /\ rowLock = [n \in Nominas |-> "nobody"]
  /\ request = [r \in Requests |-> Idle]
  /\ operations = 0 /\ incidentes = {}

-----------------------------------------------------------------------------
(* What the handlers share                                                   *)

Estado(n) == nomina[n].estado
Exists(n) == Estado(n) \notin {"none", "deleted"}

Busy(r) == request[r].op # "idle"

\* The request begins an operation.
Begin(r, operation) ==
  /\ ~Busy(r)
  /\ operations < MaxOperations
  /\ operations' = operations + 1
  /\ request' = [request EXCEPT ![r] = operation]

\* The operation is over.
End(r) == request' = [request EXCEPT ![r] = Idle] /\ UNCHANGED operations

\* Reads the nomina without a lock and goes on with the operation.
Leer(r, op, n) ==
  /\ Exists(n)
  /\ Begin(r, [op |-> op, n |-> n, visto |-> Estado(n)])
  /\ UNCHANGED <<nomina, books, vacations, ejecutadas, locks, incidentes>>

\* The request reaches its write of the row of n, which is still there and
\* which no other transaction has locked.
Escribe(r, op) ==
  /\ request[r].op = op
  /\ Exists(request[r].n)
  /\ rowLock[request[r].n] = "nobody"

Record(incidente, happened) ==
  incidentes' = IF happened THEN incidentes \cup {incidente} ELSE incidentes

\* The estado changed after the request tested it, or another request is
\* between the two transactions of a recalculation of the nomina.
Overtaken(r) ==
  \/ Estado(request[r].n) # request[r].visto
  \/ \E q \in Requests \ {r} :
       request[q].op = "reemplazar" /\ request[q].n = request[r].n

\* A slip: a rollback does not stop at zero.
SubtractUnclamped(x) == x - 1
\* The rollbacks subtract down to zero.
Subtract(x) == IF x > 0 THEN x - 1 ELSE 0

Take(x, had) == IF had THEN Subtract(x) ELSE x

CanPost == acumulado < MaxPostings /\ pagado < MaxPostings

-----------------------------------------------------------------------------
(* Creating a nomina                                                         *)

\* The estados that keep a period taken: the overlap check and the check for
\* duplicates list the same ones.
Blocking == {"calculating", "generated", "approved", "applied"}

PeriodoLibre(p, excluded) ==
  \A n \in Nominas \ {excluded} : nomina[n].periodo = p => Estado(n) \notin Blocking

Fresh == {n \in Nominas : Estado(n) = "none" /\ \A k \in 1 .. n - 1 : Estado(k) # "none"}

NewNomina(p, estado, background, posted) ==
  [estado |-> estado, periodo |-> p, background |-> background,
   filas |-> posted, abonos |-> posted, prestaciones |-> FALSE]

\* A slip: execute_payroll does not lock the planilla.
NoPlanillaLock == TRUE
PlanillaLockFree == planillaLock = "nobody"

\* execute_payroll locks the planilla and validates the period.
EjecutarValida(r, p) ==
  /\ PlanillaLockFree
  /\ PeriodoLibre(p, 0)
  /\ planillaLock' = r
  /\ Begin(r, [op |-> "ejecutar", periodo |-> p])
  /\ UNCHANGED <<nomina, books, vacations, ejecutadas, rowLock, incidentes>>

\* It calculates every employee and posts, or some employee fails and only an
\* ERROR nomina is committed for the audit trail.
EjecutarCommit(r) ==
  /\ request[r].op = "ejecutar"
  /\ \E n \in Fresh, ok \in BOOLEAN :
       /\ ok => CanPost
       /\ nomina' = [nomina EXCEPT ![n] =
            NewNomina(request[r].periodo, IF ok THEN "generated" ELSE "error", FALSE, ok)]
       /\ acumulado' = IF ok THEN acumulado + 1 ELSE acumulado
       /\ pagado' = IF ok THEN pagado + 1 ELSE pagado
  /\ planillaLock' = "nobody"
  /\ End(r)
  /\ UNCHANGED <<vacations, ejecutadas, rowLock, incidentes>>

\* More employees than the threshold, and the queue is up: the nomina is
\* inserted and its job enqueued.  Neither the period nor the planilla lock is
\* looked at, but the foreign key of the INSERT waits for that lock.
EjecutarEnBackground(r, p) ==
  /\ planillaLock = "nobody"
  /\ \E n \in Fresh :
       /\ nomina' = [nomina EXCEPT ![n] = NewNomina(p, "calculating", TRUE, FALSE)]
       /\ Begin(r, [op |-> "encolar", n |-> n, visto |-> "calculating"])
  /\ UNCHANGED <<books, vacations, ejecutadas, locks, incidentes>>

\* The queue takes the job.
Encolar(r) ==
  /\ request[r].op = "encolar"
  /\ End(r)
  /\ UNCHANGED <<nomina, books, vacations, ejecutadas, locks, incidentes>>

\* The queue refuses it and the nomina is deleted, unless a bridge refers to
\* it; the same request then executes the period itself (EjecutarValida).
EncolarFalla(r) ==
  /\ Escribe(r, "encolar")
  /\ request[r].n \notin puentes
  /\ nomina' = [nomina EXCEPT ![request[r].n].estado = "deleted"]
  /\ Record("stale", Overtaken(r))
  /\ End(r)
  /\ UNCHANGED <<books, vacations, ejecutadas, locks>>

Encolando(n) == \E r \in Requests : request[r].op = "encolar" /\ request[r].n = n

\* The job posts the employees that succeed (the one of the model may be the
\* one that fails) or ends in ERROR before its first employee.
JobFinish(n) ==
  /\ Estado(n) = "calculating" /\ ~Encolando(n)
  /\ rowLock[n] = "nobody"
  /\ \E estado \in {"generated", "generated_with_errors", "error"}, posted \in BOOLEAN :
       /\ estado = "generated" => posted
       /\ estado = "error" => ~posted
       /\ posted => CanPost
       /\ nomina' = [nomina EXCEPT ![n].estado = estado, ![n].filas = posted, ![n].abonos = posted]
       /\ acumulado' = IF posted THEN acumulado + 1 ELSE acumulado
       /\ pagado' = IF posted THEN pagado + 1 ELSE pagado
  /\ UNCHANGED <<vacations, ejecutadas, locks, request, operations, incidentes>>

-----------------------------------------------------------------------------
(* Approving and applying                                                    *)

AprobarLee(r, n) == Estado(n) = "generated" /\ Leer(r, "aprobar", n)

Aprobar(r) ==
  /\ Escribe(r, "aprobar")
  /\ nomina' = [nomina EXCEPT ![request[r].n].estado = "approved"]
  /\ Record("stale", Overtaken(r))
  /\ End(r)
  /\ UNCHANGED <<books, vacations, ejecutadas, locks>>

\* A slip: aplicar_nomina reads the nomina without FOR UPDATE.
NoRowLock(r, n) == rowLock
TakeRowLock(r, n) == [rowLock EXCEPT ![n] = r]

\* _get_nomina_for_application: the row is locked before estado is tested.
AplicarBloquea(r, n) ==
  /\ rowLock[n] = "nobody"
  /\ Estado(n) = "approved"
  /\ rowLock' = TakeRowLock(r, n)
  /\ Begin(r, [op |-> "aplicar", n |-> n, visto |-> "approved"])
  /\ UNCHANGED <<nomina, books, vacations, ejecutadas, planillaLock, incidentes>>

\* A slip: the novedades are not filtered by the dates of the period.
EjecutaAnyPeriod(n) == Periodos
EjecutaPeriod(n) == {nomina[n].periodo}

\* The benefit rows are written and the novedades of the period are executed.
Aplicar(r) ==
  /\ request[r].op = "aplicar"
  /\ LET n == request[r].n
     IN  /\ nomina' = [nomina EXCEPT ![n].estado = "applied", ![n].prestaciones = nomina[n].filas]
         /\ ejecutadas' = ejecutadas \cup EjecutaPeriod(n)
         /\ rowLock' = [rowLock EXCEPT ![n] = "nobody"]
  /\ End(r)
  /\ UNCHANGED <<books, vacations, planillaLock, incidentes>>

-----------------------------------------------------------------------------
(* Voiding                                                                   *)

\* A slip: the check for applied nominas is missing.
AnyVoidable(n) == Estado(n) \notin {"calculating", "cancelled"}
Voidable(n) == Estado(n) \notin {"applied", "calculating", "cancelled"}

AnularLee(r, n) == Voidable(n) /\ Leer(r, "anular", n)

\* The payslip rows stay; what they added is taken back, the loan payments are
\* deleted and restored, the vacation request is approved again.
Anular(r) ==
  /\ Escribe(r, "anular")
  /\ LET n == request[r].n
     IN  /\ nomina' = [nomina EXCEPT ![n].estado = "cancelled", ![n].abonos = FALSE]
         /\ acumulado' = Take(acumulado, nomina[n].filas)
         /\ pagado' = Take(pagado, nomina[n].abonos)
         /\ vacacion' = IF n \in puentes THEN "approved" ELSE vacacion
         /\ puentes' = puentes \ {n}
  /\ Record("stale", Overtaken(r))
  /\ End(r)
  /\ UNCHANGED <<ejecutadas, locks>>

-----------------------------------------------------------------------------
(* Vacations                                                                 *)

\* aplicar_vacaciones_nomina reads an approved request with no bridge.
VacacionesLee(r, n) ==
  /\ Estado(n) # "applied"
  /\ vacacion = "approved"
  /\ puentes = {}
  /\ Leer(r, "vacaciones", n)

\* The INSERTs refer to the nomina, and wait for its lock; the unique key
\* refuses a second bridge to the same nomina.
Vacaciones(r) ==
  /\ Escribe(r, "vacaciones")
  /\ request[r].n \notin puentes
  /\ vacacion' = "applied"
  /\ puentes' = puentes \cup {request[r].n}
  /\ Record("stale", Overtaken(r) \/ vacacion # "approved")
  /\ End(r)
  /\ UNCHANGED <<nomina, books, ejecutadas, locks>>

-----------------------------------------------------------------------------
(* Retrying and recalculating                                                *)

ReintentarLee(r, n) == Estado(n) = "error" /\ Leer(r, "reintentar", n)

\* retry_failed_nomina: _rollback_nomina_data deletes the rows and touches
\* neither accumulation nor balance; the job is enqueued.
Reintentar(r) ==
  /\ Escribe(r, "reintentar")
  /\ nomina' = [nomina EXCEPT ![request[r].n] =
                  NewNomina(nomina[request[r].n].periodo, "calculating", TRUE, FALSE)]
  /\ Record("stale", Overtaken(r))
  /\ End(r)
  /\ UNCHANGED <<books, vacations, ejecutadas, locks>>

RecalcularLee(r, n) == Estado(n) # "applied" /\ Leer(r, "recalcular", n)

\* A slip: the rollback before the recalculation is missing.
KeepOld(x, had) == x
TakeBackOld(x, had) == Take(x, had)

\* The rollback of the old nomina and the new one, calculated with the old one
\* left out of the check of the period, are committed together.
Recalcular(r) ==
  /\ request[r].op = "recalcular"
  /\ planillaLock = "nobody"
  /\ LET n == request[r].n
         p == nomina[n].periodo
     IN  \E m \in Fresh, ok \in BOOLEAN :
           /\ PeriodoLibre(p, n)
           /\ nomina' = [nomina EXCEPT
                ![n].abonos = FALSE,
                ![m] = NewNomina(p, IF ok THEN "generated" ELSE "error", FALSE, ok)]
           /\ acumulado' = TakeBackOld(acumulado, nomina[n].filas) + (IF ok THEN 1 ELSE 0)
           /\ pagado' = TakeBackOld(pagado, nomina[n].abonos) + (IF ok THEN 1 ELSE 0)
           /\ acumulado' <= MaxPostings /\ pagado' <= MaxPostings
           /\ request' = [request EXCEPT ![r] =
                [op |-> "reemplazar", n |-> n, m |-> m, visto |-> request[r].visto]]
           /\ incidentes' = incidentes
                \cup (IF Overtaken(r) THEN {"stale"} ELSE {})
                \cup (IF Estado(n) = "cancelled" THEN {"unvoided"} ELSE {})
                \cup (IF Estado(n) = "calculating" THEN {"unfinished"} ELSE {})
  /\ UNCHANGED <<vacations, ejecutadas, locks, operations>>

\* A slip: the bridges go with the old nomina.
LoseBridges(n, m) == puentes \ {n}
Relink(n, m) == IF n \in puentes THEN (puentes \ {n}) \cup {m} ELSE puentes

\* The second transaction of recalcular_nomina marks the new nomina and gives
\* it the bridges of the old one, which goes with its rows.
Reemplazar(r) ==
  /\ Escribe(r, "reemplazar")
  /\ Exists(request[r].m) /\ rowLock[request[r].m] = "nobody"
  /\ LET n == request[r].n
         m == request[r].m
     IN  /\ nomina' = [nomina EXCEPT ![n].estado = "deleted", ![n].filas = FALSE,
                                     ![n].prestaciones = FALSE]
         /\ puentes' = Relink(n, m)
  /\ Record("stale", Overtaken(r))
  /\ End(r)
  /\ UNCHANGED <<books, vacacion, ejecutadas, locks>>

-----------------------------------------------------------------------------
(* Any transaction may fail or lose its process: it is rolled back and its   *)
(* locks go.  A recalculation that fails in its second transaction keeps     *)
(* the first.                                                                *)

Fails(r) ==
  /\ Busy(r)
  /\ planillaLock' = IF planillaLock = r THEN "nobody" ELSE planillaLock
  /\ rowLock' = [n \in Nominas |-> IF rowLock[n] = r THEN "nobody" ELSE rowLock[n]]
  /\ Record("interrupted", request[r].op = "reemplazar")
  /\ End(r)
  /\ UNCHANGED <<nomina, books, vacations, ejecutadas>>

Next ==
  \/ \E r \in Requests :
       \/ \E p \in Periodos : EjecutarValida(r, p) \/ EjecutarEnBackground(r, p)
       \/ \E n \in Nominas :
            \/ AprobarLee(r, n) \/ AplicarBloquea(r, n) \/ AnularLee(r, n)
            \/ VacacionesLee(r, n) \/ ReintentarLee(r, n) \/ RecalcularLee(r, n)
       \/ EjecutarCommit(r) \/ Encolar(r) \/ EncolarFalla(r)
       \/ Aprobar(r) \/ Aplicar(r) \/ Anular(r) \/ Vacaciones(r)
       \/ Reintentar(r) \/ Recalcular(r) \/ Reemplazar(r) \/ Fails(r)
  \/ \E n \in Nominas : JobFinish(n)

Spec == Init /\ [][Next]_vars

-----------------------------------------------------------------------------
(* Properties                                                                *)

\* aplicar_nomina materializes the deferred effects of an APROBADO nomina and
\* of no other, whichever handler commits in the meantime: the row lock it
\* takes before it tests estado makes the test and the effects one step.
AppliedFromApproved ==
  [][\A n \in Nominas :
       Estado(n) # "applied" /\ Estado(n)' = "applied" => Estado(n) = "approved"]_vars

Orderly == "stale" \notin incidentes

\* Unless a handler wrote over an estado that had changed since it tested it,
\* an applied nomina is for consultation only: no handler moves it or deletes
\* it, not even a recalculation that was already running.
AppliedIsFinal ==
  [][\A n \in Nominas : Orderly' /\ Estado(n) = "applied" => Estado(n)' = "applied"]_vars

\* Benefit rows belong to applied nominas only, and the novedades of a period
\* are executed only by an applied nomina of that period.
EffectsOnlyOfApplied ==
  Orderly =>
    /\ \A n \in Nominas : nomina[n].prestaciones => Estado(n) = "applied"
    /\ \A p \in ejecutadas :
         \E n \in Nominas : nomina[n].periodo = p /\ Estado(n) = "applied"

Reemplazando(n, m) ==
  \E r \in Requests : /\ request[r].op = "reemplazar"
                      /\ {request[r].n, request[r].m} = {n, m}

\* Two nominas keep the same period taken, and neither is being replaced by
\* the other.
Overlap(n, m) ==
  /\ n # m /\ nomina[n].periodo = nomina[m].periodo
  /\ Estado(n) \in Blocking /\ Estado(m) \in Blocking
  /\ ~Reemplazando(n, m)

\* The lock of the planilla and the check of the period keep the nominas that
\* are calculated within a request apart, however many requests there are.
OnePayrollPerPeriod ==
  incidentes \cap {"stale", "interrupted"} = {} =>
    \A n, m \in Nominas :
      Overlap(n, m) => nomina[n].background \/ nomina[m].background

Reemplazada(n) == \E r \in Requests : request[r].op = "reemplazar" /\ request[r].n = n

\* n is posted: it has its rows, was not voided, and no recalculation has
\* taken it back already.
Posted(n) == nomina[n].filas /\ Estado(n) # "cancelled" /\ ~Reemplazada(n)

BooksAgree ==
  /\ acumulado = Cardinality({n \in Nominas : Posted(n)})
  /\ pagado = Cardinality({n \in Nominas : nomina[n].abonos})

\* The annual accumulation holds exactly the nominas that are posted, and the
\* loan has lost exactly one instalment for each nomina with payment rows,
\* whatever was executed, failed, retried, voided and recalculated.
BooksMatch == incidentes = {} => BooksAgree

\* A vacation request is APLICADO exactly when one bridge attaches it to a
\* nomina, and that nomina exists: voiding gives it back, recalculating hands
\* it over, and two handlers do not attach it twice.
VacationAttached ==
  Orderly =>
    /\ Cardinality(puentes) = IF vacacion = "applied" THEN 1 ELSE 0
    /\ \A n \in puentes : Exists(n)

-----------------------------------------------------------------------------
(* What the repository says and the code does not do                         *)

\* nomina_routes.py:952: a nomina is voided when it has not been applied.
VoidedWhenNotApplied ==
  [][\A n \in Nominas :
       Estado(n) # "cancelled" /\ Estado(n)' = "cancelled" => Estado(n) # "applied"]_vars

\* payroll_execution_service.py:114-118: concurrent runs do not create two
\* payrolls for the same period.
NoDuplicatePayrolls ==
  incidentes = {} => \A n, m \in Nominas : ~Overlap(n, m)

\* nomina_service.py:36-37: the rollback before a recalculation keeps the
\* accumulated values right.
RecalculationKeepsBooks == incidentes \subseteq {"unvoided"} => BooksAgree
=============================================================================
