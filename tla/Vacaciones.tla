------------------------------ MODULE Vacaciones ------------------------------
(***************************************************************************)
(* The vacation account of one employee: leave requests (VacationNovelty)  *)
(* from their creation to the payroll that deducts them, the load of the   *)
(* initial balance, the accrual and the deductions a payroll posts when it *)
(* is applied (vacation_service.py within aplicar_nomina), the rollback of *)
(* a voided payroll and the payout of a settlement.                        *)
(*                                                                         *)
(* Applying a payroll locks the row of the nomina, reads whether the       *)
(* employee is active, and only then locks the account, reads the ledger   *)
(* and commits; a settlement may commit in between.  No other handler      *)
(* locks: each reads, tests and later commits what it computed from the    *)
(* rows it read.                                                           *)
(*                                                                         *)
(* A payroll that is calculated only previews its effect on the account;   *)
(* what it leaves is the list of requests in its snapshot.  Units are      *)
(* whole; a period earns what some case of Casos does.                     *)
(***************************************************************************)
EXTENDS Devengo

CONSTANTS
  Requests,            \* requests in progress at the same time
  Nominas,             \* payrolls that include the employee
  Solicitudes,         \* leave requests
  Liquidaciones,       \* settlements of the employee
  AllowNegative,       \* policy: leave in advance
  AccrueDuringLeave,   \* policy: a period with leave earns
  Tope,                \* policy: max_balance
  Casos,               \* payslips and policies a period may bring
  MaxUnidades,         \* bound: units of one leave request
  MaxInicial,          \* bound: initial balance
  MaxPeriodo,          \* bound: payroll periods
  MaxOperations        \* bound: requests ever begun

Inicial == "inicial"
Claves == {Inicial} \cup Nominas \cup Solicitudes \cup Liquidaciones

ASSUME NamesAssumption ==
  /\ Inicial \notin Nominas \cup Solicitudes \cup Liquidaciones
  /\ Nominas \cap Solicitudes = {} /\ Liquidaciones \cap (Nominas \cup Solicitudes) = {}
  /\ "none" \notin Nominas \cup Solicitudes \cup Liquidaciones
ASSUME PolicyAssumption == AllowNegative \in BOOLEAN /\ AccrueDuringLeave \in BOOLEAN
ASSUME CasosAssumption == \A c \in Casos : c \in Caso /\ IsFiniteSet(c.tramos)
ASSUME BoundsAssumption ==
  /\ Tope \in Nat /\ MaxUnidades \in Nat /\ MaxInicial \in Nat
  /\ MaxPeriodo \in Nat /\ MaxOperations \in Nat
ASSUME FiniteAssumption == IsFiniteSet(Claves)

VARIABLES
  libro,        \* the entries of the account
  saldo,        \* current_balance
  solicitud,    \* the leave requests
  puentes,      \* VacationNominaNovedad: requests attached to a payroll
  nomina,       \* the payrolls
  activo,       \* the employee has not been settled
  aplicando,    \* what the application of each payroll has read of him
  tardias,      \* history: entries posted after he was settled, by an
                \* application that had read him active
  request,      \* what each request is doing
  operations,   \* requests begun
  incidentes    \* history: a request wrote over what had changed

cuenta == <<libro, saldo>>
filas == <<solicitud, puentes, nomina, activo, aplicando, tardias>>
vars == <<cuenta, filas, request, operations, incidentes>>

Libro == INSTANCE LibroVacaciones WITH Claves <- Claves, libro <- libro, saldo <- saldo

-----------------------------------------------------------------------------
(* Types                                                                     *)

Estados == {"none", "pending", "approved", "rejected", "applied", "taken"}

\* fecha is the period of the day off of the NominaNovedad that no payroll
\* holds; 0 when the request has none.
SolicitudType == [estado : Estados, unidades : 0 .. MaxUnidades, fecha : 0 .. MaxPeriodo]

\* captura is vacation_novelty_ids in the snapshot of the calculation; "ready"
\* is every estado in which a payroll may still be voided or applied.
NominaType == [estado : {"none", "ready", "applied", "cancelled"},
               periodo : 0 .. MaxPeriodo, captura : SUBSET Solicitudes]

Ops == {"cargar", "solicitar", "registrar", "aprobar", "rechazar", "adjuntar",
        "anular", "liquidar"}
Idle == [op |-> "idle"]

TypeOK ==
  /\ libro \in [Claves -> Int] /\ saldo \in Int
  /\ solicitud \in [Solicitudes -> SolicitudType]
  /\ puentes \subseteq Solicitudes \X Nominas
  /\ nomina \in [Nominas -> NominaType]
  /\ activo \in BOOLEAN
  /\ aplicando \in [Nominas -> {"no", "activo", "baja"}]
  /\ tardias \subseteq Claves
  /\ \A r \in Requests : request[r].op \in Ops \cup {"idle"}
  /\ operations \in 0 .. MaxOperations
  /\ incidentes \in BOOLEAN

Init ==
  /\ Libro!Init
  /\ solicitud = [s \in Solicitudes |-> [estado |-> "none", unidades |-> 0, fecha |-> 0]]
  /\ puentes = {}
  /\ nomina = [n \in Nominas |-> [estado |-> "none", periodo |-> 0, captura |-> {}]]
  /\ activo = TRUE
  /\ aplicando = [n \in Nominas |-> "no"] /\ tardias = {}
  /\ request = [r \in Requests |-> Idle]
  /\ operations = 0 /\ incidentes = FALSE

-----------------------------------------------------------------------------
(* Reading                                                                   *)

\* What the handler read and tested; it writes as if this still held.
Vista(op, s, n) ==
  CASE op = "cargar"                -> <<saldo, libro, activo>>
    [] op = "liquidar"              -> <<saldo, activo>>
    [] op \in {"aprobar", "rechazar"} -> <<solicitud[s].estado>>
    [] op = "adjuntar"              -> <<solicitud[s], nomina[n].estado, puentes>>
    [] op = "anular"                -> <<nomina[n].estado>>
    [] OTHER                        -> <<activo>>

Begin(r, op, s, n, unidades) ==
  /\ request[r].op = "idle"
  /\ operations < MaxOperations
  /\ operations' = operations + 1
  /\ request' = [request EXCEPT ![r] = [op |-> op, s |-> s, n |-> n, saldo |-> saldo,
                                        unidades |-> unidades, vista |-> Vista(op, s, n)]]
  /\ UNCHANGED <<cuenta, filas, incidentes>>

\* The test of the balance: nothing reserves it.
Alcanza(unidades) == saldo >= unidades \/ AllowNegative

\* An account with entries gets no initial balance.
SinMovimientos == activo /\ \A k \in Claves : libro[k] = 0

CargarLee(r) == SinMovimientos /\ Begin(r, "cargar", "none", "none", 0)

NuevaLee(r, op, s, unidades) ==
  /\ op \in {"solicitar", "registrar"}
  /\ activo
  /\ solicitud[s].estado = "none"
  /\ \A q \in Requests : request[q].op \in {"solicitar", "registrar"} => request[q].s # s
  /\ Alcanza(unidades)
  /\ Begin(r, op, s, "none", unidades)

AprobarLee(r, s) ==
  /\ solicitud[s].estado = "pending"
  /\ Alcanza(solicitud[s].unidades)
  /\ Begin(r, "aprobar", s, "none", 0)

RechazarLee(r, s) ==
  /\ solicitud[s].estado = "pending"
  /\ Begin(r, "rechazar", s, "none", 0)

\* A slip: a request may be attached to two payrolls.
AdjuntableOtraVez(s, n) ==
  /\ nomina[n].estado \notin {"none", "applied"}
  /\ solicitud[s].estado \in {"approved", "applied"}
Adjuntable(s, n) ==
  /\ nomina[n].estado \notin {"none", "applied"}
  /\ solicitud[s].estado = "approved"
  /\ \A m \in Nominas : <<s, m>> \notin puentes

AdjuntarLee(r, s, n) == Adjuntable(s, n) /\ Begin(r, "adjuntar", s, n, 0)

AnularLee(r, n) == nomina[n].estado = "ready" /\ Begin(r, "anular", "none", n, 0)

LiquidarLee(r) == activo /\ Begin(r, "liquidar", "none", "none", 0)

-----------------------------------------------------------------------------
(* Writing                                                                   *)

Overtaken(r) == Vista(request[r].op, request[r].s, request[r].n) # request[r].vista

End(r) ==
  /\ request' = [request EXCEPT ![r] = Idle]
  /\ incidentes' = (incidentes \/ Overtaken(r))
  /\ UNCHANGED <<operations, aplicando, tardias>>

\* The entry has no reference_id, so no constraint refuses a second one, and
\* the balance is set to the amount.  The spreadsheet may bring a debt.
Cargar(r) ==
  /\ request[r].op = "cargar"
  /\ \E monto \in (-MaxInicial .. MaxInicial) \ {0} :
       /\ libro' = [libro EXCEPT ![Inicial] = @ + monto]
       /\ saldo' = monto
  /\ End(r)
  /\ UNCHANGED filas

Solicitar(r) ==
  /\ request[r].op = "solicitar"
  /\ solicitud' = [solicitud EXCEPT ![request[r].s] =
                     [estado |-> "pending", unidades |-> request[r].unidades, fecha |-> 0]]
  /\ End(r)
  /\ UNCHANGED <<cuenta, puentes, nomina, activo>>

\* Leave already taken: applied at once, with a NominaNovedad of no payroll.
Registrar(r) ==
  /\ request[r].op = "registrar"
  /\ \E fecha \in 1 .. MaxPeriodo :
       solicitud' = [solicitud EXCEPT ![request[r].s] =
                       [estado |-> "applied", unidades |-> request[r].unidades, fecha |-> fecha]]
  /\ End(r)
  /\ UNCHANGED <<cuenta, puentes, nomina, activo>>

\* A slip: the request is left in a state that does not exist.
ResuelveMal(r, op, estado) ==
  /\ request[r].op = op
  /\ solicitud' = [solicitud EXCEPT ![request[r].s].estado = op]
  /\ End(r)
  /\ UNCHANGED <<cuenta, puentes, nomina, activo>>
Resolver(r, op, estado) ==
  /\ request[r].op = op
  /\ solicitud' = [solicitud EXCEPT ![request[r].s].estado = estado]
  /\ End(r)
  /\ UNCHANGED <<cuenta, puentes, nomina, activo>>

Aprobar(r) == Resolver(r, "aprobar", "approved")
Rechazar(r) == Resolver(r, "rechazar", "rejected")

\* _apply_vacation_novelties; the unique key refuses a second bridge, and the
\* row of the bridge waits for the lock of the payroll it refers to.
Adjuntar(r) ==
  LET s == request[r].s
      n == request[r].n
  IN  /\ request[r].op = "adjuntar"
      /\ aplicando[n] = "no"
      /\ <<s, n>> \notin puentes
      /\ puentes' = puentes \cup {<<s, n>>}
      /\ solicitud' = [solicitud EXCEPT ![s].estado = "applied"]
      /\ End(r)
      /\ UNCHANGED <<cuenta, nomina, activo>>

\* The entry of the payslip goes and the balance is summed again; the requests
\* attached are approved again, and what was deducted for them stays.  It waits
\* for an application of the payroll to end.
Anular(r) ==
  LET n == request[r].n
      sueltas == {s \in Solicitudes : <<s, n>> \in puentes}
  IN  /\ request[r].op = "anular"
      /\ aplicando[n] = "no"
      /\ nomina' = [nomina EXCEPT ![n].estado = "cancelled"]
      /\ libro' = [libro EXCEPT ![n] = 0]
      /\ saldo' = IF libro[n] = 0 THEN saldo ELSE Libro!Suma(libro')
      /\ solicitud' = [s \in Solicitudes |->
           IF s \in sueltas THEN [solicitud[s] EXCEPT !.estado = "approved"] ELSE solicitud[s]]
      /\ puentes' = {p \in puentes : p[2] # n}
      /\ End(r)
      /\ UNCHANGED activo

\* A slip: what is paid is the balance, and the balance stays.
PagoSinSaldo(r, l) ==
  /\ libro' = [libro EXCEPT ![l] = -request[r].saldo]
  /\ UNCHANGED saldo
\* The payout entry; a settlement has one, and a balance of zero or less none.
Pago(r, l) ==
  IF request[r].saldo <= 0 \/ libro[l] # 0 THEN UNCHANGED cuenta
  ELSE /\ libro' = [libro EXCEPT ![l] = -request[r].saldo]
       /\ saldo' = 0

\* Applying a settlement: the employee leaves and the balance is paid out.
Liquidar(r) ==
  /\ request[r].op = "liquidar"
  /\ activo' = FALSE
  /\ \E l \in Liquidaciones : Pago(r, l)
  /\ End(r)
  /\ UNCHANGED <<solicitud, puentes, nomina>>

\* The transaction of the request is rolled back.
Fails(r) ==
  /\ request[r].op # "idle"
  /\ request' = [request EXCEPT ![r] = Idle]
  /\ UNCHANGED <<cuenta, filas, operations, incidentes>>

-----------------------------------------------------------------------------
(* Payrolls                                                                  *)

\* The leave a payroll of the period takes that no payroll holds.
SinNomina(periodo) == {s \in Solicitudes : solicitud[s].fecha = periodo}

\* A payroll is calculated; its snapshot lists the leave no payroll holds.
Generar(n) ==
  /\ nomina[n].estado = "none"
  /\ \E periodo \in 1 .. MaxPeriodo :
       nomina' = [nomina EXCEPT ![n] =
                    [estado |-> "ready", periodo |-> periodo, captura |-> SinNomina(periodo)]]
  /\ UNCHANGED <<cuenta, solicitud, puentes, activo, aplicando, tardias, request, operations,
                 incidentes>>

DeLaNomina(n) ==
  {s \in Solicitudes : <<s, n>> \in puentes} \cup SinNomina(nomina[n].periodo)

\* A slip: the leave attached is left out.
SoloSueltas(n) == SinNomina(nomina[n].periodo)
\* A snapshot that lists requests is used alone.
Tomadas(n) == IF nomina[n].captura # {} THEN nomina[n].captura ELSE DeLaNomina(n)

\* Not those with an entry, whatever their estado is.
Descontables(n) ==
  {s \in Tomadas(n) : libro[s] = 0 /\ solicitud[s].estado \in {"approved", "applied"}}

Devengos == {Devengado(c) : c \in Casos}

\* What the period earns: the cap of the policy, if it has one, leaves less.
Acumula(n, tasa) ==
  LET resta == Tope - Libro!Suma(libro)
  IN  IF ~AccrueDuringLeave /\ DeLaNomina(n) # {} THEN 0
      ELSE IF Tope = 0 \/ tasa <= resta THEN tasa
      ELSE IF resta > 0 THEN resta ELSE 0

Unidades(S) == MapThenSumSet(LAMBDA s : solicitud[s].unidades, S)

\* A slip: who has left keeps earning.
DevengaSinBaja(n) == libro[n] = 0
\* _aplicar_vacaciones_nomina finds no entry of the payroll and an employee it
\* has read to be active.
Devenga(n) == aplicando[n] = "activo" /\ libro[n] = 0

Asientos(n, acumulado, tomadas) ==
  [k \in Claves |-> IF k = n THEN acumulado
                    ELSE IF k \in tomadas THEN -solicitud[k].unidades ELSE libro[k]]

\* A slip: leave the balance does not cover is deducted.
SeFia(acumulado, tomadas) == TRUE
\* One request that the balance does not cover fails the whole application.
Cubre(acumulado, tomadas) ==
  AllowNegative \/ tomadas = {} \/ Libro!Suma(libro) + acumulado >= Unidades(tomadas)

\* The row of the payroll is locked and the employee is read.
AplicarLee(n) ==
  /\ nomina[n].estado = "ready" /\ aplicando[n] = "no"
  /\ aplicando' = [aplicando EXCEPT ![n] = IF activo THEN "activo" ELSE "baja"]
  /\ UNCHANGED <<cuenta, solicitud, puentes, nomina, activo, tardias, request, operations,
                 incidentes>>

\* The account is locked, its entries are summed, and all is committed.
Aplicar(n) ==
  /\ aplicando[n] # "no"
  /\ aplicando' = [aplicando EXCEPT ![n] = "no"]
  /\ nomina' = [nomina EXCEPT ![n].estado = "applied"]
  /\ IF ~Devenga(n) THEN UNCHANGED <<cuenta, solicitud, tardias>>
     ELSE \E tasa \in Devengos :
            LET acumulado == Acumula(n, tasa)
                tomadas == Descontables(n)
            IN  /\ Cubre(acumulado, tomadas)
                /\ libro' = Asientos(n, acumulado, tomadas)
                /\ saldo' = Libro!Suma(libro')
                /\ solicitud' = [s \in Solicitudes |->
                     IF s \in tomadas THEN [solicitud[s] EXCEPT !.estado = "taken"]
                     ELSE solicitud[s]]
                /\ tardias' = IF ~activo /\ aplicando[n] = "activo"
                              THEN tardias \cup {n} \cup tomadas ELSE tardias
  /\ UNCHANGED <<puentes, activo, request, operations, incidentes>>

\* Any error of any employee rolls the application back.
AplicarFalla(n) ==
  /\ aplicando[n] # "no"
  /\ aplicando' = [aplicando EXCEPT ![n] = "no"]
  /\ UNCHANGED <<cuenta, solicitud, puentes, nomina, activo, tardias, request, operations,
                 incidentes>>

-----------------------------------------------------------------------------

Empieza(r) ==
  \/ CargarLee(r) \/ LiquidarLee(r)
  \/ \E s \in Solicitudes :
       \/ \E op \in Ops, unidades \in 1 .. MaxUnidades : NuevaLee(r, op, s, unidades)
       \/ AprobarLee(r, s) \/ RechazarLee(r, s)
       \/ \E n \in Nominas : AdjuntarLee(r, s, n)
  \/ \E n \in Nominas : AnularLee(r, n)

Termina(r) ==
  \/ Cargar(r) \/ Solicitar(r) \/ Registrar(r) \/ Aprobar(r) \/ Rechazar(r)
  \/ Adjuntar(r) \/ Anular(r) \/ Liquidar(r) \/ Fails(r)

Next ==
  \/ \E r \in Requests : Empieza(r) \/ Termina(r)
  \/ \E n \in Nominas : Generar(n) \/ AplicarLee(n) \/ Aplicar(n) \/ AplicarFalla(n)

Spec == Init /\ [][Next]_vars

-----------------------------------------------------------------------------
(* Properties                                                                *)

Orderly == ~incidentes

\* model.py:2395-2397: the ledger is only added to and the balance is its sum.
\* Every step of the handlers is a step of that ledger, but for a commit over
\* rows that changed since they were read.
ImplementaLibro ==
  Libro!Init /\ [][Orderly' => Libro!Next]_<<libro, saldo>>

\* A request is taken exactly when an entry of its units was posted, through
\* attaching, voiding, attaching again and applying.
LeaveDeductedOnce ==
  Orderly =>
    \A s \in Solicitudes :
      libro[s] = IF solicitud[s].estado = "taken" THEN -solicitud[s].unidades ELSE 0

\* Approvals do not reserve what they count on, and yet a policy without leave
\* in advance is never overdrawn beyond a debt it was loaded with: the
\* application tests again under its lock.
NeverOverdrawn ==
  Orderly /\ ~AllowNegative =>
    Libro!Suma(libro) >= 0 \/ Libro!Suma(libro) >= libro[Inicial]

SinTardias == [k \in Claves |-> IF k \in tardias THEN 0 ELSE libro[k]]

\* A settlement ends the account: payrolls calculated before it that begin to be
\* applied after it earn and deduct nothing, and the entries of the account sum
\* to zero, but for exactly what an application posts that had already read the
\* employee active when the settlement was committed.
PayoutIsFinal ==
  Orderly => \A l \in Liquidaciones : libro[l] # 0 => ~activo /\ Libro!Suma(SinTardias) = 0

\* A payroll that is applied deducts the requests attached to it, when its
\* snapshot listed none and the employee has not been settled.
AttachedIsDeducted ==
  Orderly /\ activo =>
    \A p \in puentes :
      nomina[p[2]].estado = "applied" /\ nomina[p[2]].captura = {} =>
        solicitud[p[1]].estado = "taken"

\* Two periods in a row earn what the period of both would, to a hundredth,
\* unless a cycle caps or a tier begins between them; and nobody earns more for
\* being hired later, leaving earlier or missing a day or an hour; an absence of the
\* hours of a day costs who is paid by the hour what the day would.
DevengoCuadra ==
  operations = 0 =>
    \A c \in Casos :
      /\ c.metodo # "seniority" =>
           \A d \in {[c EXCEPT !.alta = @ + 1], [c EXCEPT !.baja = @ - 1],
                     [c EXCEPT !.faltas = @ + 1], [c EXCEPT !.horas = @ + 1]} :
             Cantidad(d) <= Cantidad(c)
      /\ c.metodo # "periodic" /\ c.faltas = 0 /\ c.horas = 0 =>
           \A k \in 1 .. c.dias - 1 :
             LET antes == [c EXCEPT !.dias = k]
                 luego == [c EXCEPT !.dias = @ - k, !.alta = @ - k, !.baja = @ - k]
                 suma == Cantidad(antes) + Cantidad(luego)
             IN  TasaAnual(antes) = TasaAnual(c) /\ Fin(antes) - c.alta >= c.minimo =>
                   suma - Cantidad(c) \in -1 .. 1
      /\ c.base = "hours_worked" =>
           Cantidad([c EXCEPT !.horas = @ + HorasJornada]) = Cantidad([c EXCEPT !.faltas = @ + 1])

-----------------------------------------------------------------------------
(* What the repository says and the code does not do                         *)

\* docs/modulo-vacaciones.md:296-298: the employee leaves, a PAYOUT entry is
\* made and the balance stays at 0.
PayoutLeavesNothing ==
  Orderly => \A l \in Liquidaciones : libro[l] # 0 => Libro!Suma(libro) = 0

\* docs/modulo-vacaciones.md:270: the payroll that takes a request converts it
\* into a NominaNovedad and posts the USAGE entry.
AppliedIsDeducted ==
  Orderly /\ activo =>
    \A p \in puentes :
      nomina[p[2]].estado = "applied" => solicitud[p[1]].estado = "taken"

\* vacation_service.py:638-639: accrual_rate is the amount of a full cycle of
\* the frequency, so a whole period that is shorter earns less.
CicloCompleto ==
  operations = 0 =>
    \A c \in Casos :
      c.metodo = "periodic" /\ c.tasa > 0 /\ 2 * c.dias <= DiasCiclo(c) + 1 =>
        Cantidad(c) < c.tasa
=============================================================================
