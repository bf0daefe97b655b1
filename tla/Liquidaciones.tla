---------------------------- MODULE Liquidaciones ----------------------------
(***************************************************************************)
(* The settlements (Liquidacion) of one employee: draft, recalculation,    *)
(* application and payment by concurrent requests, with the payrolls that  *)
(* decide which days are still to be paid, the loans and advances an       *)
(* applied settlement collects, the vacation it pays out and its voucher.  *)
(*                                                                         *)
(* A request tests the settlement, then reads what it computes from, and   *)
(* commits later.  Applying writes the employee before it reads, and that  *)
(* row lock makes applications of his settlements follow each other; a     *)
(* payroll does not take it, and neither does recalculating a draft.  The  *)
(* estado a request goes by is the one it tested, and the balances it      *)
(* writes come from those it read.                                         *)
(*                                                                         *)
(* Time is counted in days and a payroll pays one of them.  Interest and   *)
(* the payroll's own deductions of a loan are in Prestamo, the entries of  *)
(* the vacation account in Vacaciones.                                     *)
(***************************************************************************)
EXTENDS Integers, FiniteSetsExt

CONSTANTS
  Requests,               \* requests in progress at the same time
  Settlements,            \* settlements of the employee
  Nominas,                \* payrolls that include the employee
  Adelantos,              \* loans, then advances, in the order of collection
  Principal,              \* what each of them was approved for
  PayoutOnTermination,    \* policy: the vacation balance is paid out
  Tasa,                   \* the daily rate
  MaxConcepto,            \* bound: the amount of the configured concept
  MaxFecha,               \* bound: days
  MaxOperations           \* bound: requests ever begun

ASSUME OrderAssumption ==
  /\ Adelantos \subseteq Nat /\ IsFiniteSet(Adelantos)
  /\ Principal \in [Adelantos -> Nat]
ASSUME SettlementsAssumption == IsFiniteSet(Settlements)
ASSUME PolicyAssumption == PayoutOnTermination \in BOOLEAN /\ Tasa \in Nat
ASSUME BoundsAssumption == MaxConcepto \in Nat /\ MaxFecha \in Nat /\ MaxOperations \in Nat

VARIABLES
  liquidacion,   \* the settlements
  comprobante,   \* what the voucher of each settlement posts
  abonado,       \* monto_abonado of the AdelantoAbono of a settlement, per loan
  pago,          \* the PAYOUT entry of each settlement
  saldo,         \* saldo_pendiente of each loan
  pagados,       \* loans in estado PAGADO; the others are APROBADO
  vacacion,      \* current_balance of the vacation account
  nomina,        \* the payrolls
  activo,        \* the employee is active and in his planilla
  request,       \* what each request is doing
  operations,    \* requests begun
  incidentes,    \* history: a commit over an estado that had changed
  pisados        \* history: a commit over loans or payments that had changed

papeles == <<liquidacion, comprobante>>
cobros == <<abonado, pago, saldo, pagados, vacacion>>
historia == <<incidentes, pisados>>
vars == <<papeles, cobros, nomina, activo, request, operations, historia>>

-----------------------------------------------------------------------------
(* Types                                                                     *)

Totales == [total_bruto : Nat, total_deducciones : Nat]
SinTotales == [total_bruto |-> 0, total_deducciones |-> 0]

LiquidacionType ==
  [estado : {"none", "draft", "applied", "paid"}, fecha : 0 .. MaxFecha,
   ultimo : 0 .. MaxFecha, totales : Totales]

\* tras: settlements that were applied, or being applied, when it was applied.
NominaType ==
  [estado : {"none", "ready", "applied", "cancelled"}, periodo : 0 .. MaxFecha,
   tras : SUBSET Settlements]

\* What a calculation read: the last day paid, the loans and the vacation, and
\* what the settlement itself had collected and paid out.
Lectura ==
  [ultimo : 0 .. MaxFecha, saldo : [Adelantos -> Nat], pagados : SUBSET Adelantos,
   vacacion : Nat, abonos : [Adelantos -> Nat], pago : Nat]

Idle == [op |-> "idle"]
Doing ==
  [op : {"recalcular", "aplicar", "pagar"}, l : Settlements]
    \cup [op : {"recalculando", "aplicando"}, l : Settlements, d : Lectura]

TypeOK ==
  /\ liquidacion \in [Settlements -> LiquidacionType]
  /\ comprobante \in [Settlements -> Totales]
  /\ abonado \in [Settlements -> [Adelantos -> Nat]]
  /\ pago \in [Settlements -> Nat]
  /\ saldo \in [Adelantos -> Nat] /\ pagados \subseteq Adelantos
  /\ vacacion \in Nat
  /\ nomina \in [Nominas -> NominaType]
  /\ activo \in BOOLEAN
  /\ request \in [Requests -> Doing \cup {Idle}]
  /\ operations \in 0 .. MaxOperations
  /\ incidentes \in BOOLEAN /\ pisados \in BOOLEAN

Init ==
  /\ liquidacion = [l \in Settlements |->
       [estado |-> "none", fecha |-> 0, ultimo |-> 0, totales |-> SinTotales]]
  /\ comprobante = [l \in Settlements |-> SinTotales]
  /\ abonado = [l \in Settlements |-> [a \in Adelantos |-> 0]]
  /\ pago = [l \in Settlements |-> 0]
  /\ saldo = Principal /\ pagados = {}
  /\ vacacion = 0
  /\ nomina = [n \in Nominas |-> [estado |-> "none", periodo |-> 0, tras |-> {}]]
  /\ activo = TRUE
  /\ request = [r \in Requests |-> Idle]
  /\ operations = 0 /\ incidentes = FALSE /\ pisados = FALSE

-----------------------------------------------------------------------------
(* The calculation (LiquidacionEngine)                                       *)

Aplicadas == {n \in Nominas : nomina[n].estado = "applied"}

\* The employee was hired on day 1.
UltimoDiaPagado == Max({0} \cup {nomina[n].periodo : n \in Aplicadas})

\* A slip: a date before the last day paid is not noticed.
DiasConSigno(fecha, ultimo) == fecha - ultimo
Dias(fecha, ultimo) == IF fecha <= ultimo THEN 0 ELSE fecha - ultimo

Finiquito(unidades) == IF PayoutOnTermination THEN unidades * Tasa ELSE 0

Bruto(fecha, ultimo, concepto, unidades) ==
  Dias(fecha, ultimo) * Tasa + concepto + Finiquito(unidades)

\* Each loan in turn takes what it can of what is left.
Debido(deuda, cerrados, S) == MapThenSumSet(LAMBDA a : deuda[a], S \ cerrados)
Cobro(a, deuda, cerrados, bruto) ==
  LET antes == Min({bruto, Debido(deuda, cerrados, {b \in Adelantos : b < a})})
      hasta == Min({bruto, Debido(deuda, cerrados, {b \in Adelantos : b <= a})})
  IN  hasta - antes

Calculada(estado, fecha, ultimo, concepto, unidades, deuda, cerrados) ==
  LET bruto == Bruto(fecha, ultimo, concepto, unidades)
  IN  [estado |-> estado, fecha |-> fecha, ultimo |-> ultimo,
       totales |-> [total_bruto |-> bruto,
                    total_deducciones |-> Min({bruto, Debido(deuda, cerrados, Adelantos)})]]

-----------------------------------------------------------------------------
(* Requests                                                                  *)

Begin(r, op, l) ==
  /\ request[r] = Idle
  /\ operations < MaxOperations
  /\ operations' = operations + 1
  /\ request' = [request EXCEPT ![r] = [op |-> op, l |-> l]]
  /\ UNCHANGED <<papeles, cobros, nomina, activo, historia>>

\* nueva creates and calculates in one transaction: a draft touches nothing else.
Nueva(l, fecha, concepto) ==
  /\ liquidacion[l].estado = "none"
  /\ liquidacion' = [liquidacion EXCEPT ![l] =
       Calculada("draft", fecha, UltimoDiaPagado, concepto, vacacion, saldo, pagados)]
  /\ UNCHANGED <<comprobante, cobros, nomina, activo, request, operations, historia>>

EstadoPrevio(op) == IF op = "pagar" THEN {"applied"} ELSE {"draft"}

Lee(r, op, l) ==
  /\ liquidacion[l].estado \in EstadoPrevio(op)
  /\ Begin(r, op, l)

Terminadas == {l \in Settlements : liquidacion[l].estado \in {"applied", "paid"}}

\* A slip: the days are those of the draft.
UltimoDelBorrador(l) == liquidacion[l].ultimo
\* The days still to be paid are counted again.
UltimoAlAplicar(l) == UltimoDiaPagado

Leido(l, ultimo) ==
  [ultimo |-> ultimo, saldo |-> saldo, pagados |-> pagados, vacacion |-> vacacion,
   abonos |-> abonado[l], pago |-> pago[l]]

RecalcularLee(r) ==
  LET l == request[r].l
  IN  /\ request[r].op = "recalcular"
      /\ request' = [request EXCEPT ![r] =
           [op |-> "recalculando", l |-> l, d |-> Leido(l, UltimoDiaPagado)]]
      /\ UNCHANGED <<papeles, cobros, nomina, activo, operations, historia>>

\* A slip: the employee is written with the rest, at the end.
SinBloqueo == TRUE
\* Nobody else has written the employee.
EmpleadoLibre == \A q \in Requests : request[q].op # "aplicando"

\* The employee is marked as gone, and locked, before anything is read.
AplicarLee(r) ==
  LET l == request[r].l
  IN  /\ request[r].op = "aplicar"
      /\ EmpleadoLibre
      /\ request' = [request EXCEPT ![r] =
           [op |-> "aplicando", l |-> l, d |-> Leido(l, UltimoAlAplicar(l))]]
      /\ nomina' = [n \in Nominas |->
           [nomina[n] EXCEPT !.tras = IF l \in Terminadas THEN @ ELSE @ \ {l}]]
      /\ UNCHANGED <<papeles, cobros, activo, operations, historia>>

Overtaken(r) == liquidacion[request[r].l].estado \notin EstadoPrevio(request[r].op)

\* The loans, or what the settlement had collected of them, are no longer those read.
Cambiados(l, d) == saldo # d.saldo \/ pagados # d.pagados \/ abonado[l] # d.abonos

End(r, pisa) ==
  /\ request' = [request EXCEPT ![r] = Idle]
  /\ incidentes' = (incidentes \/ Overtaken(r))
  /\ pisados' = (pisados \/ pisa)
  /\ UNCHANGED operations

Menos(a, b) == IF a > b THEN a - b ELSE 0

\* What the settlement had collected and paid out goes back, and it is
\* calculated again; its estado is not written.
Recalcular(r) ==
  LET l == request[r].l
      d == request[r].d
      revertidos == {a \in Adelantos : d.abonos[a] > 0}
      deuda == [a \in Adelantos |-> d.saldo[a] + d.abonos[a]]
      cerrados == d.pagados \ revertidos
      unidades == d.vacacion + d.pago
  IN  /\ request[r].op = "recalculando"
      /\ saldo' = [a \in Adelantos |-> IF a \in revertidos THEN deuda[a] ELSE saldo[a]]
      /\ pagados' = pagados \ (revertidos \cap d.pagados)
      /\ abonado' = [abonado EXCEPT ![l] = [a \in Adelantos |-> Menos(@[a], d.abonos[a])]]
      /\ vacacion' = IF d.pago = 0 THEN vacacion ELSE unidades
      /\ pago' = [pago EXCEPT ![l] = Menos(@, d.pago)]
      /\ \E concepto \in 0 .. MaxConcepto :
           liquidacion' = [liquidacion EXCEPT ![l] =
             Calculada(liquidacion[l].estado, liquidacion[l].fecha, d.ultimo,
                       concepto, unidades, deuda, cerrados)]
      /\ End(r, revertidos # {} /\ Cambiados(l, d))
      /\ UNCHANGED <<comprobante, nomina, activo>>

\* AdelantoAbono rows are added, never replaced; a loan that pays nothing is not
\* written.
Cobra(l, d, bruto) ==
  LET cobro == [a \in Adelantos |-> Cobro(a, d.saldo, d.pagados, bruto)]
  IN  /\ abonado' = [abonado EXCEPT ![l] = [a \in Adelantos |-> @[a] + cobro[a]]]
      /\ saldo' = [a \in Adelantos |-> IF cobro[a] = 0 THEN saldo[a] ELSE d.saldo[a] - cobro[a]]
      /\ pagados' = pagados \cup {a \in Adelantos : cobro[a] > 0 /\ d.saldo[a] = cobro[a]}

\* One payout for a settlement, which leaves nothing whatever was added since.
PagaVacacion(l, d) ==
  IF Finiquito(d.vacacion) = 0 \/ d.pago # 0 THEN UNCHANGED <<pago, vacacion>>
  ELSE pago' = [pago EXCEPT ![l] = d.vacacion] /\ vacacion' = 0

\* The employee leaves, the settlement is calculated again with its effects
\* and its voucher is written over the one it had.
Aplicar(r) ==
  LET l == request[r].l
      d == request[r].d
  IN  /\ request[r].op = "aplicando"
      /\ activo' = FALSE
      /\ \E concepto \in 0 .. MaxConcepto :
           LET nueva == Calculada("applied", liquidacion[l].fecha, d.ultimo,
                                  concepto, d.vacacion, d.saldo, d.pagados)
           IN  /\ liquidacion' = [liquidacion EXCEPT ![l] = nueva]
               /\ comprobante' = [comprobante EXCEPT ![l] = nueva.totales]
               /\ Cobra(l, d, nueva.totales.total_bruto)
      /\ PagaVacacion(l, d)
      /\ End(r, Cambiados(l, d))
      /\ UNCHANGED nomina

Pagar(r) ==
  LET l == request[r].l
  IN  /\ request[r].op = "pagar"
      /\ liquidacion' = [liquidacion EXCEPT ![l].estado = "paid"]
      /\ End(r, FALSE)
      /\ UNCHANGED <<comprobante, cobros, nomina, activo>>

\* A calculation with errors rolls the transaction back.
Fails(r) ==
  /\ request[r] # Idle
  /\ request' = [request EXCEPT ![r] = Idle]
  /\ UNCHANGED <<papeles, cobros, nomina, activo, operations, historia>>

-----------------------------------------------------------------------------
(* Payrolls                                                                  *)

\* Only of an active employee, and one payroll for a day.
Generar(n) ==
  /\ activo
  /\ nomina[n].estado = "none"
  /\ \E periodo \in 1 .. MaxFecha :
       /\ \A m \in Nominas : nomina[m].periodo = periodo => nomina[m].estado = "cancelled"
       /\ nomina' = [nomina EXCEPT ![n] =
            [estado |-> "ready", periodo |-> periodo, tras |-> {}]]
  /\ UNCHANGED <<papeles, cobros, activo, request, operations, historia>>

EnCurso == {request[r].l : r \in {q \in Requests : request[q].op = "aplicando"}}

\* A payroll calculated before the employee left is applied all the same, also
\* while he is leaving; his vacation earns no more, unless the payroll had read
\* him active.
AplicarNomina(n) ==
  /\ nomina[n].estado = "ready"
  /\ nomina' = [nomina EXCEPT ![n].estado = "applied", ![n].tras = Terminadas \cup EnCurso]
  /\ \E unidades \in {0, 1} : (activo => unidades = 1) /\ vacacion' = vacacion + unidades
  /\ UNCHANGED <<papeles, abonado, pago, saldo, pagados, activo, request, operations, historia>>

AnularNomina(n) ==
  /\ nomina[n].estado = "ready"
  /\ nomina' = [nomina EXCEPT ![n].estado = "cancelled"]
  /\ UNCHANGED <<papeles, cobros, activo, request, operations, historia>>

-----------------------------------------------------------------------------

Next ==
  \/ \E l \in Settlements :
       \/ \E fecha \in 1 .. MaxFecha, concepto \in 0 .. MaxConcepto : Nueva(l, fecha, concepto)
       \/ \E r \in Requests, op \in {"recalcular", "aplicar", "pagar"} : Lee(r, op, l)
  \/ \E r \in Requests :
       \/ RecalcularLee(r) \/ Recalcular(r) \/ AplicarLee(r) \/ Aplicar(r)
       \/ Pagar(r) \/ Fails(r)
  \/ \E n \in Nominas : Generar(n) \/ AplicarNomina(n) \/ AnularNomina(n)

Spec == Init /\ [][Next]_vars

-----------------------------------------------------------------------------
(* Properties                                                                *)

Orderly == ~incidentes

\* A settlement pays no day of a payroll that was applied before the settlement
\* began to be applied, also when that payroll was applied after the draft was
\* calculated.  A payroll applied between the reading of the last day paid and
\* the commit is not counted: nothing holds it back.
DiasUnaVez ==
  Orderly =>
    \A l \in Terminadas, n \in Aplicadas :
      l \in nomina[n].tras \/ nomina[n].periodo <= liquidacion[l].ultimo
        \/ nomina[n].periodo > liquidacion[l].fecha

\* Settlements of one employee that are applied at the same time never write
\* over each other's collections, as long as each commit finds the estado it
\* tested; and where nothing was written over, each loan owes what was approved
\* less what settlements collected and is open while it owes something.  Only
\* settlements that are not drafts collect, in any order of requests.
CobrosCuadran ==
  /\ Orderly => ~pisados
  /\ ~pisados =>
       \A a \in Adelantos :
         /\ saldo[a] + MapThenSumSet(LAMBDA l : abonado[l][a], Settlements) = Principal[a]
         /\ a \in pagados => saldo[a] = 0
  /\ \A l \in Settlements \ Terminadas : pago[l] = 0 /\ \A a \in Adelantos : abonado[l][a] = 0
==============================================================================
