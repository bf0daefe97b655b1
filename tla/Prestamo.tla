------------------------------- MODULE Prestamo -------------------------------
(***************************************************************************)
(* One loan (adelanto) of an employee, from its request to its last        *)
(* payment: the handlers of vistas/prestamo.py that submit, approve,       *)
(* reject, cancel, pay and forgive it, the payroll runs that charge its    *)
(* interest and deduct its payments (LoanProcessor), the rollback of those *)
(* runs when they are voided or recalculated, and the settlement that      *)
(* collects it when the employee leaves.                                   *)
(*                                                                         *)
(* No handler locks the loan.  Each reads the row, decides, and commits an *)
(* UPDATE that sets the columns it changed to values computed from what it *)
(* read: the read (Lee) and the commit are two steps, and any other commit *)
(* may fall between them.                                                  *)
(*                                                                         *)
(* Amounts are cents.  What is deducted depends on the salary, on the      *)
(* instalment and on the exchange rate; here it is any amount the balance  *)
(* allows.  The interest of a span of days is any amount up to MaxInteres. *)
(***************************************************************************)
EXTENDS Naturals, FiniteSets, FiniteSetsExt

CONSTANTS
  Requests,        \* requests and payroll runs in progress at the same time
  Nominas,         \* names of the payroll runs that have touched the loan
  MaxMonto,        \* bound: the amount approved
  MaxInteres,      \* bound: the interest one run charges
  MaxFecha,        \* bound: calculation dates
  MaxOperations    \* bound: operations ever begun

ASSUME NamesAssumption == "none" \notin Nominas /\ IsFiniteSet(Nominas)
ASSUME BoundsAssumption == /\ MaxMonto \in Nat /\ MaxInteres \in Nat
                           /\ MaxFecha \in Nat /\ MaxOperations \in Nat

Montos == 1 .. MaxMonto
Fechas == 1 .. MaxFecha

VARIABLES
  prestamo,     \* the row of the loan
  nominas,      \* what each payroll run wrote about it
  manual,       \* total of the extraordinary payments
  condonado,    \* total forgiven
  liquidado,    \* total collected by settlements
  redondeo,     \* cents dropped when a balance of one cent was closed
  request,      \* what each request is doing
  operations,   \* operations begun
  incidentes    \* history: what the code does not guard against

abonos == <<manual, condonado, liquidado, redondeo>>
vars == <<prestamo, nominas, abonos, request, operations, incidentes>>

-----------------------------------------------------------------------------
(* Types                                                                     *)

\* Nothing sets "applied", the state of a disbursed loan.
Estados == {"draft", "pending", "approved", "applied", "paid", "rejected", "cancelled"}

\* aplicado is monto_aplicado_moneda_prestamo, the total of the payments that
\* payroll runs and settlements recorded; interes is interes_acumulado and
\* ultimo fecha_ultimo_calculo_interes.
Columnas == [estado : Estados, aprobado : Nat, saldo : Nat, aplicado : Nat,
             interes : Nat, ultimo : Nat]

\* The AdelantoAbono and the InteresAdelanto of one run; desde .. fecha are
\* the days its interest is charged for, and a zero amount is a missing row.
Filas == [fecha : Nat, abono : Nat, interes : Nat, desde : Nat]
Nada == [fecha |-> 0, abono |-> 0, interes |-> 0, desde |-> 0]

Ops == {"enviar", "resolver", "cancelar", "abonar", "condonar", "nomina", "liquidar",
        "anular", "recalcular"}

\* leido is the row the request read, fila the rows of the run n it takes back.
Idle == [op |-> "idle", n |-> "none"]
RequestType ==
  {Idle} \cup [op : Ops, n : Nominas \cup {"none"}, leido : Columnas, fila : Filas]

\* "stale": a request wrote over what had changed since it read it; "clamped":
\* a rollback stopped at zero; "disordered": a run was taken back that was not
\* the last to charge interest.
Incidentes == {"stale", "clamped", "disordered"}

TypeOK ==
  /\ prestamo \in Columnas
  /\ nominas \in [Nominas -> Filas]
  /\ manual \in Nat /\ condonado \in Nat /\ liquidado \in Nat /\ redondeo \in Nat
  /\ request \in [Requests -> RequestType]
  /\ operations \in 0 .. MaxOperations
  /\ incidentes \in SUBSET Incidentes

Init ==
  /\ prestamo = [estado |-> "draft", aprobado |-> 0, saldo |-> 0, aplicado |-> 0,
                 interes |-> 0, ultimo |-> 0]
  /\ nominas = [n \in Nominas |-> Nada]
  /\ manual = 0 /\ condonado = 0 /\ liquidado = 0 /\ redondeo = 0
  /\ request = [r \in Requests |-> Idle]
  /\ operations = 0 /\ incidentes = {}

-----------------------------------------------------------------------------
(* What a run does to the row it read                                        *)

Menos(x, y) == IF x > y THEN x - y ELSE 0

\* A slip: the next run charges the same days again.
InteresSinFecha(l, interes, fecha) ==
  [l EXCEPT !.saldo = @ + interes, !.interes = @ + interes]
\* _calculate_interest: no interest, no row, and the date stays.
ConInteres(l, interes, fecha) ==
  IF interes = 0 THEN l
  ELSE [l EXCEPT !.saldo = @ + interes, !.interes = @ + interes, !.ultimo = fecha]

\* _record_payment
ConPago(l, monto) ==
  IF monto = 0 THEN l
  ELSE [l EXCEPT !.saldo = Menos(@, monto), !.aplicado = @ + monto,
                 !.estado = IF l.saldo <= monto THEN "paid" ELSE @]

\* approve: the balance is the amount, and interest runs from the approval.
Aprobado(l, monto, fecha) ==
  [estado |-> "approved", aprobado |-> monto, saldo |-> monto, aplicado |-> l.aplicado,
   interes |-> 0, ultimo |-> fecha]

\* Slips: the payment goes and the balance stays; a paid loan stays paid; a
\* cancelled one is reopened.
PagoPerdido(l, monto) == [l EXCEPT !.aplicado = Menos(@, monto)]
PagadoQueda(l, monto) ==
  [l EXCEPT !.saldo = @ + monto, !.aplicado = Menos(@, monto)]
Reabre(l, monto) ==
  [l EXCEPT !.saldo = @ + monto, !.aplicado = Menos(@, monto), !.estado = "approved"]
\* _rollback_payment
SinPago(l, monto) ==
  IF monto = 0 THEN l
  ELSE [l EXCEPT !.saldo = @ + monto, !.aplicado = Menos(@, monto),
                 !.estado = IF @ = "paid" THEN "approved" ELSE @]

\* Slips: the accumulated interest is kept; the balance may fall below zero.
InteresQueda(l, fila) ==
  IF fila.interes = 0 THEN l
  ELSE [l EXCEPT !.saldo = Menos(@, fila.interes), !.ultimo = fila.desde]
SinPiso(l, fila) ==
  IF fila.interes = 0 THEN l
  ELSE [l EXCEPT !.saldo = @ - fila.interes, !.interes = Menos(@, fila.interes),
                 !.ultimo = fila.desde]
\* _rollback_interest
SinInteres(l, fila) ==
  IF fila.interes = 0 THEN l
  ELSE [l EXCEPT !.saldo = Menos(@, fila.interes), !.interes = Menos(@, fila.interes),
                 !.ultimo = fila.desde]

\* _rollback_loans_and_advances_for_nomina: payments first, then interest.
Deshecho(l, fila) == SinInteres(SinPago(l, fila.abono), fila)

\* Some max(0, ...) of that rollback takes effect.
Recorta(l, fila) ==
  \/ fila.abono > l.aplicado
  \/ fila.interes > l.interes
  \/ fila.interes > l.saldo + fila.abono

Fila(l, interes, fecha, monto) ==
  [fecha |-> fecha, abono |-> monto, interes |-> interes,
   desde |-> IF interes > 0 THEN l.ultimo ELSE 0]

\* The loans a run takes: approved, with a balance.
Cobrable(l) == l.estado = "approved" /\ l.saldo > 0

Intereses(l, fecha) == IF l.ultimo < fecha THEN 0 .. MaxInteres ELSE {0}

\* An extraordinary payment or a forgiveness; one cent is not collected.
ConAbono(l, monto) ==
  LET resto == l.saldo - monto
  IN  [l EXCEPT !.saldo = IF resto <= 1 THEN 0 ELSE resto,
                !.estado = IF resto <= 1 THEN "paid" ELSE @]
Centavo(l, monto) == IF l.saldo - monto = 1 THEN 1 ELSE 0

-----------------------------------------------------------------------------
(* Reading and writing the row                                               *)

Begin(r, operation) ==
  /\ request[r].op = "idle"
  /\ operations < MaxOperations
  /\ operations' = operations + 1
  /\ request' = [request EXCEPT ![r] = operation]
  /\ UNCHANGED <<prestamo, nominas, abonos, incidentes>>

\* The request reads the loan and its test of estado and balance holds.
Lee(r, op) ==
  /\ CASE op = "enviar" -> prestamo.estado = "draft"
       [] op = "resolver" -> prestamo.estado \in {"draft", "pending"}
       [] op = "cancelar" -> prestamo.estado \notin {"paid", "cancelled"}
       [] op \in {"abonar", "condonar"} ->
            prestamo.estado \in {"approved", "applied"} /\ prestamo.saldo > 0
       [] op \in {"nomina", "liquidar"} -> Cobrable(prestamo)
       [] OTHER -> FALSE
  /\ Begin(r, [op |-> op, n |-> "none", leido |-> prestamo, fila |-> Nada])

\* Voiding and recalculating read the loan and the rows of the run, if any.
LeeNomina(r, op, n) ==
  /\ nominas[n] # Nada
  /\ Begin(r, [op |-> op, n |-> n, leido |-> prestamo, fila |-> nominas[n]])

\* A column is written when its value is not the one that was read.
Columna(actual, leido, nuevo) == IF nuevo = leido THEN actual ELSE nuevo

Escribe(r, nuevo) ==
  LET l == request[r].leido
  IN  prestamo' = [estado   |-> Columna(prestamo.estado, l.estado, nuevo.estado),
                   aprobado |-> Columna(prestamo.aprobado, l.aprobado, nuevo.aprobado),
                   saldo    |-> Columna(prestamo.saldo, l.saldo, nuevo.saldo),
                   aplicado |-> Columna(prestamo.aplicado, l.aplicado, nuevo.aplicado),
                   interes  |-> Columna(prestamo.interes, l.interes, nuevo.interes),
                   ultimo   |-> Columna(prestamo.ultimo, l.ultimo, nuevo.ultimo)]

Overtaken(r) ==
  \/ prestamo # request[r].leido
  \/ request[r].n # "none" /\ nominas[request[r].n] # request[r].fila

Stale(r) == IF Overtaken(r) THEN {"stale"} ELSE {}

\* What taking the rows of the run back gives rise to.
Takeback(r) ==
  LET l == request[r].leido
      fila == request[r].fila
  IN  (IF Recorta(l, fila) THEN {"clamped"} ELSE {})
        \cup (IF fila.interes > 0 /\ fila.fecha # l.ultimo THEN {"disordered"} ELSE {})

\* The transaction commits and the request is over.
End(r, incidente) ==
  /\ request' = [request EXCEPT ![r] = Idle]
  /\ incidentes' = incidentes \cup incidente
  /\ UNCHANGED operations

-----------------------------------------------------------------------------
(* The handlers of vistas/prestamo.py                                        *)

Enviar(r) ==
  /\ request[r].op = "enviar"
  /\ Escribe(r, [request[r].leido EXCEPT !.estado = "pending"])
  /\ End(r, Stale(r))
  /\ UNCHANGED <<nominas, abonos>>

Aprobar(r) ==
  /\ request[r].op = "resolver"
  /\ \E monto \in Montos, fecha \in Fechas :
       Escribe(r, Aprobado(request[r].leido, monto, fecha))
  /\ End(r, Stale(r))
  /\ UNCHANGED <<nominas, abonos>>

Rechazar(r) ==
  /\ request[r].op = "resolver"
  /\ Escribe(r, [request[r].leido EXCEPT !.estado = "rejected"])
  /\ End(r, Stale(r))
  /\ UNCHANGED <<nominas, abonos>>

Cancelar(r) ==
  /\ request[r].op = "cancelar"
  /\ Escribe(r, [request[r].leido EXCEPT !.estado = "cancelled"])
  /\ End(r, Stale(r))
  /\ UNCHANGED <<nominas, abonos>>

\* An extraordinary payment, of at most the balance that was read.
PagoExtraordinario(r) ==
  /\ request[r].op = "abonar"
  /\ \E monto \in 1 .. request[r].leido.saldo :
       /\ Escribe(r, ConAbono(request[r].leido, monto))
       /\ manual' = manual + monto
       /\ redondeo' = redondeo + Centavo(request[r].leido, monto)
  /\ End(r, Stale(r))
  /\ UNCHANGED <<nominas, condonado, liquidado>>

Condonacion(r) ==
  /\ request[r].op = "condonar"
  /\ \E monto \in 1 .. request[r].leido.saldo :
       /\ Escribe(r, ConAbono(request[r].leido, monto))
       /\ condonado' = condonado + monto
       /\ redondeo' = redondeo + Centavo(request[r].leido, monto)
  /\ End(r, Stale(r))
  /\ UNCHANGED <<nominas, manual, liquidado>>

-----------------------------------------------------------------------------
(* Payroll runs and settlements                                              *)

\* A name no run has and no request holds.
Libre(n) == nominas[n] = Nada /\ \A r \in Requests : request[r].n # n

\* The loan as a run leaves it that charges the interest and then the payment.
Cobro(l, interes, fecha, monto) == ConPago(ConInteres(l, interes, fecha), monto)

\* A payroll run commits.  A background run adds the interest and then fixes
\* the payment; one within a request fixes it before, and adds interest only
\* with a payment.  Runs that leave the loan alone are left out.
Nomina(r, n) ==
  LET l == request[r].leido
  IN  /\ request[r].op = "nomina"
      /\ Libre(n)
      /\ \E fecha \in Fechas : \E interes \in Intereses(l, fecha) :
           \E monto \in 0 .. l.saldo + interes :
             /\ interes + monto > 0
             /\ Escribe(r, Cobro(l, interes, fecha, monto))
             /\ nominas' = [nominas EXCEPT ![n] = Fila(l, interes, fecha, monto)]
      /\ End(r, Stale(r))
      /\ UNCHANGED abonos

\* A settlement is applied: it collects what the last salary allows, without
\* interest.
Liquidar(r) ==
  /\ request[r].op = "liquidar"
  /\ \E monto \in 1 .. request[r].leido.saldo :
       /\ Escribe(r, ConPago(request[r].leido, monto))
       /\ liquidado' = liquidado + monto
  /\ End(r, Stale(r))
  /\ UNCHANGED <<nominas, manual, condonado, redondeo>>

-----------------------------------------------------------------------------
(* Taking a run back                                                         *)

Anular(r) ==
  /\ request[r].op = "anular"
  /\ Escribe(r, Deshecho(request[r].leido, request[r].fila))
  /\ nominas' = [nominas EXCEPT ![request[r].n] = Nada]
  /\ End(r, Stale(r) \cup Takeback(r))
  /\ UNCHANGED abonos

\* recalcular_nomina: the rollback and a new run with the date of the old one,
\* in one transaction.
Recalcular(r, m) ==
  LET l == Deshecho(request[r].leido, request[r].fila)
      fecha == request[r].fila.fecha
  IN  /\ request[r].op = "recalcular"
      /\ Libre(m)
      /\ Cobrable(l)
      /\ \E interes \in Intereses(l, fecha) : \E monto \in 1 .. l.saldo :
           /\ Escribe(r, Cobro(l, interes, fecha, monto))
           /\ nominas' = [nominas EXCEPT ![request[r].n] = Nada,
                                         ![m] = Fila(l, interes, fecha, monto)]
      /\ End(r, Stale(r) \cup Takeback(r))
      /\ UNCHANGED abonos

\* The new run does not collect the loan, or an employee fails: what is
\* committed is the rollback.
RecalcularSinCobro(r) ==
  /\ request[r].op = "recalcular"
  /\ Escribe(r, Deshecho(request[r].leido, request[r].fila))
  /\ nominas' = [nominas EXCEPT ![request[r].n] = Nada]
  /\ End(r, Stale(r) \cup Takeback(r))
  /\ UNCHANGED abonos

\* The transaction of the request is rolled back.
Fails(r) ==
  /\ request[r].op # "idle"
  /\ End(r, {})
  /\ UNCHANGED <<prestamo, nominas, abonos>>

Next ==
  \E r \in Requests :
    \/ \E op \in Ops : Lee(r, op)
    \/ \E op \in {"anular", "recalcular"}, n \in Nominas : LeeNomina(r, op, n)
    \/ Enviar(r) \/ Aprobar(r) \/ Rechazar(r) \/ Cancelar(r)
    \/ PagoExtraordinario(r) \/ Condonacion(r) \/ Liquidar(r)
    \/ \E n \in Nominas : Nomina(r, n) \/ Recalcular(r, n)
    \/ Anular(r) \/ RecalcularSinCobro(r) \/ Fails(r)

Spec == Init /\ [][Next]_vars

-----------------------------------------------------------------------------
(* Properties                                                                *)

Orderly == "stale" \notin incidentes

\* The balance of the loan is what was approved and the interest charged, less
\* what was paid and forgiven, through every order of runs, payments, voidings
\* and recalculations that does not overwrite a change or stop at zero.
BalanceIsAccounted ==
  incidentes \cap {"stale", "clamped"} = {} =>
    prestamo.saldo + prestamo.aplicado + manual + condonado + redondeo
      = prestamo.aprobado + prestamo.interes

\* The running totals kept in the row of the loan are the sums of the rows the
\* runs and settlements left: _rollback_payment and _rollback_interest take
\* from them exactly what was added.
TotalsMatchRows ==
  Orderly =>
    /\ prestamo.aplicado = liquidado + MapThenSumSet(LAMBDA n : nominas[n].abono, Nominas)
    /\ prestamo.interes = MapThenSumSet(LAMBDA n : nominas[n].interes, Nominas)

\* No day of interest is charged twice: the spans in the interest journal are
\* disjoint and end by the date in the loan's row, as long as only the last
\* span is ever taken back.
InterestOnce ==
  incidentes \cap {"stale", "disordered"} = {} =>
    \A n \in Nominas : nominas[n].interes > 0 =>
      /\ nominas[n].fecha <= prestamo.ultimo
      /\ \A m \in Nominas \ {n} : nominas[m].interes > 0 =>
           nominas[n].fecha <= nominas[m].desde \/ nominas[m].fecha <= nominas[n].desde

\* A loan marked PAGADO owes nothing: voiding or recalculating the run that
\* paid it reopens it.
PaidOwesNothing == Orderly => (prestamo.estado = "paid" => prestamo.saldo = 0)

\* A cancelled loan stays cancelled, although the runs that collected it may
\* still be voided and give it its balance back.
CancelledIsFinal ==
  [][Orderly' /\ prestamo.estado = "cancelled" => prestamo'.estado = "cancelled"]_vars

-----------------------------------------------------------------------------
(* What the repository says and the code does not do                         *)

\* model.py:1650-1652: each payroll charges the interest of the days elapsed
\* since the last calculation, so no two rows charge the same day.
InterestChargedOnce ==
  Orderly =>
    \A n, m \in Nominas :
      n # m /\ nominas[n].interes > 0 /\ nominas[m].interes > 0 =>
        nominas[n].fecha <= nominas[m].desde \/ nominas[m].fecha <= nominas[n].desde
=============================================================================
