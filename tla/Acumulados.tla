------------------------------ MODULE Acumulados ------------------------------
(***************************************************************************)
(* What payrolls leave behind for one employee in one company: the row of  *)
(* each fiscal year (AcumuladoAnual), written when a payroll is calculated *)
(* and taken back when it is voided or recalculated, and the transactions  *)
(* of one benefit (PrestacionAcumulada), added when a payroll or an        *)
(* initial load (CargaInicialPrestacion) is applied.                       *)
(*                                                                         *)
(* Nothing locks a row of a fiscal year: a payroll of another planilla, or *)
(* one calculated in the background, reads it, adds in Python and commits. *)
(* Nothing locks the transactions of a benefit either: the application of  *)
(* a payroll locks its own nomina, takes the balance of the last           *)
(* transaction by date and adds its own when it commits.  Only an applied  *)
(* payroll cannot be recalculated: a voided one is taken back again.       *)
(*                                                                         *)
(* Months follow each other from 1; a period ends in the month it begins   *)
(* or in the next.  One amount stands for the salary, the taxable salary,  *)
(* the tax and the benefit of a payslip, which are added and taken back    *)
(* alike.                                                                  *)
(***************************************************************************)
EXTENDS Integers, FiniteSetsExt, Sequences

CONSTANTS
  Requests,         \* requests and jobs in progress at the same time
  Nominas,          \* payrolls that include the employee
  Cargas,           \* initial loads of the benefit
  InicioFiscal,     \* the month a fiscal year begins
  PrimerMes,        \* the first payroll month of the company
  SalarioInicial,   \* what the employee had earned before it
  PeriodosIniciales, \* and the periods paid before it
  MaxMes,           \* bound: months
  MaxMonto,         \* bound: the amount of a payslip or of a load
  MaxHoy,           \* bound: days on which something is calculated or loaded
  MaxOperations     \* bound: requests ever begun

ASSUME CalendarAssumption ==
  /\ InicioFiscal \in Nat /\ PrimerMes \in Nat
  /\ SalarioInicial \in Nat /\ PeriodosIniciales \in Nat
ASSUME NamesAssumption ==
  /\ Nominas \cap Cargas = {}
  /\ IsFiniteSet(Nominas) /\ IsFiniteSet(Cargas)
ASSUME BoundsAssumption ==
  MaxMes \in Nat /\ MaxMonto \in Nat /\ MaxHoy \in Nat \ {0} /\ MaxOperations \in Nat

VARIABLES
  acumulado,    \* the row of each fiscal year
  nomina,       \* the payrolls
  carga,        \* the initial loads
  mensual,      \* tipo_acumulacion of the benefit is MENSUAL
  libro,        \* transactions of the benefit, in the order they were committed
  aplicando,    \* what the application of each payroll has read
  hoy,          \* the date
  request,      \* what each request is doing
  operations,   \* requests begun
  incidentes,   \* history: a commit over a row that had changed
  repetido      \* history: what was taken back from each year a second time

papeles == <<nomina, carga>>
beneficio == <<libro, aplicando>>
historia == <<incidentes, repetido>>
acumuladosVars == <<acumulado, papeles, mensual, beneficio, hoy, request, operations, historia>>

Meses == 1 .. MaxMes
Anios == {0, 1}
Anio(mes) == IF mes >= InicioFiscal THEN 1 ELSE 0

-----------------------------------------------------------------------------
(* Types                                                                     *)

\* inicial: what the row was created with.  mes_actual is 0 for NULL.
AcumuladoType ==
  [existe : BOOLEAN, bruto : Nat, mes : Nat, mes_actual : 0 .. MaxMes, periodos : Nat,
   inicial : BOOLEAN]
FilaAusente == [existe |-> FALSE, bruto |-> 0, mes |-> 0, mes_actual |-> 0, periodos |-> 0,
                inicial |-> FALSE]

\* fecha is fecha_calculo_original.
NominaType ==
  [estado : {"none", "ready", "applied", "cancelled"}, inicio : 0 .. MaxMes, fin : 0 .. MaxMes,
   monto : 0 .. MaxMonto, fecha : 0 .. MaxHoy]
CargaType == [estado : {"none", "draft", "applied"}, mes : 0 .. MaxMes, monto : 0 .. MaxMonto]

\* A row of a file of loads, and the name its load takes.
Archivo == [carga : Cargas, mes : Meses, monto : 1 .. MaxMonto]

\* creado is a date too.  leidos, a history, is how many transactions there were
\* when it read the last one.
Transaccion ==
  [origen : Nominas \cup Cargas, fecha : 1 .. MaxHoy, creado : 1 .. MaxHoy, mes : Meses,
   monto : 0 .. MaxMonto, saldo_nuevo : Nat, leidos : Nat]

Idle == [op |-> "idle"]
Leido == [anterior : Nat, creado : 1 .. MaxHoy, leidos : Nat]
Ops == {"calcular", "anular", "recalcular", "editar", "aplicar", "eliminar"}

AcumuladosTypeOK ==
  /\ acumulado \in [Anios -> AcumuladoType]
  /\ nomina \in [Nominas -> NominaType]
  /\ carga \in [Cargas -> CargaType]
  /\ mensual \in BOOLEAN
  /\ libro \in Seq(Transaccion)
  /\ aplicando \in [Nominas -> {Idle} \cup Leido]
  /\ hoy \in 1 .. MaxHoy
  /\ \A r \in Requests : request[r].op \in Ops \cup {"idle"}
  /\ operations \in 0 .. MaxOperations
  /\ incidentes \in BOOLEAN
  /\ repetido \in [Anios -> [bruto : Nat, periodos : Nat]]

AcumuladosInit ==
  /\ acumulado = [a \in Anios |-> FilaAusente]
  /\ nomina = [n \in Nominas |->
       [estado |-> "none", inicio |-> 0, fin |-> 0, monto |-> 0, fecha |-> 0]]
  /\ carga = [c \in Cargas |-> [estado |-> "none", mes |-> 0, monto |-> 0]]
  /\ mensual \in BOOLEAN
  /\ libro = <<>>
  /\ aplicando = [n \in Nominas |-> Idle]
  /\ hoy = 1
  /\ request = [r \in Requests |-> Idle]
  /\ operations = 0 /\ incidentes = FALSE
  /\ repetido = [a \in Anios |-> [bruto |-> 0, periodos |-> 0]]

-----------------------------------------------------------------------------
(* The row of a fiscal year                                                  *)

\* get_or_create: the first period of the company brings what came before it.
FilaNueva(inicio) ==
  LET primero == inicio = PrimerMes
  IN  [existe |-> TRUE, bruto |-> IF primero THEN SalarioInicial ELSE 0, mes |-> 0,
       mes_actual |-> 0, periodos |-> IF primero THEN PeriodosIniciales ELSE 0,
       inicial |-> primero]

Obtener(fila, inicio) == IF fila.existe THEN fila ELSE FilaNueva(inicio)

\* A new month begins its own total.
ConNomina(fila, mes, monto) ==
  [fila EXCEPT !.bruto = @ + monto, !.periodos = @ + 1, !.mes_actual = mes,
               !.mes = IF fila.mes_actual = mes THEN @ + monto ELSE monto]

\* A slip: amounts are taken back without a floor.
SinPiso(a, b) == a - b
Resta(a, b) == IF a > b THEN a - b ELSE 0

SinNomina(fila, monto) ==
  LET periodos == Resta(fila.periodos, 1)
      mes == Resta(fila.mes, monto)
  IN  [fila EXCEPT !.bruto = Resta(@, monto), !.periodos = periodos, !.mes = mes,
                   !.mes_actual = IF periodos = 0 /\ mes = 0 THEN 0 ELSE @]

\* A slip: the fiscal year is that of the first day of the period.
AnioPorInicio(inicio, fin) == Anio(inicio)
\* The fiscal year a payroll is taken back from.
AnioAlRevertir(inicio, fin) == Anio(fin)

\* _rollback_accumulations_for_nomina: a year without a row is left alone.
Revertir(filas, n) ==
  LET a == AnioAlRevertir(nomina[n].inicio, nomina[n].fin)
  IN  IF filas[a].existe THEN [filas EXCEPT ![a] = SinNomina(@, nomina[n].monto)] ELSE filas

-----------------------------------------------------------------------------
(* Reading                                                                   *)

Vista(op, k) ==
  CASE op = "calcular"                 -> acumulado
    [] op \in {"anular", "recalcular"} -> <<acumulado, nomina[k].estado>>
    [] OTHER                           -> carga[k]

Lee(r, op, k) ==
  /\ request[r] = Idle
  /\ operations < MaxOperations
  /\ operations' = operations + 1
  /\ request' = [request EXCEPT ![r] =
       [op |-> op, k |-> k, filas |-> acumulado, vista |-> Vista(op, k)]]
  /\ UNCHANGED <<acumulado, papeles, mensual, beneficio, hoy, historia>>

CalcularLee(r, n) ==
  /\ nomina[n].estado = "none"
  /\ \A q \in Requests : request[q] # Idle => request[q].k # n
  /\ Lee(r, "calcular", n)

AnularLee(r, n) == nomina[n].estado = "ready" /\ Lee(r, "anular", n)

\* Only an applied payroll is refused: a voided one is recalculated too.
RecalcularLee(r, n) == nomina[n].estado \in {"ready", "cancelled"} /\ Lee(r, "recalcular", n)

CargaLee(r, op, c) == carga[c].estado = "draft" /\ Lee(r, op, c)

-----------------------------------------------------------------------------
(* Writing                                                                   *)

Overtaken(r) == Vista(request[r].op, request[r].k) # request[r].vista

End(r) ==
  /\ request' = [request EXCEPT ![r] = Idle]
  /\ incidentes' = (incidentes \/ Overtaken(r))
  /\ UNCHANGED <<mensual, hoy, operations>>

\* The unique key of a fiscal year refuses a second row of it.
SinDuplicar(filas, a) == filas[a].existe \/ ~acumulado[a].existe

Contabiliza(filas, inicio, fin, monto) ==
  [filas EXCEPT ![Anio(fin)] = ConNomina(Obtener(@, inicio), fin, monto)]

\* Only the row of its year is written, with what was computed from the row read.
Escribe(nuevas, tocadas) ==
  acumulado' = [a \in Anios |-> IF a \in tocadas THEN nuevas[a] ELSE acumulado[a]]

Calcular(r) ==
  LET n == request[r].k
  IN  /\ request[r].op = "calcular"
      /\ \E inicio \in Meses, fin \in Meses, monto \in 1 .. MaxMonto :
           /\ fin \in {inicio, inicio + 1}
           /\ SinDuplicar(request[r].filas, Anio(fin))
           /\ nomina' = [nomina EXCEPT ![n] =
                [estado |-> "ready", inicio |-> inicio, fin |-> fin, monto |-> monto,
                 fecha |-> hoy]]
           /\ Escribe(Contabiliza(request[r].filas, inicio, fin, monto), {Anio(fin)})
      /\ End(r)
      /\ UNCHANGED <<carga, beneficio, repetido>>

\* Waits for the nomina if it is being applied.
AnularNomina(r) ==
  LET n == request[r].k
  IN  /\ request[r].op = "anular"
      /\ aplicando[n] = Idle
      /\ nomina' = [nomina EXCEPT ![n].estado = "cancelled"]
      /\ Escribe(Revertir(request[r].filas, n),
                 {AnioAlRevertir(nomina[n].inicio, nomina[n].fin)})
      /\ End(r)
      /\ UNCHANGED <<carga, beneficio, repetido>>

\* The transaction of a payroll applied meanwhile is deleted with its nomina.
SinAsiento(n) ==
  IF \E i \in DOMAIN libro : libro[i].origen = n
  THEN LET i == CHOOSE i \in DOMAIN libro : libro[i].origen = n
       IN  SubSeq(libro, 1, i - 1) \o SubSeq(libro, i + 1, Len(libro))
  ELSE libro

\* Taken back, though it was voided and taken back then, and calculated again
\* with its own dates.
RecalcularNomina(r) ==
  LET n == request[r].k
      a == AnioAlRevertir(nomina[n].inicio, nomina[n].fin)
  IN  /\ request[r].op = "recalcular"
      /\ aplicando[n] = Idle
      /\ \E monto \in 1 .. MaxMonto :
           /\ nomina' = [nomina EXCEPT ![n].monto = monto, ![n].estado = "ready"]
           /\ Escribe(Contabiliza(Revertir(request[r].filas, n), nomina[n].inicio,
                                  nomina[n].fin, monto),
                      {a, Anio(nomina[n].fin)})
      /\ repetido' = IF nomina[n].estado = "cancelled"
                     THEN [repetido EXCEPT ![a] = [bruto |-> @.bruto + nomina[n].monto,
                                                   periodos |-> @.periodos + 1]]
                     ELSE repetido
      /\ libro' = SinAsiento(n)
      /\ End(r)
      /\ UNCHANGED <<carga, aplicando>>

AntesQue(t, u) == t.fecha < u.fecha \/ (t.fecha = u.fecha /\ t.creado < u.creado)

\* The last transactions: by their dates, then by the day they were created; of
\* several the database may return any.
Ultimas == {i \in DOMAIN libro : \A j \in DOMAIN libro : ~AntesQue(libro[i], libro[j])}

\* A slip: every benefit begins again with the month.
SiempreMensual(i, mes) == IF libro[i].mes # mes THEN 0 ELSE libro[i].saldo_nuevo
SaldoAnterior(i, mes) ==
  IF mensual /\ libro[i].mes # mes THEN 0 ELSE libro[i].saldo_nuevo

Asiento(origen, fecha, mes, monto, leido) ==
  libro' = Append(libro, [origen |-> origen, fecha |-> fecha, creado |-> leido.creado,
                          mes |-> mes, monto |-> monto, saldo_nuevo |-> leido.anterior + monto,
                          leidos |-> leido.leidos])

\* Of a payroll approved before: locks its nomina and reads the last transaction.
AplicarLee(n) ==
  /\ nomina[n].estado = "ready"
  /\ aplicando[n] = Idle
  /\ \E anterior \in IF libro = <<>> THEN {0}
                     ELSE {SaldoAnterior(i, nomina[n].fin) : i \in Ultimas} :
       aplicando' = [aplicando EXCEPT ![n] =
         [anterior |-> anterior, creado |-> hoy, leidos |-> Len(libro)]]
  /\ UNCHANGED <<acumulado, papeles, mensual, libro, hoy, request, operations, historia>>

\* A payroll whose transaction exists gets no second one.
AplicarNomina(n) ==
  /\ aplicando[n] # Idle
  /\ nomina' = [nomina EXCEPT ![n].estado = "applied"]
  /\ IF \E i \in DOMAIN libro : libro[i].origen = n THEN UNCHANGED libro
     ELSE Asiento(n, nomina[n].fecha, nomina[n].fin, nomina[n].monto, aplicando[n])
  /\ aplicando' = [aplicando EXCEPT ![n] = Idle]
  /\ UNCHANGED <<acumulado, carga, mensual, hoy, request, operations, historia>>

AplicarFalla(n) ==
  /\ aplicando[n] # Idle
  /\ aplicando' = [aplicando EXCEPT ![n] = Idle]
  /\ UNCHANGED <<acumulado, papeles, mensual, libro, hoy, request, operations, historia>>

\* A load of a month that has none yet.
NuevaCarga(c, mes, monto) ==
  /\ carga[c].estado = "none"
  /\ \A d \in Cargas : carga[d].estado = "none" \/ carga[d].mes # mes
  /\ carga' = [carga EXCEPT ![c] = [estado |-> "draft", mes |-> mes, monto |-> monto]]
  /\ UNCHANGED <<acumulado, nomina, mensual, beneficio, hoy, request, operations, historia>>

\* A row of the file whose month has a load, or is that of an earlier row.
Repetida(filas, i) ==
  \/ \E d \in Cargas : carga[d].estado # "none" /\ carga[d].mes = filas[i].mes
  \/ \E j \in 1 .. i - 1 : filas[j].mes = filas[i].mes

\* The rows of the file that become loads.
Validas(filas) == {i \in DOMAIN filas : ~Repetida(filas, i)}

\* initial_balance_bulk: the drafts of a file in one commit, without the rows
\* that repeat a month, those of the file itself included.
CargaMasiva(filas) ==
  /\ \A i \in DOMAIN filas : carga[filas[i].carga].estado = "none"
  /\ \A i, j \in DOMAIN filas : filas[i].carga = filas[j].carga => i = j
  /\ Validas(filas) # {}
  /\ carga' = [c \in Cargas |->
       IF \E i \in Validas(filas) : filas[i].carga = c
       THEN LET i == CHOOSE i \in Validas(filas) : filas[i].carga = c
            IN  [estado |-> "draft", mes |-> filas[i].mes, monto |-> filas[i].monto]
       ELSE carga[c]]
  /\ UNCHANGED <<acumulado, nomina, mensual, beneficio, hoy, request, operations, historia>>

\* Editing keeps the estado it found and the key of the month.
EditarCarga(r) ==
  LET c == request[r].k
  IN  /\ request[r].op = "editar"
      /\ carga[c].estado # "none"
      /\ \E mes \in Meses, monto \in 1 .. MaxMonto :
           /\ \A d \in Cargas \ {c} : carga[d].estado = "none" \/ carga[d].mes # mes
           /\ carga' = [carga EXCEPT ![c].mes = mes, ![c].monto = monto]
      /\ End(r)
      /\ UNCHANGED <<acumulado, nomina, beneficio, repetido>>

\* The first balance is the amount of the load, whatever there was.
AplicarCarga(r) ==
  LET c == request[r].k
  IN  /\ request[r].op = "aplicar"
      /\ carga[c].estado # "none"
      /\ Asiento(c, hoy, request[r].vista.mes, request[r].vista.monto,
                 [anterior |-> 0, creado |-> hoy, leidos |-> 0])
      /\ carga' = [carga EXCEPT ![c].estado = "applied"]
      /\ End(r)
      /\ UNCHANGED <<acumulado, nomina, aplicando, repetido>>

EliminarCarga(r) ==
  LET c == request[r].k
  IN  /\ request[r].op = "eliminar"
      /\ carga' = [carga EXCEPT ![c] = [estado |-> "none", mes |-> 0, monto |-> 0]]
      /\ End(r)
      /\ UNCHANGED <<acumulado, nomina, beneficio, repetido>>

\* The transaction of the request is rolled back.
Fails(r) ==
  /\ request[r] # Idle
  /\ request' = [request EXCEPT ![r] = Idle]
  /\ UNCHANGED <<acumulado, papeles, mensual, beneficio, hoy, operations, historia>>

Amanece ==
  /\ hoy < MaxHoy
  /\ hoy' = hoy + 1
  /\ UNCHANGED <<acumulado, papeles, mensual, beneficio, request, operations, historia>>

-----------------------------------------------------------------------------

EmpiezaSolicitud(r) ==
  \/ \E n \in Nominas : CalcularLee(r, n) \/ AnularLee(r, n) \/ RecalcularLee(r, n)
  \/ \E c \in Cargas, op \in {"editar", "aplicar", "eliminar"} : CargaLee(r, op, c)

TerminaSolicitud(r) ==
  \/ Calcular(r) \/ AnularNomina(r) \/ RecalcularNomina(r)
  \/ EditarCarga(r) \/ AplicarCarga(r) \/ EliminarCarga(r) \/ Fails(r)

AcumuladosNext ==
  \/ \E r \in Requests : EmpiezaSolicitud(r) \/ TerminaSolicitud(r)
  \/ \E n \in Nominas : AplicarLee(n) \/ AplicarNomina(n) \/ AplicarFalla(n)
  \/ \E c \in Cargas, mes \in Meses, monto \in 1 .. MaxMonto : NuevaCarga(c, mes, monto)
  \/ \E filas \in [1 .. Cardinality(Cargas) -> Archivo] : CargaMasiva(filas)
  \/ Amanece

AcumuladosSpec == AcumuladosInit /\ [][AcumuladosNext]_acumuladosVars

-----------------------------------------------------------------------------
(* Properties                                                                *)

Orderly == ~incidentes
Contadas(a) == {n \in Nominas : nomina[n].estado \in {"ready", "applied"} /\ Anio(nomina[n].fin) = a}
Movido(S) == MapThenSumSet(LAMBDA i : libro[i].monto, S)

\* The row of a fiscal year never exceeds what it was created with and what the
\* payrolls that end in it and stand paid, through voiding and recalculating in
\* any order, and lacks at most what the recalculation of voided payrolls took back
\* a second time: where none was recalculated it is exactly that sum, so that no
\* amount is added or taken back in the wrong year or cut off at zero.
TotalesSonNominas ==
  Orderly =>
    \A a \in Anios :
      LET fila == acumulado[a]
          bruto == (IF fila.inicial THEN SalarioInicial ELSE 0)
                   + MapThenSumSet(LAMBDA n : nomina[n].monto, Contadas(a))
          periodos == (IF fila.inicial THEN PeriodosIniciales ELSE 0) + Cardinality(Contadas(a))
      IN  /\ fila.bruto \in bruto - repetido[a].bruto .. bruto
          /\ fila.periodos \in periodos - repetido[a].periodos .. periodos
          /\ ~fila.existe => Contadas(a) = {}

DelMes(i) == {j \in 1 .. i : mensual => libro[j].mes = libro[i].mes}

\* The transactions up to i found all those before them, which had dates that tell
\* them apart, and the months of a monthly benefit followed each other.  A load
\* reads none.
LibroEnOrden(i) ==
  \A k \in 1 .. i :
    /\ libro[k].leidos = k - 1
    /\ \A j \in 1 .. k - 1 : /\ mensual => libro[j].mes <= libro[k].mes
                             /\ k < i => AntesQue(libro[j], libro[k])

\* A balance of a benefit is the sum of the transactions up to it, those of the
\* month when it is settled monthly, wherever each was made over the last; and
\* never more than that sum, whatever payrolls were applied at once, late or on
\* one day.  A payroll or a load makes one transaction, and only when applied.
BeneficioCuadra ==
  Orderly =>
    /\ \A i, j \in DOMAIN libro : i # j => libro[i].origen # libro[j].origen
    /\ \A i \in DOMAIN libro :
         LET k == libro[i].origen
         IN  IF k \in Nominas THEN nomina[k].estado = "applied" ELSE carga[k].estado = "applied"
    /\ \A i \in DOMAIN libro : libro[i].saldo_nuevo <= Movido(DelMes(i))
    /\ \A i \in DOMAIN libro : LibroEnOrden(i) => libro[i].saldo_nuevo = Movido(DelMes(i))

-----------------------------------------------------------------------------
(* What the repository says and the code does not do                         *)

\* model.py:2095-2097: saldo_nuevo is the balance after the transaction.  A payroll
\* applied after one that was calculated later is left out of the next balance.
SaldoEsLaSuma ==
  Orderly /\ ~mensual /\ (\A i \in DOMAIN libro : libro[i].origen \in Nominas) =>
    \A i \in DOMAIN libro : libro[i].saldo_nuevo = Movido(1 .. i)

\* nomina_service.py:662: the accumulated values are reverted first to keep the
\* period counts right on recalculation.  What a voided payroll added has been
\* reverted already and is reverted again.
PeriodosAlRecalcular ==
  Orderly =>
    \A a \in Anios :
      acumulado[a].periodos = (IF acumulado[a].inicial THEN PeriodosIniciales ELSE 0)
                              + Cardinality(Contadas(a))
=============================================================================
