----------------------------- MODULE Comprobantes -----------------------------
(***************************************************************************)
(* The accounting vouchers of the payrolls of one planilla: generated with *)
(* the payroll, generated again by its application and by a retry from the *)
(* queue, while the accounts it takes are edited.  The route that would    *)
(* generate one again by hand has no action: it reads an attribute no user *)
(* has (nombre_usuario) and its error is caught before anything is read.   *)
(*                                                                         *)
(* A generation reads the header and deletes the lines it sees, writes its *)
(* own and updates the header; only the application locks the payroll.  A  *)
(* lote is what one generation wrote, so a voucher that two generations    *)
(* wrote at once has two.  A line that fails to be written for a foreign   *)
(* key fails only where the database enforces them: PostgreSQL and MySQL   *)
(* do, SQLite does not unless it is asked to, and nothing asks it.         *)
(*                                                                         *)
(* The accounts and the amounts of a payslip, its vacation movements and   *)
(* the loans of its employee come from a scenario.  Every loan here names  *)
(* the deduction it is collected with, or none.                            *)
(***************************************************************************)
EXTENDS Integers, Sequences, FiniteSetsExt, Functions

CONSTANTS
  Empleados,        \* employees of the planilla
  Conceptos,        \* perceptions, deductions and benefits
  Cuentas,          \* account codes
  Null,             \* an account left unset, a concept that is none
  PorPagar,         \* the account of the salaries payable
  Escenarios,       \* what the payroll is made from, of the type Escenario
  Fichas,           \* the accounting of a concept an editor may leave
  Finiquitos,       \* the details of the settlements
  Peticiones,       \* requests and jobs in progress at the same time
  MaxCambios,       \* bound: edits
  MaxGeneraciones,  \* bound: generations
  MaxNominas        \* bound: payrolls, the recalculated ones included

ASSUME AccountsAssumption == PorPagar \in Cuentas /\ Null \notin Cuentas \cup Conceptos
ASSUME ComprobantesBounds == {MaxCambios, MaxGeneraciones} \subseteq Nat /\ MaxNominas \in Nat \ {0}

VARIABLES
  foraneas,      \* does the database enforce the foreign keys?
  escenario,     \* the payslips of every payroll
  config,        \* the live accounts: concepts, salary, vacation policy
  prestamos,     \* the loans, in the order the query returns them
  nominas,       \* the payrolls, in the order they were created
  comprobantes,  \* the header of each payroll's voucher
  lotes,         \* the lines of each payroll's voucher, a lote per generation
  cola,          \* payrolls with a retry in the queue
  peticion,      \* what each request is doing
  cuenta,        \* edits and generations so far
  primera,       \* history: the frozen lines of the first complete generation
  encimado       \* history: payrolls two overlapping generations wrote for

historia == <<primera, encimado>>
fijas == <<foraneas, escenario>>
comprobantesVars ==
  <<fijas, config, prestamos, nominas, comprobantes, lotes, cola, peticion, cuenta, historia>>

Opcional == Cuentas \cup {Null}

-----------------------------------------------------------------------------
(* Types                                                                     *)

\* Percepcion, Deduccion and Prestacion, as accounting sees them
FichaType == [contabilizable : BOOLEAN, debe : Opcional, haber : Opcional, invertir : BOOLEAN]
\* Planilla.codigo_cuenta_debe_salario and its pair; VacationPolicy's pair
ParCuentas == [debe : Opcional, haber : Opcional]
PoliticaType == [pagadas : BOOLEAN, debe : Opcional, haber : Opcional]
ConfigType == [fichas : [Conceptos -> FichaType], sueldo : ParCuentas, politica : PoliticaType]

TiposDetalle == {"income", "deduction", "benefit"}
TiposLinea == TiposDetalle \cup {"salario_base", "loan", "vacation_liability"}

\* NominaDetalle; a detail without a concept is a loan collected without one
DetalleType == [tipo : TiposDetalle, concepto : Conceptos \cup {Null},
                monto : Nat]
\* NominaEmpleado, and the movement of vacations that applying it posts
ReciboType == [sueldo : Nat, falta : Nat, centro : STRING, detalles : Seq(DetalleType),
               vacaciones : [entrada : {"none", "accrual", "usage"}, monto : Nat]]
\* Adelanto
EstadosAdelanto == {"draft", "pending", "approved", "applied", "paid", "rejected", "cancelled"}
PrestamoType == [empleado : Empleados, deduccion : Conceptos \cup {Null}, estado : EstadosAdelanto,
                 cuenta : Opcional]
\* catalogados are the concepts of the planilla, which a payroll freezes.
Escenario == [recibos : [Empleados -> ReciboType], config : ConfigType,
              catalogados : SUBSET Conceptos, prestamos : Seq(PrestamoType)]
\* LiquidacionDetalle, with the accounts of its concept
FiniquitoType == [tipo : TiposDetalle, monto : Int, debe : Opcional,
                  haber : Opcional]

ASSUME EscenariosAssumption ==
  /\ IsFiniteSet(Empleados)
  /\ Escenarios \subseteq Escenario /\ Fichas \subseteq FichaType
  /\ Finiquitos \subseteq Seq(FiniquitoType)

EstadosNomina == {"generated", "approved", "applied", "cancelled", "deleted"}
SinComprobante == [existe |-> FALSE]
ComprobanteType ==
  {SinComprobante} \cup
  [existe : {TRUE}, debitos : Nat, creditos : Nat, balance : Int, advertido : BOOLEAN,
   aplicado : BOOLEAN]

\* A line is one side of a renglon: 0 is the salary of a payslip, then come its
\* details, and the one after the last is its vacations.
LineaType == [empleado : Empleados, renglon : Nat, centro : STRING, tipo : TiposLinea,
              concepto : Conceptos \cup {Null}, lado : {"debito", "credito"}, cuenta : Opcional,
              monto : Nat]

Libre == [op |-> "libre"]
Ops == {"tarea", "aplicar"}

\* Nomina, with what it froze of the configuration
FotoType ==
  [fichas : [escenario.catalogados -> FichaType], sueldo : ParCuentas, politica : PoliticaType]
NominaType == [estado : EstadosNomina, foto : FotoType]

\* ComprobanteContableLinea, of one generation; what a request read and made
LoteType == [id : 1 .. MaxGeneraciones, lineas : SUBSET LineaType, completo : BOOLEAN]
PeticionType ==
  [op : Ops, n : 1 .. MaxNominas, existe : BOOLEAN, ids : SUBSET (1 .. MaxGeneraciones),
   lineas : SUBSET LineaType]

ComprobantesTypeOK ==
  /\ foraneas \in BOOLEAN /\ escenario \in Escenarios
  /\ config \in ConfigType /\ prestamos \in Seq(PrestamoType)
  /\ nominas \in Seq(NominaType) /\ Len(nominas) <= MaxNominas
  /\ comprobantes \in Seq(ComprobanteType) /\ Len(comprobantes) = Len(nominas)
  /\ lotes \in Seq(SUBSET LoteType) /\ Len(lotes) = Len(nominas)
  /\ cola \subseteq DOMAIN nominas /\ encimado \subseteq DOMAIN nominas
  /\ cuenta \in [cambios : 0 .. MaxCambios, generaciones : 0 .. MaxGeneraciones]
  /\ peticion \in [Peticiones -> {Libre} \cup PeticionType]
  /\ \A n \in DOMAIN nominas : \A l \in lotes[n] : l.id <= cuenta.generaciones
  /\ \A r \in Peticiones : peticion[r] # Libre =>
       /\ peticion[r].n \in DOMAIN nominas
       /\ \A i \in peticion[r].ids : i <= cuenta.generaciones

ComprobantesInit ==
  /\ foraneas \in BOOLEAN
  /\ escenario \in Escenarios
  /\ config = escenario.config
  /\ prestamos = escenario.prestamos
  /\ nominas = <<>> /\ comprobantes = <<>> /\ lotes = <<>>
  /\ cola = {}
  /\ peticion = [r \in Peticiones |-> Libre]
  /\ cuenta = [cambios |-> 0, generaciones |-> 0]
  /\ primera = {} /\ encimado = {}

-----------------------------------------------------------------------------
(* The lines of a voucher                                                    *)

Recibo(e) == escenario.recibos[e]
Detalles(e) == DOMAIN Recibo(e).detalles
Detalle(e, k) == Recibo(e).detalles[k]

\* _create_line, twice: a debit and a credit of the same amount.
Par(e, k, tipo, concepto, debe, haber, monto) ==
  {[empleado |-> e, renglon |-> k, centro |-> Recibo(e).centro, tipo |-> tipo,
    concepto |-> concepto, lado |-> s, cuenta |-> IF s = "debito" THEN debe ELSE haber,
    monto |-> monto] : s \in {"debito", "credito"}}

\* The salary as it was before absences, in the accounts frozen with the payroll.
LineasSalario(foto, e) ==
  Par(e, 0, "salario_base", Null, foto.sueldo.debe, foto.sueldo.haber, Recibo(e).sueldo)

\* The loans, in any state, that are collected with the deduction of a detail,
\* or with none.
Adelantos(e, d) ==
  {i \in DOMAIN prestamos : prestamos[i].empleado = e /\ prestamos[i].deduccion = d.concepto}

EsPrestamo(e, d) == d.tipo = "deduction" /\ Adelantos(e, d) # {}

\* The control account of the first loan still approved or applied.
CuentaControl(e, d) ==
  LET abiertos == {i \in Adelantos(e, d) : prestamos[i].estado \in {"approved", "applied"}}
  IN IF abiertos = {} THEN Null ELSE prestamos[Min(abiertos)].cuenta

\* A slip: the collection of a loan credits the salary payable again.
LineasPrestamoAlReves(foto, e, k) ==
  Par(e, k, "loan", Detalle(e, k).concepto, CuentaControl(e, Detalle(e, k)), foto.sueldo.haber,
      Detalle(e, k).monto)

LineasPrestamo(foto, e, k) ==
  Par(e, k, "loan", Detalle(e, k).concepto, foto.sueldo.haber, CuentaControl(e, Detalle(e, k)),
      Detalle(e, k).monto)

\* A slip: the concept as it is now, not as it was calculated.
FichaViva(foto, d) == config.fichas[d.concepto]

\* What was frozen with the payroll; the live concept where nothing was.
Ficha(foto, d) ==
  IF d.concepto \in DOMAIN foto.fichas THEN foto.fichas[d.concepto]
  ELSE config.fichas[d.concepto]

\* invertir_asiento_contable: frozen of a perception, live of a deduction,
\* never of a benefit.
Invertido(foto, d) ==
  \/ d.tipo = "income" /\ Ficha(foto, d).invertir
  \/ d.tipo = "deduction" /\ config.fichas[d.concepto].invertir

LineasConcepto(foto, e, k) ==
  LET d == Detalle(e, k)
      f == Ficha(foto, d)
  IN IF d.concepto = Null \/ ~f.contabilizable THEN {}
     ELSE IF Invertido(foto, d) THEN Par(e, k, d.tipo, d.concepto, f.haber, f.debe, d.monto)
     ELSE Par(e, k, d.tipo, d.concepto, f.debe, f.haber, d.monto)

LineasDetalle(foto, e, k) ==
  IF EsPrestamo(e, Detalle(e, k)) THEN LineasPrestamo(foto, e, k) ELSE LineasConcepto(foto, e, k)

\* The liability of the vacations earned and taken that the payroll posted;
\* a use swaps the accounts.
LineasVacaciones(foto, e) ==
  LET v == Recibo(e).vacaciones
      p == foto.politica
      De(debe, haber) ==
        Par(e, Len(Recibo(e).detalles) + 1, "vacation_liability", Null, debe, haber, v.monto)
  IN IF v.entrada = "none" \/ ~p.pagadas \/ v.monto <= 0 THEN {}
     ELSE IF v.entrada = "usage" THEN De(p.haber, p.debe) ELSE De(p.debe, p.haber)

LineasRecibo(foto, e) ==
  LineasSalario(foto, e) \cup UNION {LineasDetalle(foto, e, k) : k \in Detalles(e)}

\* generate_audit_voucher: the vacation movements exist once they are posted.
Lineas(foto, conVacaciones) ==
  UNION {LineasRecibo(foto, e) \cup (IF conVacaciones THEN LineasVacaciones(foto, e) ELSE {}) :
           e \in Empleados}

Montos(lineas) == SumFunction([l \in lineas |-> l.monto])
Lado(lineas, lado) == Montos({l \in lineas : l.lado = lado})

SinCuentas(par) == Null \in {par.debe, par.haber}

\* validate_accounting_configuration, of the live accounts of the planilla
ConfiguracionIncompleta ==
  \/ SinCuentas(config.sueldo)
  \/ \E c \in escenario.catalogados :
       config.fichas[c].contabilizable /\ SinCuentas(config.fichas[c])
  \/ config.politica.pagadas /\ SinCuentas(config.politica)

HayNulas(lineas) == \E l \in lineas : l.cuenta = Null

Cabecera(lineas, aplicado) ==
  LET d == Lado(lineas, "debito")
      c == Lado(lineas, "credito")
  IN [existe |-> TRUE, debitos |-> d, creditos |-> c, balance |-> d - c,
      advertido |-> ConfiguracionIncompleta \/ HayNulas(lineas), aplicado |-> aplicado]

-----------------------------------------------------------------------------
(* What a generation reads and what it writes                                *)

Nominas == DOMAIN nominas
Ids(n) == {l.id : l \in lotes[n]}

Congeladas(foto, lineas) ==
  {l \in lineas : /\ l.tipo \in {"salario_base", "benefit", "income"}
                  /\ l.concepto \in {Null} \cup DOMAIN foto.fichas}

Lote(lineas, completo) ==
  [id |-> cuenta.generaciones + 1, lineas |-> lineas, completo |-> completo]

Recuerda(foto, lineas) ==
  primera' = IF primera = {} THEN Congeladas(foto, lineas) ELSE primera

Genera == /\ cuenta.generaciones < MaxGeneraciones
          /\ cuenta' = [cuenta EXCEPT !.generaciones = @ + 1]

\* The header and the lines a request sees, and the lines it makes from them.
Lee(r, op, n, conVacaciones) ==
  /\ peticion[r] = Libre
  /\ peticion' = [peticion EXCEPT ![r] =
       [op |-> op, n |-> n, existe |-> comprobantes[n].existe, ids |-> Ids(n),
        lineas |-> Lineas(nominas[n].foto, conVacaciones)]]
  /\ UNCHANGED <<fijas, config, prestamos, nominas, comprobantes, lotes, cola, cuenta, historia>>

Termina(r) == peticion' = [peticion EXCEPT ![r] = Libre]

\* The header found must still be there; a header not found must still be
\* missing, for there is one per payroll, and its payroll exist.
PuedeEscribir(q) ==
  /\ q.existe = comprobantes[q.n].existe
  /\ ~q.existe /\ foraneas => nominas[q.n].estado # "deleted"

Escribe(q, aplicada) ==
  LET n == q.n IN
  /\ PuedeEscribir(q)
  /\ Genera
  /\ comprobantes' = [comprobantes EXCEPT ![n] =
       Cabecera(q.lineas, IF q.existe THEN comprobantes[n].aplicado ELSE aplicada)]
  /\ lotes' = [lotes EXCEPT ![n] = {l \in @ : l.id \notin q.ids} \cup {Lote(q.lineas, TRUE)}]
  /\ encimado' = IF Ids(n) = q.ids THEN encimado ELSE encimado \cup {n}
  /\ Recuerda(nominas[n].foto, q.lineas)

-----------------------------------------------------------------------------
(* Calculating and recalculating                                             *)

Foto == [config EXCEPT !.fichas = [c \in escenario.catalogados |-> config.fichas[c]]]

Agrega(foto, comprobante, suyos) ==
  /\ nominas' = Append(nominas, [estado |-> "generated", foto |-> foto])
  /\ comprobantes' = Append(comprobantes, comprobante)
  /\ lotes' = Append(lotes, suyos)

\* execute_payroll: the voucher goes with the payroll.
Calcular ==
  LET lineas == Lineas(Foto, FALSE) IN
  /\ nominas = <<>>
  /\ Genera
  /\ Agrega(Foto, Cabecera(lineas, FALSE), {Lote(lineas, TRUE)})
  /\ Recuerda(Foto, lineas)
  /\ UNCHANGED <<fijas, config, prestamos, cola, peticion, encimado>>

\* The generation fails with the payroll already made: the error is caught and
\* what it had written, the header and the lines of some, stays and is
\* committed.  A retry is enqueued, unless that fails too, or it runs before
\* the commit and finds no payroll.
CalcularSinComprobante ==
  LET lineas == Lineas(Foto, FALSE) IN
  /\ nominas = <<>>
  /\ Genera
  /\ \/ Agrega(Foto, SinComprobante, {})
     \/ \E es \in SUBSET Empleados :
          Agrega(Foto, [existe |-> TRUE, debitos |-> 0, creditos |-> 0, balance |-> 0,
                        advertido |-> ConfiguracionIncompleta, aplicado |-> FALSE],
                 IF es = {} THEN {} ELSE {Lote({l \in lineas : l.empleado \in es}, FALSE)})
  /\ cola' \in {{}, {1}}
  /\ UNCHANGED <<fijas, config, prestamos, peticion, historia>>

\* process_large_payroll: the payroll of the background job has no voucher.
CalcularEnSegundoPlano ==
  /\ nominas = <<>>
  /\ Agrega(Foto, SinComprobante, {})
  /\ UNCHANGED <<fijas, config, prestamos, cola, peticion, cuenta, historia>>

Bloqueada(n) == \E r \in Peticiones : peticion[r] # Libre /\ peticion[r].op = "aplicar" /\ peticion[r].n = n

\* recalcular_nomina: the new payroll, from the frozen configuration, is
\* committed with its voucher.  Then the payslips of the old one are deleted,
\* and its header, and itself; its lines are not, and where the database
\* enforces their reference to a payslip none of that is.
Recalcular(n) ==
  LET foto == nominas[n].foto
      lineas == Lineas(foto, FALSE)
      borrada == ~foraneas \/ lotes[n] = {}
      antes == [nominas EXCEPT ![n].estado = "deleted"]
      nueva == [estado |-> "generated", foto |-> foto]
  IN
  /\ Len(nominas) < MaxNominas
  /\ nominas[n].estado \notin {"applied", "deleted"} /\ ~Bloqueada(n)
  /\ Genera
  /\ nominas' = Append(IF borrada THEN antes ELSE nominas, nueva)
  /\ comprobantes' = Append(IF borrada THEN [comprobantes EXCEPT ![n] = SinComprobante]
                            ELSE comprobantes, Cabecera(lineas, FALSE))
  /\ lotes' = Append(lotes, {Lote(lineas, TRUE)})
  /\ Recuerda(foto, lineas)
  /\ UNCHANGED <<fijas, config, prestamos, cola, peticion, encimado>>

-----------------------------------------------------------------------------
(* Approving, voiding and applying                                           *)

Pasa(n, de, a) ==
  /\ nominas[n].estado \in de /\ ~Bloqueada(n)
  /\ nominas' = [nominas EXCEPT ![n].estado = a]
  /\ UNCHANGED <<fijas, config, prestamos, comprobantes, lotes, cola, peticion, cuenta, historia>>

Aprobar(n) == Pasa(n, {"generated"}, "approved")
\* The voucher of a voided payroll stays.
Anular(n) == Pasa(n, {"generated", "approved"}, "cancelled")

AplicarLee(r, n) ==
  nominas[n].estado = "approved" /\ ~Bloqueada(n) /\ Lee(r, "aplicar", n, TRUE)

\* A slip: the voucher of the calculation is taken as good.
AplicarSinRegenerar(r) ==
  LET n == peticion[r].n IN
  /\ peticion[r].op = "aplicar"
  /\ nominas' = [nominas EXCEPT ![n].estado = "applied"]
  /\ Termina(r)
  /\ UNCHANGED <<fijas, config, prestamos, comprobantes, lotes, cola, cuenta, historia>>

\* aplicar_nomina: the state, the vacations and the voucher in one transaction.
Aplicar(r) ==
  /\ peticion[r].op = "aplicar"
  /\ Escribe(peticion[r], TRUE)
  /\ nominas' = [nominas EXCEPT ![peticion[r].n].estado = "applied"]
  /\ Termina(r)
  /\ UNCHANGED <<fijas, config, prestamos, cola>>

-----------------------------------------------------------------------------
(* Generating again                                                          *)

\* The retry from the queue, of a payroll in any state.
TareaLee(r, n) ==
  /\ n \in cola /\ nominas[n].estado # "deleted"
  /\ Lee(r, "tarea", n, nominas[n].estado = "applied")

\* A retry is delivered at least once.
Entregada(q) == cola' \in (IF q.op = "tarea" THEN {cola, cola \ {q.n}} ELSE {cola})

Regenerar(r) ==
  /\ peticion[r].op = "tarea"
  /\ Escribe(peticion[r], nominas[peticion[r].n].estado = "applied")
  /\ Entregada(peticion[r])
  /\ Termina(r)
  /\ UNCHANGED <<fijas, config, prestamos, nominas>>

\* A request that cannot write, or fails: its transaction is rolled back.
Falla(r) ==
  /\ peticion[r] # Libre
  /\ Entregada(peticion[r])
  /\ Termina(r)
  /\ UNCHANGED <<fijas, config, prestamos, nominas, comprobantes, lotes, cuenta, historia>>

-----------------------------------------------------------------------------
(* Edits                                                                     *)

Cambia == /\ cuenta.cambios < MaxCambios
          /\ cuenta' = [cuenta EXCEPT !.cambios = @ + 1]

EditarConcepto(c, f) ==
  /\ Cambia
  /\ config' = [config EXCEPT !.fichas[c] = f]
  /\ UNCHANGED <<fijas, prestamos, nominas, comprobantes, lotes, cola, peticion, historia>>

\* The accounts of the salary, or of the vacation policy, swapped or unset.
EditarPlanilla(nuevas) ==
  /\ Cambia
  /\ \/ config' = [config EXCEPT !.sueldo = nuevas]
     \/ config' = [config EXCEPT !.politica =
          [pagadas |-> @.pagadas, debe |-> nuevas.debe, haber |-> nuevas.haber]]
  /\ UNCHANGED <<fijas, prestamos, nominas, comprobantes, lotes, cola, peticion, historia>>

\* A loan is approved, applied by a payroll, paid.
PrestamoPasa(i, estado) ==
  /\ Cambia
  /\ prestamos' = [prestamos EXCEPT ![i].estado = estado]
  /\ UNCHANGED <<fijas, config, nominas, comprobantes, lotes, cola, peticion, historia>>

ComprobantesNext ==
  \/ Calcular \/ CalcularSinComprobante \/ CalcularEnSegundoPlano
  \/ \E n \in Nominas : Recalcular(n) \/ Aprobar(n) \/ Anular(n)
  \/ \E r \in Peticiones, n \in Nominas : AplicarLee(r, n) \/ TareaLee(r, n)
  \/ \E r \in Peticiones : Aplicar(r) \/ Regenerar(r) \/ Falla(r)
  \/ \E c \in DOMAIN config.fichas, f \in Fichas : EditarConcepto(c, f)
  \/ \E f \in Fichas : EditarPlanilla([debe |-> f.debe, haber |-> f.haber])
  \/ \E i \in DOMAIN prestamos, e \in {"approved", "applied", "paid"} : PrestamoPasa(i, e)

ComprobantesSpec == ComprobantesInit /\ [][ComprobantesNext]_comprobantesVars

-----------------------------------------------------------------------------
(* What is exported, and the voucher of a settlement                         *)

\* get_detailed_voucher_by_employee: of any voucher, NULL accounts and all
Detallado(lineas, e) == {l \in lineas : l.empleado = e}

\* validate_line_integrity: exactly one side of a line is above zero.
Integras(lineas) == \A l \in lineas : l.monto > 0

\* exportar_comprobante_excel
PuedeExportar(n) ==
  /\ comprobantes[n].existe /\ comprobantes[n].balance = 0
  /\ \A l \in lotes[n] : Integras(l.lineas) /\ ~HayNulas(l.lineas)

\* summarize_voucher: the debits less the credits of each account and centre.
Neto(lineas, cuenta_, centro) ==
  LET suyas == {l \in lineas : l.cuenta = cuenta_ /\ l.centro = centro}
  IN Lado(suyas, "debito") - Lado(suyas, "credito")

Resumen(lineas) ==
  {r \in {[cuenta |-> l.cuenta, centro |-> l.centro, neto |-> Neto(lineas, l.cuenta, l.centro)] :
            l \in lineas} : r.neto # 0}

\* generate_liquidacion_voucher: the debit and the credit of a detail, which
\* add to their accounts and take from them.
LineasFiniquito(k, d) ==
  LET Linea(codigo, neto) == [renglon |-> k, cuenta |-> codigo, neto |-> neto]
      O(codigo, otro) == IF codigo = Null THEN otro ELSE codigo
  IN IF d.monto <= 0 THEN {}
     ELSE IF d.tipo = "deduction"
     THEN {Linea("LIQUIDACION_POR_PAGAR", d.monto),
           Linea(O(d.haber, "LIQUIDACION_DEDUCCION"), - d.monto)}
     ELSE {Linea(O(d.debe, "LIQUIDACION_GASTO"), d.monto),
           Linea("LIQUIDACION_POR_PAGAR", - d.monto)}

LineasLiquidacion(fs) == UNION {LineasFiniquito(k, fs[k]) : k \in DOMAIN fs}

-----------------------------------------------------------------------------
(* Properties                                                                *)

DeTipo(lineas, e, tipo) == Montos({l \in Detallado(lineas, e) : l.tipo = tipo})

\* A lote that balances, with its header; the salary and the vacations the
\* application posted are in it, and an account missing from it was warned of.
Completo(n, lineas) ==
  /\ comprobantes[n].debitos = Lado(lineas, "debito")
  /\ comprobantes[n].creditos = Lado(lineas, "credito")
  /\ comprobantes[n].balance = 0
  /\ HayNulas(lineas) => comprobantes[n].advertido
  /\ \A e \in Empleados :
       /\ DeTipo(lineas, e, "salario_base") = 2 * Recibo(e).sueldo
       /\ Recibo(e).vacaciones.entrada # "none" /\ nominas[n].foto.politica.pagadas =>
            DeTipo(lineas, e, "vacation_liability") = 2 * Recibo(e).vacaciones.monto

\* An applied payroll has a voucher, whatever failed and was retried before it
\* was applied; and unless two generations overlapped, it is one generation,
\* whole: it balances, its header is the sum of its lines, the salary and the
\* vacations the application posted are in it, and an account missing from it
\* was warned of.
AplicadaConComprobante ==
  \A n \in Nominas : nominas[n].estado = "applied" =>
    /\ comprobantes[n].existe
    /\ n \notin encimado => \E l \in lotes[n] : lotes[n] = {l} /\ Completo(n, l.lineas)

Pagado(e, tipo) ==
  SumFunction([k \in {j \in Detalles(e) : Detalle(e, j).tipo = tipo} |-> Detalle(e, k).monto])

\* NominaEmpleado.salario_neto
SalarioNeto(e) ==
  Recibo(e).sueldo - Recibo(e).falta + Pagado(e, "income") - Pagado(e, "deduction")

\* The salary and the perceptions are credited to the salaries payable, the
\* deductions that are no loan debited, and nothing else touches them; every
\* detail is booked.
CuentasUsuales(lineas) ==
  /\ \A l \in lineas : l.tipo # "loan" =>
       (l.cuenta = PorPagar <=>
         <<l.tipo, l.lado>> \in {<<"salario_base", "credito">>, <<"income", "credito">>,
                                 <<"deduction", "debito">>})
  /\ \A e \in Empleados : \A k \in Detalles(e) :
       \E l \in Detallado(lineas, e) : l.renglon = k
  /\ \A i \in DOMAIN prestamos : prestamos[i].cuenta # PorPagar

\* Where the accounts are the usual ones, what the summary that is exported
\* leaves payable in a cost centre is the net pay of its employees, loans
\* collected and since paid included.
NominaPorPagar ==
  \A n \in Nominas : \A l \in lotes[n] :
    /\ PuedeExportar(n) /\ lotes[n] = {l} /\ l.completo /\ CuentasUsuales(l.lineas)
    /\ \A e \in Empleados : Recibo(e).falta = 0
    => \A z \in {Recibo(e).centro : e \in Empleados} :
         LET neto == SumFunction([e \in {x \in Empleados : Recibo(x).centro = z} |-> SalarioNeto(e)])
         IN neto # 0 => [cuenta |-> PorPagar, centro |-> z, neto |-> - neto] \in Resumen(l.lineas)

\* A settlement leaves payable what it pays less what it collects, where no
\* concept is charged to the account of what is payable.
FiniquitoPorPagar ==
  \A fs \in Finiquitos :
    LET pagar == {l \in LineasLiquidacion(fs) : l.cuenta = "LIQUIDACION_POR_PAGAR"}
        De(tipos) ==
          SumFunction([k \in {j \in DOMAIN fs : fs[j].tipo \in tipos /\ fs[j].monto > 0} |-> fs[k].monto])
    IN (\A k \in DOMAIN fs : "LIQUIDACION_POR_PAGAR" \notin {fs[k].debe, fs[k].haber}) =>
         SumFunction([l \in pagar |-> l.neto]) = De({"deduction"}) - De({"income", "benefit"})

\* What a payroll and a settlement leave payable is what they pay.
PorPagarEsElNeto == NominaPorPagar /\ FiniquitoPorPagar

\* However often and after whichever edits it is generated again, the
\* salary, the perceptions and the benefits of a payroll, and of those that
\* recalculate it, are booked in the accounts they were first booked in.
LineasCongeladas ==
  \A n \in Nominas : \A l \in lotes[n] :
    l.completo => Congeladas(nominas[n].foto, l.lineas) = primera

-----------------------------------------------------------------------------
(* What the repository says and the code does not do                         *)

\* model.py:1281-1282: "preventing configuration changes from affecting
\* historical records": invertir_asiento_contable of a deduction is read live.
DeduccionesCongeladas ==
  \A n \in Nominas : \A k, l \in lotes[n] : k.completo /\ l.completo =>
    \A x \in k.lineas, y \in l.lineas :
      x.tipo = "deduction" /\ [x EXCEPT !.cuenta = Null] = [y EXCEPT !.cuenta = Null]
      => x.cuenta = y.cuenta

\* model.py:1286: "aplicado_por: User who applied the nomina (immutable)".  The
\* voucher made with the payroll never gets it.
AplicadorRegistrado ==
  \A n \in Nominas : nominas[n].estado = "applied" => comprobantes[n].aplicado

\* nomina_service.py: the recalculated payroll takes the place of the old one.
UnaSolaNomina == Cardinality({n \in Nominas : nominas[n].estado # "deleted"}) <= 1
=============================================================================
