# Coati Payroll in TLA+

Coati Payroll is a Flask application over a relational database. Web requests
and, for large payrolls, Dramatiq workers read rows, decide, and commit. Almost
nothing is locked, and a payroll writes to many books at once: the payslips, the
annual accumulations, the loans, the vacation accounts, the benefit accruals,
the accounting voucher. What these modules are about is whether those books stay
right when requests overlap, when workers crash and messages come twice, when
payrolls are voided, retried and recalculated in every order, and whether one
payslip comes out right when deductions compete for a pay that is not enough.

Paths below are relative to `src/coati_payroll/` unless they begin with `docs/`.

## The system

| component | state | operations | what is hard, and what makes it correct | modules |
|---|---|---|---|---|
| Background calculation (`queue/tasks.py`, `queue/drivers/`) | `Nomina.estado`, `job_id_activo`, payslips, accumulations, loan payments, progress row, the queue | `process_large_payroll`, `retry_failed_nomina`, `_rollback_nomina_data` | crash, redelivery, lost connection, a retry beside a late message; runs do not overlap, each attempt posts every book once or not at all, a posted payroll is not taken back, a calculation ends | `NominaJob` |
| Payroll lifecycle (`vistas/planilla/nomina_routes.py`, `services/nomina_service.py`, `payroll_execution_service.py`) | `Nomina` and what hangs from it | execute, approve, apply, void, retry, recalculate, attach vacations | handlers test `estado` on a row they have not locked; one payroll per period, applied is final, effects belong to applied payrolls, books match the payrolls posted | `NominaLifecycle` |
| Payroll engine (`nomina_engine/`) and tax tables (`formula_engine/`) | payslips, `AcumuladoAnual`, balances of loans | calculate a payslip, void it, recalculate it | the order of deductions and the pay that is left, ceilings of the year, brackets that share a bound, loans in another currency; no payslip goes out negative, what is posted is what is taken back, once | `Motor`, `TablaImpuesto` |
| Comparison of payrolls (`nomina_comparison_service.py`) | none | compare two payrolls | percentages of nothing, medians, percentiles; rows add up to the totals | `Comparacion` |
| Loans and advances (`vistas/prestamo.py`, `loan_processor.py`, `interes_engine.py`) | `Adelanto`, `AdelantoAbono`, `InteresAdelanto` | submit, approve, reject, cancel, pay, forgive, charge interest, deduct, roll back; schedule | no lock anywhere; the balance is accounted for, no day of interest is charged twice, a paid loan owes nothing, a schedule repays the loan | `Prestamo`, `Amortizacion` |
| Vacations (`vacation_service.py`, `vistas/vacation.py`) | `VacationAccount`, `VacationLedger`, `VacationNovelty` | accrue, use, request, approve, register, initial balance, payout | the ledger and the balance are two records of one amount; nothing reserves days between approval and use | `LibroVacaciones`, `Vacaciones`, `Devengo` |
| Annual accumulations and benefits (`accumulation_processor.py`, `accounting_processor.py`, `vistas/carga_inicial_prestacion.py`) | `AcumuladoAnual`, `PrestacionAcumulada`, `CargaInicialPrestacion` | add a payslip, take it back, initial load | read, add, write, without a lock, from several planillas; a running balance taken from the row dated last; a rollback that does not ask whether the payroll was voided | `Acumulados` |
| Settlements (`liquidacion_engine/`, `vistas/liquidacion.py`) | `Liquidacion` | calculate, recalculate, apply, pay | applied twice by two requests; reads the last day paid while payrolls, which take no lock of the employee, are applied; collects loans and pays vacations that payrolls also touch | `Liquidaciones` |
| Approval and audit (`audit_helpers.py`, `vistas/payroll_concepts.py`) | `estado_aprobacion`, log entries | create, edit, approve, reject, delete | an edit after approval must reset it; the log must tell the story | `Aprobacion` |
| Novedades (`vistas/planilla/novedad_routes.py`, `novelty_repository.py`) | `NominaNovedad` | create, edit, delete, register loose ones, count, list, execute, hand over | three queries at three moments decide what belongs to a payroll, while a recalculation replaces it; they must agree, and nothing is paid twice | `Novedades` |
| Configuration and snapshots (`snapshot_service.py`, association routes) | concepts, associations, employees, salaries, `Nomina.*_snapshot` | edit, associate, capture, calculate, recalculate | what is read live and what is frozen | `Configuracion` |
| Vouchers (`accounting_voucher_service.py`) | `ComprobanteContable`, its lines | generate, generate again, export | three callers, none of which locks; accounts edited in between | `Comprobantes` |
| Authentication (`auth.py`, `auth_security.py`, `rate_limiting.py`) | tokens, trusted browsers | issue, find, consume, revoke | single use of a token | none |
| Catalogues, reports, plugins, API, forms, command line | rows | create, edit, delete, read | no behaviour over time, or data only | none |

Components meet in the database. An HTTP request commits a `Nomina` and
enqueues its id; a worker reads it, runs the engine and commits the payslips
together with the accumulations, the loan payments and the vacation entries.
Applying materialises the deferred effects (benefits, novedades, vacations,
voucher); voiding and recalculating take the effects of a run back.
`PROJECT.json` lists every component, what is modelled of it, and the hazards
with their lines.

Each module keeps one kind of book in full and reduces the others to what it
needs. `NominaLifecycle` takes the calculation of a background payroll as one
step whose inside is `NominaJob`; `Prestamo` takes a payroll run as one step
whose inside is `Motor`; `Vacaciones` is the inside of the vacation step of an
application, and takes what a period earns from `Devengo`; `Motor` takes the
brackets from `TablaImpuesto`.

## Modules

For every module X with a state there is an instance for TLC, MCX, with its
constants, and X.cfg, the run. `XProofs` holds its theorems:
`NominaLifecycleProofs`, `PrestamoProofs`, `VacacionesProofs`,
`LiquidacionesProofs`, `NovedadesProofs`. Three proof modules are about a pair of modules,
which name their specifications apart: `NominaProofs` about `NominaJob` and `Comprobantes`
(`ComprobantesSpec`), the calculation of a payroll and its vouchers; `ConceptosProofs` about `Aprobacion`
(`AprobacionSpec`) and `Configuracion`, which share the concepts and the numbering of
changes of `Cambios`; `CalculoProofs` about `Motor` and `Acumulados`
(`AcumuladosSpec`), which share the lemmas on sums.
`Devengo`, `TablaImpuesto`, `Amortizacion` and `Comparacion` are operators; their properties are stated of the initial states
or of the states of the module that extends or is extended by them, so they have
no run of their own: `Vacaciones` extends `Devengo`, `Motor` extends
`TablaImpuesto`, `Comparacion` extends `Motor` and `Amortizacion` extends
`Prestamo`.

### Conventions

The database is taken to run at READ COMMITTED, the default of PostgreSQL: the
code sets no isolation level and has no version column. A plain `SELECT` sees
the last commit and never blocks. An `UPDATE` waits for the lock of the row and
sets the columns that SQLAlchemy found changed to values computed from what the
request read. `SELECT ... FOR UPDATE` holds the row until the transaction ends;
the code uses it for the planilla in `execute_payroll`, for the nomina in
`aplicar_nomina` and for vacation rows.

A handler is two actions, the read with its tests (`AprobarLee`, `Lee`) and the
commit (`Aprobar`), and other commits fall between them. A handler that holds a
lock from its read to its commit is one action, or two where somebody can see
the middle.

A history variable (`incidentes`, `encimado`) records what happened that the
code does not guard against: a commit over a row that had changed since it was
read. A property then says under which circumstances it holds (`Orderly`,
`OneRunPerAttempt`, `\ encimado`) without removing any behaviour from the model:
the behaviours outside are explored, and nothing is claimed of the amounts in
them. A hazard that lives only in those behaviours is listed in `PROJECT.json`
without a property. Other history variables measure the harm instead of excusing
it, so that a property can bound it: `repetido` and `devuelto` are what was taken
back a second time from the years, `tardias` the entries of an application that
had read an employee active before he was settled, `tras` the settlements that had
already read the last day paid when a payroll was applied, and `pisados` says that
a settlement wrote over what another had collected.

Operators that begin with "A slip:" in their comment are plausible mistakes in
the definition that follows them. They are used nowhere; `PROJECT.json`
("mutants") pairs each with the property it breaks.

### NominaJob

One nomina whose message is in the queue, the workers and the retry requests.
`worker[w].pc` is the place in `process_large_payroll`: `Receive` is the first
read and its test of `estado`, `AcquireJobLock` the `UPDATE ... WHERE
job_id_activo IS NULL`, which waits for `rowLock`, `Start` the set-up,
`ProcessEmployee` one turn of the loop with its savepoint, `Commit` the end of
the transaction, and `ConnectionLost`, `CriticalFailure`, `OuterHandler` and
`Swallow` the exception handlers. What a worker has not committed is in its own
record and is lost in a `Crash`. `Redeliver` hands a message out again while
its worker still runs. `RetryCheck`, `RetryReset`, `RetryEnqueue` and
`RetryEnqueueFails` are the steps of `retry_failed_nomina`, with the commit
between the reset and the enqueue. The books are counters per employee:
payslips (`rows`), additions to the annual accumulation, loan payments and
their effect on the balance.

### NominaLifecycle

The nominas of one planilla. `AplicarBloquea` and `EjecutarValida` take their
lock with the read. `Recalcular` and `Reemplazar` are the two commits of a
recalculation. `EjecutarEnBackground`, `Encolar` and `EncolarFalla` are the
background path of `ejecutar_nomina`; its calculation is the single step
`JobFinish`. The books are those of one employee with one loan and one approved
vacation request.

### Prestamo and Amortizacion

One loan. `Lee` and `LeeNomina` are the reads with their tests; the other
actions are the commits, and `Escribe` writes what the SQL `UPDATE` writes: the
columns that changed, with values computed from the row as it was read. The
operators `ConInteres`, `ConPago`, `SinPago`, `SinInteres`, `ConAbono` and
`Aprobado` are the changes the code makes to a row and are used by every action
that makes them. Amounts are whole cents. How much a run deducts depends on the
salary, the instalment and the exchange rate, and may be any amount the balance
allows; the interest of a span of days is any amount up to `MaxInteres`.

`Amortizacion` adds the arithmetic: the simple and the compound interest of
`interes_engine.py`, the constant instalment, the French and German schedules
with their dates and the last row that takes what is left, the instalment an
approval sets and what an extraordinary payment does to the terms. The code
computes with 28 digits; here the powers of a rate are fixed-point numbers with
as many digits as a 32-bit integer allows, and the compound daily interest is
its first three binomial terms, whose error is below a tenth of a cent for the
amounts of the run.

### LibroVacaciones, Vacaciones and Devengo

`LibroVacaciones` is the promise of the ledger: entries are only added, an entry
is made once for what it refers to, and the balance is the sum of the entries.
`Vacaciones` is one account with its requests, the payrolls that accrue and
deduct, the load of the initial balance and the payout of a settlement. Every
step of it is a step or a stutter of `LibroVacaciones` with the same ledger and
balance (`ImplementaLibro`), except a commit over rows that had changed. An
application is a read and a commit: `AplicarLee` locks the nomina and reads
whether the employee is active and has an account, `Aplicar` locks the account, posts
what is earned and what is deducted and commits, and `AplicarFalla` gives up where
the balance does not allow it. A settlement locks neither, and its payout may
be committed between the two. `Devengo` is the amount: the periodic,
proportional and seniority methods, the days an employee hired or leaving within
the period has worked, the days and the hours of absence, and the rounding of the
policy. A payroll earns what some case of the constant `Casos` earns.

### Acumulados

The row of each fiscal year of one employee, written by payrolls of several
planillas, and the transactions of one benefit. Calculating, voiding and
recalculating are a read and a commit that adds to, or subtracts from, what was
read, in the year the code looks up. A payroll that has been voided is
recalculated like any other that was not applied, and taken back from the year
again: `repetido` is what was taken back so. Applying is `AplicarLee`, which locks
its own nomina and reads the transaction the balance will continue, and
`AplicarNomina`, which writes the next one: nothing locks the book, so that two
payrolls may continue the same balance. The last transaction is the one
with the latest `fecha_transaccion` and, among those, the latest `creado`; both
are dates, and among transactions of one day the database may return any.
`Amanece` is a new day.

### Liquidaciones

The settlements of one employee with a loan, an advance and a vacation account,
beside the payrolls that pay his last days. `Lee` is the read and the test of the
state. `RecalcularLee` and `AplicarLee` read the last day paid, `Recalcular` and
`Aplicar` commit; an application writes the employee, so that two of them wait for
each other at his row, but a payroll takes no lock of his and may be applied
between the two.

### Aprobacion

Concepts and planillas, each with its state and its log. A value is the number
of the change that set it, so that "what the approver saw" is a number. `monto`
stands for the fields an edit compares and `tope` for those it does not.

### Configuracion

Everything a payroll is calculated from may be edited between the capture of its
snapshot, the job that calculates it and a recalculation. `Captura` is what is
frozen, `Usado` what the calculators take: the snapshot where it has a value, the
row where it has none.

### Novedades

The rows of `NominaNovedad`, bound to a payroll or loose with a date.
`CrearLee`, `EditarLee` and `EliminarLee` are the reads of the three requests with
their tests; `Cuenta` is the query of the calculation, `Lista` that of the page
and `PorEjecutar` that of the application. `RecalcularLee`, `Recalcular`,
`Calculada` and `Reenlazar` are the steps of a recalculation: the novedades to
hand over are listed, the new payroll is calculated with those of the old one
(`Contexto`) and committed, and then they pass to it. `contadas` is what the
payslips of a payroll hold and `tocadas` what changed after they were made.

### Motor, TablaImpuesto and Comparacion

One employee and successive runs of his planilla. A calculation is a run of
steps, one per concept, in the order of the engine: absences, `Percepcion`,
`Deduccion` (one disjunct for each deduction that may come next, as the sort
decides), `Deuda` for each loan, `Contabilizar`, which posts to the year, or fails
and rolls back when what is left is negative. What a loan in another currency
collects goes through two roundings: `EnDeuda` is what is available in the currency
of the loan, `EnPlanilla` what comes of it in that of the payroll. `faltas` are the
deductions that could not be taken whole, those that left no row included.
`Anular` and `Recalcular` take back what the code recomputes from the rows of
the payslip, `Recalcular` also from a payslip that was voided (`Retira`), and
`devuelto` is what was taken back so a second time. The catalogue is chosen in the initial state: six planillas, each
with deductions that compete. `TablaImpuesto` is the validator and the lookup of
the brackets, with the amount looked up in parts of a cent because nothing rounds
it. `Comparacion` takes two payrolls made of the payslips the engine made:
differences, totals, percentages, medians, the atypical rows and the cost
centres.

### Comprobantes

The voucher of each payroll of a planilla. A generation reads the header and
deletes the lines it sees, writes its lines and updates the header; what it wrote
is a `lote`, so two overlapping generations leave two. It is called by the
calculation, by the application and by the retry in the queue (`TareaLee`).
`foraneas` says whether the database enforces foreign keys: PostgreSQL and MySQL
do, SQLite does not unless it is asked to, and nothing asks it.

A line of a voucher is a record with its payslip, its renglon (0 is the salary, then
come the details in order, then the vacations) and its side, and a voucher is the set
of them: the order in which the code numbers them is left out. `Escenario` holds what
a payroll is made from, and `foto` what it freezes of the accounts.

## What the runs check

| run | result | what it shows |
|---|---|---|
| `nomina_job` | holds | `OneRunAtATime`: the column and the row lock serialise the runs. `RowsAreBacked`: no payslip and no payment row without its amount. `PostedAtMostOnce`, `BooksAgree`: each attempt posts all books of an employee once or none. `FinishedStaysFinished`: no late message takes a posted payroll back |
| `nomina_job_ends` | holds | `CalculationEnds`: under fair workers a nomina in CALCULANDO with a message leaves it |
| `nomina_lifecycle` | holds | `AppliedIsFinal`, `OnePayrollPerPeriod` (of payrolls that took the lock), `BooksMatch`: the books are the sum of the payrolls posted, `VacationAttached`: the request follows its payroll |
| `prestamo` | holds | `BalanceIsAccounted`, `TotalsMatchRows`, `InterestOnce`: no day of interest twice; `AmortizacionCuadra`: a schedule repays the loan whatever the rounding, and a shortened loan stays collectable |
| `vacaciones` | holds | `ImplementaLibro`; `LeaveDeductedOnce`, through attaching, voiding and applying again; `NeverOverdrawn`, although approvals reserve nothing; `PayoutIsFinal`: after a settlement only an application that had read the employee active can still post, and what it posts is all that is left; `AttachedIsDeducted`; `DevengoCuadra`: a period earns what its parts earn, and nobody earns more for being hired later |
| `liquidaciones` | holds | `DiasUnaVez`: a settlement pays no day of a payroll applied before it began to be applied, drafts calculated earlier included; `CobrosCuadran`: settlements applied at once never write over each other's collections, drafts collect nothing, and each loan owes what was approved less what settlements collected |
| `acumulados` | holds | `TotalesSonNominas`: the yearly row never exceeds the sum of the payrolls that stand, and lacks at most what recalculating voided payrolls took back twice; `BeneficioCuadra`: no benefit balance exceeds the sum of its transactions however applications overlap, and each is exactly that sum as long as every one read all those before it |
| `aprobacion` | holds | `BitacoraCuadra`, `AprobadoEsRevisado` |
| `configuracion` | holds | `RecalculoFiel`: a recalculation pays the salaries and uses the values of the first run; `RecalculoConSuContexto`: it goes through only for the planilla it was captured from |
| `motor` | holds | `NetoNoNegativo`: no payslip is negative; a calculation goes below zero only by the rounding of a loan in another currency, by at most half a cent of each of the two, and then fails; `PrioridadRespetada`: after a deduction that fell short no deduction of higher number takes anything, and loans do only after one that stopped the rest; `TechoRespetado`; `AcumuladoCuadra`: the totals of the year never exceed the payslips that stand and lack at most what was taken back twice; `RecalculoIgual`; `TablaCubre`: an accepted table answers for every amount; `ComparacionCuadra`: what the comparison shows adds up |
| `comprobantes` | holds | `AplicadaConComprobante`, `PorPagarEsElNeto`: what the summary leaves payable is the net pay, `LineasCongeladas` |
| `novedades` | holds | `CuentaLoListado`: but for what changed since, a payroll has counted the novedades its list shows and its application executes, after any recalculations; `PagadaUnaVez`: no planilla pays a novedad in two payrolls |

Statements of the repository that the code does not keep have a property and a
cfg, or a property only, and are listed below under "Divergences".

Deadlock is not checked: every model has bounds on operations, and a system with
nothing left to do may stop.

Every module has a type invariant `TypeOK`. Where there are theorems it is proved;
it can be added to the INVARIANTS of any cfg, where it holds.

### Bounds, and why they are enough

* `nomina_job`: two employees (one may fail while the other does not), two
  workers (every overlap of two runs), two retries (a retry of a retry), one
  crash and one redelivery. A crash between any two steps is one crash; the
  hazard of a second copy of a message needs two copies.
* `nomina_job_ends`: one employee and one retry, because the graph of a liveness
  property has no symmetry reduction.
* `nomina_lifecycle`: three nominas (one, its duplicate, and the one that
  replaces it), two periods, two requests at a time, five operations, which
  allow create, approve, apply with two more in between. Books count to four.
* `prestamo`: two requests at a time, three payroll runs, three dates, amounts of
  up to three cents with one cent of interest, five operations. Three cents tell
  a partial payment from a full one and from the one-cent remainder; three runs
  are needed to void the middle one; four operations bring a loan to its second
  run, the fifth takes one back. The plans of `AmortizacionCuadra` are of up to
  15.00 at up to 36 per cent, in up to nine instalments, from months of every
  length, over the end of a year, and from a day some months lack.
* `vacaciones`: two requests, two payrolls, two leave requests and a settlement,
  six operations: approve both, attach one, apply, void and apply the other. A
  cap of three and loads of one make an account both capped and overdrawable. The
  settlement may come between the two steps of an application. The
  cases of `Devengo` cross the fifteen to thirty-one days of a period with
  hirings before, at and within it and leavings within and after it.
* `liquidaciones`: two settlements, so that one may be applied between the read
  and the commit of the other, and two payrolls, one before and one after, either
  of which may be applied between those steps; three requests besides the drafts:
  apply both, and recalculate, pay or apply one again.
* `acumulados`: two payrolls, which may be of two planillas and so overlap anywhere, two
  months on each side of the start of a fiscal year, one load, which two requests may
  apply, two days, two requests, four operations: calculate two and apply both at once, or calculate, void,
  recalculate and apply. One amount, since adding and taking back treat all alike.
* `aprobacion`: one concept and one planilla (rows do not share anything but the
  counter of changes), two requests, two changes.
* `configuracion`: two concepts, two employees, two changes: one before and one
  after the snapshot.
* `motor`: three payslips (two to accumulate, a third that meets the ceiling),
  any of them voided or recalculated at any time; six planillas and five periods.
  A month has four days and amounts are tens of cents, enough for halves of cents
  and for a pay that falls short at each deduction. One of the loans is in another
  currency, at a rate of four to one, at which what is left can be overdrawn by two
  cents, or in a period without a rate. Two tables, one with a shared
  bound and one with bounds a cent apart.
* `comprobantes`: two payrolls (one and its recalculation), two requests, three
  generations, one edit; two scenarios of accounts, the usual one and the one of
  the guide.

* `novedades`: three payrolls (one, its recalculation and another) of one
  planilla, whose periods may overlap or be apart, two novedades, two requests,
  four operations: calculate, create, list for a recalculation, and one change
  between its steps. One of the two employees is not of the planilla.

### Fairness

`NominaJob!FairSpec` asks for weak fairness of a worker's own steps and of
taking a message: the process runs and Dramatiq polls. It asks for strong
fairness of `AcquireJobLock`, because the row lock it waits for is free and
taken in turn and a database grants a lock to its waiters in order, and of
`Handle`, because a handler that lost the connection tries it again. Nothing is
assumed of crashes, redeliveries, failures and requests. The other modules have
safety properties only: web requests may never come, and what a single request
promises, it does or not in one commit.

## What is proved

The theorems hold for any sets of employees, workers, requests, periods, rows and
runs, any planilla and any bounds. They rest on the named assumptions of the
modules: sets are finite where the code counts or adds them (the payrolls in
`NamesAssumption` of `Prestamo`, the brackets of a table in `CasosAssumption` of
`Motor`), NULL is no identifier, bounds are natural numbers, and the constants that
describe a planilla or a settlement have their types (`CodigosAssumption`,
`SettlementsAssumption`). TLC evaluates each assumption.

* `NominaProofs`, of `NominaJob`: `TypeCorrect`; `RunsAreSerialised`, from `LockInv`, which
  says that a worker past the lock holds the row; `RowsAlwaysBacked`;
  `PostingIsAtMostOnce`, `BooksAlwaysAgree` and `FinishedIsFinal`, from
  `AttemptInv`: while each attempt has one run there is one message or one
  worker for it (`OneMessage`), what the worker has done is in no book yet
  (`WorkInv`), and the books fit `estado` (`LedgerInv`). None of the three
  properties is inductive alone: that a payslip exists at most once needs to know
  that no second message can start a run.
* `NominaProofs`, of `Comprobantes`: `ComprobantesTypeCorrect`;
  `LineasCongeladasCorrect`, `AplicadaConComprobanteCorrect` and `PorPagarCorrect`, from
  `ComprobantesInd`.
  Its heart is `Formada`, what the lines of a whole generation are whatever is live
  when it is made: each renglon is a pair or is missing; those of frozen concepts are as
  the payroll froze them; a deduction may be booked in any accounts, or as a loan. Every
  complete lote is `Formada`, and so is what each request has made and not yet written;
  what an application has made includes the vacations. An applied payroll keeps one whole
  lote unless `encimado` because a generation deletes the lotes it read of, and those it did
  not read of are of generations that overlapped it. That whole lines balance follows
  pair by pair (`Balance`), for any payslips. What they leave payable is their signed
  amounts added by centre, employee and renglon, and a renglon leaves what the payslip
  pays or takes (`RenglonPorPagar`); a settlement pairs each detail with its payable line
  (`LineaPorPagar`). The recalculated payrolls share what the
  first one froze (`UnaFoto`), and that is what is remembered (`PrimeraFija`). There is
  room for one payroll (`ComprobantesBounds`) and the employees are finitely many
  (`EscenariosAssumption`).
* `NominaLifecycleProofs`: `TypeCorrect`; `ApplicationIsExclusive`, from the fact
  that the row lock of `aplicar_nomina` keeps every `UPDATE` of the row out
  between its test and its commit; `AppliedStaysApplied` and
  `EffectsBelongToApplied` (benefit rows and executed novedades belong to applied
  payrolls), from `VistoInv`, what the guard of each handler says
  of the `estado` it read. `OnePerPeriod`, from the planilla lock: between the check
  of the period and the insert nobody else inserts. `BooksAlwaysMatch`: a request
  carries what it will post or take back, and no one else can change `estado`
  before it does, or the history says so. `VacationIsAttachedOnce`.
* `PrestamoProofs`: `TypeCorrect`, that no amount is ever negative;
  `BalanceIsCorrect`, `PaidMeansPaid` (a loan marked PAGADO owes nothing), `InterestIsChargedOnce` and
  `CancelledStaysCancelled`, from `IInv`. It adds to the properties what each
  guard says of the row it read (`LeidoInv`), that a loan not yet approved has no
  movements (`SinMovimientos`, needed because approving sets the balance anew),
  and that every span of interest ends by the date in the row (`Tramos`, needed
  because the next span begins there). The lemmas named `...Columns` say what each
  operation does to each column. `TotalsAreSums`: the totals of a loan are the sums
  of the rows of its payments and of its interest.
* `VacacionesProofs`: `TypeCorrect`, `EachLeaveDeductedOnce`,
  `BalanceNeverOverdrawn`, `PayoutEndsTheAccount` and `AttachedLeaveIsDeducted`,
  from one `Invariant` on what each request read of the account.
  `PayoutEndsTheAccount`: an application that reads the employee after the payout finds
  him inactive and posts nothing, and what one that had read him active posts is in
  `tardias`. And
  `HandlersImplementLedger`: the handlers implement the abstract ledger
  `LibroVacaciones`, each step being a step of the ledger or a stutter.
* `CalculoProofs`, of `Motor`: `TypeCorrect`; `NetNeverNegative`, from `Cuenta`, which says
  that what is left while deductions and debts are taken is the pay less what was
  withheld, `Abonado`, that a debt is collected once and within its balance, and
  `Emitidos`, what a payslip keeps once made. A deduction and a loan in the currency of
  the payroll take at most what is left; a foreign loan may take more by the
  rounding of its conversion (`PorRedondeo`), after which no other
  loan is reached (`Sobrante`) and the calculation fails. `PriorityRespected` needs `OrdenInv`: the
  deductions still to come do not go before those taken (`PorVenir`), only
  what takes the rest of the pay is not taken whole (`Agotado`), and what fell short
  is in `faltas` whether or not it left a row (`Cede`, `Respeta`).
  `YearAddsUp`: the totals of the year are the sums of the payslips in force, less at
  most `devuelto` (`Totales`); where no voided payslip was recalculated they are
  those sums. `LimitIsRespected`: what a concept with a ceiling adds stays within it.
  `TablesAnswer`: a table that its validator accepts, no two brackets of which begin
  alike, gives an amount for every whole cent between its first and its last bound,
  from the smallest and the largest bracket, which exist because the brackets
  are finitely many. `RecalculationRepeats`: a payslip taken back and calculated
  again from the same state is the same. A calculation takes its steps in one order
  and each step is a function, so that two runs from one start (`Camino`, of the
  module instantiated at another state, `En(x)`) end alike (`LlegaUnica`); `RInv`
  remembers that the last payslip, once taken back, would start where it started, and
  that a payslip voided before it was recalculated is not in question (`Viejas`).
* `CalculoProofs`, of `Acumulados`: `AcumuladosTypeCorrect`; `YearsAreTheirPayrolls` and
  `BenefitAddsUp`, from `Todo`. To the years it adds what
  each request read: the payroll it is to calculate is in no year yet, and
  no two requests calculate one. A commit that overtook nothing writes over the rows
  it read; then no year ever exceeds its payrolls, and lacks at most `repetido`: an
  amount cut off at zero only brings it nearer. For the benefit it does not matter
  which applications overlap: whichever transaction an application read, its balance was at
  most the sum of those before it, and nothing takes a transaction out. That a balance is
  exact needs more: the transaction read is the one made last when the dates tell it
  from the others and it read all of them (`LibroEnOrden`). The
  origin of a transaction is applied, so that the payroll or the load about to be applied has
  none yet. The payrolls and the loads are finitely many (`NamesAssumption`) and there
  is at least one day (`BoundsAssumption`).
* `ConceptosProofs`, of `Aprobacion`: `ApprovalTypeCorrect`; `LogTellsTheStory` and `ApprovedIsReviewed`,
  with `Pedidos`: a request read a row that existed and changes neither its state
  nor its origin before it commits; a commit over a row that had changed since puts
  it in `encimado`.
* `ConceptosProofs`, of `Configuracion`: `ConfigurationTypeCorrect`; `RecalculationIsFaithful` and
  `RecalculationKeepsContext`, from `Origen`: a payroll calculated at once first
  paid exactly what its snapshot froze, salaries, values and associations, and
  keeps the snapshot. A recalculation that passes `ContextoIgual` finds every
  frozen concept in use under the association it was frozen with.
* `LiquidacionesProofs`: `TypeCorrect`; `SettledHasLeft` and `DaysArePaidOnce`. The
  application of a settlement reads the last paid day again, which no payroll applied
  by then is after (`MaxFields`, from the well-foundedness of the naturals); a payroll
  applied later knows the settlements that had read (`tras`), and of those nothing is
  claimed. Both are claimed of the histories in which no request
  commits over an `estado` that changed since it was read. `CollectionsAddUp`: the
  row of the employee keeps two applications apart from the lock to the commit, so that
  neither writes over what the other collected (`pisados`), and what
  the settlements collected of a loan is what its balance went down by.
* `NovedadesProofs`: `TypeCorrect`; `CountsWhatItLists`, novedad by novedad
  (`Cuadra`). It needs what a recalculation knows between its steps: what it listed
  stays bound to the payroll it replaces as long as that is there (`Listado`); the
  new payroll counted what its context shows, and what the list leaves out will be
  marked as changed (`CuentaAlNacer`, `NadaPropio`); and no payroll is calculated by
  two requests, nor two payrolls of a planilla at once (`Distinta`), which the planilla
  lock gives. `PaidOnce`: the periods of two payrolls of a planilla are apart unless
  one is about to take the place of the other (`SinTraslape`), and a novedad has one
  date and is bound to one payroll. There is at least one planilla, one employee and
  one date (`MiembrosAssumption`, `BoundsAssumption`): the rows of the model are
  created from them.

Sums and cardinalities are proved without induction: the fold that adds over a
finite set equals any function of its subsets that is 0 on the empty one and adds an
element at a time (`EsSuma`), because a smallest subset on which they differed would
differ on a smaller one (subsets of a finite set are well founded).

Only model-checked, and why: `CalculationEnds`, liveness; `AmortizacionCuadra`
(a recursive table of rows) and `ComparacionCuadra` (sorting, percentiles), induction
over data; `DevengoCuadra`, division of products, which the provers do not find.

## Divergences worth knowing

Where the code does not do what a comment, a docstring or a guide of the
repository says: a property states the sentence and TLC refutes it. Those with a
cfg of their own are run with it; for the rest put the property in the place of
the INVARIANTS of the run named. None is among the runs of `PROJECT.json`, which
all hold.

| property | how to run | what is said | what happens |
|---|---|---|---|
| `NominaJob!ProcessedOnce` | `NominaJobProcessedOnce.cfg` | `queue/README.md:11`, no double processing | `estado` is tested before the lock and not after |
| `NominaJob!RollbackRevertsAccumulations` | `NominaJobRollback.cfg` | `tasks.py:392-403`, the rollback reverts what the run added to the accumulations | a failure after the final commit deletes payslips and payments and leaves the accumulations |
| `NominaLifecycle!NoDuplicatePayrolls` | `NominaLifecycleNoDuplicatePayrolls.cfg` | `payroll_execution_service.py:117-118`, the lock prevents duplicate payrolls of a period | a payroll above the background threshold is inserted and calculated without the lock and without the check (`nomina_service.py:568-608`) |
| `NominaLifecycle!VoidedWhenNotApplied` | `NominaLifecycleVoidedWhenNotApplied.cfg` | `nomina_routes.py:952`, a nomina is voided when it has not been applied | voiding tests an `estado` that another request then changes |
| `NominaLifecycle!RecalculationKeepsBooks` | `NominaLifecycleRecalculationKeepsBooks.cfg` | `nomina_service.py:36-37`, the rollback keeps the accumulated values right | what a voided payroll posted is taken back twice |
| `Prestamo!InterestChargedOnce` | `PrestamoInterestTwice.cfg` | `model.py:1650-1652`, the days since the last calculation | voiding a run that is not the last one charges the days of later runs again |
| `Vacaciones!AppliedIsDeducted` | `VacacionesLost.cfg` | `docs/modulo-vacaciones.md:270`, the payroll that takes a request posts its USAGE | a snapshot that lists leave is used alone: leave attached later is never deducted by it |
| `Vacaciones!CicloCompleto` | `Vacaciones.cfg` | `vacation_service.py:638-639`, the rate is that of a full cycle | a policy that is not prorated gives the whole rate to every complete payroll period: an annual policy on a monthly payroll earns the year's leave each month |
| `Vacaciones!PayoutLeavesNothing` | `Vacaciones.cfg` | `docs/modulo-vacaciones.md:296-298`, after the PAYOUT the balance stays at 0 | an application that had read the employee active (`nomina_routes.py:1078-1082`) earns or deducts after it |
| `Acumulados!PeriodosAlRecalcular` | `Acumulados.cfg` | `nomina_service.py:662`, accumulations are reverted first to keep the period counts right | a voided payroll was reverted already: recalculating it reverts it again |
| `Acumulados!SaldoEsLaSuma` | `AcumuladosBalance.cfg` | `model.py:2095-2097`, `saldo_nuevo` is the balance after the transaction | a payroll applied after one that was calculated later is left out of the next balance |
| `Aprobacion!AprobadoSinCambios` | `AprobacionSinCambios.cfg` | `audit_helpers.py:240-241`, an edited concept returns to draft | not when the field is not in the compared dictionaries, and not when the edit overlaps the approval |
| `Configuracion!RecalculoReproduce` | `ConfiguracionReproduce.cfg` | `payroll_execution_service.py:105-106`, reproducible even if the configuration changed | see "Snapshots" below |
| `Motor!CuotaSegura` | `Motor.cfg` | `loan_processor.py:113-118`, the amount "can be collected safely" | at 36.5 an available 1000.00 is 27.40, and 27.40 is 1000.10: the net is negative and the payroll ends in ERROR |
| `Motor!PeriodosCorrectos` | `Motor.cfg` | `nomina_service.py:662` | recalculating a voided payroll counts its period down twice |
| `Motor!RecalculoReproduce` | `Motor.cfg` | `payroll_execution_service.py:101-104` | not of a concept with an annual ceiling, nor after an exempt one |
| `Motor!PrioridadDePrestamos` | `Motor.cfg` | `model.py:535-541`, `docs/guia/planillas.md:77`, `docs/guia/prestamos.md:128` | loans come after every deduction, whatever their priority |
| `Motor!TablaCubreTodo` | `Motor.cfg` | `tax_table_validator.py:165-167`, a gap of one cent is only rounding | the amount looked up is not rounded, falls in the gap and the calculation fails |
| `Amortizacion!CuotaDeLaTabla` | `Prestamo.cfg`, `MaxOperations = 0` | `forms.py:1434-1443`, constant instalments | `_calculate_installment_amount` compares with "frances" and the form stores "french": French loans are collected in P/n |
| `Amortizacion!CuotaNuncaSube` | the same | `prestamo.py:444-452`, "monto por cuota reducido" | the payment is counted as paid instalments; after an earlier payment the instalment can rise |
| `Amortizacion!CuotaCubreInteres` | the same, with a plan of 15.00 at 36 per cent in 120 months among `MCPlanes`, and a Java stack of 8 MB | `interes_engine.py:361-364` | at 36 per cent and 120 months the interest of 31 days exceeds the instalment of 30 and the table raises |
| `Comprobantes!DeduccionesCongeladas` | `Comprobantes.cfg` | `model.py:1281-1282` | `invertir_asiento_contable` of a deduction is read live |
| `Comprobantes!AplicadorRegistrado` | `Comprobantes.cfg` | `model.py:1286` | the voucher made with the payroll never gets `aplicado_por` |
| `Comprobantes!UnaSolaNomina` | `Comprobantes.cfg` | the recalculated payroll takes the place of the old one | where foreign keys are enforced the old one cannot be deleted (`nomina_service.py:709`, `model.py:1352-1354`) and both remain |

Also met while modelling, without a property:

*Background jobs.* The exception that `tasks.py:1211` raises "to signal failure
(queue system will handle retries if configured)" is caught by the outer handler
of the same function, which returns a dictionary: the message is acknowledged. A
background nomina is committed before it is enqueued (`nomina_service.py:594`),
and a retry resets it before it enqueues: a process that dies in between leaves
it CALCULANDO, which can be neither voided nor retried. A failed recalculation
commits the rollback and an ERROR nomina, and deletes the old rows.
`GENERADO_CON_ERRORES` does not keep its period taken although the amounts of its
employees are posted.

*Lifecycle.* The table of transitions in
`docs/AUDIT_GOVERNANCE_SYSTEM.md:447-451` allows Aplicado to Anulado; the handler
refuses it. Voiding does not revert `PrestacionAcumulada`, and novedades added to
a period after its calculation become EJECUTADA when it is applied.

*Loans.* Voiding may leave an approved loan without a balance (the payment comes
back, the interest goes): no run collects it and it is never marked as paid. A
loan of type "none" with a rate is charged simple interest. A schedule begins on
the day of approval with a month of interest before it, and uses the global
configuration, not the company's; a NULL method collects constant instalments and
shows an empty schedule. The German method repays early when the principal in
cents is below n(n-1)/2.

*Engine.* Voiding subtracts the whole of a taxable perception although only the
part that was neither exempt nor capped was added (`nomina_service.py:131-165`),
and may be half a cent off (the year is compared only for payslips where it is
not). The yearly total of each concept (`*_acumulado`) is
not taken back. After a rollback that was taken twice the tax of the year is worked out from
too little income. Loan payments with a deduction of `antes_impuesto` count in the
yearly reduction and not in that of the period. `detener_si_insuficiente` stops
the deductions and not the loans. `docs/guia/planillas.md:46` calls a fortnight
half a month; the one from 16 to 31 pays 16/30.

*Accumulations and benefits.* Voiding a payroll of an earlier month subtracts it
from the total of the current month (`nomina_service.py:171`). The fiscal year is
looked up by `periodo_inicio` when the payslip is calculated and by `periodo_fin`
when it is posted. The annual balance of a benefit never resets, against
`docs/guia/prestaciones.md:91`. An initial load can be applied twice.

*Vacations and settlements.* Seniority accrual ignores a hire or a leaving within
the period and absences, and counts years of 365 days. A request may be attached
to a voided payroll. No code sets CALCULADA; two settlements of one employee both
pay the same days; a payroll calculated before a settlement and applied after it,
or between its reading of the last day paid (`liquidacion_engine/engine.py:95`) and its commit
(`liquidacion.py:247`), pays its days again. A settlement applied by two requests collects
its loans twice.

*Approval.* The dictionaries of `edit_concept` leave out `gravable`,
`es_impuesto`, `antes_impuesto`, `tipo` and `tope_aplicacion`, and
`campos_importantes` leaves out `techo_anual` and others
(`docs/DATA_GOVERNANCE.md:39`). The warnings of drafts are dropped by
`execute_payroll` (`docs/AUDIT_GOVERNANCE_SYSTEM.md:104-115`), editing a draft
writes no log (the same, line 67), rules are neither approved nor logged, changed
associations do not return a planilla to draft, and deleting a concept deletes
its log.

*Novedades.* `vistas/vacation.py:679` says a loose novedad "will be linked to the
employee's next nomina": it never is, and an employee of two planillas has it
counted by both, because no calculation reads `estado`. One made through the API
has no date and no payroll (`api.py:203`), and is never counted. What is bound to
a voided payroll stays with it unless that payroll is recalculated. A novedad
without a date, created while its payroll is being recalculated, is left loose and
appears in no list.

*Snapshots.* The background job uses the live associations, employees and
salaries. What is absent in a snapshot (ceiling, rule, configuration of the
company) is taken from the live row, and a concept that was inactive at the
capture and is active later is used as it is then.

*Vouchers.* `regenerar_comprobante_contable` reads `current_user.nombre_usuario`,
which `Usuario` lacks, so regenerating by hand always fails
(`nomina_routes.py:1200`). The accounts that
`docs/guia/configuracion-contable.md:156-177` gives for deductions, without
`invertir_asiento_contable`, leave payable the gross and the deductions. Any loan
on the same deduction turns it into a loan line; without an account it is booked
nowhere. Regenerating after the accounts are fixed keeps the frozen NULLs. A
voided payroll keeps an exportable voucher. A payroll calculated in the background
has no voucher until it is applied, and a retry enqueued before the commit may
find no payroll.

*Comparison.* `refresh_after_recalculo` keeps the old version stamps, so "has
changed" is never shown; components of the planilla and unbound novedades are not
versioned; a net that goes from nothing to little is never atypical by percentage;
the default base may be a voided payroll.

## Not modelled

* Authentication: tokens, trusted browsers and rate limits. `auth_security.py:80`
  looks a token up and marks it used in two statements; the hazard is known and
  independent of the payroll.
* Stateless tests (roles, tenants, CSRF) are taken to have passed. Presentation,
  reports, imports, migrations, the command line, the REST API and the discovery
  of plugins have no behaviour over time.
* Of the modelled components: flash messages and progress percentages, the
  in-process queue driver, `GENERADO` rows imported by the demo data, the `PAGADO`
  state of a nomina (nothing sets it); the edit form of a loan and its two
  currencies; creation and edits of vacation accounts and policies, deletion of a
  novedad no account is bound to, an initial balance of zero; the detail lines,
  currencies and reactivation of a settlement; the annual and monthly report of
  benefits; the benefits the employer pays, formula steps and the choice of a rate
  by its date in the engine; the expression language; the cache, ratios, deviations,
  quality and vacation sections of the comparison; the layout of exports;
  cloning of a planilla; the request of a salary change.
* What one request overwrites of another is explored and excused, not corrected:
  `prestamo.py:416` (two extraordinary payments), `prestamo.py:446` (instalments
  left, an estimate), `nomina_service.py:210` (a rollback over a payment),
  `tasks.py:357` and `:1110` (progress and late state), `nomina_routes.py:951`
  (a voiding over an application). The amounts in those behaviours are not claimed.

## What is left

1. An abstract payroll (posted or not, as one step) that `NominaJob` implements
   while each attempt has one run, and `NominaLifecycle` over it.
2. Employer benefits in `Motor`, and several currencies in `Prestamo`.
3. E-mail tokens and trusted browsers.
