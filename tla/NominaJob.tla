------------------------------ MODULE NominaJob ------------------------------
(***************************************************************************)
(* The background calculation of one nomina: the Dramatiq message, the     *)
(* workers that run process_large_payroll on it, and the HTTP requests     *)
(* that retry a failed nomina (queue/tasks.py).                            *)
(*                                                                         *)
(* A worker runs one database transaction per message.  Under READ         *)
(* COMMITTED its plain SELECTs read the committed row and never block; its *)
(* UPDATE of the nomina row waits for the row lock of any other            *)
(* transaction that wrote it (rowLock), and re-evaluates its WHERE clause  *)
(* on the committed row once it has the lock.  Everything a worker writes  *)
(* before its commit lives in its own record (worker[w]) and is lost when  *)
(* the process dies; only the progress row is committed step by step, by a *)
(* session of its own.                                                     *)
(***************************************************************************)
EXTENDS Naturals, FiniteSets

CONSTANTS
  Employees,        \* active employees of the planilla
  Workers,          \* Dramatiq worker threads
  Requests,         \* HTTP requests to retry the nomina
  FirstJob,         \* the job id of the first enqueue
  Nobody,           \* SQL NULL, for a job id or for a lock holder
  MaxCrashes,       \* bound: processes that die while they hold a message
  MaxRedeliveries   \* bound: messages handed out again while still running

ASSUME EmployeesAssumption == IsFiniteSet(Employees) /\ Employees # {}
ASSUME IdsAssumption == /\ FirstJob \notin Requests
                        /\ Nobody \notin Workers \cup Requests \cup {FirstJob}
ASSUME BoundsAssumption == MaxCrashes \in Nat /\ MaxRedeliveries \in Nat

\* Each retry request makes a fresh uuid4 job id; it is named by the request.
Jobs == Requests \cup {FirstJob}

VARIABLES
  estado,       \* nomina.estado, committed
  jobIdActivo,  \* nomina.job_id_activo, committed
  rowLock,      \* the worker whose transaction has written the nomina row
  rows,         \* NominaEmpleado rows committed for each employee
  acumulado,    \* how often this nomina was added to each AcumuladoAnual
  abonos,       \* employees with an AdelantoAbono row of this nomina
  pagado,       \* how often this nomina was taken off each loan's balance
  progreso,     \* empleados_procesados of the NominaProgreso row
  queue,        \* copies of each job's message waiting in the queue
  worker,       \* what each worker is doing
  request,      \* what each retry request is doing
  crashes, redeliveries,
  incidentes    \* history: what went wrong beyond a crash (Incidentes)

nominaVars == <<estado, jobIdActivo>>
books == <<rows, acumulado, abonos, pagado>>
vars == <<estado, jobIdActivo, rowLock, rows, acumulado, abonos, pagado, progreso,
          queue, worker, request, crashes, redeliveries, incidentes>>

-----------------------------------------------------------------------------
(* Types                                                                     *)

Estados == {"calculating", "generated", "generated_with_errors", "error"}
\* interrupted: an exception broke the loop and the connection is gone;
\* committed: the last progress row is still to be written; broken: an
\* exception is on its way to the outer handler; finished: the task returns.
WorkerPc == {"idle", "loaded", "locked", "running", "interrupted", "committed",
             "broken", "finished"}
RequestPc == {"idle", "checked", "reset", "enqueued", "failed", "refused"}

\* "early": a retry reset the nomina while a run of it was still under way;
\* "late": a run that had committed was rolled back (CriticalFailure);
\* "swallowed": a run ended without the estado it should have left (Swallow).
Incidentes == {"early", "late", "swallowed"}

\* worker[w].done are the employees of this run already processed,
\* worker[w].failed those whose savepoint was rolled back.
Idle == [pc |-> "idle", job |-> Nobody, done |-> {}, failed |-> {}]
WorkerType == [pc : WorkerPc, job : Jobs \cup {Nobody},
               done : SUBSET Employees, failed : SUBSET Employees]

TypeOK ==
  /\ estado \in Estados
  /\ jobIdActivo \in Jobs \cup {Nobody}
  /\ rowLock \in Workers \cup {Nobody}
  /\ rows \in [Employees -> Nat]
  /\ acumulado \in [Employees -> Nat]
  /\ abonos \in SUBSET Employees
  /\ pagado \in [Employees -> Nat]
  /\ progreso \in Nat
  /\ queue \in [Jobs -> Nat]
  /\ worker \in [Workers -> WorkerType]
  /\ request \in [Requests -> RequestPc]
  /\ crashes \in 0 .. MaxCrashes
  /\ redeliveries \in 0 .. MaxRedeliveries
  /\ incidentes \in SUBSET Incidentes

-----------------------------------------------------------------------------
(* Initial states: the nomina was just enqueued by ejecutar_nomina, or the   *)
(* synchronous run left it in ERROR without posting anything.                *)

Init ==
  /\ \/ /\ estado = "calculating"
        /\ queue = [j \in Jobs |-> IF j = FirstJob THEN 1 ELSE 0]
     \/ /\ estado = "error"
        /\ queue = [j \in Jobs |-> 0]
  /\ jobIdActivo = Nobody
  /\ rowLock = Nobody
  /\ rows = [e \in Employees |-> 0]
  /\ acumulado = [e \in Employees |-> 0]
  /\ abonos = {}
  /\ pagado = [e \in Employees |-> 0]
  /\ progreso = 0
  /\ worker = [w \in Workers |-> Idle]
  /\ request = [r \in Requests |-> "idle"]
  /\ crashes = 0 /\ redeliveries = 0 /\ incidentes = {}

-----------------------------------------------------------------------------
(* The worker                                                                *)

\* A slip: the task does not look at the estado.
ReceiveAnyState(w, j) == TRUE
\* process_large_payroll goes on only with a nomina it reads as CALCULANDO.
MayProcess(w, j) == estado = "calculating"

\* The message leaves the queue while the worker holds it.
Take(w, j) == [queue EXCEPT ![j] = @ - 1]

\* Take a message and read the nomina, without a lock.
Receive(w, j) ==
  /\ worker[w].pc = "idle"
  /\ queue[j] > 0
  /\ queue' = Take(w, j)
  /\ worker' = [worker EXCEPT ![w] = IF MayProcess(w, j)
                                     THEN [Idle EXCEPT !.pc = "loaded", !.job = j]
                                     ELSE Idle]
  /\ UNCHANGED <<nominaVars, rowLock, books, progreso, request, crashes,
                 redeliveries, incidentes>>

\* The WHERE clause of the UPDATE that takes the job lock.
JobLockFree(job) == jobIdActivo = Nobody \/ jobIdActivo = job

\* A slip: the UPDATE does not wait.
IgnoreRowLock == TRUE
RowLockFree == rowLock = Nobody

\* The UPDATE waits for the row lock.  estado is not read again.  The new
\* job_id_activo is not committed, so no other transaction ever sees it.
AcquireJobLock(w) ==
  /\ worker[w].pc = "loaded"
  /\ RowLockFree
  /\ IF JobLockFree(worker[w].job)
     THEN /\ rowLock' = w
          /\ worker' = [worker EXCEPT ![w].pc = "locked"]
     ELSE /\ worker' = [worker EXCEPT ![w] = Idle]
          /\ UNCHANGED rowLock
  /\ UNCHANGED <<nominaVars, books, progreso, queue, request, crashes,
                 redeliveries, incidentes>>

\* The transaction ends and its row lock goes; the message is still held, and
\* done are the employees the run leaves behind as processed.
EndTransaction(w, pc, done) ==
  /\ rowLock' = IF rowLock = w THEN Nobody ELSE rowLock
  /\ worker' = [worker EXCEPT ![w] = [pc |-> pc, job |-> worker[w].job,
                                      done |-> done, failed |-> {}]]

\* The transaction can write the nomina row.
MayWrite(w) == rowLock \in {w, Nobody}

\* A slip: a status that is not one of NominaEstado.
SetupFailedUnlisted(w) == "failed"
SetupFailedEstado(w) == "error"

\* The planilla is gone, or has no active employee: ERROR, committed.
SetupFails(w) ==
  /\ worker[w].pc = "locked"
  /\ estado' = SetupFailedEstado(w)
  /\ jobIdActivo' = Nobody
  /\ EndTransaction(w, "finished", {})
  /\ UNCHANGED <<books, progreso, queue, request, crashes, redeliveries, incidentes>>

\* The snapshot, the bootstrap context or the first progress row raises.
SetupRaises(w) ==
  /\ worker[w].pc = "locked"
  /\ worker' = [worker EXCEPT ![w].pc = "broken"]
  /\ UNCHANGED <<nominaVars, rowLock, books, progreso, queue, request, crashes,
                 redeliveries, incidentes>>

\* The loop is about to start; the progress row is written and committed.
Start(w) ==
  /\ worker[w].pc = "locked"
  /\ worker' = [worker EXCEPT ![w].pc = "running"]
  /\ progreso' = 0
  /\ UNCHANGED <<nominaVars, rowLock, books, queue, request, crashes,
                 redeliveries, incidentes>>

\* One employee under a savepoint of its own; an exception rolls that
\* savepoint back and the loop goes on with the next employee.
ProcessEmployee(w, e) ==
  /\ worker[w].pc = "running"
  /\ e \in Employees \ worker[w].done
  /\ \E failed \in SUBSET {e} :
       worker' = [worker EXCEPT ![w] = [worker[w] EXCEPT !.done = @ \cup {e},
                                                         !.failed = @ \cup failed]]
  /\ progreso' = IF worker[w].done \cup {e} = Employees
                 THEN Cardinality(Employees) ELSE Cardinality(worker[w].done)
  /\ UNCHANGED <<nominaVars, rowLock, books, queue, request, crashes,
                 redeliveries, incidentes>>

\* The employees whose savepoint was released in this run.
Processed(w) == worker[w].done \ worker[w].failed

\* Slips: the payment of a rolled back employee is kept; the abono is written
\* and the balance is not.
NoPayments(w) == {}
PaidDespiteFailure(w) == worker[w].done \ abonos
\* _record_payment returns early when the loan has an abono of this nomina.
NewPayments(w) == Processed(w) \ abonos

AddOne(f, S) == [e \in Employees |-> IF e \in S THEN f[e] + 1 ELSE f[e]]

\* The commit that ends the loop.
Commit(w) ==
  /\ worker[w].pc = "running"
  /\ worker[w].done = Employees
  /\ estado' = IF worker[w].failed = {} THEN "generated" ELSE "generated_with_errors"
  /\ jobIdActivo' = Nobody
  /\ rows' = AddOne(rows, Processed(w))
  /\ acumulado' = AddOne(acumulado, Processed(w))
  /\ abonos' = abonos \cup Processed(w)
  /\ pagado' = AddOne(pagado, NewPayments(w))
  /\ EndTransaction(w, "committed", {})
  /\ UNCHANGED <<progreso, queue, request, crashes, redeliveries, incidentes>>

\* _rollback_nomina_data: rows and abonos of the nomina are deleted; neither
\* the loans' balances nor the accumulated amounts are touched.
RollbackNominaData ==
  /\ rows' = [e \in Employees |-> 0]
  /\ abonos' = {}
  /\ UNCHANGED <<acumulado, pagado>>

\* The connection of the transaction breaks in the loop: all it wrote, and
\* its row lock, are gone before the handler runs on a new one.
ConnectionLost(w) ==
  /\ worker[w].pc = "running"
  /\ EndTransaction(w, "interrupted", worker[w].done)
  /\ UNCHANGED <<nominaVars, books, progreso, queue, request, crashes, redeliveries,
                 incidentes>>

\* An exception outside the per-employee handler: it broke the loop, or it is
\* the last progress row, written after the commit, that fails.  What is not
\* committed is rolled back, the data of the nomina are deleted, the nomina is
\* marked and committed, and the exception is raised again.
CriticalFailure(w) ==
  /\ worker[w].pc \in {"running", "interrupted", "committed"}
  /\ MayWrite(w)
  /\ RollbackNominaData
  /\ estado' = "generated_with_errors"
  /\ jobIdActivo' = Nobody
  /\ EndTransaction(w, "broken", worker[w].done)
  /\ incidentes' = IF worker[w].pc = "committed" THEN incidentes \cup {"late"} ELSE incidentes
  /\ UNCHANGED <<progreso, queue, request, crashes, redeliveries>>

\* The outer handler marks the nomina, whatever its estado, and the task
\* returns normally.
OuterHandler(w) ==
  /\ worker[w].pc = "broken"
  /\ MayWrite(w)
  /\ estado' = "generated_with_errors"
  /\ jobIdActivo' = Nobody
  /\ EndTransaction(w, "finished", worker[w].done)
  /\ UNCHANGED <<books, progreso, queue, request, crashes, redeliveries, incidentes>>

\* The database stays away: the handlers cannot write either, the outer one
\* ignores its own exception and the task returns normally.
Swallow(w) ==
  /\ worker[w].pc \in {"loaded", "locked", "running", "interrupted", "committed", "broken"}
  /\ EndTransaction(w, "finished", {})
  /\ incidentes' = IF estado = "calculating" THEN incidentes \cup {"swallowed"} ELSE incidentes
  /\ UNCHANGED <<nominaVars, books, progreso, queue, request, crashes, redeliveries>>

\* After the commit the last progress row is written; the task returns and the
\* message is acknowledged.
Finish(w) ==
  /\ worker[w].pc \in {"committed", "finished"}
  /\ progreso' = IF worker[w].pc = "committed" THEN Cardinality(Employees) ELSE progreso
  /\ worker' = [worker EXCEPT ![w] = Idle]
  /\ UNCHANGED <<nominaVars, rowLock, books, queue, request, crashes,
                 redeliveries, incidentes>>

WorkerStep(w) ==
  \/ SetupFails(w) \/ Start(w) \/ Commit(w) \/ Finish(w)
  \/ \E e \in Employees : ProcessEmployee(w, e)

-----------------------------------------------------------------------------
(* The broker.  Dramatiq delivers at least once: a message that was not      *)
(* acknowledged goes back to the queue.                                      *)

\* A slip: the message is acknowledged when it is received.
LoseMessage(w) == queue
Requeue(w) == [queue EXCEPT ![worker[w].job] = @ + 1]

\* The worker dies, or Dramatiq's time limit interrupts it (no handler of the
\* task catches that): the database drops its transaction.
Crash(w) ==
  /\ crashes < MaxCrashes
  /\ worker[w].pc # "idle"
  /\ crashes' = crashes + 1
  /\ queue' = Requeue(w)
  /\ worker' = [worker EXCEPT ![w] = Idle]
  /\ rowLock' = IF rowLock = w THEN Nobody ELSE rowLock
  /\ UNCHANGED <<nominaVars, books, progreso, request, redeliveries, incidentes>>

\* The broker takes a slow worker for dead and delivers its message again.
Redeliver(w) ==
  /\ redeliveries < MaxRedeliveries
  /\ worker[w].pc # "idle"
  /\ redeliveries' = redeliveries + 1
  /\ queue' = Requeue(w)
  /\ UNCHANGED <<nominaVars, rowLock, books, progreso, worker, request, crashes,
                 incidentes>>

-----------------------------------------------------------------------------
(* The retry request                                                         *)

\* Only a nomina in ERROR without an active job is retried.
RetryAllowed == estado = "error" /\ jobIdActivo = Nobody

RetryCheck(r) ==
  /\ request[r] = "idle"
  /\ request' = [request EXCEPT ![r] = IF RetryAllowed THEN "checked" ELSE "refused"]
  /\ UNCHANGED <<nominaVars, rowLock, books, progreso, queue, worker, crashes,
                 redeliveries, incidentes>>

\* A message of the nomina is waiting or is held by a worker.
MessageAround == (\E j \in Jobs : queue[j] > 0) \/ (\E w \in Workers : worker[w].pc # "idle")

\* The UPDATE waits for the row lock and writes what was decided before.
\* job_id_activo was read NULL and is set to NULL: the UPDATE leaves it out.
RetryReset(r) ==
  /\ request[r] = "checked"
  /\ RowLockFree
  /\ estado' = "calculating"
  /\ RollbackNominaData
  /\ progreso' = 0
  /\ request' = [request EXCEPT ![r] = "reset"]
  /\ incidentes' = IF estado # "error" \/ MessageAround
                   THEN incidentes \cup {"early"} ELSE incidentes
  /\ UNCHANGED <<jobIdActivo, rowLock, queue, worker, crashes, redeliveries>>

RetryEnqueue(r) ==
  /\ request[r] = "reset"
  /\ request' = [request EXCEPT ![r] = "enqueued"]
  /\ queue' = [queue EXCEPT ![r] = @ + 1]
  /\ UNCHANGED <<nominaVars, rowLock, books, progreso, worker, crashes,
                 redeliveries, incidentes>>

\* The broker is unreachable: the reset is already committed.
RetryEnqueueFails(r) ==
  /\ request[r] = "reset"
  /\ request' = [request EXCEPT ![r] = "failed"]
  /\ UNCHANGED <<nominaVars, rowLock, books, progreso, queue, worker, crashes,
                 redeliveries, incidentes>>

-----------------------------------------------------------------------------
Next ==
  \/ \E w \in Workers :
       \/ \E j \in Jobs : Receive(w, j)
       \/ AcquireJobLock(w) \/ SetupFails(w) \/ SetupRaises(w) \/ Start(w)
       \/ \E e \in Employees : ProcessEmployee(w, e)
       \/ Commit(w) \/ ConnectionLost(w) \/ CriticalFailure(w) \/ OuterHandler(w)
       \/ Swallow(w) \/ Finish(w) \/ Crash(w) \/ Redeliver(w)
  \/ \E r \in Requests :
       RetryCheck(r) \/ RetryReset(r) \/ RetryEnqueue(r) \/ RetryEnqueueFails(r)

Spec == Init /\ [][Next]_vars

\* The handler of an exception that is under way.
Handle(w) == (worker[w].pc = "interrupted" /\ CriticalFailure(w)) \/ OuterHandler(w)

\* A worker process keeps consuming and its transaction keeps going; the
\* database hands a row lock to a waiter in turn (strong fairness).  Nothing
\* makes a crash, a failure or a request happen.
Fairness ==
  /\ \A w \in Workers : /\ WF_vars(\E j \in Jobs : Receive(w, j))
                        /\ SF_vars(AcquireJobLock(w))
                        /\ SF_vars(Handle(w))
                        /\ WF_vars(WorkerStep(w))

FairSpec == Spec /\ Fairness

-----------------------------------------------------------------------------
(* Properties                                                                *)

\* The runs of process_large_payroll on one nomina are serialised: the UPDATE
\* of job_id_activo keeps every other run out until the transaction ends,
\* whatever the broker redelivers and whoever crashes.
OneRunAtATime ==
  \A w1, w2 \in Workers :
    /\ worker[w1].pc \in {"locked", "running"}
    /\ worker[w2].pc \in {"locked", "running"}
    => w1 = w2

\* Every payslip row stands for an amount really added to the employee's
\* annual accumulation, and every abono row for an amount really taken off the
\* loan: _rollback_nomina_data, _record_payment and the redeliveries never
\* leave a row the books do not back.
RowsAreBacked ==
  \A e \in Employees : /\ rows[e] <= acumulado[e]
                       /\ e \in abonos => pagado[e] > 0

\* No message was delivered twice at once and every retry came after the
\* failed run was over.
OneRunPerAttempt == redeliveries = 0 /\ "early" \notin incidentes

\* Workers may die at any point, after their commit too, their connection may
\* break, and the nomina may be retried: its amounts reach each accumulation
\* and each loan at most once.
PostedAtMostOnce ==
  OneRunPerAttempt => \A e \in Employees : acumulado[e] <= 1 /\ pagado[e] <= 1

\* And no run that had committed was rolled back.
Undisturbed == OneRunPerAttempt /\ "late" \notin incidentes

\* The same for the three books together: the payslip, the accumulation and
\* the loan payment of an employee are all there or none is, a GENERADO nomina
\* has them for every employee and a nomina that may be retried for none.
BooksAgree ==
  Undisturbed =>
    /\ \A e \in Employees : rows[e] = acumulado[e] /\ rows[e] = pagado[e]
    /\ estado = "generated" => \A e \in Employees : rows[e] = 1
    /\ estado \in {"error", "calculating"} => \A e \in Employees : rows[e] = 0

\* A nomina that was posted stays as it is: as long as each attempt runs once,
\* no message that comes late and no retry takes it back to CALCULANDO.
FinishedStaysFinished ==
  [][Undisturbed' /\ estado \in {"generated", "generated_with_errors"}
       => estado' = estado]_vars

\* A message of the nomina is waiting, or a worker took it and has not ended.
CalculationPending ==
  \/ \E j \in Jobs : queue[j] > 0
  \/ \E w \in Workers : worker[w].pc \in {"loaded", "locked", "running", "interrupted", "broken"}

\* A nomina in CALCULANDO with a message to work on leaves CALCULANDO, crashes,
\* redeliveries and lost connections included, unless the database stays away
\* until the last handler has given up.
CalculationEnds ==
  (estado = "calculating" /\ CalculationPending)
    ~> (estado # "calculating" \/ "swallowed" \in incidentes)

-----------------------------------------------------------------------------
(* What the repository says and the code does not do                         *)

\* queue/README.md:11 promises that the lock on the nomina and its job_id keep
\* it from being processed twice.
ProcessedOnce == \A e \in Employees : acumulado[e] <= 1

\* tasks.py:392-403: _rollback_nomina_data reverts what the run added to the
\* annual accumulations, so that they hold what the payslips say.
RollbackRevertsAccumulations ==
  OneRunPerAttempt => \A e \in Employees : acumulado[e] = rows[e]
=============================================================================
