--------------------------------- MODULE NominaProofs ---------------------------------
(***************************************************************************)
(* Theorems about a payroll: NominaJob, its calculation in the background, *)
(* for every set of employees, workers and retry requests; Comprobantes,   *)
(* its vouchers, for every set of payslips, accounts, loans and requests.  *)
(***************************************************************************)
EXTENDS NominaJob, Comprobantes, FiniteSetTheorems, WellFoundedInduction, TLAPS

-----------------------------------------------------------------------------
(* Type correctness                                                          *)

\* The number of employees done is a natural number.
LEMMA CountOfEmployees ==
  ASSUME NEW S \in SUBSET Employees
  PROVE  Cardinality(S) \in Nat
  BY EmployeesAssumption, FS_Subset, FS_CardinalityType

\* Adding one to the counter of some employees keeps it a counter.
LEMMA AddOneType ==
  ASSUME NEW f \in [Employees -> Nat], NEW S
  PROVE  AddOne(f, S) \in [Employees -> Nat]
  BY DEF AddOne

\* The steps of the worker that leave the committed books alone.
LEMMA TypeReceive ==
  ASSUME TypeOK, NEW w \in Workers, NEW j \in Jobs, Receive(w, j)
  PROVE  TypeOK'
  <1>1. queue' \in [Jobs -> Nat]
    <2>1. queue[j] \in Nat /\ queue[j] > 0
      BY DEF TypeOK, Receive
    <2>2. queue[j] - 1 \in Nat
      BY <2>1
    <2> QED BY <2>2 DEF TypeOK, Receive, Take
  <1>2. worker' \in [Workers -> WorkerType]
    BY DEF TypeOK, Receive, Idle, WorkerType, WorkerPc
  <1> QED BY <1>1, <1>2 DEF TypeOK, Receive, nominaVars, books

\* A transaction that ends leaves the worker with a well-typed record.
LEMMA TypeEndTransaction ==
  ASSUME TypeOK, NEW w \in Workers, NEW pc \in WorkerPc, NEW done \in SUBSET Employees,
         EndTransaction(w, pc, done)
  PROVE  /\ worker' \in [Workers -> WorkerType]
         /\ rowLock' \in Workers \cup {Nobody}
  BY DEF TypeOK, EndTransaction, WorkerType

\* The employees a worker has done are employees.
LEMMA TypeDone ==
  ASSUME TypeOK, NEW w \in Workers
  PROVE  worker[w].done \in SUBSET Employees
  BY DEF TypeOK, WorkerType

\* The state has its types in every behaviour.
THEOREM TypeCorrect == Spec => []TypeOK
<1>1. Init => TypeOK
  <2> SUFFICES ASSUME Init PROVE TypeOK
    OBVIOUS
  <2>1. queue \in [Jobs -> Nat] /\ estado \in Estados
    BY DEF Init, Estados
  <2>2. worker \in [Workers -> WorkerType]
    BY DEF Init, Idle, WorkerType, WorkerPc
  <2>3. crashes \in 0 .. MaxCrashes /\ redeliveries \in 0 .. MaxRedeliveries
    BY BoundsAssumption DEF Init
  <2>4. /\ rows \in [Employees -> Nat] /\ acumulado \in [Employees -> Nat]
        /\ pagado \in [Employees -> Nat] /\ request \in [Requests -> RequestPc]
    BY DEF Init, RequestPc
  <2> QED BY <2>1, <2>2, <2>3, <2>4 DEF Init, TypeOK
<1>2. TypeOK /\ [Next]_vars => TypeOK'
  <2> SUFFICES ASSUME TypeOK, [Next]_vars PROVE TypeOK'
    OBVIOUS
  <2> USE BoundsAssumption, IdsAssumption
  <2>1. ASSUME NEW w \in Workers, NEW j \in Jobs, Receive(w, j) PROVE TypeOK'
    BY <2>1, TypeReceive
  <2>2. ASSUME NEW w \in Workers, AcquireJobLock(w) PROVE TypeOK'
    BY <2>2 DEF TypeOK, AcquireJobLock, nominaVars, books, Idle, WorkerType, WorkerPc
  <2>3. ASSUME NEW w \in Workers, SetupFails(w) PROVE TypeOK'
    <3>1. worker' \in [Workers -> WorkerType] /\ rowLock' \in Workers \cup {Nobody}
      BY <2>3, TypeEndTransaction DEF SetupFails, WorkerPc
    <3> QED BY <2>3, <3>1 DEF TypeOK, SetupFails, SetupFailedEstado, books, Estados
  <2>4. ASSUME NEW w \in Workers, Start(w) \/ SetupRaises(w) PROVE TypeOK'
    BY <2>4 DEF TypeOK, Start, SetupRaises, nominaVars, books, WorkerType, WorkerPc
  <2>5. ASSUME NEW w \in Workers, NEW e \in Employees, ProcessEmployee(w, e) PROVE TypeOK'
    <3>1. worker[w].done \in SUBSET Employees
      BY DEF TypeOK, WorkerType
    <3>2. progreso' \in Nat
      BY <2>5, <3>1, CountOfEmployees DEF ProcessEmployee
    <3>3. worker' \in [Workers -> WorkerType]
      <4>1. PICK failed \in SUBSET {e} :
              worker' = [worker EXCEPT ![w] = [worker[w] EXCEPT !.done = @ \cup {e},
                                                         !.failed = @ \cup failed]]
        BY <2>5 DEF ProcessEmployee
      <4>2. [worker[w] EXCEPT !.done = @ \cup {e}, !.failed = @ \cup failed] \in WorkerType
        BY DEF TypeOK, WorkerType
      <4> QED BY <4>1, <4>2 DEF TypeOK
    <3> QED BY <2>5, <3>2, <3>3 DEF TypeOK, ProcessEmployee, nominaVars, books
  <2>6. ASSUME NEW w \in Workers, Commit(w) PROVE TypeOK'
    <3>1. rows' \in [Employees -> Nat] /\ acumulado' \in [Employees -> Nat]
          /\ pagado' \in [Employees -> Nat]
      BY <2>6, AddOneType DEF TypeOK, Commit
    <3>2. abonos' \in SUBSET Employees
      BY <2>6 DEF TypeOK, Commit, Processed, WorkerType
    <3>3. worker' \in [Workers -> WorkerType] /\ rowLock' \in Workers \cup {Nobody}
      BY <2>6, TypeEndTransaction DEF Commit, WorkerPc
    <3>4. estado' \in Estados
      BY <2>6 DEF Commit, Estados
    <3> QED BY <2>6, <3>1, <3>2, <3>3, <3>4 DEF TypeOK, Commit
  <2>7. ASSUME NEW w \in Workers, CriticalFailure(w) PROVE TypeOK'
    <3>1. worker' \in [Workers -> WorkerType] /\ rowLock' \in Workers \cup {Nobody}
      BY <2>7, TypeDone, TypeEndTransaction DEF CriticalFailure, WorkerPc
    <3> QED BY <2>7, <3>1 DEF TypeOK, CriticalFailure, RollbackNominaData, Estados, Incidentes
  <2>8. ASSUME NEW w \in Workers, ConnectionLost(w) \/ OuterHandler(w) \/ Swallow(w)
        PROVE  TypeOK'
    <3>1. worker' \in [Workers -> WorkerType] /\ rowLock' \in Workers \cup {Nobody}
      BY <2>8, TypeDone, TypeEndTransaction DEF ConnectionLost, OuterHandler, Swallow, WorkerPc
    <3> QED BY <2>8, <3>1 DEF TypeOK, ConnectionLost, OuterHandler, Swallow, Estados, Incidentes,
                nominaVars, books
  <2>13. ASSUME NEW w \in Workers, Finish(w) PROVE TypeOK'
    <3>1. progreso' \in Nat
      BY <2>13, CountOfEmployees DEF TypeOK, Finish
    <3> QED BY <2>13, <3>1 DEF TypeOK, Finish, nominaVars, books, Idle, WorkerType, WorkerPc
  <2>9. ASSUME NEW w \in Workers, Crash(w) \/ Redeliver(w) PROVE TypeOK'
    <3>1. queue' \in [Jobs -> Nat]
      BY <2>9 DEF TypeOK, Crash, Redeliver, Requeue
    <3> QED BY <2>9, <3>1 DEF TypeOK, Crash, Redeliver, nominaVars, books, Idle, WorkerType, WorkerPc
  <2>10. ASSUME NEW r \in Requests, RetryCheck(r) \/ RetryEnqueue(r) \/ RetryEnqueueFails(r)
         PROVE TypeOK'
    BY <2>10 DEF TypeOK, RetryCheck, RetryEnqueue, RetryEnqueueFails, RetryAllowed, nominaVars,
                 books, RequestPc
  <2>11. ASSUME NEW r \in Requests, RetryReset(r) PROVE TypeOK'
    BY <2>11 DEF TypeOK, RetryReset, RowLockFree, RollbackNominaData, MessageAround, Estados,
                 RequestPc, Incidentes
  <2>12. CASE UNCHANGED vars
    BY <2>12 DEF TypeOK, vars
  <2> QED
    BY <2>1, <2>2, <2>3, <2>4, <2>5, <2>6, <2>7, <2>8, <2>9, <2>10, <2>11, <2>12, <2>13
    DEF Next
<1> QED BY <1>1, <1>2, PTL DEF Spec

-----------------------------------------------------------------------------
(* Serialisation                                                             *)

\* A worker past the UPDATE of job_id_activo is the one that holds the row.
Holding(w) == worker[w].pc \in {"locked", "running"}
LockInv == \A w \in Workers : Holding(w) => rowLock = w

\* Runs of one nomina never overlap, whatever is redelivered or crashes.
THEOREM RunsAreSerialised == Spec => []OneRunAtATime
<1>1. Init => LockInv
  BY DEF Init, LockInv, Holding, Idle
<1>2. TypeOK /\ LockInv /\ [Next]_vars => LockInv'
  <2> SUFFICES ASSUME TypeOK, LockInv, [Next]_vars, NEW v \in Workers, Holding(v)'
               PROVE  rowLock' = v
    BY DEF LockInv
  <2>0. Holding(v) => rowLock = v
    BY DEF LockInv
  <2> USE <2>0, IdsAssumption DEF Holding, TypeOK
  <2>1. ASSUME NEW w \in Workers, NEW j \in Jobs, Receive(w, j) PROVE rowLock' = v
    BY <2>1 DEF Receive, Idle
  <2>2. ASSUME NEW w \in Workers, AcquireJobLock(w) PROVE rowLock' = v
    BY <2>2 DEF AcquireJobLock, RowLockFree, Idle
  <2>3. ASSUME NEW w \in Workers,
               \/ SetupFails(w) \/ Commit(w) \/ ConnectionLost(w) \/ CriticalFailure(w)
               \/ OuterHandler(w) \/ Swallow(w)
        PROVE rowLock' = v
    <3>1. PICK pc \in WorkerPc \ {"locked", "running"}, done \in SUBSET Employees :
            EndTransaction(w, pc, done)
      BY <2>3, TypeDone DEF SetupFails, Commit, ConnectionLost, CriticalFailure, OuterHandler,
         Swallow, WorkerPc
    <3>2. v # w /\ Holding(v)
      BY <3>1 DEF EndTransaction
    <3> QED BY <3>1, <3>2 DEF EndTransaction
  <2>4. ASSUME NEW w \in Workers, Start(w) \/ SetupRaises(w) \/ Finish(w) PROVE rowLock' = v
    BY <2>4 DEF Start, SetupRaises, Finish, Idle
  <2>5. ASSUME NEW w \in Workers, NEW e \in Employees, ProcessEmployee(w, e)
        PROVE rowLock' = v
    <3>1. v # w => worker'[v] = worker[v]
      BY <2>5 DEF ProcessEmployee
    <3>2. worker[w].pc = "running" /\ rowLock' = rowLock
      BY <2>5 DEF ProcessEmployee
    <3> QED BY <3>1, <3>2
  <2>6. ASSUME NEW w \in Workers, Crash(w) PROVE rowLock' = v
    BY <2>6 DEF Crash, Idle
  <2>7. ASSUME NEW w \in Workers, Redeliver(w) PROVE rowLock' = v
    BY <2>7 DEF Redeliver
  <2>8. ASSUME NEW r \in Requests,
               RetryCheck(r) \/ RetryReset(r) \/ RetryEnqueue(r) \/ RetryEnqueueFails(r)
        PROVE rowLock' = v
    BY <2>8 DEF RetryCheck, RetryReset, RetryEnqueue, RetryEnqueueFails
  <2>9. CASE UNCHANGED vars
    BY <2>9 DEF vars
  <2> QED BY <2>1, <2>2, <2>3, <2>4, <2>5, <2>6, <2>7, <2>8, <2>9 DEF Next
<1>3. LockInv => OneRunAtATime
  BY DEF LockInv, Holding, OneRunAtATime
<1> QED BY <1>1, <1>2, <1>3, TypeCorrect, PTL DEF Spec

-----------------------------------------------------------------------------
(* Rows and balances                                                         *)

\* A row is only ever deleted without its amounts, never kept without them.
THEOREM RowsAlwaysBacked == Spec => []RowsAreBacked
<1>1. Init => RowsAreBacked
  BY DEF Init, RowsAreBacked
<1>2. TypeOK /\ RowsAreBacked /\ [Next]_vars => RowsAreBacked'
  <2> SUFFICES ASSUME TypeOK, RowsAreBacked, [Next]_vars PROVE RowsAreBacked'
    OBVIOUS
  <2>1. ASSUME NEW w \in Workers, Commit(w) PROVE RowsAreBacked'
    <3> SUFFICES ASSUME NEW e \in Employees
                 PROVE  rows'[e] <= acumulado'[e] /\ (e \in abonos' => pagado'[e] > 0)
      BY DEF RowsAreBacked
    <3>1. rows[e] <= acumulado[e] /\ (e \in abonos => pagado[e] > 0)
      BY DEF RowsAreBacked
    <3>2. rows[e] \in Nat /\ acumulado[e] \in Nat /\ pagado[e] \in Nat
      BY DEF TypeOK
    <3>3. rows'[e] <= acumulado'[e]
      BY <2>1, <3>1, <3>2 DEF Commit, AddOne
    <3>4. e \in abonos' => pagado'[e] > 0
      BY <2>1, <3>1, <3>2 DEF Commit, AddOne, NewPayments
    <3> QED BY <3>3, <3>4
  <2>2. ASSUME RollbackNominaData PROVE RowsAreBacked'
    BY <2>2 DEF RollbackNominaData, RowsAreBacked, TypeOK
  <2>3. CASE UNCHANGED books
    BY <2>3 DEF RowsAreBacked, books
  <2>4. \/ \E w \in Workers : Commit(w)
        \/ RollbackNominaData
        \/ UNCHANGED books
    BY DEF Next, vars, books, Receive, AcquireJobLock, SetupFails, SetupRaises, Start,
           ProcessEmployee, ConnectionLost, CriticalFailure, OuterHandler, Swallow, Finish,
           Crash, Redeliver, RetryCheck, RetryReset, RetryEnqueue, RetryEnqueueFails
  <2> QED BY <2>1, <2>2, <2>3, <2>4
<1> QED BY <1>1, <1>2, TypeCorrect, PTL DEF Spec

-----------------------------------------------------------------------------
(* Posting at most once                                                      *)

\* A message is waiting or a worker holds it; at most one exists, and none
\* while a retry has reset the nomina and not enqueued yet.
OneMessage ==
  /\ \A w1, w2 \in Workers :
       worker[w1].pc # "idle" /\ worker[w2].pc # "idle" => w1 = w2
  /\ \A j1, j2 \in Jobs : queue[j1] > 0 /\ queue[j2] > 0 => j1 = j2
  /\ \A j \in Jobs : queue[j] <= 1
  /\ \A w \in Workers, j \in Jobs : worker[w].pc # "idle" => queue[j] = 0
  /\ \A r \in Requests : request[r] = "reset" =>
       /\ \A j \in Jobs : queue[j] = 0
       /\ \A w \in Workers : worker[w].pc = "idle"
       /\ estado = "calculating"
  /\ \A q, r \in Requests : request[q] = "reset" /\ request[r] = "reset" => q = r

\* The books hold each employee at most once, and nobody while the nomina
\* waits to be calculated or retried.
PostedInv ==
  /\ \A e \in Employees : acumulado[e] <= 1 /\ pagado[e] <= 1
  /\ estado \in {"error", "calculating"} =>
       \A e \in Employees :
         rows[e] = 0 /\ acumulado[e] = 0 /\ pagado[e] = 0 /\ e \notin abonos

\* The three books agree, and hold everybody of a GENERADO nomina.
BooksInv ==
  /\ \A e \in Employees : rows[e] = acumulado[e] /\ rows[e] = pagado[e]
  /\ estado = "generated" => \A e \in Employees : rows[e] = 1

\* A worker that has not committed works on a nomina still in CALCULANDO, one
\* that handles an exception on a nomina that is not posted.
WorkInv ==
  \A w \in Workers :
    /\ worker[w].pc \in {"loaded", "locked", "running", "interrupted"} => estado = "calculating"
    /\ worker[w].pc = "committed" => estado \in {"generated", "generated_with_errors"}
    /\ worker[w].pc = "broken" => estado \in {"calculating", "generated_with_errors"}

\* What is posted and what is in the books, while no late message came.
LedgerInv == PostedInv /\ ("late" \notin incidentes => BooksInv)

\* All of it, while each attempt has one run.
AttemptInv == OneRunPerAttempt => OneMessage /\ WorkInv /\ LedgerInv

\* The histories only grow.
LEMMA IncidentesGrow ==
  ASSUME TypeOK, [Next]_vars
  PROVE  incidentes \subseteq incidentes'
<1>1. (\E w \in Workers : CriticalFailure(w) \/ Swallow(w))
        \/ (\E r \in Requests : RetryReset(r))
      => incidentes \subseteq incidentes'
  BY DEF CriticalFailure, Swallow, RetryReset
<1>2. \/ \E w \in Workers : CriticalFailure(w) \/ Swallow(w)
      \/ \E r \in Requests : RetryReset(r)
      \/ incidentes' = incidentes
  BY DEF Next, vars, Receive, AcquireJobLock, SetupFails, SetupRaises, Start, ProcessEmployee,
         Commit, ConnectionLost, OuterHandler, Finish, Crash, Redeliver, RetryCheck,
         RetryEnqueue, RetryEnqueueFails
<1> QED BY <1>1, <1>2

\* An attempt of more than one run remains one.
LEMMA AttemptHistory ==
  ASSUME TypeOK, [Next]_vars, OneRunPerAttempt'
  PROVE  OneRunPerAttempt
<1>1. redeliveries' = redeliveries \/ redeliveries' = redeliveries + 1
  <2>1. (\E w \in Workers : Redeliver(w)) => redeliveries' = redeliveries + 1
    BY DEF Redeliver
  <2>2. (\E r \in Requests : RetryCheck(r) \/ RetryReset(r) \/ RetryEnqueue(r)
                            \/ RetryEnqueueFails(r))
        => redeliveries' = redeliveries
    BY DEF RetryCheck, RetryReset, RetryEnqueue, RetryEnqueueFails
  <2>3. (\E w \in Workers : SetupFails(w) \/ SetupRaises(w) \/ Start(w) \/ Commit(w)
                           \/ ConnectionLost(w) \/ CriticalFailure(w) \/ OuterHandler(w)
                           \/ Swallow(w) \/ Finish(w) \/ Crash(w) \/ AcquireJobLock(w)
                           \/ (\E j \in Jobs : Receive(w, j))
                           \/ (\E e \in Employees : ProcessEmployee(w, e)))
        => redeliveries' = redeliveries
    BY DEF SetupFails, SetupRaises, Start, Commit, ConnectionLost, CriticalFailure,
           OuterHandler, Swallow, Finish, Crash, AcquireJobLock, Receive, ProcessEmployee
  <2> QED BY <2>1, <2>2, <2>3 DEF Next, vars
<1>2. "early" \notin incidentes /\ redeliveries' = 0
  BY IncidentesGrow DEF OneRunPerAttempt
<1>3. redeliveries = 0
  <2>1. redeliveries \in Nat
    BY BoundsAssumption DEF TypeOK
  <2> QED BY <1>1, <1>2, <2>1
<1> QED BY <1>2, <1>3 DEF OneRunPerAttempt

\* It holds at the start.
LEMMA AttemptInit == Init => AttemptInv
<1> SUFFICES ASSUME Init PROVE OneMessage /\ WorkInv /\ LedgerInv
  BY DEF AttemptInv
<1>1. OneMessage
  BY DEF Init, OneMessage, Idle
<1>2. LedgerInv
  BY DEF Init, LedgerInv, PostedInv, BooksInv
<1>3. WorkInv
  BY DEF Init, WorkInv, Idle
<1> QED BY <1>1, <1>2, <1>3

\* What a step does not touch keeps its part of the invariant.
LEMMA LedgerKept ==
  ASSUME LedgerInv, UNCHANGED <<estado, books>>, incidentes \subseteq incidentes'
  PROVE  LedgerInv'
BY DEF LedgerInv, PostedInv, BooksInv, books

\* Every step keeps the invariant as long as it is no redelivery and no
\* early reset.
LEMMA AttemptStep ==
  ASSUME TypeOK, AttemptInv, [Next]_vars, OneRunPerAttempt'
  PROVE  OneMessage' /\ WorkInv' /\ LedgerInv'
<1>0. OneRunPerAttempt /\ OneMessage /\ WorkInv /\ LedgerInv
  BY AttemptHistory DEF AttemptInv
<1>a. incidentes \subseteq incidentes'
  BY IncidentesGrow
<1> USE <1>0, <1>a
<1>1. ASSUME NEW w \in Workers, NEW j \in Jobs, Receive(w, j)
      PROVE  OneMessage' /\ WorkInv' /\ LedgerInv'
  <2>1. worker[w].pc = "idle" /\ queue[j] > 0 /\ queue[j] <= 1 /\ queue[j] \in Nat
    BY <1>1 DEF Receive, OneMessage, TypeOK
  <2>2. queue' = [queue EXCEPT ![j] = 0]
    <3>1. queue[j] - 1 = 0
      BY <2>1
    <3> QED BY <1>1, <3>1 DEF Receive, Take
  <2>3. \A v \in Workers : worker[v].pc = "idle"
    BY <2>1 DEF OneMessage
  <2>4. \A r \in Requests : request[r] # "reset"
    BY <2>1 DEF OneMessage
  <2>5. \A i \in Jobs : queue'[i] = 0
    BY <2>1, <2>2 DEF OneMessage, TypeOK
  <2>6. \A v \in Workers : v # w => worker'[v].pc = "idle"
    BY <1>1, <2>3 DEF Receive, TypeOK
  <2>7. OneMessage'
    BY <1>1, <2>4, <2>5, <2>6 DEF Receive, OneMessage
  <2>8. LedgerInv'
    BY <1>1, LedgerKept DEF Receive, nominaVars
  <2>9. WorkInv'
    BY <1>1, <2>6 DEF Receive, WorkInv, MayProcess, Idle, nominaVars, TypeOK
  <2> QED BY <2>7, <2>8, <2>9
<1>2. ASSUME NEW w \in Workers, AcquireJobLock(w)
      PROVE  OneMessage' /\ WorkInv' /\ LedgerInv'
  <2>1. OneMessage'
    BY <1>2 DEF AcquireJobLock, OneMessage, TypeOK, Idle, nominaVars
  <2>2. LedgerInv'
    BY <1>2, LedgerKept DEF AcquireJobLock, nominaVars
  <2>3. WorkInv'
    <3>0. worker[w].pc = "loaded" /\ estado' = estado
      BY <1>2 DEF AcquireJobLock, nominaVars
    <3>1. estado' = estado /\ estado = "calculating" /\ worker'[w].pc \in {"locked", "idle"}
      <4>1. worker' = [worker EXCEPT ![w].pc = "locked"] \/ worker' = [worker EXCEPT ![w] = Idle]
        BY <1>2 DEF AcquireJobLock
      <4>2. worker'[w].pc \in {"locked", "idle"}
        BY <4>1 DEF TypeOK, WorkerType, Idle
      <4> QED BY <3>0, <4>2 DEF WorkInv
    <3>2. \A v \in Workers : v # w => worker'[v] = worker[v]
      BY <1>2 DEF AcquireJobLock, TypeOK
    <3> QED BY <3>1, <3>2 DEF WorkInv
  <2> QED BY <2>1, <2>2, <2>3
<1>3. ASSUME NEW w \in Workers,
             \/ SetupFails(w) \/ Commit(w) \/ ConnectionLost(w) \/ CriticalFailure(w)
             \/ OuterHandler(w) \/ Swallow(w)
      PROVE  OneMessage' /\ WorkInv' /\ LedgerInv'
  <2>1. PICK pc \in WorkerPc, done \in SUBSET Employees :
          /\ EndTransaction(w, pc, done)
          /\ pc \in {"interrupted", "committed", "broken", "finished"}
          /\ pc = "interrupted" => estado' = "calculating"
          /\ pc = "committed" => estado' \in {"generated", "generated_with_errors"}
          /\ pc = "broken" => estado' = "generated_with_errors"
    BY <1>3, TypeDone DEF SetupFails, Commit, ConnectionLost, CriticalFailure, OuterHandler,
       Swallow, WorkerPc, WorkInv, nominaVars
  <2>2. /\ worker[w].pc \notin {"idle", "finished"}
        /\ queue' = queue /\ request' = request
    BY <1>3 DEF SetupFails, Commit, ConnectionLost, CriticalFailure, OuterHandler, Swallow
  <2>3. worker'[w].pc = pc /\ \A v \in Workers : v # w => worker'[v].pc = "idle"
    BY <2>1, <2>2 DEF EndTransaction, OneMessage, TypeOK
  <2>4. \A i \in Jobs : queue'[i] = 0
    BY <2>2 DEF OneMessage
  <2>5. \A r \in Requests : request'[r] # "reset"
    BY <2>2 DEF OneMessage
  <2>6. OneMessage'
    BY <2>3, <2>4, <2>5 DEF OneMessage
  <2>7. WorkInv'
    BY <2>1, <2>3 DEF WorkInv
  <2>8. CASE ConnectionLost(w) \/ Swallow(w)
    BY <2>6, <2>7, <2>8, LedgerKept DEF ConnectionLost, Swallow, nominaVars
  <2>9. CASE OuterHandler(w)
    <3>1. estado' = "generated_with_errors" /\ UNCHANGED books
      BY <2>9 DEF OuterHandler
    <3>2. LedgerInv'
      BY <3>1 DEF LedgerInv, PostedInv, BooksInv, books
    <3> QED BY <2>6, <2>7, <3>2
  <2>10. CASE SetupFails(w)
    <3>1. estado' = "error" /\ UNCHANGED books /\ estado = "calculating"
      BY <2>10 DEF SetupFails, SetupFailedEstado, WorkInv
    <3>2. LedgerInv'
      BY <3>1 DEF LedgerInv, PostedInv, BooksInv, books
    <3> QED BY <2>6, <2>7, <3>2
  <2>11. CASE Commit(w)
    <3>0. \A e \in Employees : rows[e] = 0 /\ acumulado[e] = 0 /\ pagado[e] = 0 /\ e \notin abonos
      BY <2>11 DEF Commit, WorkInv, LedgerInv, PostedInv
    <3>1. \A e \in Employees :
            /\ rows'[e] = IF e \in Processed(w) THEN 1 ELSE 0
            /\ acumulado'[e] = rows'[e]
            /\ pagado'[e] = rows'[e]
      BY <3>0, <2>11 DEF Commit, AddOne, NewPayments, TypeOK
    <3>2. estado' \in {"generated", "generated_with_errors"}
      BY <2>11 DEF Commit
    <3>3. estado' = "generated" => \A e \in Employees : e \in Processed(w)
      BY <2>11 DEF Commit, Processed
    <3>4. PostedInv'
      BY <3>1, <3>2 DEF PostedInv
    <3>5. BooksInv'
      BY <3>1, <3>2, <3>3 DEF BooksInv
    <3> QED BY <2>6, <2>7, <3>4, <3>5 DEF LedgerInv
  <2>12. CASE CriticalFailure(w)
    <3>1. /\ estado' = "generated_with_errors"
          /\ acumulado' = acumulado /\ pagado' = pagado
          /\ \A e \in Employees : rows'[e] = 0
      BY <2>12 DEF CriticalFailure, RollbackNominaData
    <3>2. PostedInv'
      BY <3>1 DEF LedgerInv, PostedInv
    <3>3. "late" \notin incidentes' => BooksInv'
      <4> SUFFICES ASSUME "late" \notin incidentes' PROVE BooksInv'
        OBVIOUS
      <4>1. estado = "calculating"
        BY <2>12 DEF CriticalFailure, WorkInv
      <4>2. \A e \in Employees : acumulado[e] = 0 /\ pagado[e] = 0
        BY <4>1 DEF LedgerInv, PostedInv
      <4> QED BY <3>1, <4>2 DEF BooksInv
    <3> QED BY <2>6, <2>7, <3>2, <3>3 DEF LedgerInv
  <2> QED BY <1>3, <2>8, <2>9, <2>10, <2>11, <2>12
<1>4. ASSUME NEW w \in Workers, Start(w) \/ SetupRaises(w)
      PROVE  OneMessage' /\ WorkInv' /\ LedgerInv'
  <2>0. /\ worker[w].pc = "locked" /\ worker'[w].pc \in {"running", "broken"}
        /\ \A v \in Workers : v # w => worker'[v] = worker[v]
    <3>1. \/ worker' = [worker EXCEPT ![w].pc = "running"]
          \/ worker' = [worker EXCEPT ![w].pc = "broken"]
      BY <1>4 DEF Start, SetupRaises
    <3>2. worker[w].pc = "locked"
      BY <1>4 DEF Start, SetupRaises
    <3> QED BY <3>1, <3>2 DEF TypeOK, WorkerType
  <2>1. \A v \in Workers : (worker'[v].pc = "idle") <=> (worker[v].pc = "idle")
    BY <2>0
  <2>2. OneMessage'
    BY <1>4, <2>1 DEF Start, SetupRaises, OneMessage, nominaVars
  <2>3. WorkInv'
    <3>1. estado' = estado /\ estado = "calculating"
      BY <1>4, <2>0 DEF Start, SetupRaises, WorkInv, nominaVars
    <3> QED BY <2>0, <3>1 DEF WorkInv
  <2>4. LedgerInv'
    BY <1>4, LedgerKept DEF Start, SetupRaises, nominaVars
  <2> QED BY <2>2, <2>3, <2>4
<1>5. ASSUME NEW w \in Workers, NEW e \in Employees, ProcessEmployee(w, e)
      PROVE  OneMessage' /\ WorkInv' /\ LedgerInv'
  <2>1. \A v \in Workers : worker'[v].pc = worker[v].pc
    <3>1. \A v \in Workers : v # w => worker'[v] = worker[v]
      BY <1>5 DEF ProcessEmployee, TypeOK
    <3>2. worker'[w].pc = worker[w].pc
      <4>1. PICK failed \in SUBSET {e} :
              worker' = [worker EXCEPT ![w] = [worker[w] EXCEPT !.done = @ \cup {e},
                                                         !.failed = @ \cup failed]]
        BY <1>5 DEF ProcessEmployee
      <4>2. worker'[w] = [worker[w] EXCEPT !.done = @ \cup {e}, !.failed = @ \cup failed]
        BY <4>1 DEF TypeOK
      <4> QED BY <4>2 DEF TypeOK, WorkerType
    <3> QED BY <3>1, <3>2
  <2>2. OneMessage'
    BY <1>5, <2>1 DEF ProcessEmployee, OneMessage, nominaVars
  <2>3. LedgerInv'
    BY <1>5, LedgerKept DEF ProcessEmployee, nominaVars
  <2>4. WorkInv'
    BY <1>5, <2>1 DEF ProcessEmployee, WorkInv, nominaVars
  <2> QED BY <2>2, <2>3, <2>4
<1>6. ASSUME NEW w \in Workers, Finish(w) PROVE OneMessage' /\ WorkInv' /\ LedgerInv'
  <2>1. \A v \in Workers : worker'[v].pc = "idle"
    BY <1>6 DEF Finish, OneMessage, TypeOK, Idle
  <2>2. OneMessage'
    BY <1>6, <2>1 DEF Finish, OneMessage, nominaVars
  <2>3. LedgerInv'
    BY <1>6, LedgerKept DEF Finish, nominaVars
  <2>4. WorkInv'
    BY <2>1 DEF WorkInv
  <2> QED BY <2>2, <2>3, <2>4
<1>7. ASSUME NEW w \in Workers, Crash(w) PROVE OneMessage' /\ WorkInv' /\ LedgerInv'
  <2>1. worker[w].pc # "idle" /\ \A i \in Jobs : queue[i] = 0
    BY <1>7 DEF Crash, OneMessage
  <2>2. \A v \in Workers : worker'[v].pc = "idle"
    BY <1>7, <2>1 DEF Crash, OneMessage, TypeOK, Idle
  <2>3. \A i \in Jobs : queue'[i] = IF i = worker[w].job THEN 1 ELSE 0
    BY <1>7, <2>1 DEF Crash, Requeue, TypeOK
  <2>4. \A r \in Requests : request'[r] # "reset"
    BY <1>7, <2>1 DEF Crash, OneMessage
  <2>5. OneMessage'
    BY <2>2, <2>3, <2>4 DEF OneMessage
  <2>6. LedgerInv'
    BY <1>7, LedgerKept DEF Crash, nominaVars
  <2>7. WorkInv'
    BY <2>2 DEF WorkInv
  <2> QED BY <2>5, <2>6, <2>7
<1>8. ASSUME NEW w \in Workers, Redeliver(w) PROVE FALSE
  <2>1. redeliveries' = redeliveries + 1 /\ redeliveries = 0 /\ redeliveries' = 0
    BY <1>8 DEF Redeliver, OneRunPerAttempt
  <2> QED BY <2>1
<1>9. ASSUME NEW r \in Requests, RetryCheck(r) \/ RetryEnqueueFails(r)
      PROVE  OneMessage' /\ WorkInv' /\ LedgerInv'
  <2>1. \A q \in Requests : request'[q] = "reset" => request[q] = "reset"
    BY <1>9 DEF RetryCheck, RetryEnqueueFails, TypeOK
  <2>2. OneMessage'
    BY <1>9, <2>1 DEF RetryCheck, RetryEnqueueFails, OneMessage, nominaVars
  <2>3. WorkInv'
    BY <1>9 DEF RetryCheck, RetryEnqueueFails, WorkInv, nominaVars
  <2>4. LedgerInv'
    BY <1>9, LedgerKept DEF RetryCheck, RetryEnqueueFails, nominaVars
  <2> QED BY <2>2, <2>3, <2>4
<1>10. ASSUME NEW r \in Requests, RetryEnqueue(r)
       PROVE  OneMessage' /\ WorkInv' /\ LedgerInv'
  <2>1. /\ \A i \in Jobs : queue[i] = 0
        /\ \A v \in Workers : worker[v].pc = "idle"
        /\ \A q \in Requests : request[q] = "reset" => q = r
    BY <1>10 DEF RetryEnqueue, OneMessage
  <2>2. \A i \in Jobs : queue'[i] = IF i = r THEN 1 ELSE 0
    BY <1>10, <2>1 DEF RetryEnqueue, TypeOK
  <2>3. \A q \in Requests : request'[q] # "reset"
    BY <1>10, <2>1 DEF RetryEnqueue, TypeOK
  <2>4. \A v \in Workers : worker'[v].pc = "idle"
    BY <1>10, <2>1 DEF RetryEnqueue
  <2>5. OneMessage'
    BY <2>2, <2>3, <2>4 DEF OneMessage
  <2>6. WorkInv'
    BY <1>10 DEF RetryEnqueue, WorkInv, nominaVars
  <2>7. LedgerInv'
    BY <1>10, LedgerKept DEF RetryEnqueue, nominaVars
  <2> QED BY <2>5, <2>6, <2>7
<1>11. ASSUME NEW r \in Requests, RetryReset(r)
       PROVE  OneMessage' /\ WorkInv' /\ LedgerInv'
  <2>1. estado = "error" /\ ~MessageAround
    BY <1>11 DEF RetryReset, OneRunPerAttempt
  <2>2. /\ \A i \in Jobs : queue'[i] = 0
        /\ \A v \in Workers : worker'[v].pc = "idle"
    BY <1>11, <2>1 DEF RetryReset, MessageAround, TypeOK
  <2>3. \A q \in Requests : request'[q] = "reset" => q = r
    BY <1>11, <2>1 DEF RetryReset, OneMessage, TypeOK
  <2>4. estado' = "calculating"
    BY <1>11 DEF RetryReset
  <2>5. OneMessage'
    BY <2>2, <2>3, <2>4 DEF OneMessage
  <2>6. WorkInv'
    BY <2>2 DEF WorkInv
  <2>7. \A e \in Employees : acumulado[e] = 0 /\ pagado[e] = 0
    BY <2>1 DEF LedgerInv, PostedInv
  <2>8. /\ abonos' = {} /\ acumulado' = acumulado /\ pagado' = pagado
        /\ \A e \in Employees : rows'[e] = 0
    BY <1>11 DEF RetryReset, RowLockFree, RollbackNominaData
  <2>9. LedgerInv'
    BY <2>4, <2>7, <2>8 DEF LedgerInv, PostedInv, BooksInv
  <2> QED BY <2>5, <2>6, <2>9
<1>12. CASE UNCHANGED vars
  <2>1. OneMessage'
    BY <1>12 DEF vars, OneMessage
  <2>2. WorkInv'
    BY <1>12 DEF vars, WorkInv
  <2>3. LedgerInv'
    BY <1>12, LedgerKept DEF vars, books
  <2> QED BY <2>1, <2>2, <2>3
<1> QED
  BY <1>1, <1>2, <1>3, <1>4, <1>5, <1>6, <1>7, <1>8, <1>9, <1>10, <1>11, <1>12 DEF Next

\* It holds in every behaviour.
LEMMA AttemptInvariant == Spec => []AttemptInv
<1>1. TypeOK /\ AttemptInv /\ [Next]_vars => AttemptInv'
  BY AttemptStep DEF AttemptInv
<1> QED BY AttemptInit, <1>1, TypeCorrect, PTL DEF Spec

\* However often workers die, each attempt posts each employee at most once.
THEOREM PostingIsAtMostOnce == Spec => []PostedAtMostOnce
<1>1. AttemptInv /\ TypeOK => PostedAtMostOnce
  BY DEF AttemptInv, LedgerInv, PostedInv, PostedAtMostOnce
<1> QED BY <1>1, AttemptInvariant, TypeCorrect, PTL

\* Payslips, accumulations and loan payments agree, employee by employee.
THEOREM BooksAlwaysAgree == Spec => []BooksAgree
<1>1. AttemptInv => BooksAgree
  BY DEF AttemptInv, LedgerInv, PostedInv, BooksInv, BooksAgree, Undisturbed
<1> QED BY <1>1, AttemptInvariant, PTL

\* A posted nomina is never taken back by a late message or a retry.
THEOREM FinishedIsFinal == Spec => FinishedStaysFinished
<1>1. TypeOK /\ AttemptInv /\ [Next]_vars =>
        [Undisturbed' /\ estado \in {"generated", "generated_with_errors"}
           => estado' = estado]_vars
  <2> SUFFICES ASSUME TypeOK, AttemptInv, [Next]_vars, Undisturbed',
                      estado \in {"generated", "generated_with_errors"}
               PROVE  estado' = estado
    OBVIOUS
  <2>1. WorkInv
    BY AttemptHistory DEF AttemptInv, Undisturbed
  <2>2. \A w \in Workers : ~SetupFails(w) /\ ~Commit(w) /\ ~CriticalFailure(w)
    BY <2>1 DEF WorkInv, SetupFails, Commit, CriticalFailure, Undisturbed
  <2>3. \A w \in Workers : OuterHandler(w) => estado' = estado
    BY <2>1 DEF WorkInv, OuterHandler
  <2>4. \A r \in Requests : ~RetryReset(r)
    BY DEF RetryReset, Undisturbed, OneRunPerAttempt
  <2> QED
    BY <2>2, <2>3, <2>4 DEF Next, vars, nominaVars, Receive, AcquireJobLock, SetupRaises, Start,
       ProcessEmployee, ConnectionLost, Swallow, Finish, Crash, Redeliver, RetryCheck,
       RetryEnqueue, RetryEnqueueFails
<1> QED BY <1>1, AttemptInvariant, TypeCorrect, PTL DEF Spec, FinishedStaysFinished

-----------------------------------------------------------------------------
(* Sums                                                                      *)

\* F adds up f over every subset of S, in whatever order.
EsSuma(F, f, S) ==
  /\ F \in [SUBSET S -> Int] /\ F[{}] = 0
  /\ \A T \in SUBSET S : \A x \in T : F[T] = f[x] + F[T \ {x}]

\* A property of the subsets of a finite set that fails fails for a smallest one.
LEMMA Minimo ==
  ASSUME NEW S, IsFiniteSet(S), NEW M \in SUBSET SUBSET S, M # {}
  PROVE  \E T \in M : \A U \in M : ~(U \subseteq T /\ U # T)
<1> DEFINE R == StrictSubsetOrdering(S)
<1>1. IsWellFoundedOn(R, FiniteSubsetsOf(S))
  BY FS_StrictSubsetOrderingWellFounded
<1>2. M \subseteq FiniteSubsetsOf(S)
  BY FS_FiniteSubsetsOfFinite
<1>3. PICK T \in M : \A U \in M : ~(<<U, T>> \in R)
  <2> HIDE DEF R
  <2> QED BY <1>1, <1>2, WFMin
<1>4. ASSUME NEW U \in M, U \subseteq T, U # T
      PROVE  FALSE
  <2>1. <<U, T>> \in R
    BY <1>4 DEF StrictSubsetOrdering
  <2> HIDE DEF R
  <2> QED BY <1>3, <2>1
<1> QED BY <1>4

\* The sums of integers over a finite set exist.
LEMMA SumaExiste ==
  ASSUME NEW S, IsFiniteSet(S), NEW f \in [S -> Int]
  PROVE  \E F : EsSuma(F, f, S)
<1> DEFINE M == {T \in SUBSET S : \A F : ~EsSuma(F, f, T)}
<1> SUFFICES ASSUME M # {} PROVE FALSE
  OBVIOUS
<1>1. PICK T \in M : \A U \in M : ~(U \subseteq T /\ U # T)
  <2>1. M \in SUBSET SUBSET S
    OBVIOUS
  <2> HIDE DEF M
  <2> QED BY <2>1, Minimo
<1>2. T # {}
  <2> SUFFICES ASSUME T = {} PROVE FALSE
    OBVIOUS
  <2>1. EsSuma([X \in SUBSET {} |-> 0], f, {})
    BY DEF EsSuma
  <2> QED BY <2>1
<1>3. PICK x \in T : TRUE
  BY <1>2
<1> DEFINE V == T \ {x}
<1>4. PICK F : EsSuma(F, f, V)
  <2>1. V \in SUBSET S /\ V \subseteq T /\ V # T
    BY <1>3
  <2> QED BY <1>1, <2>1
<1> DEFINE G == [X \in SUBSET T |-> IF x \in X THEN f[x] + F[X \ {x}] ELSE F[X]]
<1>5. \A X \in SUBSET T : X \ {x} \in SUBSET V /\ (x \notin X => X \in SUBSET V)
  OBVIOUS
<1>6. \A X \in SUBSET V : F[X] \in Int
  BY <1>4 DEF EsSuma
<1>7. \A y \in T : f[y] \in Int
  OBVIOUS
<1>8. G \in [SUBSET T -> Int] /\ G[{}] = 0
  <2>1. F[{}] = 0
    BY <1>4 DEF EsSuma
  <2> QED BY <2>1, <1>5, <1>6, <1>7
<1>9. ASSUME NEW X \in SUBSET T, NEW y \in X
      PROVE  G[X] = f[y] + G[X \ {y}]
  <2>0. X \ {y} \in SUBSET T /\ y \in T
    OBVIOUS
  <2>1. CASE x \notin X
    <3>1. X \in SUBSET V
      BY <2>1
    <3>2. F[X] = f[y] + F[X \ {y}]
      BY <1>4, <3>1 DEF EsSuma
    <3> QED BY <2>0, <2>1, <3>2
  <2>2. CASE x \in X /\ y = x
    BY <2>0, <2>2
  <2>3. CASE x \in X /\ y # x
    <3>1. X \ {x} \in SUBSET V /\ y \in X \ {x} /\ x \in X \ {y}
      BY <2>3
    <3>2. F[X \ {x}] = f[y] + F[(X \ {x}) \ {y}]
      BY <1>4, <3>1 DEF EsSuma
    <3>3. (X \ {x}) \ {y} = (X \ {y}) \ {x}
      OBVIOUS
    <3>4. G[X] = f[x] + F[X \ {x}] /\ G[X \ {y}] = f[x] + F[(X \ {x}) \ {y}]
      BY <2>0, <2>3, <3>1, <3>3
    <3>5. F[(X \ {x}) \ {y}] \in Int /\ f[x] \in Int /\ f[y] \in Int
      BY <1>3, <1>6, <1>7, <2>0
    <3> HIDE DEF G
    <3> QED BY <3>2, <3>4, <3>5
  <2> QED BY <2>1, <2>2, <2>3
<1>10. EsSuma(G, f, T)
  <2> HIDE DEF G
  <2> QED BY <1>8, <1>9 DEF EsSuma
<1> QED BY <1>10

\* The sums of SumFunctionOnSet, which takes the members in an order of its own,
\* are those.
LEMMA SumaUnica ==
  ASSUME NEW S, IsFiniteSet(S), NEW f \in [S -> Int], NEW F, NEW G,
         EsSuma(F, f, S),
         G = [s \in SUBSET S |-> IF s = {} THEN 0
                 ELSE f[CHOOSE x \in s : TRUE] + G[s \ {CHOOSE x \in s : TRUE}]]
  PROVE  G = F
<1> DEFINE M == {T \in SUBSET S : F[T] # G[T]}
<1>1. M = {}
  <2> SUFFICES ASSUME M # {} PROVE FALSE
    OBVIOUS
  <2>1. PICK T \in M : \A U \in M : ~(U \subseteq T /\ U # T)
    <3>1. M \in SUBSET SUBSET S
      OBVIOUS
    <3> HIDE DEF M
    <3> QED BY <3>1, Minimo
  <2>2. CASE T = {}
    <3>1. G[{}] = 0
      OBVIOUS
    <3> QED BY <2>2, <3>1 DEF EsSuma
  <2>3. CASE T # {}
    <3> DEFINE x == CHOOSE x \in T : TRUE
    <3>1. x \in T
      BY <2>3
    <3>2. G[T] = f[x] + G[T \ {x}]
      BY <2>3
    <3>3. F[T] = f[x] + F[T \ {x}]
      BY <3>1 DEF EsSuma
    <3>4. T \ {x} \notin M
      BY <2>1, <3>1
    <3>5. T \ {x} \in SUBSET S
      OBVIOUS
    <3> HIDE DEF x
    <3> QED BY <3>2, <3>3, <3>4, <3>5
  <2> QED BY <2>2, <2>3
<1>2. G = [s \in SUBSET S |-> G[s]] /\ F = [s \in SUBSET S |-> F[s]]
  BY DEF EsSuma
<1> QED BY <1>1, <1>2

\* The fold of the library is one of them.
LEMMA SumaEs ==
  ASSUME NEW S, IsFiniteSet(S), NEW f \in [S -> Int], NEW F, EsSuma(F, f, S), NEW T \in SUBSET S
  PROVE  SumFunctionOnSet(f, T) = F[T]
<1> DEFINE G == CHOOSE g : g = [s \in SUBSET T |-> IF s = {} THEN 0
                 ELSE f[CHOOSE x \in s : TRUE] + g[s \ {CHOOSE x \in s : TRUE}]]
           h == [x \in T |-> f[x]]
           H == [s \in SUBSET T |-> F[s]]
<1>1. IsFiniteSet(T) /\ h \in [T -> Int] /\ \A x \in T : h[x] = f[x]
  BY FS_Subset
<1>2. EsSuma(H, h, T)
  <2>1. H \in [SUBSET T -> Int] /\ H[{}] = 0
    BY DEF EsSuma
  <2>2. ASSUME NEW s \in SUBSET T, NEW x \in s
        PROVE  H[s] = h[x] + H[s \ {x}]
    <3>1. s \in SUBSET S /\ s \ {x} \in SUBSET T
      OBVIOUS
    <3> QED BY <3>1 DEF EsSuma
  <2> HIDE DEF H, h
  <2> QED BY <2>1, <2>2 DEF EsSuma
<1> HIDE DEF h
<1>3. H = [s \in SUBSET T |-> IF s = {} THEN 0
             ELSE h[CHOOSE x \in s : TRUE] + H[s \ {CHOOSE x \in s : TRUE}]]
  <2> HIDE DEF H
  <2> QED BY <1>2 DEF EsSuma
<1>4. H = [s \in SUBSET T |-> IF s = {} THEN 0
             ELSE f[CHOOSE x \in s : TRUE] + H[s \ {CHOOSE x \in s : TRUE}]]
  <2> HIDE DEF H
  <2> QED BY <1>1, <1>3
<1>5. G = [s \in SUBSET T |-> IF s = {} THEN 0
             ELSE f[CHOOSE x \in s : TRUE] + G[s \ {CHOOSE x \in s : TRUE}]]
  <2> HIDE DEF H
  <2> QED BY <1>4
<1>6. SumFunctionOnSet(f, T) = G[T]
  BY DEF SumFunctionOnSet, FoldFunctionOnSet, MapThenFoldSet
<1> HIDE DEF G
<1>7. G = [s \in SUBSET T |-> IF s = {} THEN 0
             ELSE h[CHOOSE x \in s : TRUE] + G[s \ {CHOOSE x \in s : TRUE}]]
  BY <1>1, <1>5
<1>8. G = H
  <2> HIDE DEF H
  <2> QED BY <1>1, <1>2, <1>7, SumaUnica
<1> QED BY <1>6, <1>8

\* A sum over a set, over none of it and over all but one of it.
LEMMA SumaPaso ==
  ASSUME NEW S, IsFiniteSet(S), NEW f \in [S -> Int], NEW T \in SUBSET S
  PROVE  /\ SumFunctionOnSet(f, T) \in Int
         /\ SumFunctionOnSet(f, {}) = 0
         /\ \A x \in T : SumFunctionOnSet(f, T) = f[x] + SumFunctionOnSet(f, T \ {x})
<1>1. PICK F : EsSuma(F, f, S)
  BY SumaExiste
<1>2. \A X \in SUBSET S : SumFunctionOnSet(f, X) = F[X]
  BY <1>1, SumaEs
<1>3. \A X \in SUBSET S : F[X] \in Int
  BY <1>1 DEF EsSuma
<1>4. F[{}] = 0 /\ \A x \in T : F[T] = f[x] + F[T \ {x}]
  BY <1>1 DEF EsSuma
<1> QED BY <1>2, <1>3, <1>4

\* The sum of a function is that over its whole domain.
LEMMA SumaTodo ==
  ASSUME NEW S, NEW f \in [S -> Int]
  PROVE  SumFunction(f) = SumFunctionOnSet(f, S)
  BY DEF SumFunction

\* What adds up like the sums of f is the sums of f.
LEMMA SumaComo ==
  ASSUME NEW S, IsFiniteSet(S), NEW f \in [S -> Int], NEW F \in [SUBSET S -> Int],
         F[{}] = 0, \A T \in SUBSET S : \A x \in T : F[T] = f[x] + F[T \ {x}]
  PROVE  SumFunctionOnSet(f, S) = F[S]
<1>1. EsSuma(F, f, S)
  BY DEF EsSuma
<1>2. S \in SUBSET S
  OBVIOUS
<1> QED BY <1>1, <1>2, SumaEs

\* Two functions that agree on a set add up to the same there.
LEMMA SumaIgual ==
  ASSUME NEW S, IsFiniteSet(S), NEW f \in [S -> Int],
         NEW R, IsFiniteSet(R), NEW g \in [R -> Int],
         NEW T \in SUBSET (S \cap R), \A x \in T : f[x] = g[x]
  PROVE  SumFunctionOnSet(f, T) = SumFunctionOnSet(g, T)
<1> DEFINE F == [X \in SUBSET T |-> SumFunctionOnSet(g, X)]
           h == [x \in T |-> f[x]]
           H == [X \in SUBSET T |-> SumFunctionOnSet(f, X)]
<1>1. IsFiniteSet(T) /\ h \in [T -> Int]
  BY FS_Subset
<1>2. F \in [SUBSET T -> Int] /\ F[{}] = 0
  BY SumaPaso
<1>3. ASSUME NEW X \in SUBSET T, NEW x \in X
      PROVE  F[X] = h[x] + F[X \ {x}]
  <2>1. X \in SUBSET R /\ X \ {x} \in SUBSET T /\ h[x] = g[x]
    OBVIOUS
  <2>2. SumFunctionOnSet(g, X) = g[x] + SumFunctionOnSet(g, X \ {x})
    BY <2>1, SumaPaso
  <2> HIDE DEF h
  <2> QED BY <2>1, <2>2
<1>4. H \in [SUBSET T -> Int] /\ H[{}] = 0
  BY SumaPaso
<1>5. ASSUME NEW X \in SUBSET T, NEW x \in X
      PROVE  H[X] = h[x] + H[X \ {x}]
  <2>1. X \in SUBSET S /\ X \ {x} \in SUBSET T /\ h[x] = f[x]
    OBVIOUS
  <2>2. SumFunctionOnSet(f, X) = f[x] + SumFunctionOnSet(f, X \ {x})
    BY <2>1, SumaPaso
  <2> HIDE DEF h
  <2> QED BY <2>1, <2>2
<1>6. H[T] = SumFunctionOnSet(f, T) /\ F[T] = SumFunctionOnSet(g, T)
  OBVIOUS
<1> HIDE DEF F, H, h
<1>7. SumFunctionOnSet(h, T) = F[T]
  BY <1>1, <1>2, <1>3, SumaComo
<1>8. SumFunctionOnSet(h, T) = H[T]
  BY <1>1, <1>4, <1>5, SumaComo
<1> QED BY <1>6, <1>7, <1>8

\* Members paired off with their amounts add up to the same.
LEMMA SumaBiyeccion ==
  ASSUME NEW S, IsFiniteSet(S), NEW f \in [S -> Int],
         NEW R, IsFiniteSet(R), NEW g \in [R -> Int],
         NEW b \in [S -> R], \A x, y \in S : b[x] = b[y] => x = y,
         \A y \in R : \E x \in S : b[x] = y, \A x \in S : f[x] = g[b[x]]
  PROVE  SumFunctionOnSet(f, S) = SumFunctionOnSet(g, R)
<1> DEFINE I(X) == {b[x] : x \in X}
           F == [X \in SUBSET S |-> SumFunctionOnSet(g, I(X))]
<1>1. \A X \in SUBSET S : I(X) \in SUBSET R
  OBVIOUS
<1>2. F \in [SUBSET S -> Int] /\ F[{}] = 0
  <2>1. I({}) = {}
    OBVIOUS
  <2> HIDE DEF I
  <2> QED BY <1>1, <2>1, SumaPaso
<1>3. ASSUME NEW X \in SUBSET S, NEW x \in X
      PROVE  F[X] = f[x] + F[X \ {x}]
  <2>1. I(X \ {x}) = I(X) \ {b[x]} /\ b[x] \in I(X) /\ f[x] = g[b[x]]
    OBVIOUS
  <2>2. I(X) \in SUBSET R
    BY <1>1
  <2>3. F[X] = SumFunctionOnSet(g, I(X)) /\ F[X \ {x}] = SumFunctionOnSet(g, I(X \ {x}))
    OBVIOUS
  <2> DEFINE Y == I(X)
             y == b[x]
  <2>4. Y \in SUBSET R /\ y \in Y /\ I(X \ {x}) = Y \ {y} /\ f[x] = g[y]
    BY <2>1, <2>2
  <2>5. F[X] = SumFunctionOnSet(g, Y) /\ F[X \ {x}] = SumFunctionOnSet(g, Y \ {y})
    <3> HIDE DEF F, I
    <3> QED BY <2>3, <2>4
  <2> HIDE DEF F, I, Y, y
  <2>6. SumFunctionOnSet(g, Y) = g[y] + SumFunctionOnSet(g, Y \ {y})
    BY <2>4, SumaPaso
  <2> QED BY <2>4, <2>5, <2>6
<1>4. I(S) = R
  OBVIOUS
<1>5. F[S] = SumFunctionOnSet(g, R)
  <2> HIDE DEF I
  <2> QED BY <1>4
<1>6. \A X \in SUBSET S : \A x \in X : F[X] = f[x] + F[X \ {x}]
  BY <1>3
<1> HIDE DEF F, I
<1>7. EsSuma(F, f, S)
  BY <1>2, <1>6 DEF EsSuma
<1>8. S \in SUBSET S
  OBVIOUS
<1>9. SumFunctionOnSet(f, S) = F[S]
  BY <1>7, <1>8, SumaEs
<1> QED BY <1>5, <1>9

\* Two sums, taken member by member.
LEMMA SumaDosSumas ==
  ASSUME NEW S, IsFiniteSet(S), NEW f \in [S -> Int], NEW g \in [S -> Int], NEW h \in [S -> Int],
         \A x \in S : h[x] = f[x] - g[x]
  PROVE  SumFunctionOnSet(h, S) = SumFunctionOnSet(f, S) - SumFunctionOnSet(g, S)
<1> DEFINE F == [X \in SUBSET S |-> SumFunctionOnSet(f, X) - SumFunctionOnSet(g, X)]
<1>1. \A X \in SUBSET S : SumFunctionOnSet(f, X) \in Int /\ SumFunctionOnSet(g, X) \in Int
  BY SumaPaso
<1>2. F \in [SUBSET S -> Int] /\ F[{}] = 0
  <2>1. SumFunctionOnSet(f, {}) = 0 /\ SumFunctionOnSet(g, {}) = 0
    BY SumaPaso
  <2> QED BY <1>1, <2>1
<1>3. ASSUME NEW X \in SUBSET S, NEW x \in X
      PROVE  F[X] = h[x] + F[X \ {x}]
  <2>1. SumFunctionOnSet(f, X) = f[x] + SumFunctionOnSet(f, X \ {x})
    BY SumaPaso
  <2>2. SumFunctionOnSet(g, X) = g[x] + SumFunctionOnSet(g, X \ {x})
    BY SumaPaso
  <2>3. X \ {x} \in SUBSET S /\ x \in S /\ f[x] \in Int /\ g[x] \in Int
    OBVIOUS
  <2>4. F[X] = SumFunctionOnSet(f, X) - SumFunctionOnSet(g, X)
        /\ F[X \ {x}] = SumFunctionOnSet(f, X \ {x}) - SumFunctionOnSet(g, X \ {x})
    BY <2>3
  <2> HIDE DEF F
  <2> QED BY <1>1, <2>1, <2>2, <2>3, <2>4
<1>4. F[S] = SumFunctionOnSet(f, S) - SumFunctionOnSet(g, S)
  OBVIOUS
<1>5. \A X \in SUBSET S : \A x \in X : F[X] = h[x] + F[X \ {x}]
  BY <1>3
<1> HIDE DEF F
<1> QED BY <1>2, <1>4, <1>5, SumaComo

\* What is not in a part counts for nothing in it.
LEMMA SumaDeParte ==
  ASSUME NEW S, IsFiniteSet(S), NEW f \in [S -> Int], NEW T \in SUBSET S
  PROVE  /\ [x \in S |-> IF x \in T THEN f[x] ELSE 0] \in [S -> Int]
         /\ SumFunctionOnSet(f, T) = SumFunctionOnSet([x \in S |-> IF x \in T THEN f[x] ELSE 0], S)
<1> DEFINE h == [x \in S |-> IF x \in T THEN f[x] ELSE 0]
           F == [X \in SUBSET S |-> SumFunctionOnSet(f, X \cap T)]
<1>1. h \in [S -> Int] /\ \A x \in S : h[x] = IF x \in T THEN f[x] ELSE 0
  OBVIOUS
<1>2. \A X \in SUBSET S : SumFunctionOnSet(f, X \cap T) \in Int
  BY SumaPaso
<1>3. F \in [SUBSET S -> Int] /\ F[{}] = 0
  <2>1. SumFunctionOnSet(f, {}) = 0 /\ {} \cap T = {}
    BY SumaPaso
  <2> QED BY <1>2, <2>1
<1>4. ASSUME NEW X \in SUBSET S, NEW x \in X
      PROVE  F[X] = h[x] + F[X \ {x}]
  <2>0. F[X] = SumFunctionOnSet(f, X \cap T)
        /\ F[X \ {x}] = SumFunctionOnSet(f, (X \ {x}) \cap T)
    OBVIOUS
  <2> HIDE DEF F, h
  <2>1. CASE x \in T
    <3>1. X \cap T \in SUBSET S /\ x \in X \cap T /\ (X \ {x}) \cap T = (X \cap T) \ {x}
      BY <2>1
    <3>2. SumFunctionOnSet(f, X \cap T) = f[x] + SumFunctionOnSet(f, (X \cap T) \ {x})
      BY <3>1, SumaPaso
    <3> QED BY <1>1, <2>0, <2>1, <3>1, <3>2
  <2>2. CASE x \notin T
    <3>1. (X \ {x}) \cap T = X \cap T /\ h[x] = 0
      BY <1>1, <2>2
    <3>2. SumFunctionOnSet(f, X \cap T) \in Int
      BY <1>2
    <3>3. F[X \ {x}] = SumFunctionOnSet(f, X \cap T)
      BY <2>0, <3>1
    <3> QED BY <2>0, <3>1, <3>2, <3>3
  <2> QED BY <2>1, <2>2
<1>5. F[S] = SumFunctionOnSet(f, T)
  <2>1. S \cap T = T
    OBVIOUS
  <2> QED BY <2>1
<1>6. \A X \in SUBSET S : \A x \in X : F[X] = h[x] + F[X \ {x}]
  BY <1>4
<1> HIDE DEF F
<1>7. SumFunctionOnSet(h, S) = F[S]
  <2> HIDE DEF h
  <2> QED BY <1>1, <1>3, <1>6, SumaComo
<1> QED BY <1>1, <1>5, <1>7

\* Changing the amount of one member moves the sum by the difference.
LEMMA SumaCambia ==
  ASSUME NEW S, IsFiniteSet(S), NEW f \in [S -> Int], NEW h \in [S -> Int], NEW x \in S,
         \A y \in S \ {x} : h[y] = f[y]
  PROVE  SumFunctionOnSet(h, S) = SumFunctionOnSet(f, S) + h[x] - f[x]
<1>1. SumFunctionOnSet(f, S \ {x}) = SumFunctionOnSet(h, S \ {x})
  <2>1. S \ {x} \in SUBSET (S \cap S) /\ \A y \in S \ {x} : f[y] = h[y]
    OBVIOUS
  <2> QED BY <2>1, SumaIgual
<1>2. S \in SUBSET S /\ S \ {x} \in SUBSET S
  OBVIOUS
<1>3. SumFunctionOnSet(f, S) = f[x] + SumFunctionOnSet(f, S \ {x})
  BY <1>2, SumaPaso
<1>4. SumFunctionOnSet(h, S) = h[x] + SumFunctionOnSet(h, S \ {x})
  BY <1>2, SumaPaso
<1>5. SumFunctionOnSet(f, S \ {x}) \in Int /\ f[x] \in Int /\ h[x] \in Int
  BY <1>2, SumaPaso
<1> QED BY <1>1, <1>3, <1>4, <1>5

\* The sum of a set is that of the sums of its parts.
LEMMA SumaPorPartes ==
  ASSUME NEW S, IsFiniteSet(S), NEW f \in [S -> Int],
         NEW E, IsFiniteSet(E), NEW p \in [S -> E],
         NEW u \in [E -> Int],
         \A e \in E : u[e] = SumFunctionOnSet(f, {x \in S : p[x] = e})
  PROVE  SumFunctionOnSet(f, S) = SumFunctionOnSet(u, E)
<1> DEFINE P(X, e) == {x \in X : p[x] = e}
           U(X) == [e \in E |-> SumFunctionOnSet(f, P(X, e))]
           F == [X \in SUBSET S |-> SumFunctionOnSet(U(X), E)]
<1>1. \A X \in SUBSET S : \A e \in E : P(X, e) \in SUBSET S
  OBVIOUS
<1>2. ASSUME NEW X \in SUBSET S
      PROVE  /\ U(X) \in [E -> Int]
             /\ \A e \in E : U(X)[e] = SumFunctionOnSet(f, P(X, e))
  <2> HIDE DEF P
  <2> QED BY <1>1, SumaPaso
<1>3. F[{}] = 0
  <2>1. \A e \in E : P({}, e) = {}
    OBVIOUS
  <2>2. \A e \in E : U({})[e] = 0
    <3> HIDE DEF P
    <3> QED BY <1>2, <2>1, SumaPaso
  <2>3. F[{}] = SumFunctionOnSet(U({}), E)
    OBVIOUS
  <2>4. U({}) \in [E -> Int]
    BY <1>2
  <2> DEFINE v == U({})
             Z == [X \in SUBSET E |-> 0]
  <2>5. Z \in [SUBSET E -> Int] /\ Z[{}] = 0 /\ Z[E] = 0
        /\ \A X \in SUBSET E : \A e \in X : Z[X] = 0 + Z[X \ {e}]
    OBVIOUS
  <2>6. v \in [E -> Int] /\ \A e \in E : v[e] = 0
    BY <2>2, <2>4
  <2> HIDE DEF v, Z, F, U, P
  <2>7. \A X \in SUBSET E : \A e \in X : Z[X] = v[e] + Z[X \ {e}]
    BY <2>5, <2>6
  <2>8. SumFunctionOnSet(v, E) = Z[E]
    BY <2>5, <2>6, <2>7, SumaComo
  <2> QED BY <2>3, <2>5, <2>8 DEF v
<1>4. F \in [SUBSET S -> Int]
  <2>1. E \in SUBSET E
    OBVIOUS
  <2> HIDE DEF U, P
  <2> QED BY <1>2, <2>1, SumaPaso
<1>5. ASSUME NEW X \in SUBSET S, NEW x \in X
      PROVE  F[X] = f[x] + F[X \ {x}]
  <2> DEFINE V == X \ {x}
             v == U(X)
             w == U(V)
             y == p[x]
  <2>1. V \in SUBSET S /\ y \in E /\ f[x] \in Int
    OBVIOUS
  <2>2. P(V, y) = P(X, y) \ {x} /\ x \in P(X, y) /\ \A e \in E \ {y} : P(V, e) = P(X, e)
    OBVIOUS
  <2>3. F[X] = SumFunctionOnSet(v, E) /\ F[V] = SumFunctionOnSet(w, E)
    OBVIOUS
  <2> HIDE DEF P, F
  <2>4. v \in [E -> Int] /\ w \in [E -> Int]
    BY <1>2, <2>1
  <2>5. \A e \in E \ {y} : v[e] = w[e]
    BY <1>2, <2>1, <2>2
  <2>6. v[y] = SumFunctionOnSet(f, P(X, y)) /\ w[y] = SumFunctionOnSet(f, P(X, y) \ {x})
    BY <1>2, <2>1, <2>2
  <2>7. v[y] = f[x] + w[y]
    <3>1. P(X, y) \in SUBSET S
      BY <1>1, <2>1
    <3> HIDE DEF v, w, y, V
    <3> QED BY <2>2, <2>6, <3>1, SumaPaso
  <2> HIDE DEF v, w, y
  <2>8. SumFunctionOnSet(v, E) = SumFunctionOnSet(w, E) + v[y] - w[y]
    BY <2>1, <2>4, <2>5, SumaCambia
  <2>9. SumFunctionOnSet(w, E) \in Int /\ w[y] \in Int
    BY <2>1, <2>4, SumaPaso
  <2> QED BY <2>1, <2>3, <2>7, <2>8, <2>9
<1>6. F[S] = SumFunctionOnSet(u, E)
  <2>1. F[S] = SumFunctionOnSet(U(S), E)
    OBVIOUS
  <2>2. U(S) = u
    OBVIOUS
  <2> HIDE DEF F, U
  <2> QED BY <2>1, <2>2
<1>7. \A X \in SUBSET S : \A x \in X : F[X] = f[x] + F[X \ {x}]
  BY <1>5
<1> HIDE DEF F, U, P
<1> QED BY <1>3, <1>4, <1>6, <1>7, SumaComo

\* A sum of two.
LEMMA SumaDeDos ==
  ASSUME NEW a, NEW b, a # b, NEW f \in [{a, b} -> Int]
  PROVE  SumFunction(f) = f[a] + f[b]
<1>1. IsFiniteSet({a, b})
  <2>1. IsFiniteSet({a}) /\ {a, b} = {a} \cup {b}
    BY FS_Singleton
  <2> QED BY <2>1, FS_AddElement
<1> DEFINE S == {a, b}
           T == {b}
<1>2. S \ {a} = T /\ T \ {b} = {} /\ T \in SUBSET S /\ S \in SUBSET S
      /\ a \in S /\ b \in T /\ f[a] \in Int /\ f[b] \in Int /\ f \in [S -> Int]
  OBVIOUS
<1>3. IsFiniteSet(S) /\ SumFunction(f) = SumFunctionOnSet(f, S)
  BY <1>1, <1>2, SumaTodo
<1> HIDE DEF S, T
<1>4. SumFunctionOnSet(f, S) = f[a] + SumFunctionOnSet(f, S \ {a})
  BY <1>2, <1>3, SumaPaso
<1>5. SumFunctionOnSet(f, T) = f[b] + SumFunctionOnSet(f, T \ {b})
  BY <1>2, <1>3, SumaPaso
<1>6. SumFunctionOnSet(f, {}) = 0
  BY <1>2, <1>3, SumaPaso
<1>7. SumFunctionOnSet(f, S \ {a}) = SumFunctionOnSet(f, T)
      /\ SumFunctionOnSet(f, T \ {b}) = SumFunctionOnSet(f, {})
  BY <1>2
<1>8. SumFunctionOnSet(f, T) = f[b]
  BY <1>2, <1>5, <1>6, <1>7
<1> QED BY <1>2, <1>3, <1>4, <1>7, <1>8

-----------------------------------------------------------------------------
(* The lines of a generation                                                 *)

\* The renglon of the vacations, and the lines of one renglon.
Ultimo(e) == Len(Recibo(e).detalles) + 1
Renglon(L, e, k) == {l \in L : l.empleado = e /\ l.renglon = k}

\* A detail whose concept the payroll froze, as that books it.
Congelado(foto, d) == d.tipo # "deduction" /\ d.concepto \in DOMAIN foto.fichas

\* The lines of such a detail.
DetalleFijo(foto, e, k) ==
  LET d == Detalle(e, k)
      f == foto.fichas[d.concepto]
  IN IF ~f.contabilizable THEN {}
     ELSE IF d.tipo = "income" /\ f.invertir
     THEN Par(e, k, d.tipo, d.concepto, f.haber, f.debe, d.monto)
     ELSE Par(e, k, d.tipo, d.concepto, f.debe, f.haber, d.monto)

\* The accounts a loan may be collected in, or none.
CuentasControl ==
  {Null} \cup {escenario.prestamos[i].cuenta : i \in DOMAIN escenario.prestamos}

\* How a detail may be booked, whatever is live when it is.
DetalleCorriente(e, k, R) ==
  LET d == Detalle(e, k) IN
  d.concepto # Null /\ \E x, y \in Opcional : R = Par(e, k, d.tipo, d.concepto, x, y, d.monto)

\* As the collection of a loan.
DetalleAdelanto(foto, e, k, R) ==
  LET d == Detalle(e, k) IN
  /\ d.tipo = "deduction"
  /\ \E y \in CuentasControl : R = Par(e, k, "loan", d.concepto, foto.sueldo.haber, y, d.monto)

\* As frozen; or, of a deduction or a concept that was not, as any of the rest.
DetallePosible(foto, e, k, R) ==
  IF Congelado(foto, Detalle(e, k)) THEN R = DetalleFijo(foto, e, k)
  ELSE R = {} \/ DetalleCorriente(e, k, R) \/ DetalleAdelanto(foto, e, k, R)

\* What the lines of a whole generation are, whatever is live when it is made.
Formada(foto, L) ==
  /\ \A l \in L : l.empleado \in Empleados /\ l.renglon \in 0 .. Ultimo(l.empleado)
  /\ \A e \in Empleados :
       /\ Renglon(L, e, 0) = LineasSalario(foto, e)
       /\ \A k \in Detalles(e) : DetallePosible(foto, e, k, Renglon(L, e, k))
       /\ Renglon(L, e, Ultimo(e)) \in {{}, LineasVacaciones(foto, e)}

\* The vacations are among the lines.
ConVacaciones(foto, L) ==
  \A e \in Empleados : Renglon(L, e, Ultimo(e)) = LineasVacaciones(foto, e)

\* The loans keep what they are collected with and booked in.
PrestamosFijos ==
  /\ DOMAIN prestamos = DOMAIN escenario.prestamos
  /\ \A i \in DOMAIN prestamos : prestamos[i].cuenta = escenario.prestamos[i].cuenta

\* A renglon that is booked is one debit and one credit.
LEMMA ParDeDos ==
  ASSUME NEW e, NEW k, NEW tipo, NEW concepto, NEW debe, NEW haber, NEW monto
  PROVE  \E a, b :
           /\ a # b /\ Par(e, k, tipo, concepto, debe, haber, monto) = {a, b}
           /\ a.empleado = e /\ a.renglon = k /\ a.tipo = tipo /\ a.concepto = concepto
           /\ a.lado = "debito" /\ a.cuenta = debe /\ a.monto = monto
           /\ a.centro = Recibo(e).centro
           /\ b.empleado = e /\ b.renglon = k /\ b.tipo = tipo /\ b.concepto = concepto
           /\ b.lado = "credito" /\ b.cuenta = haber /\ b.monto = monto
           /\ b.centro = Recibo(e).centro
<1> DEFINE L(s) == [empleado |-> e, renglon |-> k, centro |-> Recibo(e).centro, tipo |-> tipo,
                    concepto |-> concepto, lado |-> s,
                    cuenta |-> IF s = "debito" THEN debe ELSE haber, monto |-> monto]
<1>1. Par(e, k, tipo, concepto, debe, haber, monto) = {L("debito"), L("credito")}
  BY DEF Par
<1>2. L("debito") # L("credito")
  <2>1. L("debito").lado # L("credito").lado
    OBVIOUS
  <2> QED BY <2>1
<1>3. /\ L("debito").empleado = e /\ L("debito").renglon = k /\ L("debito").tipo = tipo
      /\ L("debito").concepto = concepto /\ L("debito").lado = "debito"
      /\ L("debito").cuenta = debe /\ L("debito").monto = monto
      /\ L("debito").centro = Recibo(e).centro
  OBVIOUS
<1>4. /\ L("credito").empleado = e /\ L("credito").renglon = k /\ L("credito").tipo = tipo
      /\ L("credito").concepto = concepto /\ L("credito").lado = "credito"
      /\ L("credito").cuenta = haber /\ L("credito").monto = monto
      /\ L("credito").centro = Recibo(e).centro
  OBVIOUS
<1> HIDE DEF L
<1> QED BY <1>1, <1>2, <1>3, <1>4

\* Both have the key, the type and the amount of the renglon.
LEMMA ParMiembros ==
  ASSUME NEW e, NEW k, NEW tipo, NEW concepto, NEW debe, NEW haber, NEW monto
  PROVE  \A l \in Par(e, k, tipo, concepto, debe, haber, monto) :
           l.empleado = e /\ l.renglon = k /\ l.tipo = tipo /\ l.concepto = concepto
           /\ l.monto = monto
  BY ParDeDos

\* The fields of a payslip.
LEMMA RecibosTipo ==
  ASSUME escenario \in Escenario, NEW e \in Empleados
  PROVE  /\ Detalles(e) = 1 .. Len(Recibo(e).detalles) /\ Len(Recibo(e).detalles) \in Nat
         /\ \A k \in Detalles(e) :
              /\ Detalle(e, k).tipo \in {"income", "deduction", "benefit"}
              /\ Detalle(e, k).concepto \in Conceptos \cup {Null}
              /\ Detalle(e, k).monto \in Nat
         /\ Recibo(e).sueldo \in Nat /\ Recibo(e).vacaciones.monto \in Nat
         /\ Recibo(e).centro \in STRING
<1>1. Recibo(e) \in ReciboType
  BY DEF Escenario, Recibo
<1>2. Recibo(e).detalles \in Seq(DetalleType)
  BY <1>1 DEF ReciboType
<1>3. /\ Detalles(e) = 1 .. Len(Recibo(e).detalles) /\ Len(Recibo(e).detalles) \in Nat
      /\ \A k \in Detalles(e) : Detalle(e, k) \in DetalleType
  BY <1>2 DEF Detalles, Detalle
<1>4. \A k \in Detalles(e) :
        /\ Detalle(e, k).tipo \in {"income", "deduction", "benefit"}
        /\ Detalle(e, k).concepto \in Conceptos \cup {Null}
        /\ Detalle(e, k).monto \in Nat
  BY <1>3 DEF DetalleType, TiposDetalle
<1>5. /\ Recibo(e).sueldo \in Nat /\ Recibo(e).vacaciones.monto \in Nat
      /\ Recibo(e).centro \in STRING
  BY <1>1 DEF ReciboType
<1> QED BY <1>3, <1>4, <1>5

\* What the lines of the salary have in common.
LEMMA SalarioClave ==
  ASSUME NEW foto, NEW e
  PROVE  \A l \in LineasSalario(foto, e) :
           /\ l.empleado = e /\ l.renglon = 0
           /\ l.tipo = "salario_base" /\ l.concepto = Null
  BY ParMiembros DEF LineasSalario

\* What the lines of a detail have in common.
LEMMA DetalleClave ==
  ASSUME NEW foto, NEW e, NEW k
  PROVE  \A l \in LineasDetalle(foto, e, k) : l.empleado = e /\ l.renglon = k
<1>1. \A l \in LineasPrestamo(foto, e, k) : l.empleado = e /\ l.renglon = k
  BY ParMiembros DEF LineasPrestamo
<1>2. \A l \in LineasConcepto(foto, e, k) : l.empleado = e /\ l.renglon = k
  <2> DEFINE d == Detalle(e, k)
             f == Ficha(foto, d)
  <2>1. LineasConcepto(foto, e, k) \in
          {{}, Par(e, k, d.tipo, d.concepto, f.haber, f.debe, d.monto),
           Par(e, k, d.tipo, d.concepto, f.debe, f.haber, d.monto)}
    BY DEF LineasConcepto
  <2> HIDE DEF d, f
  <2> QED BY <2>1, ParMiembros
<1> QED BY <1>1, <1>2 DEF LineasDetalle

\* What the lines of the vacations have in common.
LEMMA VacacionesClave ==
  ASSUME NEW foto, NEW e
  PROVE  \A l \in LineasVacaciones(foto, e) :
           l.empleado = e /\ l.renglon = Ultimo(e) /\ l.tipo = "vacation_liability"
<1> DEFINE v == Recibo(e).vacaciones
           p == foto.politica
           n == Len(Recibo(e).detalles) + 1
<1>1. LineasVacaciones(foto, e) \in
        {{}, Par(e, n, "vacation_liability", Null, p.haber, p.debe, v.monto),
         Par(e, n, "vacation_liability", Null, p.debe, p.haber, v.monto)}
  BY DEF LineasVacaciones
<1>2. n = Ultimo(e)
  BY DEF Ultimo
<1> HIDE DEF n, v, p
<1> QED BY <1>1, <1>2, ParMiembros

\* A set of positions has a first one.
LEMMA PrimeraPosicion ==
  ASSUME NEW N \in Nat, NEW A \in SUBSET (1 .. N), A # {}
  PROVE  Min(A) \in A
<1> DEFINE M == {1 .. n : n \in A}
           S == 1 .. N
<1>1. IsFiniteSet(S) /\ M \in SUBSET SUBSET S /\ M # {}
  <2>1. IsFiniteSet(S)
    BY FS_Interval
  <2>2. \A n \in A : 1 .. n \in SUBSET S
    OBVIOUS
  <2>3. M \in SUBSET SUBSET S /\ M # {}
    BY <2>2
  <2> QED BY <2>1, <2>3
<1> HIDE DEF S
<1>2. PICK T \in M : \A U \in M : ~(U \subseteq T /\ U # T)
  <2> HIDE DEF M
  <2> QED BY <1>1, Minimo
<1>3. PICK n \in A : T = 1 .. n
  OBVIOUS
<1>4. ASSUME NEW m \in A
      PROVE  n <= m
  <2> SUFFICES ASSUME m < n PROVE FALSE
    OBVIOUS
  <2>1. 1 .. m \in M /\ 1 .. m \subseteq 1 .. n
    OBVIOUS
  <2>2. n \in 1 .. n /\ n \notin 1 .. m
    OBVIOUS
  <2> HIDE DEF M
  <2> QED BY <1>2, <1>3, <2>1, <2>2
<1>5. \E x \in A : \A y \in A : x <= y
  BY <1>4
<1> QED BY <1>5 DEF Min

\* How a generation books a detail is one of the ways it may.
LEMMA DetalleEsPosible ==
  ASSUME escenario \in Escenario, config \in ConfigType, PrestamosFijos,
         NEW foto, foto \in FotoType, NEW e \in Empleados, NEW k \in Detalles(e)
  PROVE  DetallePosible(foto, e, k, LineasDetalle(foto, e, k))
<1> DEFINE d == Detalle(e, k)
           f == Ficha(foto, d)
           R == LineasDetalle(foto, e, k)
<1>1. /\ d.tipo \in {"income", "deduction", "benefit"} /\ d.concepto \in Conceptos \cup {Null}
  BY RecibosTipo
<1>2. DOMAIN foto.fichas = escenario.catalogados /\ escenario.catalogados \subseteq Conceptos
      /\ foto.fichas \in [escenario.catalogados -> FichaType]
  BY DEF FotoType, Escenario
<1>3. CASE Congelado(foto, d)
  <2>1. d.tipo # "deduction" /\ d.concepto \in DOMAIN foto.fichas /\ d.concepto # Null
    BY <1>2, <1>3, AccountsAssumption DEF Congelado
  <2>2. ~EsPrestamo(e, d) /\ f = foto.fichas[d.concepto]
    BY <2>1 DEF EsPrestamo, Ficha
  <2>3. Invertido(foto, d) <=> d.tipo = "income" /\ foto.fichas[d.concepto].invertir
    BY <2>1, <2>2 DEF Invertido
  <2>4. R = LineasConcepto(foto, e, k)
    BY <2>2 DEF LineasDetalle
  <2>5. LineasConcepto(foto, e, k) = DetalleFijo(foto, e, k)
    BY <2>1, <2>2, <2>3 DEF LineasConcepto, DetalleFijo
  <2> QED BY <1>3, <2>4, <2>5 DEF DetallePosible
<1>4. CASE ~Congelado(foto, d) /\ EsPrestamo(e, d)
  <2>1. d.tipo = "deduction" /\ R = LineasPrestamo(foto, e, k)
    BY <1>4 DEF EsPrestamo, LineasDetalle
  <2>2. CuentaControl(e, d) \in CuentasControl
    <3> DEFINE abiertos == {i \in Adelantos(e, d) : prestamos[i].estado \in {"approved", "applied"}}
    <3>1. CASE abiertos = {}
      BY <3>1 DEF CuentaControl, CuentasControl
    <3>2. CASE abiertos # {}
      <4>1. PICK N \in Nat : DOMAIN prestamos = 1 .. N
        <5>1. escenario.prestamos \in Seq(PrestamoType)
          BY DEF Escenario
        <5> QED BY <5>1 DEF PrestamosFijos
      <4>2. Min(abiertos) \in abiertos
        <5>1. abiertos \in SUBSET (1 .. N)
          BY <4>1 DEF Adelantos
        <5> HIDE DEF abiertos
        <5> QED BY <3>2, <5>1, PrimeraPosicion
      <4>3. CuentaControl(e, d) = prestamos[Min(abiertos)].cuenta
        BY <3>2 DEF CuentaControl
      <4> DEFINE i == Min(abiertos)
      <4>4. i \in DOMAIN prestamos
        BY <4>2 DEF Adelantos
      <4> HIDE DEF i, abiertos
      <4> QED BY <4>3, <4>4 DEF PrestamosFijos, CuentasControl, i
    <3> QED BY <3>1, <3>2
  <2>3. R = Par(e, k, "loan", d.concepto, foto.sueldo.haber, CuentaControl(e, d), d.monto)
    BY <2>1 DEF LineasPrestamo
  <2>4. DetalleAdelanto(foto, e, k, R)
    BY <2>1, <2>2, <2>3 DEF DetalleAdelanto
  <2> QED BY <1>4, <2>4 DEF DetallePosible
<1>5. CASE ~Congelado(foto, d) /\ ~EsPrestamo(e, d)
  <2>1. R = LineasConcepto(foto, e, k)
    BY <1>5 DEF LineasDetalle
  <2>2. CASE d.concepto = Null \/ ~f.contabilizable
    <3>1. R = {}
      BY <2>1, <2>2 DEF LineasConcepto
    <3> QED BY <1>5, <3>1 DEF DetallePosible
  <2>3. CASE d.concepto # Null /\ f.contabilizable
    <3>1. f.debe \in Opcional /\ f.haber \in Opcional
      <4>1. f \in FichaType
        BY <1>1, <1>2, <2>3 DEF Ficha, ConfigType
      <4> QED BY <4>1 DEF FichaType
    <3>2. \/ R = Par(e, k, d.tipo, d.concepto, f.haber, f.debe, d.monto)
          \/ R = Par(e, k, d.tipo, d.concepto, f.debe, f.haber, d.monto)
      BY <2>1, <2>3 DEF LineasConcepto
    <3>3. DetalleCorriente(e, k, R)
      <4> HIDE DEF f, R
      <4> QED BY <2>3, <3>1, <3>2 DEF DetalleCorriente
    <3> QED BY <1>5, <3>3 DEF DetallePosible
  <2> QED BY <2>2, <2>3
<1> QED BY <1>3, <1>4, <1>5

\* A line of a generation is of a salary, of a detail or of vacations.
LEMMA LineasMiembros ==
  ASSUME NEW foto, NEW c \in BOOLEAN, NEW l
  PROVE  l \in Lineas(foto, c) <=>
           \E e \in Empleados :
             \/ l \in LineasSalario(foto, e)
             \/ \E k \in Detalles(e) : l \in LineasDetalle(foto, e, k)
             \/ c /\ l \in LineasVacaciones(foto, e)
<1> DEFINE V(e) == IF c THEN LineasVacaciones(foto, e) ELSE {}
<1>1. l \in Lineas(foto, c) <=> \E e \in Empleados : l \in LineasRecibo(foto, e) \/ l \in V(e)
  BY DEF Lineas
<1>2. \A e : l \in V(e) <=> c /\ l \in LineasVacaciones(foto, e)
  OBVIOUS
<1>3. \A e : l \in LineasRecibo(foto, e) <=>
        \/ l \in LineasSalario(foto, e)
        \/ \E k \in Detalles(e) : l \in LineasDetalle(foto, e, k)
  BY DEF LineasRecibo
<1> HIDE DEF V
<1> QED BY <1>1, <1>2, <1>3, Zenon

\* A generation makes whole lines, with the vacations if they were posted.
LEMMA LineasFormada ==
  ASSUME escenario \in Escenario, config \in ConfigType, PrestamosFijos,
         NEW foto, foto \in FotoType, NEW c \in BOOLEAN
  PROVE  Formada(foto, Lineas(foto, c)) /\ (c => ConVacaciones(foto, Lineas(foto, c)))
<1> DEFINE L == Lineas(foto, c)
<1>1. \A e \in Empleados : /\ Detalles(e) = 1 .. Len(Recibo(e).detalles)
                           /\ Len(Recibo(e).detalles) \in Nat
  BY RecibosTipo
<1>2. \A e \in Empleados : /\ Detalles(e) = 1 .. (Ultimo(e) - 1) /\ Ultimo(e) \in Nat
                           /\ Ultimo(e) >= 1
  BY <1>1 DEF Ultimo
<1>3. \A l \in L : \E e \in Empleados : l.empleado = e /\
        \/ l \in LineasSalario(foto, e) /\ l.renglon = 0
        \/ \E k \in Detalles(e) : l \in LineasDetalle(foto, e, k) /\ l.renglon = k
        \/ c /\ l \in LineasVacaciones(foto, e) /\ l.renglon = Ultimo(e)
  BY LineasMiembros, SalarioClave, DetalleClave, VacacionesClave
<1>4. \A e \in Empleados :
        /\ LineasSalario(foto, e) \subseteq L
        /\ \A k \in Detalles(e) : LineasDetalle(foto, e, k) \subseteq L
        /\ c => LineasVacaciones(foto, e) \subseteq L
  BY LineasMiembros
<1> HIDE DEF L
<1>5. \A l \in L : l.empleado \in Empleados /\ l.renglon \in 0 .. Ultimo(l.empleado)
  BY <1>2, <1>3
<1>6. ASSUME NEW e \in Empleados
      PROVE  Renglon(L, e, 0) = LineasSalario(foto, e)
  <2>1. \A l \in LineasSalario(foto, e) : l.empleado = e /\ l.renglon = 0
    BY SalarioClave
  <2>2. \A l \in L : l.empleado = e /\ l.renglon = 0 => l \in LineasSalario(foto, e)
    BY <1>2, <1>3
  <2> QED BY <1>4, <2>1, <2>2 DEF Renglon
<1>7. ASSUME NEW e \in Empleados, NEW k \in Detalles(e)
      PROVE  DetallePosible(foto, e, k, Renglon(L, e, k))
  <2>1. \A l \in LineasDetalle(foto, e, k) : l.empleado = e /\ l.renglon = k
    BY DetalleClave
  <2>2. \A l \in L : l.empleado = e /\ l.renglon = k => l \in LineasDetalle(foto, e, k)
    BY <1>2, <1>3
  <2>3. Renglon(L, e, k) = LineasDetalle(foto, e, k)
    BY <1>4, <2>1, <2>2 DEF Renglon
  <2> QED BY <2>3, DetalleEsPosible
<1>8. ASSUME NEW e \in Empleados
      PROVE  Renglon(L, e, Ultimo(e)) = IF c THEN LineasVacaciones(foto, e) ELSE {}
  <2>1. \A l \in LineasVacaciones(foto, e) : l.empleado = e /\ l.renglon = Ultimo(e)
    BY VacacionesClave
  <2>2. \A l \in L : l.empleado = e /\ l.renglon = Ultimo(e) =>
          c /\ l \in LineasVacaciones(foto, e)
    BY <1>2, <1>3
  <2> QED BY <1>4, <2>1, <2>2 DEF Renglon
<1>9. Formada(foto, L)
  BY <1>5, <1>6, <1>7, <1>8 DEF Formada
<1>10. c => ConVacaciones(foto, L)
  BY <1>8 DEF ConVacaciones
<1> QED BY <1>9, <1>10 DEF L

-----------------------------------------------------------------------------
(* What whole lines have in common                                           *)

\* The salary, the perceptions and the benefits as the payroll froze them.
Fijas(foto) ==
  UNION {LineasSalario(foto, e) \cup
         UNION {DetalleFijo(foto, e, k) : k \in {j \in Detalles(e) : Congelado(foto, Detalle(e, j))}} :
           e \in Empleados}

\* The type and the concept of a frozen detail.
LEMMA FijoClave ==
  ASSUME NEW foto, NEW e, NEW k
  PROVE  \A l \in DetalleFijo(foto, e, k) :
           l.tipo = Detalle(e, k).tipo /\ l.concepto = Detalle(e, k).concepto
<1> DEFINE d == Detalle(e, k)
           f == foto.fichas[d.concepto]
<1>1. DetalleFijo(foto, e, k) \in
        {{}, Par(e, k, d.tipo, d.concepto, f.haber, f.debe, d.monto),
         Par(e, k, d.tipo, d.concepto, f.debe, f.haber, d.monto)}
  BY DEF DetalleFijo
<1> HIDE DEF f
<1> QED BY <1>1, ParMiembros

\* Whole lines have, of what was frozen, all and no more.
LEMMA CongeladasFijas ==
  ASSUME escenario \in Escenario, NEW foto, foto \in FotoType, NEW L, Formada(foto, L)
  PROVE  Congeladas(foto, L) = Fijas(foto)
<1>1. ASSUME NEW l \in Congeladas(foto, L)
      PROVE  l \in Fijas(foto)
  <2> DEFINE e == l.empleado
             k == l.renglon
             d == Detalle(e, k)
  <2>1. /\ l \in L /\ l.tipo \in {"salario_base", "benefit", "income"}
        /\ l.concepto \in {Null} \cup DOMAIN foto.fichas
    BY DEF Congeladas
  <2>2. e \in Empleados /\ k \in 0 .. Ultimo(e) /\ l \in Renglon(L, e, k)
    BY <2>1 DEF Formada, Renglon
  <2>3. k = 0 \/ k \in Detalles(e) \/ k = Ultimo(e)
    <3>1. Detalles(e) = 1 .. Len(Recibo(e).detalles) /\ Len(Recibo(e).detalles) \in Nat
      BY <2>2, RecibosTipo
    <3> HIDE DEF e, k
    <3> QED BY <2>2, <3>1 DEF Ultimo
  <2> HIDE DEF e, k
  <2>4. CASE k = 0
    <3>1. l \in LineasSalario(foto, e)
      BY <2>2, <2>4 DEF Formada
    <3> QED BY <2>2, <3>1 DEF Fijas
  <2>5. CASE k \in Detalles(e)
    <3>1. DetallePosible(foto, e, k, Renglon(L, e, k))
      BY <2>2, <2>5 DEF Formada
    <3>2. CASE Congelado(foto, d)
      <4>1. l \in DetalleFijo(foto, e, k)
        BY <2>2, <3>1, <3>2 DEF DetallePosible
      <4> QED BY <2>2, <2>5, <3>2, <4>1 DEF Fijas
    <3>3. CASE ~Congelado(foto, d)
      <4>1. DetalleCorriente(e, k, Renglon(L, e, k)) \/ DetalleAdelanto(foto, e, k, Renglon(L, e, k))
        BY <2>2, <3>1, <3>3 DEF DetallePosible
      <4>2. ~DetalleAdelanto(foto, e, k, Renglon(L, e, k))
        BY <2>1, <2>2, ParMiembros DEF DetalleAdelanto
      <4>3. d.concepto # Null /\ l.tipo = d.tipo /\ l.concepto = d.concepto
        BY <2>2, <4>1, <4>2, ParMiembros DEF DetalleCorriente
      <4> QED BY <2>1, <3>3, <4>3 DEF Congelado
    <3> QED BY <3>2, <3>3
  <2>6. CASE k = Ultimo(e)
    <3>1. l \in LineasVacaciones(foto, e)
      BY <2>2, <2>6 DEF Formada
    <3>2. l.tipo = "vacation_liability"
      BY <3>1, VacacionesClave
    <3> QED BY <2>1, <3>2
  <2> QED BY <2>3, <2>4, <2>5, <2>6
<1>2. ASSUME NEW l \in Fijas(foto)
      PROVE  l \in Congeladas(foto, L)
  <2>1. PICK e \in Empleados :
          \/ l \in LineasSalario(foto, e)
          \/ \E k \in Detalles(e) : Congelado(foto, Detalle(e, k)) /\ l \in DetalleFijo(foto, e, k)
    BY DEF Fijas
  <2>2. CASE l \in LineasSalario(foto, e)
    <3>1. l \in L
      BY <2>2 DEF Formada, Renglon
    <3>2. l.tipo = "salario_base" /\ l.concepto = Null
      BY <2>2, SalarioClave
    <3> QED BY <3>1, <3>2 DEF Congeladas
  <2>3. CASE \E k \in Detalles(e) : Congelado(foto, Detalle(e, k)) /\ l \in DetalleFijo(foto, e, k)
    <3>1. PICK k \in Detalles(e) : Congelado(foto, Detalle(e, k)) /\ l \in DetalleFijo(foto, e, k)
      BY <2>3
    <3>2. Renglon(L, e, k) = DetalleFijo(foto, e, k)
      BY <3>1 DEF Formada, DetallePosible
    <3>3. l \in L
      BY <3>1, <3>2 DEF Renglon
    <3>4. l.tipo = Detalle(e, k).tipo /\ l.concepto = Detalle(e, k).concepto
      BY <3>1, FijoClave
    <3>5. Detalle(e, k).tipo \in {"income", "deduction", "benefit"}
      BY RecibosTipo
    <3> QED BY <3>1, <3>3, <3>4, <3>5 DEF Congeladas, Congelado
  <2> QED BY <2>1, <2>2, <2>3
<1> QED BY <1>1, <1>2

\* A line of a payslip is missing with its pair, or has it.
EsPar(e, k, R) ==
  \/ R = {}
  \/ \E tipo, concepto, debe, haber, monto :
       monto \in Nat /\ R = Par(e, k, tipo, concepto, debe, haber, monto)

\* Whole lines have of each renglon a pair or nothing.
LEMMA RenglonEsPar ==
  ASSUME escenario \in Escenario, NEW foto, NEW L, Formada(foto, L),
         NEW e \in Empleados, NEW k \in 0 .. Ultimo(e)
  PROVE  EsPar(e, k, Renglon(L, e, k))
<1>1. /\ Detalles(e) = 1 .. Len(Recibo(e).detalles) /\ Len(Recibo(e).detalles) \in Nat
      /\ Recibo(e).sueldo \in Nat /\ Recibo(e).vacaciones.monto \in Nat
      /\ \A j \in Detalles(e) : Detalle(e, j).monto \in Nat
  BY RecibosTipo
<1>2. k = 0 \/ k \in Detalles(e) \/ k = Ultimo(e)
  BY <1>1 DEF Ultimo
<1>3. CASE k = 0
  BY <1>1, <1>3 DEF Formada, LineasSalario, EsPar
<1>4. CASE k \in Detalles(e)
  <2>1. DetallePosible(foto, e, k, Renglon(L, e, k))
    BY <1>4 DEF Formada
  <2> DEFINE R == Renglon(L, e, k)
             d == Detalle(e, k)
             f == foto.fichas[d.concepto]
  <2>2. d.monto \in Nat
    BY <1>1, <1>4
  <2> HIDE DEF R
  <2>3. CASE R = DetalleFijo(foto, e, k)
    <3>1. R \in {{}, Par(e, k, d.tipo, d.concepto, f.haber, f.debe, d.monto),
                 Par(e, k, d.tipo, d.concepto, f.debe, f.haber, d.monto)}
      BY <2>3 DEF DetalleFijo
    <3> HIDE DEF f, d
    <3> QED BY <2>2, <3>1 DEF EsPar, R
  <2>4. CASE DetalleCorriente(e, k, R)
    BY <2>2, <2>4 DEF DetalleCorriente, EsPar, R
  <2>5. CASE DetalleAdelanto(foto, e, k, R)
    BY <2>2, <2>5 DEF DetalleAdelanto, EsPar, R
  <2>6. CASE R = {}
    BY <2>6 DEF EsPar, R
  <2> QED BY <2>1, <2>3, <2>4, <2>5, <2>6 DEF DetallePosible, R
<1>5. CASE k = Ultimo(e)
  <2> DEFINE R == Renglon(L, e, k)
             v == Recibo(e).vacaciones
             p == foto.politica
  <2>1. R = {} \/ R = LineasVacaciones(foto, e)
    BY <1>5 DEF Formada
  <2>2. R \in {{}, Par(e, k, "vacation_liability", Null, p.haber, p.debe, v.monto),
               Par(e, k, "vacation_liability", Null, p.debe, p.haber, v.monto)}
    <3> HIDE DEF R
    <3> QED BY <1>5, <2>1 DEF LineasVacaciones, Ultimo
  <2>3. v.monto \in Nat
    BY <1>1
  <2> HIDE DEF p, v, R
  <2> QED BY <2>2, <2>3 DEF EsPar, R
<1> QED BY <1>2, <1>3, <1>4, <1>5

\* What is in one of finitely many finite sets is finite.
LEMMA UnionFinita ==
  ASSUME NEW S, IsFiniteSet(S), NEW P, NEW g \in [S -> P], \A x \in S : IsFiniteSet(g[x]),
         NEW U, \A u \in U : \E x \in S : u \in g[x]
  PROVE  IsFiniteSet(U)
<1> DEFINE T == {g[x] : x \in S}
<1>1. g \in Surjection(S, T)
  BY DEF Surjection
<1>2. \A t \in T : IsFiniteSet(t)
  OBVIOUS
<1> HIDE DEF T
<1>3. IsFiniteSet(T)
  BY <1>1, FS_Surjection
<1>4. IsFiniteSet(UNION T)
  BY <1>2, <1>3, FS_UNION
<1>5. U \subseteq UNION T
  BY DEF T
<1> QED BY <1>4, <1>5, FS_Subset

\* A pair, or nothing, is finite.
LEMMA ParFinito ==
  ASSUME NEW e, NEW k, NEW R, EsPar(e, k, R)
  PROVE  IsFiniteSet(R)
<1>1. \A a, b : IsFiniteSet({a, b})
  <2> TAKE a, b
  <2>1. IsFiniteSet({a}) /\ {a, b} = {a} \cup {b}
    BY FS_Singleton
  <2> QED BY <2>1, FS_AddElement
<1>2. CASE R = {}
  BY <1>2, FS_EmptySet
<1>3. CASE R # {}
  <2>1. PICK tipo, concepto, debe, haber, monto : monto \in Nat /\
          R = Par(e, k, tipo, concepto, debe, haber, monto)
    BY <1>3 DEF EsPar
  <2> DEFINE Q == Par(e, k, tipo, concepto, debe, haber, monto)
  <2>2. \E a, b : /\ Q = {a, b} /\ a.lado = "debito" /\ b.lado = "credito"
                  /\ a.monto = monto /\ b.monto = monto
    BY ParDeDos
  <2> HIDE DEF Q
  <2>3. PICK a, b : Q = {a, b}
    BY <2>2
  <2> QED BY <1>1, <2>1, <2>3 DEF Q
<1> QED BY <1>2, <1>3

\* Whole lines are finitely many.
LEMMA LineasFinitas ==
  ASSUME escenario \in Escenario, NEW foto, NEW L, Formada(foto, L)
  PROVE  IsFiniteSet(L)
<1> DEFINE D(e) == {l \in L : l.empleado = e}
           g(e) == [k \in 0 .. Ultimo(e) |-> Renglon(L, e, k)]
           h == [e \in Empleados |-> D(e)]
<1>1. ASSUME NEW e \in Empleados
      PROVE  IsFiniteSet(D(e))
  <2> DEFINE S == 0 .. Ultimo(e)
             G == g(e)
  <2>1. IsFiniteSet(S)
    <3>1. Ultimo(e) \in Int
      BY RecibosTipo DEF Ultimo
    <3> QED BY <3>1, FS_Interval
  <2>2. G \in [S -> SUBSET L]
    BY DEF Renglon
  <2>3. \A k \in S : IsFiniteSet(G[k])
    <3>1. \A k \in S : EsPar(e, k, Renglon(L, e, k))
      BY RenglonEsPar
    <3>2. \A k \in S : IsFiniteSet(Renglon(L, e, k))
      BY <3>1, ParFinito
    <3> QED BY <3>2
  <2>4. \A l \in D(e) : \E k \in S : l \in G[k]
    <3>1. \A l \in L : l.empleado = e => l.renglon \in S /\ l \in Renglon(L, e, l.renglon)
      BY DEF Formada, Renglon
    <3>2. \A k \in S : G[k] = Renglon(L, e, k)
      OBVIOUS
    <3> HIDE DEF G, S
    <3> QED BY <3>1, <3>2
  <2> HIDE DEF S, G, D
  <2> QED BY <2>1, <2>2, <2>3, <2>4, UnionFinita
<1>2. h \in [Empleados -> SUBSET L] /\ \A e \in Empleados : h[e] = D(e)
  OBVIOUS
<1>3. \A l \in L : \E e \in Empleados : l \in h[e]
  BY DEF Formada
<1>4. \A e \in Empleados : IsFiniteSet(h[e])
  BY <1>1, <1>2
<1> HIDE DEF h
<1> QED BY <1>2, <1>3, <1>4, UnionFinita, EscenariosAssumption

\* Each line has its pair, and no other line on its side.
LEMMA Pareja ==
  ASSUME escenario \in Escenario, NEW foto, NEW L, Formada(foto, L), NEW l \in L
  PROVE  /\ l.monto \in Nat /\ l.lado \in {"debito", "credito"}
         /\ \A m \in L : /\ m.empleado = l.empleado /\ m.renglon = l.renglon
                         /\ m.lado = l.lado
                         => m = l
         /\ \E m \in L : /\ m.empleado = l.empleado /\ m.renglon = l.renglon
                         /\ m.lado # l.lado /\ m.monto = l.monto
<1> DEFINE e == l.empleado
           k == l.renglon
<1>1. e \in Empleados /\ k \in 0 .. Ultimo(e) /\ l \in Renglon(L, e, k)
  BY DEF Formada, Renglon
<1> HIDE DEF e, k
<1>2. EsPar(e, k, Renglon(L, e, k))
  BY <1>1, RenglonEsPar
<1>3. PICK tipo, concepto, debe, haber, monto : monto \in Nat /\
        Renglon(L, e, k) = Par(e, k, tipo, concepto, debe, haber, monto)
  BY <1>1, <1>2 DEF EsPar
<1>4. PICK a, b : /\ Renglon(L, e, k) = {a, b} /\ a.lado = "debito" /\ b.lado = "credito"
                  /\ a.monto = monto /\ b.monto = monto
  BY <1>3, ParDeDos
<1>5. a \in L /\ b \in L /\ a.empleado = e /\ a.renglon = k /\ b.empleado = e /\ b.renglon = k
  BY <1>4 DEF Renglon
<1>6. \A m \in L : m.empleado = e /\ m.renglon = k => m = a \/ m = b
  BY <1>4 DEF Renglon
<1>7. l = a \/ l = b
  BY <1>1, <1>4
<1>8. l.monto \in Nat /\ l.lado \in {"debito", "credito"}
  BY <1>3, <1>4, <1>7
<1> QED BY <1>4, <1>5, <1>6, <1>7, <1>8 DEF e, k

\* Whole lines balance.
LEMMA Balance ==
  ASSUME escenario \in Escenario, NEW foto, NEW L, Formada(foto, L)
  PROVE  Lado(L, "debito") = Lado(L, "credito")
<1> DEFINE D == {l \in L : l.lado = "debito"}
           C == {l \in L : l.lado = "credito"}
           f == [l \in D |-> l.monto]
           g == [l \in C |-> l.monto]
           Par2(l, m) == m.empleado = l.empleado /\ m.renglon = l.renglon
           b == [l \in D |-> CHOOSE m \in C : Par2(l, m)]
<1>1. IsFiniteSet(D) /\ IsFiniteSet(C)
  BY LineasFinitas, FS_Subset
<1>2. f \in [D -> Int] /\ g \in [C -> Int]
  BY Pareja
<1>3. \A l \in D : \E m \in C : Par2(l, m)
  BY Pareja
<1>4. \A l \in D : b[l] \in C /\ Par2(l, b[l])
  BY <1>3
<1>5. \A l, m \in D : Par2(l, m) => m = l
  BY Pareja
<1>6. \A l, m \in C : Par2(l, m) => m = l
  BY Pareja
<1>7. \A m \in C : \E l \in D : Par2(m, l)
  BY Pareja
<1>8. b \in [D -> C]
  BY <1>4
<1> HIDE DEF b
<1>9. \A x, y \in D : b[x] = b[y] => x = y
  BY <1>4, <1>5
<1>10. \A y \in C : \E x \in D : b[x] = y
  BY <1>4, <1>6, <1>7
<1>11. \A x \in D : f[x] = g[b[x]]
  <2> TAKE x \in D
  <2>1. PICK m \in C : Par2(x, m) /\ m.monto = x.monto
    BY Pareja
  <2>2. m = b[x]
    BY <1>4, <1>6, <2>1
  <2> QED BY <1>4, <2>1, <2>2
<1>12. Lado(L, "debito") = SumFunctionOnSet(f, D) /\ Lado(L, "credito") = SumFunctionOnSet(g, C)
  <2>1. Lado(L, "debito") = SumFunction(f) /\ Lado(L, "credito") = SumFunction(g)
    BY DEF Lado, Montos
  <2> HIDE DEF f, g, D, C
  <2> QED BY <1>2, <2>1, SumaTodo
<1> HIDE DEF f, g, D, C
<1> QED BY <1>1, <1>2, <1>8, <1>9, <1>10, <1>11, <1>12, SumaBiyeccion

\* A pair adds up to twice its amount.
LEMMA SumaDelPar ==
  ASSUME NEW e, NEW k, NEW tipo, NEW concepto, NEW debe, NEW haber, NEW monto \in Int
  PROVE  Montos(Par(e, k, tipo, concepto, debe, haber, monto)) = 2 * monto
<1> DEFINE R == Par(e, k, tipo, concepto, debe, haber, monto)
<1>1. \E a, b : /\ a # b /\ R = {a, b} /\ a.lado = "debito" /\ b.lado = "credito"
                /\ a.monto = monto /\ b.monto = monto
  BY ParDeDos
<1> HIDE DEF R
<1>2. PICK a, b : a # b /\ R = {a, b} /\ a.monto = monto /\ b.monto = monto
  BY <1>1
<1> DEFINE f == [l \in {a, b} |-> l.monto]
<1>3. f \in [{a, b} -> Int] /\ f[a] = monto /\ f[b] = monto
  BY <1>2
<1>4. Montos(R) = SumFunction(f)
  BY <1>2 DEF Montos
<1> HIDE DEF f
<1>5. Montos(R) = f[a] + f[b]
  BY <1>2, <1>3, <1>4, SumaDeDos
<1> QED BY <1>3, <1>5 DEF R

\* No lines add up to nothing.
LEMMA SumaVacia == Montos({}) = 0
<1> DEFINE f == [l \in {} |-> l.monto]
           S == {}
<1>1. S \in SUBSET S /\ f \in [S -> Int] /\ IsFiniteSet(S)
  BY FS_EmptySet
<1>2. Montos({}) = SumFunction(f)
  BY DEF Montos
<1>3. SumFunction(f) = SumFunctionOnSet(f, {}) /\ SumFunctionOnSet(f, {}) = 0
  <2> HIDE DEF f
  <2>1. SumFunction(f) = SumFunctionOnSet(f, S)
    <3> HIDE DEF S
    <3> QED BY <1>1, SumaTodo
  <2>2. SumFunctionOnSet(f, {}) = 0
    <3> HIDE DEF S
    <3> QED BY <1>1, SumaPaso
  <2> QED BY <2>1, <2>2
<1> QED BY <1>2, <1>3

\* Only its salary is of the salary, and only its vacations of the vacations.
LEMMA TipoDeRenglon ==
  ASSUME escenario \in Escenario, NEW foto, NEW L, Formada(foto, L), NEW l \in L
  PROVE  /\ l.tipo = "salario_base" <=> l.renglon = 0
         /\ l.tipo = "vacation_liability" <=> l.renglon = Ultimo(l.empleado)
<1> DEFINE e == l.empleado
           k == l.renglon
           R == Renglon(L, e, k)
<1>1. e \in Empleados /\ k \in 0 .. Ultimo(e) /\ l \in R
  BY DEF Formada, Renglon
<1> HIDE DEF e, k, R
<1>2. /\ Detalles(e) = 1 .. Len(Recibo(e).detalles) /\ Len(Recibo(e).detalles) \in Nat
      /\ \A j \in Detalles(e) : Detalle(e, j).tipo \in {"income", "deduction", "benefit"}
  BY <1>1, RecibosTipo
<1>3. k \in Int /\ Ultimo(e) \in Int /\ Ultimo(e) >= 1 /\ (k # 0 /\ k # Ultimo(e) => k \in Detalles(e))
      /\ (k \in Detalles(e) => k # 0 /\ k # Ultimo(e))
  BY <1>1, <1>2 DEF Ultimo
<1>4. CASE k = 0
  <2>1. l \in LineasSalario(foto, e)
    BY <1>1, <1>4 DEF Formada, R
  <2>2. l.tipo = "salario_base"
    BY <2>1, SalarioClave
  <2> QED BY <1>3, <1>4, <2>2 DEF k, e
<1>5. CASE k = Ultimo(e)
  <2>1. l \in LineasVacaciones(foto, e)
    BY <1>1, <1>5 DEF Formada, R
  <2>2. l.tipo = "vacation_liability"
    BY <2>1, VacacionesClave
  <2> QED BY <1>3, <1>5, <2>2 DEF k, e
<1>6. CASE k \in Detalles(e)
  <2>1. DetallePosible(foto, e, k, R)
    BY <1>1, <1>6 DEF Formada, R
  <2>2. l.tipo = Detalle(e, k).tipo \/ l.tipo = "loan"
    <3>1. CASE R = DetalleFijo(foto, e, k)
      BY <1>1, <3>1, FijoClave
    <3>2. CASE DetalleCorriente(e, k, R)
      BY <1>1, <3>2, ParMiembros DEF DetalleCorriente
    <3>3. CASE DetalleAdelanto(foto, e, k, R)
      BY <1>1, <3>3, ParMiembros DEF DetalleAdelanto
    <3> QED BY <1>1, <2>1, <3>1, <3>2, <3>3 DEF DetallePosible
  <2>3. l.tipo # "salario_base" /\ l.tipo # "vacation_liability"
    BY <1>2, <1>6, <2>2
  <2> QED BY <1>3, <1>6, <2>3 DEF k, e
<1> QED BY <1>3, <1>4, <1>5, <1>6

\* Whole lines have the salary of each payslip on both sides.
LEMMA SalarioEnLineas ==
  ASSUME escenario \in Escenario, NEW foto, NEW L, Formada(foto, L), NEW e \in Empleados
  PROVE  DeTipo(L, e, "salario_base") = 2 * Recibo(e).sueldo
<1>1. {l \in Detallado(L, e) : l.tipo = "salario_base"} = Renglon(L, e, 0)
  BY TipoDeRenglon DEF Detallado, Renglon
<1>2. Renglon(L, e, 0) = LineasSalario(foto, e)
  BY DEF Formada
<1>3. Recibo(e).sueldo \in Int
  BY RecibosTipo
<1>4. DeTipo(L, e, "salario_base") = Montos(LineasSalario(foto, e))
  BY <1>1, <1>2 DEF DeTipo
<1>5. Montos(LineasSalario(foto, e)) = 2 * Recibo(e).sueldo
  BY <1>3, SumaDelPar DEF LineasSalario
<1> QED BY <1>4, <1>5

\* With the vacations they have them on both sides too.
LEMMA VacacionesEnLineas ==
  ASSUME escenario \in Escenario, NEW foto, NEW L, Formada(foto, L), ConVacaciones(foto, L),
         NEW e \in Empleados, Recibo(e).vacaciones.entrada # "none", foto.politica.pagadas
  PROVE  DeTipo(L, e, "vacation_liability") = 2 * Recibo(e).vacaciones.monto
<1> DEFINE v == Recibo(e).vacaciones
           p == foto.politica
           V == LineasVacaciones(foto, e)
<1>1. {l \in Detallado(L, e) : l.tipo = "vacation_liability"} = Renglon(L, e, Ultimo(e))
  BY TipoDeRenglon DEF Detallado, Renglon
<1>2. Renglon(L, e, Ultimo(e)) = V
  BY DEF ConVacaciones
<1>3. DeTipo(L, e, "vacation_liability") = Montos(V)
  BY <1>1, <1>2 DEF DeTipo
<1>4. v.monto \in Nat
  BY RecibosTipo
<1>5. CASE v.monto = 0
  <2>1. V = {}
    BY <1>5 DEF LineasVacaciones
  <2>2. Montos(V) = 0
    <3> HIDE DEF V
    <3> QED BY <2>1, SumaVacia
  <2> QED BY <1>3, <1>5, <2>2
<1>6. CASE v.monto # 0
  <2>1. \/ V = Par(e, Len(Recibo(e).detalles) + 1, "vacation_liability", Null, p.haber, p.debe, v.monto)
        \/ V = Par(e, Len(Recibo(e).detalles) + 1, "vacation_liability", Null, p.debe, p.haber, v.monto)
    BY <1>4, <1>6 DEF LineasVacaciones
  <2> HIDE DEF V, p
  <2>2. Montos(V) = 2 * v.monto
    <3> DEFINE m == v.monto
    <3>1. m \in Int
      BY <1>4
    <3>2. \/ V = Par(e, Len(Recibo(e).detalles) + 1, "vacation_liability", Null, p.haber, p.debe, m)
          \/ V = Par(e, Len(Recibo(e).detalles) + 1, "vacation_liability", Null, p.debe, p.haber, m)
      BY <2>1
    <3> HIDE DEF m, v
    <3>3. Montos(V) = 2 * m
      BY <3>1, <3>2, SumaDelPar
    <3> QED BY <3>3 DEF m
  <2> QED BY <1>3, <2>2
<1> QED BY <1>5, <1>6

\* What whole lines are does not change with the accounts or the loans.
LEMMA Estable ==
  ASSUME UNCHANGED escenario
  PROVE  \A foto, L : /\ Formada(foto, L)' <=> Formada(foto, L)
                      /\ ConVacaciones(foto, L)' <=> ConVacaciones(foto, L)
                      /\ Fijas(foto)' = Fijas(foto)
                      /\ (foto \in FotoType)' <=> foto \in FotoType
<1> USE DEF Recibo, Par, Ultimo, Detalle, Detalles
<1>1. \A foto, L : ConVacaciones(foto, L)' <=> ConVacaciones(foto, L)
  BY DEF ConVacaciones, LineasVacaciones, Renglon
<1>2. \A foto, L : Formada(foto, L)' <=> Formada(foto, L)
  BY DEF Formada, LineasVacaciones, Renglon, DetallePosible, DetalleFijo, Congelado,
         LineasSalario, DetalleCorriente, DetalleAdelanto, CuentasControl
<1>3. \A foto : Fijas(foto)' = Fijas(foto)
  BY DEF Fijas, Congelado, DetalleFijo, LineasSalario
<1>4. \A foto : (foto \in FotoType)' <=> foto \in FotoType
  BY DEF FotoType
<1> QED BY <1>1, <1>2, <1>3, <1>4

-----------------------------------------------------------------------------
(* Types                                                                     *)

\* A sum of natural numbers is one.
LEMMA SumaNatural ==
  ASSUME NEW S, IsFiniteSet(S), NEW f \in [S -> Nat]
  PROVE  SumFunction(f) \in Nat
<1> DEFINE M == {T \in SUBSET S : SumFunctionOnSet(f, T) \notin Nat}
<1>0. f \in [S -> Int]
  OBVIOUS
<1>1. M = {}
  <2> SUFFICES ASSUME M # {} PROVE FALSE
    OBVIOUS
  <2>1. PICK T \in M : \A U \in M : ~(U \subseteq T /\ U # T)
    <3>1. M \in SUBSET SUBSET S
      OBVIOUS
    <3> HIDE DEF M
    <3> QED BY <3>1, Minimo
  <2>2. T \in SUBSET S /\ SumFunctionOnSet(f, T) \notin Nat
    OBVIOUS
  <2>3. SumFunctionOnSet(f, {}) = 0
    BY <1>0, <2>2, SumaPaso
  <2>4. PICK x \in T : TRUE
    BY <2>2, <2>3
  <2>5. SumFunctionOnSet(f, T) = f[x] + SumFunctionOnSet(f, T \ {x})
    BY <1>0, <2>2, SumaPaso
  <2>6. T \ {x} \notin M /\ T \ {x} \in SUBSET S
    BY <2>1, <2>4
  <2> QED BY <2>2, <2>5, <2>6
<1>2. SumFunction(f) = SumFunctionOnSet(f, S)
  BY <1>0, SumaTodo
<1> QED BY <1>1, <1>2

\* The lines of a renglon have their type.
LEMMA ParTipo ==
  ASSUME escenario \in Escenario, NEW e \in Empleados, NEW k \in Nat, NEW tipo \in TiposLinea,
         NEW concepto \in Conceptos \cup {Null}, NEW debe \in Opcional, NEW haber \in Opcional,
         NEW monto \in Nat
  PROVE  Par(e, k, tipo, concepto, debe, haber, monto) \subseteq LineaType
<1>1. Recibo(e).centro \in STRING
  BY RecibosTipo
<1> QED BY <1>1 DEF Par, LineaType

\* The lines of a generation have their type.
LEMMA LineasTipo ==
  ASSUME escenario \in Escenario, config \in ConfigType, prestamos \in Seq(PrestamoType),
         NEW foto, foto \in FotoType, NEW c \in BOOLEAN
  PROVE  Lineas(foto, c) \subseteq LineaType
<1>1. /\ foto.fichas \in [escenario.catalogados -> FichaType]
      /\ foto.sueldo \in ParCuentas /\ foto.politica \in PoliticaType
      /\ escenario.catalogados \subseteq Conceptos
  BY DEF FotoType, Escenario
<1>2. /\ foto.sueldo.debe \in Opcional /\ foto.sueldo.haber \in Opcional
      /\ foto.politica.debe \in Opcional /\ foto.politica.haber \in Opcional
  BY <1>1 DEF ParCuentas, PoliticaType
<1>3. ASSUME NEW e \in Empleados
      PROVE  LineasSalario(foto, e) \subseteq LineaType
  <2>1. Recibo(e).sueldo \in Nat /\ "salario_base" \in TiposLinea
    BY RecibosTipo DEF TiposLinea
  <2> QED BY <1>2, <2>1, ParTipo DEF LineasSalario
<1>4. ASSUME NEW e \in Empleados
      PROVE  LineasVacaciones(foto, e) \subseteq LineaType
  <2> DEFINE v == Recibo(e).vacaciones
             p == foto.politica
             n == Len(Recibo(e).detalles) + 1
  <2>1. LineasVacaciones(foto, e) \in
          {{}, Par(e, n, "vacation_liability", Null, p.haber, p.debe, v.monto),
           Par(e, n, "vacation_liability", Null, p.debe, p.haber, v.monto)}
    BY DEF LineasVacaciones
  <2>2. n \in Nat /\ v.monto \in Nat /\ p.debe \in Opcional /\ p.haber \in Opcional
        /\ "vacation_liability" \in TiposLinea
    BY <1>2, RecibosTipo DEF TiposLinea
  <2> DEFINE m == v.monto
             x == p.debe
             y == p.haber
             T == "vacation_liability"
  <2>3. /\ n \in Nat /\ m \in Nat /\ x \in Opcional /\ y \in Opcional /\ T \in TiposLinea
        /\ Null \in Conceptos \cup {Null}
        /\ LineasVacaciones(foto, e) \in {{}, Par(e, n, T, Null, y, x, m), Par(e, n, T, Null, x, y, m)}
    BY <2>1, <2>2
  <2> HIDE DEF n, v, p, m, x, y, T
  <2>4. Par(e, n, T, Null, y, x, m) \subseteq LineaType
    BY <2>3, ParTipo
  <2>5. Par(e, n, T, Null, x, y, m) \subseteq LineaType
    BY <2>3, ParTipo
  <2> QED BY <2>3, <2>4, <2>5
<1>5. ASSUME NEW e \in Empleados, NEW k \in Detalles(e)
      PROVE  LineasDetalle(foto, e, k) \subseteq LineaType
  <2> DEFINE d == Detalle(e, k)
             f == Ficha(foto, d)
             y == CuentaControl(e, d)
  <2>1. /\ k \in Nat /\ d.tipo \in TiposLinea /\ d.concepto \in Conceptos \cup {Null}
        /\ d.monto \in Nat
    BY RecibosTipo DEF TiposLinea, TiposDetalle
  <2>2. y \in Opcional
    <3> DEFINE A == {i \in Adelantos(e, d) : prestamos[i].estado \in {"approved", "applied"}}
    <3>1. CASE A = {}
      BY <3>1 DEF CuentaControl, Opcional
    <3>2. CASE A # {}
      <4>1. DOMAIN prestamos = 1 .. Len(prestamos) /\ Len(prestamos) \in Nat
        OBVIOUS
      <4>2. A \in SUBSET (1 .. Len(prestamos))
        BY <4>1 DEF Adelantos
      <4>3. y = prestamos[Min(A)].cuenta
        BY <3>2 DEF CuentaControl
      <4> HIDE DEF A, y
      <4>4. Min(A) \in 1 .. Len(prestamos)
        BY <3>2, <4>1, <4>2, PrimeraPosicion
      <4>5. prestamos[Min(A)] \in PrestamoType
        BY <4>1, <4>4
      <4> QED BY <4>3, <4>5 DEF PrestamoType
    <3> QED BY <3>1, <3>2
  <2>3. LineasPrestamo(foto, e, k) \subseteq LineaType
    <3>1. LineasPrestamo(foto, e, k) = Par(e, k, "loan", d.concepto, foto.sueldo.haber, y, d.monto)
      BY DEF LineasPrestamo
    <3>2. "loan" \in TiposLinea
      BY DEF TiposLinea
    <3> DEFINE h == foto.sueldo.haber
               T == "loan"
               a == d.concepto
               m == d.monto
    <3>3. /\ h \in Opcional /\ T \in TiposLinea /\ a \in Conceptos \cup {Null} /\ m \in Nat
          /\ y \in Opcional /\ k \in Nat /\ LineasPrestamo(foto, e, k) = Par(e, k, T, a, h, y, m)
      BY <1>2, <2>1, <2>2, <3>1, <3>2
    <3> HIDE DEF d, y, h, T, a, m
    <3>4. Par(e, k, T, a, h, y, m) \subseteq LineaType
      BY <3>3, ParTipo
    <3> QED BY <3>3, <3>4
  <2>4. LineasConcepto(foto, e, k) \subseteq LineaType
    <3>1. LineasConcepto(foto, e, k) # {} =>
            /\ d.concepto \in Conceptos
            /\ LineasConcepto(foto, e, k) \in
                 {Par(e, k, d.tipo, d.concepto, f.haber, f.debe, d.monto),
                  Par(e, k, d.tipo, d.concepto, f.debe, f.haber, d.monto)}
      BY <2>1 DEF LineasConcepto
    <3>2. d.concepto \in Conceptos => f.debe \in Opcional /\ f.haber \in Opcional
      <4>1. d.concepto \in Conceptos => f \in FichaType
        BY <1>1 DEF Ficha, ConfigType
      <4> QED BY <4>1 DEF FichaType
    <3> HIDE DEF d, f
    <3> QED BY <2>1, <3>1, <3>2, ParTipo
  <2> QED BY <2>3, <2>4 DEF LineasDetalle
<1>6. \A l \in Lineas(foto, c) : \E e \in Empleados :
        \/ l \in LineasSalario(foto, e)
        \/ \E k \in Detalles(e) : l \in LineasDetalle(foto, e, k)
        \/ c /\ l \in LineasVacaciones(foto, e)
  BY LineasMiembros
<1> QED BY <1>3, <1>4, <1>5, <1>6

\* The total of a side is a natural number.
LEMMA LadoTipo ==
  ASSUME NEW L \in SUBSET LineaType, IsFiniteSet(L), NEW lado
  PROVE  Lado(L, lado) \in Nat
<1> DEFINE S == {l \in L : l.lado = lado}
           f == [l \in S |-> l.monto]
<1>1. IsFiniteSet(S) /\ f \in [S -> Nat]
  BY FS_Subset DEF LineaType
<1>2. Lado(L, lado) = SumFunction(f)
  BY DEF Lado, Montos
<1> HIDE DEF f, S
<1> QED BY <1>1, <1>2, SumaNatural

\* The header of such lines has its type.
LEMMA CabeceraTipo ==
  ASSUME NEW L \in SUBSET LineaType, IsFiniteSet(L), NEW aplicado \in BOOLEAN
  PROVE  Cabecera(L, aplicado) \in ComprobanteType
<1> DEFINE d == Lado(L, "debito")
           c == Lado(L, "credito")
           w == ConfiguracionIncompleta \/ HayNulas(L)
<1>1. d \in Nat /\ c \in Nat
  BY LadoTipo
<1>2. w \in BOOLEAN
  BY DEF ConfiguracionIncompleta, HayNulas, SinCuentas
<1>3. Cabecera(L, aplicado) =
        [existe |-> TRUE, debitos |-> d, creditos |-> c, balance |-> d - c, advertido |-> w,
         aplicado |-> aplicado]
  BY DEF Cabecera
<1> HIDE DEF d, c, w
<1>4. d - c \in Int
  BY <1>1
<1> QED BY <1>1, <1>2, <1>3, <1>4 DEF ComprobanteType

-----------------------------------------------------------------------------
(* The inductive invariant                                                   *)

\* Every complete lote is whole.
LotesFormados ==
  \A n \in Nominas : \A l \in lotes[n] : l.completo => Formada(nominas[n].foto, l.lineas)

\* What a request made before the payroll was applied lacks the vacations, but
\* the lote of the application came after what the request read.
PeticionFormada(q) ==
  /\ Formada(nominas[q.n].foto, q.lineas)
  /\ q.op = "aplicar" => ConVacaciones(nominas[q.n].foto, q.lineas)
  /\ nominas[q.n].estado = "applied" /\ Ids(q.n) \subseteq q.ids =>
       ConVacaciones(nominas[q.n].foto, q.lineas)

\* So it is with every request.
PeticionesFormadas == \A r \in Peticiones : peticion[r] # Libre => PeticionFormada(peticion[r])

\* A header with the totals of the lines, and the warning if an account is missing.
Encabeza(h, L) ==
  /\ h.debitos = Lado(L, "debito") /\ h.creditos = Lado(L, "credito")
  /\ h.balance = h.debitos - h.creditos /\ (HayNulas(L) => h.advertido)

\* The voucher of an applied payroll: one lote, whole, with its vacations and header.
AplicadaBien(n) ==
  /\ comprobantes[n].existe
  /\ n \notin encimado =>
       \E l \in lotes[n] : /\ lotes[n] = {l} /\ l.completo /\ Encabeza(comprobantes[n], l.lineas)
                           /\ ConVacaciones(nominas[n].foto, l.lineas)

\* So it is with every applied payroll.
AplicadasBien == \A n \in Nominas : nominas[n].estado = "applied" => AplicadaBien(n)

\* The payrolls share what the first one froze, which is what is remembered.
UnaFoto == \A m, n \in Nominas : nominas[m].foto = nominas[n].foto

\* What is remembered is what the payrolls froze, once there are lines.
PrimeraFija ==
  /\ nominas = <<>> => primera = {}
  /\ \A n \in Nominas :
       /\ primera \in {{}, Fijas(nominas[n].foto)}
       /\ \A l \in lotes[n] : l.completo => primera = Fijas(nominas[n].foto)

\* The inductive invariant of the vouchers.
ComprobantesInd ==
  /\ ComprobantesTypeOK /\ PrestamosFijos /\ UnaFoto /\ PrimeraFija
  /\ LotesFormados /\ PeticionesFormadas /\ AplicadasBien

\* The types of the parts of the state.
LEMMA Partes ==
  ASSUME ComprobantesTypeOK
  PROVE  /\ escenario \in Escenario /\ escenario \in Escenarios
         /\ config \in ConfigType /\ prestamos \in Seq(PrestamoType)
         /\ Nominas = 1 .. Len(nominas) /\ Len(nominas) \in Nat
         /\ DOMAIN comprobantes = Nominas /\ DOMAIN lotes = Nominas
         /\ \A n \in Nominas : /\ nominas[n] \in NominaType /\ nominas[n].foto \in FotoType
                               /\ comprobantes[n] \in ComprobanteType /\ lotes[n] \in SUBSET LoteType
         /\ cuenta.cambios \in Nat /\ cuenta.generaciones \in Nat
         /\ \A r \in Peticiones : peticion[r] \in PeticionType \cup {Libre}
<1>1. /\ escenario \in Escenario /\ escenario \in Escenarios
      /\ config \in ConfigType /\ prestamos \in Seq(PrestamoType)
  BY EscenariosAssumption DEF ComprobantesTypeOK
<1>2. /\ Nominas = 1 .. Len(nominas) /\ Len(nominas) \in Nat
      /\ DOMAIN comprobantes = Nominas /\ DOMAIN lotes = Nominas
  BY DEF ComprobantesTypeOK, Nominas
<1>3. \A n \in Nominas : nominas[n] \in NominaType
  BY <1>2 DEF ComprobantesTypeOK
<1>4. \A n \in Nominas : comprobantes[n] \in ComprobanteType
  BY <1>2 DEF ComprobantesTypeOK
<1>5. \A n \in Nominas : lotes[n] \in SUBSET LoteType
  BY <1>2 DEF ComprobantesTypeOK
<1>6. \A n \in Nominas : nominas[n].foto \in FotoType
  BY <1>3 DEF NominaType
<1>7. cuenta.cambios \in Nat /\ cuenta.generaciones \in Nat
  BY ComprobantesBounds DEF ComprobantesTypeOK
<1>8. \A r \in Peticiones : peticion[r] \in PeticionType \cup {Libre}
  BY DEF ComprobantesTypeOK
<1> QED BY <1>1, <1>2, <1>3, <1>4, <1>5, <1>6, <1>7, <1>8

\* A step that writes no line: it changes states of payrolls, but makes none
\* applied, accounts, loans, or lets a request go.
LEMMA PasoSinLineas ==
  ASSUME ComprobantesInd, ComprobantesTypeOK', PrestamosFijos',
         UNCHANGED <<fijas, comprobantes, lotes, historia>>,
         DOMAIN nominas' = Nominas,
         \A n \in Nominas : /\ nominas'[n].foto = nominas[n].foto
                            /\ nominas'[n].estado = "applied" => nominas[n].estado = "applied",
         \A r \in Peticiones : peticion'[r] \in {peticion[r], Libre}
  PROVE  ComprobantesInd'
<1>1. UNCHANGED <<escenario, comprobantes, lotes, primera, encimado>> /\ Nominas' = Nominas
      /\ ComprobantesTypeOK
  BY DEF fijas, historia, Nominas, ComprobantesInd
<1>2. UnaFoto'
  BY <1>1 DEF ComprobantesInd, UnaFoto
<1>3. PrimeraFija'
  <2>1. ASSUME NEW n \in Nominas
        PROVE  /\ primera \in {{}, Fijas(nominas[n].foto)'}
               /\ \A l \in lotes[n] : l.completo => primera = Fijas(nominas[n].foto)'
    BY <1>1, Estable DEF ComprobantesInd, PrimeraFija
  <2>2. nominas' = <<>> => nominas = <<>>
    BY <1>1, Partes DEF Nominas, ComprobantesTypeOK
  <2>3. nominas = <<>> => primera = {}
    BY DEF ComprobantesInd, PrimeraFija
  <2> QED BY <1>1, <2>1, <2>2, <2>3 DEF PrimeraFija
<1>4. LotesFormados'
  BY <1>1, Estable DEF ComprobantesInd, LotesFormados
<1>5. PeticionesFormadas'
  <2> SUFFICES ASSUME NEW r \in Peticiones, peticion'[r] # Libre
               PROVE  PeticionFormada(peticion[r])'
    BY DEF PeticionesFormadas
  <2>1. peticion'[r] = peticion[r] /\ PeticionFormada(peticion[r])
    BY DEF ComprobantesInd, PeticionesFormadas
  <2>2. peticion[r].n \in Nominas
    BY <2>1 DEF ComprobantesInd, ComprobantesTypeOK, Nominas
  <2> DEFINE q == peticion[r]
  <2>3. Ids(q.n)' = Ids(q.n)
    BY <1>1, <2>1 DEF Ids
  <2> QED BY <1>1, <2>1, <2>2, <2>3, Estable DEF PeticionFormada
<1>6. AplicadasBien'
  BY <1>1, Estable DEF ComprobantesInd, AplicadasBien, AplicadaBien
<1> QED BY <1>2, <1>3, <1>4, <1>5, <1>6 DEF ComprobantesInd

\* A request reads a header and its lines, and makes lines of its own, with the
\* vacations when it is to apply the payroll or finds it applied.
LEMMA PasoLee ==
  ASSUME ComprobantesInd, ComprobantesTypeOK', NEW r \in Peticiones, NEW n \in Nominas,
         NEW op \in Ops, NEW c \in BOOLEAN, Lee(r, op, n, c),
         op = "aplicar" \/ nominas[n].estado = "applied" => c
  PROVE  ComprobantesInd'
<1> DEFINE foto == nominas[n].foto
           q == [op |-> op, n |-> n, existe |-> comprobantes[n].existe, ids |-> Ids(n),
                 lineas |-> Lineas(foto, c)]
<1>1. /\ UNCHANGED <<escenario, prestamos, nominas, comprobantes, lotes, primera, encimado>>
      /\ ComprobantesTypeOK /\ Nominas' = Nominas
      /\ peticion' = [peticion EXCEPT ![r] = q]
  BY DEF Lee, fijas, historia, ComprobantesInd, Nominas
<1>2. Formada(foto, q.lineas) /\ (c => ConVacaciones(foto, q.lineas))
  <2>1. escenario \in Escenario /\ config \in ConfigType /\ foto \in FotoType /\ PrestamosFijos
    BY <1>1, Partes DEF ComprobantesInd
  <2> HIDE DEF foto
  <2> QED BY <2>1, LineasFormada
<1>3. q.n = n /\ q.op = op
  OBVIOUS
<1> HIDE DEF q
<1>4. PeticionFormada(q)
  BY <1>2, <1>3 DEF PeticionFormada
<1>5. \A s \in Peticiones : peticion'[s] = IF s = r THEN q ELSE peticion[s]
  BY <1>1 DEF ComprobantesTypeOK
<1>6. \A s \in Peticiones : peticion'[s] # Libre => PeticionFormada(peticion'[s])
  BY <1>4, <1>5 DEF ComprobantesInd, PeticionesFormadas
<1>7. PeticionesFormadas'
  <2> SUFFICES ASSUME NEW s \in Peticiones, peticion'[s] # Libre
               PROVE  PeticionFormada(peticion[s])'
    BY DEF PeticionesFormadas
  <2> DEFINE p == peticion'[s]
  <2>1. PeticionFormada(p)
    BY <1>6
  <2> QED BY <1>1, <2>1, Estable DEF PeticionFormada, Ids
<1>8. PrimeraFija' /\ LotesFormados' /\ UnaFoto' /\ PrestamosFijos'
  BY <1>1, Estable DEF ComprobantesInd, PrimeraFija, LotesFormados, UnaFoto, PrestamosFijos
<1>9. AplicadasBien'
  BY <1>1, Estable DEF ComprobantesInd, AplicadasBien, AplicadaBien
<1> QED BY <1>7, <1>8, <1>9 DEF ComprobantesInd

\* A request writes the lines it made in the place of those it read, and may
\* apply the payroll.
LEMMA PasoEscribe ==
  ASSUME ComprobantesInd, ComprobantesTypeOK', NEW r \in Peticiones, NEW aplicada,
         NEW q, q = peticion[r], q # Libre, Escribe(q, aplicada), Termina(r),
         UNCHANGED <<fijas, prestamos>>, DOMAIN nominas' = Nominas,
         \A m \in Nominas :
           /\ nominas'[m].foto = nominas[m].foto
           /\ nominas'[m].estado = "applied" =>
                nominas[m].estado = "applied" \/ (m = q.n /\ q.op = "aplicar")
  PROVE  ComprobantesInd'
<1> SUFFICES ASSUME NEW n, n = q.n, NEW foto, foto = nominas[n].foto,
                    NEW w, w = Lote(q.lineas, TRUE),
                    NEW h, h = Cabecera(q.lineas, IF q.existe THEN comprobantes[n].aplicado
                                                  ELSE aplicada)
             PROVE  ComprobantesInd'
  OBVIOUS
<1>1. /\ UNCHANGED <<escenario, prestamos>> /\ ComprobantesTypeOK /\ Nominas' = Nominas
      /\ n \in Nominas /\ PeticionFormada(q) /\ foto \in FotoType /\ escenario \in Escenario
  <2>1. ComprobantesTypeOK /\ n \in Nominas /\ PeticionFormada(q)
    BY DEF ComprobantesInd, PeticionesFormadas, ComprobantesTypeOK, Nominas
  <2> QED BY <2>1, Partes DEF fijas, Nominas
<1>2. /\ comprobantes' = [comprobantes EXCEPT ![n] = h]
      /\ lotes' = [lotes EXCEPT ![n] = {l \in @ : l.id \notin q.ids} \cup {w}]
      /\ encimado' = IF Ids(n) = q.ids THEN encimado ELSE encimado \cup {n}
      /\ primera' = IF primera = {} THEN Congeladas(foto, q.lineas) ELSE primera
  BY DEF Escribe, Recuerda
<1>3. /\ w.id = cuenta.generaciones + 1 /\ w.lineas = q.lineas /\ w.completo
      /\ h.existe /\ Encabeza(h, q.lineas)
  BY DEF Lote, Cabecera, Encabeza
<1>4. /\ \A m \in Nominas \ {n} : lotes'[m] = lotes[m] /\ comprobantes'[m] = comprobantes[m]
      /\ lotes'[n] = {l \in lotes[n] : l.id \notin q.ids} \cup {w} /\ comprobantes'[n] = h
  BY <1>1, <1>2, Partes
<1>5. Formada(foto, q.lineas) /\ Congeladas(foto, q.lineas) = Fijas(foto)
  <2>1. Formada(foto, q.lineas)
    BY <1>1 DEF PeticionFormada
  <2> QED BY <1>1, <2>1, CongeladasFijas
<1>6. /\ \A s \in Peticiones \ {r} : peticion'[s] = peticion[s]
      /\ peticion'[r] = Libre
  BY <1>1 DEF Termina, ComprobantesTypeOK
<1>7. w \in lotes'[n] /\ (Ids(n) = q.ids => lotes'[n] = {w})
  BY <1>4 DEF Ids
<1>8. (\A m \in Nominas \ {n} : Ids(m)' = Ids(m)) /\ w.id \in Ids(n)'
  BY <1>4, <1>7 DEF Ids
<1>9. UnaFoto' /\ PrestamosFijos'
  BY <1>1 DEF ComprobantesInd, UnaFoto, PrestamosFijos
<1>10. LotesFormados'
  <2> SUFFICES ASSUME NEW m \in Nominas, NEW l \in lotes'[m], l.completo
               PROVE  Formada(nominas[m].foto, l.lineas)'
    BY <1>1 DEF LotesFormados
  <2>1. Formada(nominas[m].foto, l.lineas)
    <3>1. CASE l \in lotes[m]
      BY <3>1 DEF ComprobantesInd, LotesFormados
    <3>2. CASE l \notin lotes[m]
      <4>1. m = n /\ l = w
        BY <1>4, <3>2
      <4> QED BY <1>3, <1>5, <4>1
    <3> QED BY <3>1, <3>2
  <2> QED BY <1>1, <2>1, Estable
<1>11. PeticionesFormadas'
  <2> SUFFICES ASSUME NEW s \in Peticiones, peticion'[s] # Libre
               PROVE  PeticionFormada(peticion[s])'
    BY DEF PeticionesFormadas
  <2>1. s # r /\ peticion'[s] = peticion[s]
    BY <1>6
  <2> SUFFICES ASSUME NEW p, p = peticion[s] PROVE PeticionFormada(p)'
    BY <2>1
  <2>2. PeticionFormada(p) /\ p.n \in Nominas /\ w.id \notin p.ids
    <3>1. PeticionFormada(p) /\ p.n \in Nominas /\ \A i \in p.ids : i <= cuenta.generaciones
      BY <2>1 DEF ComprobantesInd, PeticionesFormadas, ComprobantesTypeOK, Nominas
    <3>2. cuenta.generaciones \in Nat
      BY <1>1, Partes
    <3>3. cuenta.generaciones + 1 \notin p.ids
      BY <3>1, <3>2
    <3> QED BY <1>3, <3>1, <3>3
  <2>3. CASE p.n = n
    <3>1. ~(Ids(p.n)' \subseteq p.ids)
      BY <1>8, <2>2, <2>3
    <3> QED BY <1>1, <2>2, <2>3, <3>1, Estable DEF PeticionFormada
  <2>4. CASE p.n # n
    <3>1. Ids(p.n)' = Ids(p.n) /\ (nominas'[p.n].estado = "applied" => nominas[p.n].estado = "applied")
      BY <1>8, <2>2, <2>4
    <3> QED BY <1>1, <2>2, <3>1, Estable DEF PeticionFormada
  <2> QED BY <2>3, <2>4
<1>12. PrimeraFija'
  <2>1. \A m \in Nominas : nominas[m].foto = foto
    BY <1>1 DEF ComprobantesInd, UnaFoto
  <2>2. primera \in {{}, Fijas(foto)}
    BY <1>1 DEF ComprobantesInd, PrimeraFija
  <2>3. primera' = Fijas(foto)
    BY <1>2, <1>5, <2>2
  <2>4. nominas' # <<>>
    BY <1>1 DEF Nominas
  <2> QED BY <1>1, <2>1, <2>3, <2>4, Estable DEF PrimeraFija
<1>13. AplicadasBien'
  <2> SUFFICES ASSUME NEW m \in Nominas, nominas'[m].estado = "applied"
               PROVE  AplicadaBien(m)'
    BY <1>1 DEF AplicadasBien
  <2>1. CASE m = n
    <3>1. comprobantes'[m].existe
      BY <1>3, <1>4, <2>1
    <3>2. ASSUME m \notin encimado'
          PROVE  /\ lotes'[m] = {w} /\ w.completo /\ Encabeza(comprobantes'[m], w.lineas)
                 /\ ConVacaciones(foto, w.lineas)
      <4>1. Ids(n) = q.ids
        BY <1>2, <2>1, <3>2
      <4>2. ConVacaciones(foto, q.lineas)
        BY <1>1, <2>1, <4>1 DEF PeticionFormada
      <4> QED BY <1>3, <1>4, <1>7, <2>1, <4>1, <4>2
    <3>3. nominas'[m].foto = foto
      BY <2>1
    <3> QED BY <1>1, <3>1, <3>2, <3>3, Estable DEF AplicadaBien, Encabeza
  <2>2. CASE m # n
    <3>1. AplicadaBien(m)
      BY <2>2 DEF ComprobantesInd, AplicadasBien
    <3>2. /\ lotes'[m] = lotes[m] /\ comprobantes'[m] = comprobantes[m]
          /\ (m \notin encimado' => m \notin encimado) /\ nominas'[m].foto = nominas[m].foto
      BY <1>2, <1>4, <2>2
    <3> QED BY <1>1, <3>1, <3>2, Estable DEF AplicadaBien, Encabeza
  <2> QED BY <2>1, <2>2
<1> QED BY <1>9, <1>10, <1>11, <1>12, <1>13 DEF ComprobantesInd

\* A payroll is added, with what was written of its voucher.
LEMMA PasoAgrega ==
  ASSUME ComprobantesInd, ComprobantesTypeOK',
         UNCHANGED <<fijas, prestamos, peticion, encimado>>,
         NEW M, M \in Seq(NominaType), Len(M) = Len(nominas),
         NEW C, C \in Seq(ComprobanteType), Len(C) = Len(nominas),
         \A n \in Nominas :
           /\ M[n].foto = nominas[n].foto
           /\ M[n].estado = "applied" => nominas[n].estado = "applied" /\ C[n] = comprobantes[n],
         NEW nueva, nueva \in NominaType, nueva.estado = "generated",
         \A n \in Nominas : nueva.foto = nominas[n].foto,
         NEW c, NEW suyos,
         nominas' = Append(M, nueva), comprobantes' = Append(C, c), lotes' = Append(lotes, suyos),
         \A l \in suyos : l.completo => Formada(nueva.foto, l.lineas),
         \/ primera' = primera /\ \A l \in suyos : ~l.completo
         \/ primera' = IF primera = {} THEN Fijas(nueva.foto) ELSE primera
  PROVE  ComprobantesInd'
<1> SUFFICES ASSUME NEW N, N = Len(nominas) + 1, NEW foto, foto = nueva.foto
             PROVE  ComprobantesInd'
  OBVIOUS
<1>1. /\ UNCHANGED <<escenario, prestamos, peticion, encimado>> /\ ComprobantesTypeOK
      /\ foto \in FotoType /\ encimado \subseteq Nominas
  BY DEF ComprobantesInd, ComprobantesTypeOK, fijas, NominaType, Nominas
<1>2. Nominas = 1 .. (N - 1) /\ N \in Nat /\ N >= 1 /\ Nominas' = Nominas \cup {N} /\ N \notin Nominas
  <2>1. Nominas = 1 .. Len(nominas) /\ Len(nominas) \in Nat
    BY <1>1, Partes
  <2>2. Nominas' = 1 .. (Len(nominas) + 1)
    BY DEF Nominas
  <2> QED BY <2>1, <2>2
<1>3. /\ \A n \in Nominas : nominas'[n] = M[n]
      /\ nominas'[N] = nueva
  BY <1>2 DEF Nominas
<1>4. /\ \A n \in Nominas : comprobantes'[n] = C[n]
      /\ \A n \in Nominas : lotes'[n] = lotes[n]
      /\ lotes'[N] = suyos
  BY <1>1, <1>2 DEF ComprobantesTypeOK
<1>5. \A n \in Nominas' : nominas'[n].foto = foto /\ (n \in Nominas => nominas[n].foto = foto)
  BY <1>2, <1>3
<1>6. UnaFoto' /\ PrestamosFijos'
  BY <1>1, <1>5 DEF UnaFoto, PrestamosFijos, ComprobantesInd
<1>7. LotesFormados'
  <2> SUFFICES ASSUME NEW n \in Nominas', NEW l \in lotes'[n], l.completo
               PROVE  Formada(nominas[n].foto, l.lineas)'
    BY DEF LotesFormados
  <2>1. Formada(foto, l.lineas)
    <3>1. CASE n \in Nominas
      BY <1>4, <1>5, <3>1 DEF ComprobantesInd, LotesFormados
    <3>2. CASE n = N
      BY <1>4, <3>2
    <3> QED BY <1>2, <3>1, <3>2
  <2> QED BY <1>1, <1>5, <2>1, Estable
<1>8. PeticionesFormadas'
  <2> SUFFICES ASSUME NEW s \in Peticiones, peticion[s] # Libre, NEW p, p = peticion[s]
               PROVE  PeticionFormada(p)'
    BY <1>1 DEF PeticionesFormadas
  <2>1. PeticionFormada(p) /\ p.n \in Nominas
    BY DEF ComprobantesInd, PeticionesFormadas, ComprobantesTypeOK, Nominas
  <2>2. /\ Ids(p.n)' = Ids(p.n) /\ nominas'[p.n].foto = nominas[p.n].foto
        /\ (nominas'[p.n].estado = "applied" => nominas[p.n].estado = "applied")
    BY <1>3, <1>4, <2>1 DEF Ids
  <2> QED BY <1>1, <2>1, <2>2, Estable DEF PeticionFormada
<1>9. PrimeraFija'
  <2>1. \A n \in Nominas' : (Fijas(nominas[n].foto))' = Fijas(foto)
    BY <1>1, <1>5, Estable
  <2>2. primera \in {{}, Fijas(foto)}
    BY <1>2, <1>5 DEF ComprobantesInd, PrimeraFija
  <2>3. primera' \in {primera, Fijas(foto)}
    BY <2>2
  <2>4. ASSUME NEW n \in Nominas', NEW l \in lotes'[n], l.completo
        PROVE  primera' = Fijas(foto)
    <3>1. CASE n \in Nominas
      <4>1. primera = Fijas(foto)
        BY <1>4, <1>5, <2>4, <3>1 DEF ComprobantesInd, PrimeraFija
      <4> QED BY <2>3, <4>1
    <3>2. CASE n = N
      BY <1>4, <2>2, <2>4, <3>2
    <3> QED BY <1>2, <3>1, <3>2
  <2>5. nominas' # <<>>
    BY <1>2 DEF Nominas
  <2> QED BY <2>1, <2>2, <2>3, <2>4, <2>5 DEF PrimeraFija
<1>10. AplicadasBien'
  <2> SUFFICES ASSUME NEW n \in Nominas', nominas'[n].estado = "applied"
               PROVE  AplicadaBien(n)'
    BY DEF AplicadasBien
  <2>1. n \in Nominas /\ nominas[n].estado = "applied" /\ comprobantes'[n] = comprobantes[n]
    BY <1>2, <1>3, <1>4
  <2>2. AplicadaBien(n)
    BY <2>1 DEF ComprobantesInd, AplicadasBien
  <2>3. lotes'[n] = lotes[n] /\ nominas'[n].foto = nominas[n].foto
    BY <1>3, <1>4, <2>1
  <2> QED BY <1>1, <2>1, <2>2, <2>3, Estable DEF AplicadaBien, Encabeza
<1> QED BY <1>6, <1>7, <1>8, <1>9, <1>10 DEF ComprobantesInd

\* The type of a payroll depends on the scenario alone.
LEMMA NominaFija ==
  ASSUME UNCHANGED escenario
  PROVE  NominaType' = NominaType
  BY DEF NominaType, FotoType

\* The fields of a header that exists.
LEMMA Cabeceras ==
  ASSUME NEW c \in ComprobanteType
  PROVE  c.existe \in BOOLEAN /\ (c.existe => c.aplicado \in BOOLEAN)
<1>1. CASE c = SinComprobante
  <2>1. c.existe = FALSE
    BY <1>1 DEF SinComprobante
  <2> QED BY <2>1
<1>2. CASE c # SinComprobante
  <2>1. c \in [existe : {TRUE}, debitos : Nat, creditos : Nat, balance : Int,
               advertido : BOOLEAN, aplicado : BOOLEAN]
    BY <1>2 DEF ComprobanteType
  <2>2. c.existe \in {TRUE}
    BY <2>1
  <2>3. c.aplicado \in BOOLEAN
    BY <2>1
  <2> QED BY <2>2, <2>3
<1> QED BY <1>1, <1>2

\* Types, of a step that leaves the vouchers alone.
LEMMA TipoSinLineas ==
  ASSUME ComprobantesTypeOK, UNCHANGED <<fijas, comprobantes, lotes, historia>>,
         config' \in ConfigType, prestamos' \in Seq(PrestamoType),
         nominas' \in Seq(NominaType), Len(nominas') = Len(nominas), cola' \subseteq cola,
         cuenta' \in [cambios : 0 .. MaxCambios, generaciones : 0 .. MaxGeneraciones],
         cuenta'.generaciones = cuenta.generaciones,
         peticion' \in [Peticiones -> {Libre} \cup PeticionType],
         \A r \in Peticiones : peticion'[r] \in {peticion[r], Libre}
  PROVE  ComprobantesTypeOK'
<1>1. UNCHANGED <<foraneas, escenario, comprobantes, lotes, primera, encimado>>
  BY DEF fijas, historia
<1>2. NominaType' = NominaType
  BY <1>1, NominaFija
<1>3. DOMAIN nominas' = DOMAIN nominas
  BY DEF ComprobantesTypeOK
<1> QED BY <1>1, <1>2, <1>3 DEF ComprobantesTypeOK

\* Types, of a request that reads.
LEMMA TipoLee ==
  ASSUME ComprobantesTypeOK, NEW r \in Peticiones, NEW n \in Nominas,
         NEW op \in Ops, NEW c \in BOOLEAN, Lee(r, op, n, c)
  PROVE  ComprobantesTypeOK'
<1> SUFFICES ASSUME NEW q, q = [op |-> op, n |-> n, existe |-> comprobantes[n].existe, ids |-> Ids(n),
                                lineas |-> Lineas(nominas[n].foto, c)]
             PROVE  ComprobantesTypeOK'
  OBVIOUS
<1>1. UNCHANGED <<foraneas, escenario, config, prestamos, nominas, comprobantes, lotes, cola, cuenta,
                  primera, encimado>>
      /\ peticion' = [peticion EXCEPT ![r] = q]
  BY DEF Lee, fijas, historia
<1>2. Lineas(nominas[n].foto, c) \subseteq LineaType
  <2>1. nominas[n].foto \in FotoType
    BY Partes
  <2> QED BY <2>1, Partes, LineasTipo
<1>3. comprobantes[n].existe \in BOOLEAN
  <2>1. comprobantes[n] \in ComprobanteType
    BY Partes
  <2> QED BY <2>1, Cabeceras
<1>4. Ids(n) \subseteq 1 .. MaxGeneraciones /\ \A i \in Ids(n) : i <= cuenta.generaciones
  <2>1. lotes[n] \in SUBSET LoteType /\ \A l \in lotes[n] : l.id <= cuenta.generaciones
    BY Partes DEF ComprobantesTypeOK, Nominas
  <2> QED BY <2>1 DEF Ids, LoteType
<1>5. n \in 1 .. MaxNominas /\ n \in DOMAIN nominas
  <2>1. n \in 1 .. Len(nominas) /\ Len(nominas) \in Nat /\ Len(nominas) <= MaxNominas
    BY Partes DEF ComprobantesTypeOK
  <2>2. MaxNominas \in Nat
    BY ComprobantesBounds
  <2> QED BY <2>1, <2>2 DEF Nominas
<1>6. q \in PeticionType /\ q.n = n /\ q.ids = Ids(n)
  BY <1>2, <1>3, <1>4, <1>5 DEF PeticionType
<1>7. peticion' \in [Peticiones -> {Libre} \cup PeticionType]
  BY <1>1, <1>6 DEF ComprobantesTypeOK
<1>8. \A s \in Peticiones : peticion'[s] # Libre =>
        peticion'[s].n \in DOMAIN nominas /\ \A i \in peticion'[s].ids : i <= cuenta.generaciones
  <2> TAKE s \in Peticiones
  <2>1. CASE s = r
    BY <1>1, <1>4, <1>5, <1>6, <2>1 DEF ComprobantesTypeOK
  <2>2. CASE s # r
    BY <1>1, <2>2 DEF ComprobantesTypeOK
  <2> QED BY <2>1, <2>2
<1>9. NominaType' = NominaType
  BY <1>1, NominaFija
<1> QED BY <1>1, <1>7, <1>8, <1>9 DEF ComprobantesTypeOK

\* Types, of a request that writes a voucher.
LEMMA TipoEscribe ==
  ASSUME ComprobantesInd, NEW r \in Peticiones, NEW aplicada \in BOOLEAN,
         NEW q, q = peticion[r], q # Libre, Escribe(q, aplicada), Termina(r),
         UNCHANGED <<fijas, config, prestamos>>, cola' \subseteq cola,
         nominas' \in Seq(NominaType), Len(nominas') = Len(nominas)
  PROVE  ComprobantesTypeOK'
<1> SUFFICES ASSUME NEW n, n = q.n, NEW foto, foto = nominas[n].foto,
                    NEW w, w = Lote(q.lineas, TRUE), NEW a, a = (IF q.existe THEN comprobantes[n].aplicado
                                                  ELSE aplicada),
                    NEW h, h = Cabecera(q.lineas, a), NEW g, g = cuenta.generaciones + 1
             PROVE  ComprobantesTypeOK'
  OBVIOUS
<1>0. ComprobantesTypeOK
  BY DEF ComprobantesInd
<1>1. UNCHANGED <<foraneas, escenario, config, prestamos>> /\ NominaType' = NominaType
      /\ n \in Nominas /\ q \in PeticionType
  <2>1. n \in Nominas /\ q \in PeticionType
    BY <1>0 DEF ComprobantesTypeOK, Nominas
  <2> QED BY <2>1, NominaFija DEF fijas
<1>2. /\ comprobantes' = [comprobantes EXCEPT ![n] = h]
      /\ lotes' = [lotes EXCEPT ![n] = {l \in @ : l.id \notin q.ids} \cup {w}]
      /\ encimado' \subseteq encimado \cup {n}
      /\ cuenta.generaciones < MaxGeneraciones /\ cuenta' = [cuenta EXCEPT !.generaciones = @ + 1]
      /\ peticion' = [peticion EXCEPT ![r] = Libre]
      /\ q.existe = comprobantes[n].existe
  BY DEF Escribe, Genera, Termina, PuedeEscribir
<1>3. q.lineas \subseteq LineaType /\ IsFiniteSet(q.lineas)
  <2>1. q.lineas \subseteq LineaType
    BY <1>1 DEF PeticionType
  <2>2. Formada(foto, q.lineas)
    BY DEF ComprobantesInd, PeticionesFormadas, PeticionFormada
  <2> QED BY <1>0, <2>1, <2>2, Partes, LineasFinitas
<1>4. h \in ComprobanteType
  <2>1. comprobantes[n] \in ComprobanteType
    BY <1>0, <1>1, Partes
  <2>2. a \in BOOLEAN
    <3>1. comprobantes[n].existe \in BOOLEAN
      BY <2>1, Cabeceras
    <3>2. CASE q.existe
      <4>1. comprobantes[n].existe
        BY <1>2, <3>2
      <4>2. comprobantes[n].aplicado \in BOOLEAN
        BY <2>1, <4>1, Cabeceras
      <4> QED BY <3>2, <4>2
    <3>3. CASE ~q.existe
      BY <3>3
    <3> QED BY <3>2, <3>3
  <2> QED BY <1>3, <2>2, CabeceraTipo
<1>5. /\ cuenta' \in [cambios : 0 .. MaxCambios, generaciones : 0 .. MaxGeneraciones]
      /\ cuenta'.generaciones = g /\ g \in 1 .. MaxGeneraciones /\ g > cuenta.generaciones
      /\ cuenta.generaciones \in Nat
  <2>1. cuenta \in [cambios : 0 .. MaxCambios, generaciones : 0 .. MaxGeneraciones]
        /\ MaxGeneraciones \in Nat /\ cuenta.generaciones \in Nat
    BY <1>0, Partes, ComprobantesBounds DEF ComprobantesTypeOK
  <2>2. g \in 1 .. MaxGeneraciones /\ g > cuenta.generaciones
    BY <1>2, <2>1
  <2>3. cuenta' = [cuenta EXCEPT !.generaciones = g]
    BY <1>2
  <2>4. cuenta'.generaciones = g /\ cuenta'.cambios = cuenta.cambios
        /\ cuenta' = [cambios |-> cuenta.cambios, generaciones |-> g]
    BY <2>1, <2>3
  <2>5. cuenta.cambios \in 0 .. MaxCambios /\ g \in 0 .. MaxGeneraciones
    BY <2>1, <2>2
  <2> QED BY <2>1, <2>2, <2>4, <2>5
<1>6. w \in LoteType /\ w.id = g
  BY <1>3, <1>5 DEF LoteType, Lote
<1> DEFINE L == {l \in lotes[n] : l.id \notin q.ids} \cup {w}
<1>7. L \in SUBSET LoteType /\ \A l \in L : l.id <= g
  <2>1. lotes[n] \in SUBSET LoteType /\ \A l \in lotes[n] : l.id <= cuenta.generaciones
    BY <1>0, <1>1, Partes DEF ComprobantesTypeOK, Nominas
  <2>2. \A l \in lotes[n] : l.id <= g
    <3>1. \A l \in lotes[n] : l.id \in Int
      BY <2>1 DEF LoteType
    <3> QED BY <1>5, <2>1, <3>1
  <2>3. L \subseteq lotes[n] \cup {w}
    OBVIOUS
  <2>4. g \in Int /\ g <= g
    BY <1>5
  <2> HIDE DEF L
  <2> QED BY <1>6, <2>1, <2>2, <2>3, <2>4
<1>8. lotes' = [lotes EXCEPT ![n] = L]
  BY <1>2
<1> HIDE DEF L
<1>9. /\ lotes' \in Seq(SUBSET LoteType) /\ Len(lotes') = Len(lotes)
      /\ \A m \in Nominas : \A l \in lotes'[m] : l.id <= g
  <2>1. lotes' \in Seq(SUBSET LoteType) /\ Len(lotes') = Len(lotes)
    BY <1>0, <1>7, <1>8 DEF ComprobantesTypeOK
  <2>2. ASSUME NEW m \in Nominas, NEW l \in lotes'[m]
        PROVE  l.id <= g
    <3>1. CASE m = n
      BY <1>0, <1>7, <1>8, <3>1, Partes
    <3>2. CASE m # n
      <4>1. l \in lotes[m]
        BY <1>0, <1>8, <3>2, Partes
      <4>2. l.id <= cuenta.generaciones /\ l.id \in Int
        <5>1. lotes[m] \in SUBSET LoteType
          BY <1>0, Partes
        <5> QED BY <1>0, <4>1, <5>1 DEF ComprobantesTypeOK, LoteType, Nominas
      <4> QED BY <1>5, <4>2
    <3> QED BY <3>1, <3>2
  <2> QED BY <2>1, <2>2
<1>10. comprobantes' \in Seq(ComprobanteType) /\ Len(comprobantes') = Len(comprobantes)
  BY <1>0, <1>2, <1>4 DEF ComprobantesTypeOK
<1>11. DOMAIN nominas' = DOMAIN nominas
  BY <1>0 DEF ComprobantesTypeOK
<1>12. /\ peticion' \in [Peticiones -> {Libre} \cup PeticionType]
       /\ \A s \in Peticiones : peticion'[s] # Libre =>
            peticion'[s].n \in DOMAIN nominas /\ \A i \in peticion'[s].ids : i <= g
  <2>1. peticion' \in [Peticiones -> {Libre} \cup PeticionType]
    BY <1>0, <1>2 DEF ComprobantesTypeOK
  <2>2. ASSUME NEW s \in Peticiones, peticion'[s] # Libre
        PROVE  peticion'[s].n \in DOMAIN nominas /\ \A i \in peticion'[s].ids : i <= g
    <3>1. peticion'[s] = peticion[s] /\ peticion[s] \in PeticionType
      BY <1>0, <1>2, <2>2 DEF ComprobantesTypeOK
    <3>2. peticion[s].n \in DOMAIN nominas /\ \A i \in peticion[s].ids : i \in Int /\ i <= cuenta.generaciones
      BY <1>0, <2>2, <3>1 DEF ComprobantesTypeOK, PeticionType
    <3> QED BY <1>5, <3>1, <3>2
  <2> QED BY <2>1, <2>2
<1>13. cola' \subseteq DOMAIN nominas /\ encimado' \subseteq DOMAIN nominas
  BY <1>0, <1>1, <1>2 DEF ComprobantesTypeOK, Nominas
<1> QED BY <1>0, <1>1, <1>5, <1>9, <1>10, <1>11, <1>12, <1>13 DEF ComprobantesTypeOK, Nominas

\* Types, of a payroll that is added.
LEMMA TipoAgrega ==
  ASSUME ComprobantesTypeOK, UNCHANGED <<fijas, config, prestamos, peticion, encimado>>,
         Len(nominas) < MaxNominas,
         NEW M, M \in Seq(NominaType), Len(M) = Len(nominas),
         NEW C, C \in Seq(ComprobanteType), Len(C) = Len(nominas),
         NEW nueva, nueva \in NominaType, NEW c \in ComprobanteType, NEW suyos \in SUBSET LoteType,
         nominas' = Append(M, nueva), comprobantes' = Append(C, c), lotes' = Append(lotes, suyos),
         cola' \subseteq cola \cup {Len(nominas) + 1},
         cuenta' \in [cambios : 0 .. MaxCambios, generaciones : 0 .. MaxGeneraciones],
         cuenta'.generaciones >= cuenta.generaciones,
         \A l \in suyos : l.id <= cuenta'.generaciones
  PROVE  ComprobantesTypeOK'
<1> SUFFICES ASSUME NEW N, N = Len(nominas) + 1, NEW g, g = cuenta'.generaciones
             PROVE  ComprobantesTypeOK'
  OBVIOUS
<1>1. UNCHANGED <<foraneas, escenario, config, prestamos, peticion, encimado>>
      /\ NominaType' = NominaType
  BY NominaFija DEF fijas
<1>2. DOMAIN nominas = 1 .. (N - 1) /\ N \in Nat /\ N <= MaxNominas
  BY Partes, ComprobantesBounds DEF Nominas
<1>3. nominas' \in Seq(NominaType) /\ Len(nominas') = N /\ DOMAIN nominas' = 1 .. N
  BY <1>2
<1>4. comprobantes' \in Seq(ComprobanteType) /\ Len(comprobantes') = N
  BY <1>2
<1>5. lotes \in Seq(SUBSET LoteType) /\ Len(lotes) = N - 1
  BY <1>2 DEF ComprobantesTypeOK
<1>6. /\ lotes' \in Seq(SUBSET LoteType) /\ Len(lotes') = N
      /\ \A n \in 1 .. (N - 1) : lotes'[n] = lotes[n]
      /\ lotes'[N] = suyos
  <2>1. lotes' \in Seq(SUBSET LoteType) /\ Len(lotes') = N
    BY <1>2, <1>5
  <2>2. (\A n \in 1 .. (N - 1) : lotes'[n] = lotes[n]) /\ lotes'[N] = suyos
    BY <1>2, <1>5
  <2> QED BY <2>1, <2>2
<1>7. g \in Nat /\ cuenta.generaciones \in Nat /\ g >= cuenta.generaciones
  BY Partes, ComprobantesBounds
<1>8. ASSUME NEW n \in 1 .. N, NEW l \in lotes'[n]
      PROVE  l.id <= g
  <2>1. CASE n = N
    BY <1>6, <2>1
  <2>2. CASE n # N
    <3>1. n \in 1 .. (N - 1)
      BY <1>2, <2>2
    <3>2. l \in lotes[n] /\ n \in Nominas
      BY <1>2, <1>6, <3>1 DEF Nominas
    <3>3. l.id <= cuenta.generaciones
      BY <3>2 DEF ComprobantesTypeOK, Nominas
    <3>4. l.id \in Nat
      <4>1. lotes[n] \in SUBSET LoteType
        BY <3>2, Partes
      <4> QED BY <3>2, <4>1 DEF LoteType
    <3> QED BY <1>7, <3>3, <3>4
  <2> QED BY <2>1, <2>2
<1>9. ASSUME NEW s \in Peticiones, peticion[s] # Libre
      PROVE  peticion[s].n \in 1 .. N /\ \A i \in peticion[s].ids : i <= g
  <2>1. peticion[s] \in PeticionType
    BY <1>9 DEF ComprobantesTypeOK
  <2>2. \A i \in peticion[s].ids : i \in Nat /\ i <= cuenta.generaciones
    BY <1>9, <2>1 DEF ComprobantesTypeOK, PeticionType
  <2>3. peticion[s].n \in 1 .. (N - 1)
    BY <1>2, <1>9 DEF ComprobantesTypeOK
  <2> QED BY <1>2, <1>7, <2>2, <2>3
<1>10. cola' \subseteq 1 .. N /\ encimado' \subseteq 1 .. N
  <2>1. cola \subseteq 1 .. (N - 1) /\ encimado \subseteq 1 .. (N - 1)
    BY <1>2 DEF ComprobantesTypeOK
  <2> QED BY <1>1, <1>2, <2>1
<1>11. foraneas \in BOOLEAN /\ escenario \in Escenarios
       /\ config \in ConfigType /\ prestamos \in Seq(PrestamoType)
       /\ peticion \in [Peticiones -> {Libre} \cup PeticionType]
  BY DEF ComprobantesTypeOK
<1> QED BY <1>1, <1>2, <1>3, <1>4, <1>6, <1>8, <1>9, <1>10, <1>11 DEF ComprobantesTypeOK

-----------------------------------------------------------------------------
(* The initial state, and the steps                                          *)

\* What a payroll freezes of the configuration has its type.
LEMMA FotoTipo ==
  ASSUME ComprobantesTypeOK
  PROVE  Foto \in FotoType
<1>1. config \in ConfigType /\ escenario.catalogados \subseteq Conceptos
  BY Partes DEF Escenario
<1>2. [c \in escenario.catalogados |-> config.fichas[c]] \in [escenario.catalogados -> FichaType]
  BY <1>1 DEF ConfigType
<1> QED BY <1>1, <1>2 DEF Foto, FotoType, ConfigType

\* It holds at the start, when there is no payroll.
LEMMA Inicio == ComprobantesInit => ComprobantesInd
<1> SUFFICES ASSUME ComprobantesInit PROVE ComprobantesInd
  OBVIOUS
<1>1. escenario \in Escenario /\ nominas = <<>> /\ DOMAIN nominas = {} /\ Nominas = {}
  BY EscenariosAssumption DEF ComprobantesInit, Nominas
<1>2. config \in ConfigType /\ prestamos \in Seq(PrestamoType)
  BY <1>1 DEF ComprobantesInit, Escenario
<1>3. cuenta \in [cambios : 0 .. MaxCambios, generaciones : 0 .. MaxGeneraciones]
  BY ComprobantesBounds DEF ComprobantesInit
<1>4. nominas \in Seq(NominaType) /\ comprobantes \in Seq(ComprobanteType)
      /\ lotes \in Seq(SUBSET LoteType) /\ Len(comprobantes) = Len(nominas)
      /\ Len(lotes) = Len(nominas) /\ Len(nominas) <= MaxNominas
  BY ComprobantesBounds DEF ComprobantesInit
<1>5. ComprobantesTypeOK
  BY <1>1, <1>2, <1>3, <1>4 DEF ComprobantesInit, ComprobantesTypeOK
<1>6. PrestamosFijos
  BY <1>1 DEF ComprobantesInit, PrestamosFijos
<1>7. UnaFoto /\ PrimeraFija /\ LotesFormados /\ AplicadasBien
  BY <1>1 DEF ComprobantesInit, UnaFoto, PrimeraFija, LotesFormados, AplicadasBien
<1>8. PeticionesFormadas
  BY DEF ComprobantesInit, PeticionesFormadas
<1> QED BY <1>5, <1>6, <1>7, <1>8 DEF ComprobantesInd

\* A new lote has its type.
LEMMA LoteTipo ==
  ASSUME ComprobantesTypeOK, cuenta.generaciones < MaxGeneraciones,
         NEW L \in SUBSET LineaType, NEW completo \in BOOLEAN
  PROVE  Lote(L, completo) \in LoteType
<1>1. cuenta.generaciones + 1 \in 1 .. MaxGeneraciones
  BY Partes, ComprobantesBounds
<1> QED BY <1>1 DEF Lote, LoteType

\* A generation is counted.
LEMMA GeneraTipo ==
  ASSUME ComprobantesTypeOK, Genera
  PROVE  /\ cuenta' \in [cambios : 0 .. MaxCambios, generaciones : 0 .. MaxGeneraciones]
         /\ cuenta'.generaciones = cuenta.generaciones + 1
         /\ cuenta.generaciones < MaxGeneraciones
<1>1. /\ cuenta' = [cuenta EXCEPT !.generaciones = @ + 1] /\ cuenta.generaciones < MaxGeneraciones
      /\ cuenta \in [cambios : 0 .. MaxCambios, generaciones : 0 .. MaxGeneraciones]
  BY DEF Genera, ComprobantesTypeOK
<1>2. cuenta.generaciones + 1 \in 0 .. MaxGeneraciones
  BY <1>1, Partes, ComprobantesBounds
<1> QED BY <1>1, <1>2

\* What a calculation makes is whole, but not its vacations.
LEMMA LineasNuevas ==
  ASSUME ComprobantesInd, NEW foto \in FotoType, NEW L, L = Lineas(foto, FALSE)
  PROVE  /\ L \subseteq LineaType /\ IsFiniteSet(L) /\ Formada(foto, L)
         /\ Congeladas(foto, L) = Fijas(foto)
         /\ Cabecera(L, FALSE) \in ComprobanteType
<1>1. escenario \in Escenario /\ config \in ConfigType /\ prestamos \in Seq(PrestamoType) /\ PrestamosFijos
  BY Partes DEF ComprobantesInd
<1>2. Formada(foto, L) /\ L \subseteq LineaType
  BY <1>1, LineasFormada, LineasTipo
<1>3. IsFiniteSet(L) /\ Congeladas(foto, L) = Fijas(foto)
  BY <1>1, <1>2, LineasFinitas, CongeladasFijas
<1>4. Cabecera(L, FALSE) \in ComprobanteType
  BY <1>2, <1>3, CabeceraTipo
<1> QED BY <1>2, <1>3, <1>4

\* The calculation with its voucher.
LEMMA PasoCalcular == ComprobantesInd /\ Calcular => ComprobantesInd'
<1> SUFFICES ASSUME ComprobantesInd, Calcular,
                    NEW foto, foto = Foto, NEW L, L = Lineas(foto, FALSE),
                    NEW w, w = Lote(L, TRUE), NEW h, h = Cabecera(L, FALSE),
                    NEW nueva, nueva = [estado |-> "generated", foto |-> foto]
             PROVE  ComprobantesInd'
  OBVIOUS
<1>1. ComprobantesTypeOK /\ foto \in FotoType
  BY FotoTipo DEF ComprobantesInd
<1>2. /\ L \subseteq LineaType /\ Formada(foto, L) /\ Congeladas(foto, L) = Fijas(foto)
      /\ h \in ComprobanteType
  BY <1>1, LineasNuevas
<1>3. /\ nominas = <<>> /\ Genera
      /\ nominas' = Append(nominas, nueva) /\ comprobantes' = Append(comprobantes, h)
      /\ lotes' = Append(lotes, {w})
      /\ primera' = IF primera = {} THEN Fijas(foto) ELSE primera
      /\ UNCHANGED <<fijas, config, prestamos, cola, peticion, encimado>>
  BY <1>2 DEF Calcular, Agrega, Recuerda
<1>4. /\ w \in LoteType /\ w.lineas = L /\ w.completo /\ w.id = cuenta.generaciones + 1
      /\ cuenta' \in [cambios : 0 .. MaxCambios, generaciones : 0 .. MaxGeneraciones]
      /\ cuenta'.generaciones = cuenta.generaciones + 1
  BY <1>1, <1>2, <1>3, GeneraTipo, LoteTipo DEF Lote
<1>5. nueva \in NominaType /\ nueva.foto = foto /\ nueva.estado = "generated"
  BY <1>1 DEF NominaType, EstadosNomina
<1>6. /\ nominas \in Seq(NominaType) /\ comprobantes \in Seq(ComprobanteType)
      /\ Len(comprobantes) = Len(nominas) /\ Len(nominas) < MaxNominas /\ Nominas = {}
      /\ cuenta.generaciones \in Nat
  BY <1>1, <1>3, Partes, ComprobantesBounds DEF ComprobantesTypeOK, Nominas
<1>7. /\ cola' \subseteq cola \cup {Len(nominas) + 1}
      /\ cuenta'.generaciones >= cuenta.generaciones /\ w.id <= cuenta'.generaciones
      /\ Formada(nueva.foto, w.lineas)
  <2>1. Formada(nueva.foto, w.lineas) /\ cola' \subseteq cola \cup {Len(nominas) + 1}
    BY <1>2, <1>3, <1>4, <1>5
  <2>2. w.id = cuenta.generaciones + 1 /\ cuenta'.generaciones = cuenta.generaciones + 1
        /\ cuenta.generaciones \in Nat
    BY <1>4, <1>6
  <2>3. cuenta'.generaciones >= cuenta.generaciones /\ w.id <= cuenta'.generaciones
    <3>1. \A g \in Nat : g + 1 >= g /\ g + 1 <= g + 1
      OBVIOUS
    <3>2. cuenta.generaciones + 1 >= cuenta.generaciones
          /\ cuenta.generaciones + 1 <= cuenta.generaciones + 1
      BY <2>2, <3>1
    <3> QED BY <2>2, <3>2
  <2> QED BY <2>1, <2>3
<1> DEFINE S == {w}
<1>8. S \in SUBSET LoteType /\ lotes' = Append(lotes, S) /\ (\A l \in S : l.id <= cuenta'.generaciones)
      /\ (\A l \in S : l.completo => Formada(nueva.foto, l.lineas))
  BY <1>3, <1>4, <1>7
<1> HIDE DEF S
<1>9. ComprobantesTypeOK'
  BY <1>1, <1>2, <1>3, <1>4, <1>5, <1>6, <1>7, <1>8, TipoAgrega
<1> QED BY <1>2, <1>3, <1>5, <1>6, <1>8, <1>9, PasoAgrega

\* The background calculation, without one.
LEMMA PasoSegundoPlano == ComprobantesInd /\ CalcularEnSegundoPlano => ComprobantesInd'
<1> SUFFICES ASSUME ComprobantesInd, CalcularEnSegundoPlano, NEW foto, foto = Foto,
                    NEW nueva, nueva = [estado |-> "generated", foto |-> foto]
             PROVE  ComprobantesInd'
  OBVIOUS
<1>1. ComprobantesTypeOK /\ foto \in FotoType
  BY FotoTipo DEF ComprobantesInd
<1>2. /\ nominas = <<>>
      /\ nominas' = Append(nominas, nueva) /\ comprobantes' = Append(comprobantes, SinComprobante)
      /\ lotes' = Append(lotes, {})
      /\ UNCHANGED <<fijas, config, prestamos, cola, peticion, cuenta, primera, encimado>>
  BY DEF CalcularEnSegundoPlano, Agrega, historia
<1>3. nueva \in NominaType /\ nueva.foto = foto /\ nueva.estado = "generated"
  BY <1>1 DEF NominaType, EstadosNomina
<1>4. /\ nominas \in Seq(NominaType) /\ comprobantes \in Seq(ComprobanteType)
      /\ Len(comprobantes) = Len(nominas) /\ Len(nominas) < MaxNominas /\ Nominas = {}
      /\ cuenta.generaciones \in Nat /\ SinComprobante \in ComprobanteType
      /\ cuenta' \in [cambios : 0 .. MaxCambios, generaciones : 0 .. MaxGeneraciones]
      /\ cuenta'.generaciones >= cuenta.generaciones /\ cola' \subseteq cola \cup {Len(nominas) + 1}
  BY <1>1, <1>2, Partes, ComprobantesBounds DEF ComprobantesTypeOK, Nominas, ComprobanteType
<1> DEFINE S == {}
<1>5. S \in SUBSET LoteType /\ lotes' = Append(lotes, S) /\ (\A l \in S : l.id <= cuenta'.generaciones)
      /\ \A l \in S : ~l.completo /\ (l.completo => Formada(nueva.foto, l.lineas))
  BY <1>2
<1> HIDE DEF S
<1>6. ComprobantesTypeOK'
  BY <1>1, <1>2, <1>3, <1>4, <1>5, TipoAgrega
<1> QED BY <1>2, <1>3, <1>4, <1>5, <1>6, PasoAgrega

\* The calculation whose voucher failed, whatever it had written.
LEMMA PasoSinComprobante == ComprobantesInd /\ CalcularSinComprobante => ComprobantesInd'
<1> SUFFICES ASSUME ComprobantesInd, CalcularSinComprobante, NEW foto, foto = Foto,
                    NEW L, L = Lineas(foto, FALSE),
                    NEW nueva, nueva = [estado |-> "generated", foto |-> foto]
             PROVE  ComprobantesInd'
  OBVIOUS
<1>1. ComprobantesTypeOK /\ foto \in FotoType
  BY FotoTipo DEF ComprobantesInd
<1>2. L \subseteq LineaType
  BY <1>1, LineasNuevas
<1>3. PICK h, S :
        /\ nominas' = Append(nominas, nueva) /\ comprobantes' = Append(comprobantes, h)
        /\ lotes' = Append(lotes, S)
        /\ h \in ComprobanteType /\ S \in SUBSET LoteType
        /\ \A l \in S : l.id = cuenta.generaciones + 1 /\ ~l.completo
  <2>1. CASE Agrega(foto, SinComprobante, {})
    <3> DEFINE h == SinComprobante
               S == {}
    <3>1. /\ nominas' = Append(nominas, nueva) /\ comprobantes' = Append(comprobantes, h)
          /\ lotes' = Append(lotes, S)
          /\ h \in ComprobanteType /\ S \in SUBSET LoteType
          /\ \A l \in S : l.id = cuenta.generaciones + 1 /\ ~l.completo
      BY <2>1 DEF Agrega, ComprobanteType
    <3> HIDE DEF h, S
    <3> QED BY <3>1
  <2>3. \/ Agrega(foto, SinComprobante, {})
        \/ \E es \in SUBSET Empleados :
             Agrega(foto, [existe |-> TRUE, debitos |-> 0, creditos |-> 0, balance |-> 0,
                           advertido |-> ConfiguracionIncompleta, aplicado |-> FALSE],
                    IF es = {} THEN {} ELSE {Lote({l \in L : l.empleado \in es}, FALSE)})
    BY DEF CalcularSinComprobante
  <2>4. CASE ~Agrega(foto, SinComprobante, {})
    <3>1. PICK es \in SUBSET Empleados :
             Agrega(foto, [existe |-> TRUE, debitos |-> 0, creditos |-> 0, balance |-> 0,
                           advertido |-> ConfiguracionIncompleta, aplicado |-> FALSE],
                    IF es = {} THEN {} ELSE {Lote({l \in L : l.empleado \in es}, FALSE)})
      BY <2>3, <2>4
    <3> DEFINE h == [existe |-> TRUE, debitos |-> 0, creditos |-> 0, balance |-> 0,
                     advertido |-> ConfiguracionIncompleta, aplicado |-> FALSE]
               S == IF es = {} THEN {} ELSE {Lote({l \in L : l.empleado \in es}, FALSE)}
    <3>2. Agrega(foto, h, S)
      BY <3>1
    <3>3. h \in ComprobanteType
      <4>1. ConfiguracionIncompleta \in BOOLEAN
        BY DEF ConfiguracionIncompleta, SinCuentas
      <4> QED BY <4>1 DEF ComprobanteType
    <3> DEFINE P == {l \in L : l.empleado \in es}
               w == Lote(P, FALSE)
    <3>4. P \subseteq LineaType /\ cuenta.generaciones < MaxGeneraciones
      BY <1>2 DEF CalcularSinComprobante, Genera
    <3>5. S \subseteq {w}
      OBVIOUS
    <3> HIDE DEF P, S, h
    <3>6. w \in LoteType /\ w.id = cuenta.generaciones + 1 /\ ~w.completo
      BY <1>1, <3>4, LoteTipo DEF Lote
    <3> HIDE DEF w
    <3>7. S \in SUBSET LoteType /\ \A l \in S : l.id = cuenta.generaciones + 1 /\ ~l.completo
      BY <3>5, <3>6
    <3> QED BY <3>2, <3>3, <3>7 DEF Agrega
  <2> QED BY <2>1, <2>4
<1>4. /\ nominas = <<>> /\ Genera /\ cola' \in {{}, {1}}
      /\ UNCHANGED <<fijas, config, prestamos, peticion, primera, encimado>>
  BY DEF CalcularSinComprobante, historia
<1>5. nueva \in NominaType /\ nueva.foto = foto /\ nueva.estado = "generated"
  BY <1>1 DEF NominaType, EstadosNomina
<1>6. /\ nominas \in Seq(NominaType) /\ comprobantes \in Seq(ComprobanteType)
      /\ Len(comprobantes) = Len(nominas) /\ Len(nominas) < MaxNominas /\ Nominas = {}
      /\ cuenta.generaciones \in Nat /\ cola' \subseteq cola \cup {Len(nominas) + 1}
  BY <1>1, <1>4, Partes, ComprobantesBounds DEF ComprobantesTypeOK, Nominas
<1>7. /\ cuenta' \in [cambios : 0 .. MaxCambios, generaciones : 0 .. MaxGeneraciones]
      /\ cuenta'.generaciones >= cuenta.generaciones
      /\ (\A l \in S : l.id <= cuenta'.generaciones)
      /\ (\A l \in S : l.completo => Formada(nueva.foto, l.lineas))
  BY <1>1, <1>3, <1>4, <1>6, GeneraTipo
<1>8. ComprobantesTypeOK'
  BY <1>1, <1>3, <1>4, <1>5, <1>6, <1>7, TipoAgrega
<1> QED BY <1>3, <1>4, <1>5, <1>6, <1>7, <1>8, PasoAgrega

\* The recalculation, from what the payroll froze.
LEMMA PasoRecalcular ==
  ASSUME ComprobantesInd, NEW n \in Nominas, Recalcular(n)
  PROVE  ComprobantesInd'
<1> SUFFICES ASSUME NEW foto, foto = nominas[n].foto, NEW L, L = Lineas(foto, FALSE),
                    NEW w, w = Lote(L, TRUE), NEW h, h = Cabecera(L, FALSE),
                    NEW nueva, nueva = [estado |-> "generated", foto |-> foto],
                    NEW M, M = (IF ~foraneas \/ lotes[n] = {}
                                THEN [nominas EXCEPT ![n].estado = "deleted"] ELSE nominas),
                    NEW C, C = (IF ~foraneas \/ lotes[n] = {}
                                THEN [comprobantes EXCEPT ![n] = SinComprobante] ELSE comprobantes)
             PROVE  ComprobantesInd'
  OBVIOUS
<1>1. ComprobantesTypeOK /\ foto \in FotoType
  BY Partes DEF ComprobantesInd
<1>2. /\ L \subseteq LineaType /\ Formada(foto, L) /\ Congeladas(foto, L) = Fijas(foto)
      /\ h \in ComprobanteType
  BY <1>1, LineasNuevas
<1>3. /\ Len(nominas) < MaxNominas /\ nominas[n].estado # "applied" /\ Genera
      /\ nominas' = Append(M, nueva) /\ comprobantes' = Append(C, h)
      /\ lotes' = Append(lotes, {w})
      /\ primera' = IF primera = {} THEN Fijas(foto) ELSE primera
      /\ UNCHANGED <<fijas, config, prestamos, cola, peticion, encimado>>
  BY <1>2 DEF Recalcular, Recuerda
<1>4. /\ w \in LoteType /\ w.lineas = L /\ w.completo /\ w.id = cuenta.generaciones + 1
      /\ cuenta' \in [cambios : 0 .. MaxCambios, generaciones : 0 .. MaxGeneraciones]
      /\ cuenta'.generaciones = cuenta.generaciones + 1 /\ cuenta.generaciones \in Nat
  BY <1>1, <1>2, <1>3, Partes, GeneraTipo, LoteTipo DEF Lote
<1>5. nueva \in NominaType /\ nueva.foto = foto /\ nueva.estado = "generated"
  BY <1>1 DEF NominaType, EstadosNomina
<1>6. /\ M \in Seq(NominaType) /\ Len(M) = Len(nominas)
      /\ \A m \in Nominas : /\ M[m].foto = nominas[m].foto
                            /\ m # n => M[m].estado = nominas[m].estado
                            /\ M[n].estado # "applied"
  <2>1. nominas \in Seq(NominaType)
    BY <1>1 DEF ComprobantesTypeOK
  <2> DEFINE x == [nominas[n] EXCEPT !.estado = "deleted"]
  <2>2. x \in NominaType /\ x.foto = nominas[n].foto /\ x.estado = "deleted"
    <3>1. nominas[n] \in NominaType
      BY <1>1, Partes
    <3> QED BY <3>1 DEF NominaType, EstadosNomina
  <2>3. M = [nominas EXCEPT ![n] = x] \/ M = nominas
    OBVIOUS
  <2> HIDE DEF x
  <2>4. CASE M = nominas
    BY <1>3, <2>1, <2>4
  <2>5. CASE M = [nominas EXCEPT ![n] = x]
    <3>1. M \in Seq(NominaType) /\ Len(M) = Len(nominas)
      BY <2>1, <2>2, <2>5 DEF Nominas
    <3>2. \A m \in Nominas : M[m] = IF m = n THEN x ELSE nominas[m]
      BY <2>1, <2>5 DEF Nominas
    <3> QED BY <2>2, <3>1, <3>2
  <2> QED BY <2>3, <2>4, <2>5
<1>7. /\ C \in Seq(ComprobanteType) /\ Len(C) = Len(nominas)
      /\ \A m \in Nominas : m # n => C[m] = comprobantes[m]
  <2>1. /\ comprobantes \in Seq(ComprobanteType) /\ Len(comprobantes) = Len(nominas)
        /\ DOMAIN comprobantes = Nominas /\ SinComprobante \in ComprobanteType
    BY <1>1, Partes DEF ComprobantesTypeOK, ComprobanteType
  <2> QED BY <2>1
<1>8. /\ cola' \subseteq cola \cup {Len(nominas) + 1}
      /\ cuenta'.generaciones >= cuenta.generaciones /\ w.id <= cuenta'.generaciones
      /\ Formada(nueva.foto, w.lineas)
  <2>1. Formada(nueva.foto, w.lineas) /\ cola' \subseteq cola \cup {Len(nominas) + 1}
    BY <1>2, <1>3, <1>4, <1>5
  <2>2. w.id = cuenta.generaciones + 1 /\ cuenta'.generaciones = cuenta.generaciones + 1
        /\ cuenta.generaciones \in Nat
    BY <1>4
  <2>3. cuenta'.generaciones >= cuenta.generaciones /\ w.id <= cuenta'.generaciones
    <3>1. \A g \in Nat : g + 1 >= g /\ g + 1 <= g + 1
      OBVIOUS
    <3>2. cuenta.generaciones + 1 >= cuenta.generaciones
          /\ cuenta.generaciones + 1 <= cuenta.generaciones + 1
      BY <2>2, <3>1
    <3> QED BY <2>2, <3>2
  <2> QED BY <2>1, <2>3
<1> DEFINE S == {w}
<1>9. S \in SUBSET LoteType /\ lotes' = Append(lotes, S) /\ (\A l \in S : l.id <= cuenta'.generaciones)
      /\ (\A l \in S : l.completo => Formada(nueva.foto, l.lineas))
  BY <1>3, <1>4, <1>8
<1>10. \A m \in Nominas : nueva.foto = nominas[m].foto
  BY <1>5 DEF ComprobantesInd, UnaFoto
<1>11. \A m \in Nominas :
         /\ M[m].foto = nominas[m].foto
         /\ M[m].estado = "applied" => nominas[m].estado = "applied" /\ C[m] = comprobantes[m]
  BY <1>3, <1>6, <1>7
<1> HIDE DEF S
<1>12. ComprobantesTypeOK'
  BY <1>1, <1>2, <1>3, <1>4, <1>5, <1>6, <1>7, <1>8, <1>9, TipoAgrega
<1>13. (primera' = primera /\ \A l \in S : ~l.completo)
       \/ primera' = (IF primera = {} THEN Fijas(nueva.foto) ELSE primera)
  BY <1>3, <1>5
<1> QED BY <1>3, <1>5, <1>6, <1>7, <1>9, <1>10, <1>11, <1>12, <1>13, PasoAgrega

\* A payroll that changes its estado and nothing else.
LEMMA EstadoCambia ==
  ASSUME ComprobantesTypeOK, NEW n \in Nominas, NEW a \in EstadosNomina,
         nominas' = [nominas EXCEPT ![n].estado = a]
  PROVE  /\ nominas' \in Seq(NominaType) /\ Len(nominas') = Len(nominas)
         /\ DOMAIN nominas' = Nominas
         /\ \A m \in Nominas : /\ nominas'[m].foto = nominas[m].foto
                               /\ nominas'[m].estado = IF m = n THEN a ELSE nominas[m].estado
<1> DEFINE x == [nominas[n] EXCEPT !.estado = a]
<1>1. nominas \in Seq(NominaType) /\ nominas[n] \in NominaType
  BY Partes DEF ComprobantesTypeOK
<1>2. x \in NominaType /\ x.foto = nominas[n].foto /\ x.estado = a
  BY <1>1 DEF NominaType
<1>3. nominas' = [nominas EXCEPT ![n] = x]
  OBVIOUS
<1> HIDE DEF x
<1> DEFINE M == nominas'
<1>4. M = [nominas EXCEPT ![n] = x]
  BY <1>3
<1> HIDE DEF M
<1>5. M \in Seq(NominaType) /\ Len(M) = Len(nominas) /\ DOMAIN M = Nominas
  BY <1>1, <1>2, <1>4 DEF Nominas
<1>6. \A m \in Nominas : M[m] = IF m = n THEN x ELSE nominas[m]
  BY <1>1, <1>4 DEF Nominas
<1>7. \A m \in Nominas : /\ M[m].foto = nominas[m].foto
                         /\ M[m].estado = IF m = n THEN a ELSE nominas[m].estado
  BY <1>2, <1>6
<1> QED BY <1>5, <1>7 DEF M

\* An approval or a voiding.
LEMMA PasoPasa ==
  ASSUME ComprobantesInd, NEW n \in Nominas, NEW de, NEW a \in EstadosNomina \ {"applied"},
         Pasa(n, de, a)
  PROVE  ComprobantesInd'
<1>1. /\ ComprobantesTypeOK /\ nominas' = [nominas EXCEPT ![n].estado = a]
      /\ UNCHANGED <<fijas, config, prestamos, comprobantes, lotes, cola, peticion, cuenta, historia>>
  BY DEF Pasa, ComprobantesInd
<1>2. /\ nominas' \in Seq(NominaType) /\ Len(nominas') = Len(nominas) /\ DOMAIN nominas' = Nominas
      /\ \A m \in Nominas : /\ nominas'[m].foto = nominas[m].foto
                            /\ nominas'[m].estado = IF m = n THEN a ELSE nominas[m].estado
  BY <1>1, EstadoCambia
<1>3. config' \in ConfigType /\ prestamos' \in Seq(PrestamoType) /\ cola' \subseteq cola
      /\ cuenta' \in [cambios : 0 .. MaxCambios, generaciones : 0 .. MaxGeneraciones]
      /\ cuenta'.generaciones = cuenta.generaciones
      /\ peticion' \in [Peticiones -> {Libre} \cup PeticionType]
      /\ \A r \in Peticiones : peticion'[r] \in {peticion[r], Libre}
  BY <1>1 DEF ComprobantesTypeOK
<1>4. ComprobantesTypeOK'
  BY <1>1, <1>2, <1>3, TipoSinLineas
<1>5. PrestamosFijos'
  BY <1>1 DEF ComprobantesInd, PrestamosFijos, fijas
<1>6. \A m \in Nominas : /\ nominas'[m].foto = nominas[m].foto
                         /\ nominas'[m].estado = "applied" => nominas[m].estado = "applied"
  BY <1>2
<1> QED BY <1>1, <1>2, <1>3, <1>4, <1>5, <1>6, PasoSinLineas

\* Nothing but the accounts, the loans, the queue and what is in progress.
LEMMA PasoAparte ==
  ASSUME ComprobantesInd, UNCHANGED <<fijas, nominas, comprobantes, lotes, historia>>,
         config' \in ConfigType, prestamos' \in Seq(PrestamoType), PrestamosFijos',
         cola' \subseteq cola,
         cuenta' \in [cambios : 0 .. MaxCambios, generaciones : 0 .. MaxGeneraciones],
         cuenta'.generaciones = cuenta.generaciones,
         peticion' \in [Peticiones -> {Libre} \cup PeticionType],
         \A r \in Peticiones : peticion'[r] \in {peticion[r], Libre}
  PROVE  ComprobantesInd'
<1>1. ComprobantesTypeOK
  BY DEF ComprobantesInd
<1>2. nominas' \in Seq(NominaType) /\ Len(nominas') = Len(nominas) /\ DOMAIN nominas' = Nominas
  BY <1>1 DEF ComprobantesTypeOK, Nominas
<1>3. ComprobantesTypeOK'
  BY <1>1, <1>2, TipoSinLineas
<1>4. \A m \in Nominas : /\ nominas'[m].foto = nominas[m].foto
                         /\ nominas'[m].estado = "applied" => nominas[m].estado = "applied"
  OBVIOUS
<1> QED BY <1>2, <1>3, <1>4, PasoSinLineas

\* A request that fails.
LEMMA PasoFalla ==
  ASSUME ComprobantesInd, NEW r \in Peticiones, Falla(r)
  PROVE  ComprobantesInd'
<1>1. UNCHANGED <<fijas, config, prestamos, nominas, comprobantes, lotes, cuenta, historia>>
      /\ peticion' = [peticion EXCEPT ![r] = Libre] /\ ComprobantesTypeOK
  BY DEF Falla, Termina, ComprobantesInd
<1>2. cola' \subseteq cola
  BY DEF Falla, Entregada
<1>3. peticion' \in [Peticiones -> {Libre} \cup PeticionType]
      /\ \A s \in Peticiones : peticion'[s] \in {peticion[s], Libre}
  BY <1>1 DEF ComprobantesTypeOK
<1>4. config' \in ConfigType /\ prestamos' \in Seq(PrestamoType)
      /\ cuenta' \in [cambios : 0 .. MaxCambios, generaciones : 0 .. MaxGeneraciones]
      /\ cuenta'.generaciones = cuenta.generaciones
  BY <1>1 DEF ComprobantesTypeOK
<1>5. PrestamosFijos'
  BY <1>1 DEF ComprobantesInd, PrestamosFijos, fijas
<1> QED BY <1>1, <1>2, <1>3, <1>4, <1>5, PasoAparte

\* An edit of the accounts or of the loans.
LEMMA PasoEdita ==
  ASSUME ComprobantesInd, Cambia,
         UNCHANGED <<fijas, nominas, comprobantes, lotes, cola, peticion, historia>>,
         config' \in ConfigType, prestamos' \in Seq(PrestamoType), PrestamosFijos'
  PROVE  ComprobantesInd'
<1>1. ComprobantesTypeOK
  BY DEF ComprobantesInd
<1>2. cuenta' \in [cambios : 0 .. MaxCambios, generaciones : 0 .. MaxGeneraciones]
      /\ cuenta'.generaciones = cuenta.generaciones
  <2>1. /\ cuenta \in [cambios : 0 .. MaxCambios, generaciones : 0 .. MaxGeneraciones]
        /\ cuenta.cambios < MaxCambios /\ cuenta' = [cuenta EXCEPT !.cambios = @ + 1]
    BY <1>1 DEF Cambia, ComprobantesTypeOK
  <2>2. cuenta.cambios + 1 \in 0 .. MaxCambios
    BY <1>1, <2>1, Partes, ComprobantesBounds
  <2> QED BY <2>1, <2>2
<1>3. peticion' \in [Peticiones -> {Libre} \cup PeticionType]
      /\ \A s \in Peticiones : peticion'[s] \in {peticion[s], Libre}
  BY <1>1 DEF ComprobantesTypeOK
<1> QED BY <1>1, <1>2, <1>3, PasoAparte

\* An edit of a concept.
LEMMA PasoConcepto ==
  ASSUME ComprobantesInd, NEW c \in DOMAIN config.fichas, NEW f \in Fichas, EditarConcepto(c, f)
  PROVE  ComprobantesInd'
<1>1. config \in ConfigType /\ f \in FichaType /\ prestamos \in Seq(PrestamoType)
  BY EscenariosAssumption, Partes DEF ComprobantesInd
<1>2. Cambia /\ config' = [config EXCEPT !.fichas[c] = f]
      /\ UNCHANGED <<fijas, prestamos, nominas, comprobantes, lotes, cola, peticion, historia>>
  BY DEF EditarConcepto
<1>3. config' \in ConfigType
  <2> DEFINE g == [config.fichas EXCEPT ![c] = f]
  <2>1. config' = [config EXCEPT !.fichas = g]
    BY <1>2
  <2>2. g \in [Conceptos -> FichaType]
    BY <1>1 DEF ConfigType
  <2> HIDE DEF g
  <2> QED BY <1>1, <2>1, <2>2 DEF ConfigType
<1>4. PrestamosFijos'
  BY <1>2 DEF ComprobantesInd, PrestamosFijos, fijas
<1> QED BY <1>1, <1>2, <1>3, <1>4, PasoEdita

\* An edit of the accounts of the salary or of the vacations.
LEMMA PasoPlanilla ==
  ASSUME ComprobantesInd, NEW f \in Fichas, EditarPlanilla([debe |-> f.debe, haber |-> f.haber])
  PROVE  ComprobantesInd'
<1> SUFFICES ASSUME NEW nuevas, nuevas = [debe |-> f.debe, haber |-> f.haber], EditarPlanilla(nuevas)
             PROVE  ComprobantesInd'
  OBVIOUS
<1>1. config \in ConfigType /\ f \in FichaType /\ prestamos \in Seq(PrestamoType)
  BY EscenariosAssumption, Partes DEF ComprobantesInd
<1>2. nuevas \in ParCuentas /\ nuevas.debe \in Opcional /\ nuevas.haber \in Opcional
  BY <1>1 DEF FichaType, ParCuentas
<1>3. /\ Cambia
      /\ UNCHANGED <<fijas, prestamos, nominas, comprobantes, lotes, cola, peticion, historia>>
      /\ \/ config' = [config EXCEPT !.sueldo = nuevas]
         \/ config' = [config EXCEPT !.politica =
              [pagadas |-> @.pagadas, debe |-> nuevas.debe, haber |-> nuevas.haber]]
  BY DEF EditarPlanilla
<1>4. config' \in ConfigType
  <2>1. CASE config' = [config EXCEPT !.sueldo = nuevas]
    BY <1>1, <1>2, <2>1 DEF ConfigType
  <2>2. CASE config' = [config EXCEPT !.politica =
              [pagadas |-> @.pagadas, debe |-> nuevas.debe, haber |-> nuevas.haber]]
    <3> DEFINE p == [pagadas |-> config.politica.pagadas, debe |-> nuevas.debe, haber |-> nuevas.haber]
    <3>1. p \in PoliticaType
      BY <1>1, <1>2 DEF ConfigType, PoliticaType
    <3>2. config' = [config EXCEPT !.politica = p]
      BY <2>2
    <3> HIDE DEF p
    <3> QED BY <1>1, <3>1, <3>2 DEF ConfigType
  <2> QED BY <1>3, <2>1, <2>2
<1>5. PrestamosFijos'
  BY <1>3 DEF ComprobantesInd, PrestamosFijos, fijas
<1> QED BY <1>1, <1>3, <1>4, <1>5, PasoEdita

\* A change of a loan.
LEMMA PasoPrestamo ==
  ASSUME ComprobantesInd, NEW i \in DOMAIN prestamos, NEW e \in {"approved", "applied", "paid"},
         PrestamoPasa(i, e)
  PROVE  ComprobantesInd'
<1>1. config \in ConfigType /\ prestamos \in Seq(PrestamoType)
  BY Partes DEF ComprobantesInd
<1>2. /\ Cambia /\ prestamos' = [prestamos EXCEPT ![i].estado = e]
      /\ UNCHANGED <<fijas, config, nominas, comprobantes, lotes, cola, peticion, historia>>
  BY DEF PrestamoPasa
<1> DEFINE x == [prestamos[i] EXCEPT !.estado = e]
<1>3. x \in PrestamoType /\ x.cuenta = prestamos[i].cuenta
  <2>1. prestamos[i] \in PrestamoType
    BY <1>1
  <2> QED BY <2>1 DEF PrestamoType, EstadosAdelanto
<1>4. prestamos' = [prestamos EXCEPT ![i] = x]
  BY <1>2
<1> HIDE DEF x
<1>5. prestamos' \in Seq(PrestamoType)
  BY <1>1, <1>3, <1>4
<1>6. DOMAIN prestamos' = DOMAIN prestamos /\ \A j \in DOMAIN prestamos : prestamos'[j].cuenta = prestamos[j].cuenta
  <2>1. DOMAIN prestamos' = DOMAIN prestamos
        /\ \A j \in DOMAIN prestamos : prestamos'[j] = IF j = i THEN x ELSE prestamos[j]
    BY <1>1, <1>4
  <2> QED BY <1>3, <2>1
<1>7. PrestamosFijos'
  BY <1>2, <1>6 DEF ComprobantesInd, PrestamosFijos, fijas
<1> QED BY <1>1, <1>2, <1>5, <1>7, PasoEdita

\* The application writes the voucher and the estado.
LEMMA PasoAplica ==
  ASSUME ComprobantesInd, NEW r \in Peticiones, Aplicar(r)
  PROVE  ComprobantesInd'
<1> SUFFICES ASSUME NEW q, q = peticion[r] PROVE ComprobantesInd'
  OBVIOUS
<1>1. /\ ComprobantesTypeOK /\ q.op = "aplicar" /\ Escribe(q, TRUE) /\ Termina(r)
      /\ nominas' = [nominas EXCEPT ![q.n].estado = "applied"]
      /\ UNCHANGED <<fijas, config, prestamos, cola>>
  BY DEF Aplicar, ComprobantesInd
<1>2. q # Libre /\ q.n \in Nominas
  BY <1>1 DEF Libre, ComprobantesTypeOK, Nominas
<1>3. /\ nominas' \in Seq(NominaType) /\ Len(nominas') = Len(nominas) /\ DOMAIN nominas' = Nominas
      /\ \A m \in Nominas : /\ nominas'[m].foto = nominas[m].foto
                            /\ nominas'[m].estado = IF m = q.n THEN "applied" ELSE nominas[m].estado
  BY <1>1, <1>2, EstadoCambia DEF EstadosNomina
<1>4. ComprobantesTypeOK'
  BY <1>1, <1>2, <1>3, TipoEscribe
<1>5. \A m \in Nominas :
        /\ nominas'[m].foto = nominas[m].foto
        /\ nominas'[m].estado = "applied" =>
             nominas[m].estado = "applied" \/ (m = q.n /\ q.op = "aplicar")
  BY <1>1, <1>3
<1> QED BY <1>1, <1>2, <1>3, <1>4, <1>5, PasoEscribe

\* A retry of the queue writes the voucher.
LEMMA PasoRegenera ==
  ASSUME ComprobantesInd, NEW r \in Peticiones, Regenerar(r)
  PROVE  ComprobantesInd'
<1> SUFFICES ASSUME NEW q, q = peticion[r], NEW a, a = (nominas[q.n].estado = "applied")
             PROVE  ComprobantesInd'
  OBVIOUS
<1>1. /\ ComprobantesTypeOK /\ q.op = "tarea" /\ Escribe(q, a) /\ Termina(r) /\ Entregada(q)
      /\ UNCHANGED <<fijas, config, prestamos, nominas>>
  BY DEF Regenerar, ComprobantesInd
<1>2. q # Libre /\ cola' \subseteq cola /\ a \in BOOLEAN
  BY <1>1 DEF Libre, Entregada
<1>3. nominas' \in Seq(NominaType) /\ Len(nominas') = Len(nominas) /\ DOMAIN nominas' = Nominas
  BY <1>1 DEF ComprobantesTypeOK, Nominas
<1>4. ComprobantesTypeOK'
  BY <1>1, <1>2, <1>3, TipoEscribe
<1>5. \A m \in Nominas :
        /\ nominas'[m].foto = nominas[m].foto
        /\ nominas'[m].estado = "applied" =>
             nominas[m].estado = "applied" \/ (m = q.n /\ q.op = "aplicar")
  BY <1>1
<1> QED BY <1>1, <1>2, <1>3, <1>4, <1>5, PasoEscribe

\* An application or a retry reads.
LEMMA PasoLectura ==
  ASSUME ComprobantesInd, NEW r \in Peticiones, NEW n \in Nominas,
         AplicarLee(r, n) \/ TareaLee(r, n)
  PROVE  ComprobantesInd'
<1>1. PICK op \in Ops, c \in BOOLEAN :
        Lee(r, op, n, c) /\ (op = "aplicar" \/ nominas[n].estado = "applied" => c)
  <2>1. CASE AplicarLee(r, n)
    <3>1. Lee(r, "aplicar", n, TRUE) /\ "aplicar" \in Ops
      BY <2>1 DEF AplicarLee, Ops
    <3> QED BY <3>1
  <2>2. CASE TareaLee(r, n)
    <3> DEFINE c == nominas[n].estado = "applied"
    <3>1. Lee(r, "tarea", n, c) /\ "tarea" \in Ops /\ c \in BOOLEAN
      BY <2>2 DEF TareaLee, Ops
    <3>2. c \in BOOLEAN /\ ("tarea" = "aplicar" \/ nominas[n].estado = "applied" => c)
      OBVIOUS
    <3> HIDE DEF c
    <3> QED BY <3>1, <3>2
  <2> QED BY <2>1, <2>2
<1>2. ComprobantesTypeOK'
  BY <1>1, TipoLee DEF ComprobantesInd
<1> QED BY <1>1, <1>2, PasoLee

\* Every step of the vouchers keeps the inductive invariant.
THEOREM ComprobantesPaso == ComprobantesInd /\ [ComprobantesNext]_comprobantesVars => ComprobantesInd'
<1> SUFFICES ASSUME ComprobantesInd, [ComprobantesNext]_comprobantesVars PROVE ComprobantesInd'
  OBVIOUS
<1>1. CASE Calcular
  BY <1>1, PasoCalcular
<1>2. CASE CalcularSinComprobante
  BY <1>2, PasoSinComprobante
<1>3. CASE CalcularEnSegundoPlano
  BY <1>3, PasoSegundoPlano
<1>4. ASSUME NEW n \in Nominas, Recalcular(n) PROVE ComprobantesInd'
  BY <1>4, PasoRecalcular
<1>5. ASSUME NEW n \in Nominas, Aprobar(n) \/ Anular(n) PROVE ComprobantesInd'
  <2>1. \E de : \E a \in EstadosNomina \ {"applied"} : Pasa(n, de, a)
    <3>1. {"approved", "cancelled"} \subseteq EstadosNomina \ {"applied"}
      BY DEF EstadosNomina
    <3> QED BY <1>5, <3>1 DEF Aprobar, Anular
  <2> QED BY <2>1, PasoPasa
<1>6. ASSUME NEW r \in Peticiones, NEW n \in Nominas, AplicarLee(r, n) \/ TareaLee(r, n)
      PROVE  ComprobantesInd'
  BY <1>6, PasoLectura
<1>7. ASSUME NEW r \in Peticiones, Aplicar(r) \/ Regenerar(r) \/ Falla(r) PROVE ComprobantesInd'
  BY <1>7, PasoAplica, PasoRegenera, PasoFalla
<1>8. ASSUME NEW c \in DOMAIN config.fichas, NEW f \in Fichas, EditarConcepto(c, f) PROVE ComprobantesInd'
  BY <1>8, PasoConcepto
<1>9. ASSUME NEW f \in Fichas, EditarPlanilla([debe |-> f.debe, haber |-> f.haber]) PROVE ComprobantesInd'
  BY <1>9, PasoPlanilla
<1>10. ASSUME NEW i \in DOMAIN prestamos, NEW e \in {"approved", "applied", "paid"}, PrestamoPasa(i, e)
       PROVE  ComprobantesInd'
  BY <1>10, PasoPrestamo
<1>11. CASE UNCHANGED comprobantesVars
  <2>1. UNCHANGED <<fijas, config, prestamos, nominas, comprobantes, lotes, cola, peticion, cuenta, historia>>
        /\ ComprobantesTypeOK
    BY <1>11 DEF comprobantesVars, ComprobantesInd
  <2>2. config' \in ConfigType /\ prestamos' \in Seq(PrestamoType)
        /\ cuenta' \in [cambios : 0 .. MaxCambios, generaciones : 0 .. MaxGeneraciones]
        /\ cuenta'.generaciones = cuenta.generaciones
        /\ peticion' \in [Peticiones -> {Libre} \cup PeticionType]
    BY <2>1 DEF ComprobantesTypeOK
  <2>3. PrestamosFijos'
    BY <2>1 DEF ComprobantesInd, PrestamosFijos, fijas
  <2> QED BY <2>1, <2>2, <2>3, PasoAparte
<1> QED
  BY <1>1, <1>2, <1>3, <1>4, <1>5, <1>6, <1>7, <1>8, <1>9, <1>10, <1>11 DEF ComprobantesNext

\* It holds in every behaviour.
THEOREM ComprobantesIndCorrect == ComprobantesSpec => []ComprobantesInd
<1> QED BY Inicio, ComprobantesPaso, PTL DEF ComprobantesSpec

\* Every variable of the vouchers keeps its type.
THEOREM ComprobantesTypeCorrect == ComprobantesSpec => []ComprobantesTypeOK
<1>1. ComprobantesInd => ComprobantesTypeOK
  BY DEF ComprobantesInd
<1> QED BY <1>1, ComprobantesIndCorrect, PTL

\* Every complete generation books the salary, the perceptions and the benefits in the
\* accounts they were first booked in, however the accounts are edited in between.
THEOREM LineasCongeladasCorrect == ComprobantesSpec => []LineasCongeladas
<1>1. ComprobantesInd => LineasCongeladas
  <2> SUFFICES ASSUME ComprobantesInd, NEW n \in Nominas, NEW l \in lotes[n], l.completo
               PROVE  Congeladas(nominas[n].foto, l.lineas) = primera
    BY DEF LineasCongeladas
  <2>1. ComprobantesTypeOK
    BY DEF ComprobantesInd
  <2>2. escenario \in Escenario /\ nominas[n].foto \in FotoType
    BY <2>1, Partes
  <2>3. Formada(nominas[n].foto, l.lineas) /\ primera = Fijas(nominas[n].foto)
    BY DEF ComprobantesInd, LotesFormados, PrimeraFija
  <2> QED BY <2>2, <2>3, CongeladasFijas
<1> QED BY <1>1, ComprobantesIndCorrect, PTL

\* An applied payroll has a voucher, and one whole and balanced generation unless two
\* overlapped, whatever order the requests and the retries come in.
THEOREM AplicadaConComprobanteCorrect == ComprobantesSpec => []AplicadaConComprobante
<1>1. ComprobantesInd => AplicadaConComprobante
  <2> SUFFICES ASSUME ComprobantesInd, NEW n \in Nominas, nominas[n].estado = "applied"
               PROVE  /\ comprobantes[n].existe
                      /\ n \notin encimado => \E l \in lotes[n] : lotes[n] = {l} /\ Completo(n, l.lineas)
    BY DEF AplicadaConComprobante
  <2>1. ComprobantesTypeOK /\ AplicadaBien(n)
    BY DEF ComprobantesInd, AplicadasBien
  <2>2. comprobantes[n].existe
    BY <2>1 DEF AplicadaBien
  <2>3. ASSUME n \notin encimado
        PROVE  \E l \in lotes[n] : lotes[n] = {l} /\ Completo(n, l.lineas)
    <3>1. PICK l \in lotes[n] : /\ lotes[n] = {l} /\ l.completo /\ Encabeza(comprobantes[n], l.lineas)
                                /\ ConVacaciones(nominas[n].foto, l.lineas)
      BY <2>1, <2>3 DEF AplicadaBien
    <3> SUFFICES ASSUME NEW foto, foto = nominas[n].foto, NEW L, L = l.lineas
                 PROVE  Completo(n, L)
      BY <3>1
    <3>2. escenario \in Escenario /\ Formada(foto, L) /\ ConVacaciones(foto, L)
      BY <2>1, <3>1, Partes DEF ComprobantesInd, LotesFormados
    <3>3. Lado(L, "debito") = Lado(L, "credito") /\ Lado(L, "credito") \in Int
      <4>1. Lado(L, "debito") = Lado(L, "credito")
        BY <3>2, Balance
      <4>2. L \subseteq LineaType /\ IsFiniteSet(L)
        <5>1. lotes[n] \in SUBSET LoteType
          BY <2>1, Partes
        <5>2. L \subseteq LineaType
          BY <5>1 DEF LoteType
        <5> QED BY <3>2, <5>2, LineasFinitas
      <4>3. Lado(L, "credito") \in Nat
        BY <4>2, LadoTipo
      <4> QED BY <4>1, <4>3
    <3>4. /\ comprobantes[n].debitos = Lado(L, "debito") /\ comprobantes[n].creditos = Lado(L, "credito")
          /\ comprobantes[n].balance = 0 /\ (HayNulas(L) => comprobantes[n].advertido)
      BY <3>1, <3>3 DEF Encabeza
    <3>5. ASSUME NEW e \in Empleados
          PROVE  /\ DeTipo(L, e, "salario_base") = 2 * Recibo(e).sueldo
                 /\ Recibo(e).vacaciones.entrada # "none" /\ nominas[n].foto.politica.pagadas =>
                      DeTipo(L, e, "vacation_liability") = 2 * Recibo(e).vacaciones.monto
      BY <3>2, SalarioEnLineas, VacacionesEnLineas
    <3> QED BY <3>4, <3>5 DEF Completo
  <2> QED BY <2>2, <2>3
<1> QED BY <1>1, ComprobantesIndCorrect, PTL

-----------------------------------------------------------------------------
(* What a voucher and a settlement leave payable                             *)

\* Nothing added up is nothing.
LEMMA SumaNula ==
  ASSUME NEW S, IsFiniteSet(S), NEW f \in [S -> Int], \A x \in S : f[x] = 0
  PROVE  SumFunctionOnSet(f, S) = 0
<1>1. S \in SUBSET S
  OBVIOUS
<1>2. SumFunctionOnSet(f, S) \in Int
  BY <1>1, SumaPaso
<1>3. \A x \in S : f[x] = f[x] - f[x]
  OBVIOUS
<1>4. SumFunctionOnSet(f, S) = SumFunctionOnSet(f, S) - SumFunctionOnSet(f, S)
  BY <1>3, SumaDosSumas
<1> QED BY <1>2, <1>4

\* The sum of the opposites is the opposite of the sum.
LEMMA SumaOpuesta ==
  ASSUME NEW S, IsFiniteSet(S), NEW f \in [S -> Int], NEW h \in [S -> Int],
         \A x \in S : h[x] = - f[x]
  PROVE  SumFunctionOnSet(h, S) = - SumFunctionOnSet(f, S)
<1> DEFINE o == [x \in S |-> 0]
<1>1. o \in [S -> Int] /\ \A x \in S : o[x] = 0 /\ h[x] = o[x] - f[x]
  OBVIOUS
<1> HIDE DEF o
<1>2. SumFunctionOnSet(o, S) = 0
  BY <1>1, SumaNula
<1>3. SumFunctionOnSet(h, S) = SumFunctionOnSet(o, S) - SumFunctionOnSet(f, S)
  BY <1>1, SumaDosSumas
<1>4. SumFunctionOnSet(f, S) \in Int
  BY SumaPaso
<1> QED BY <1>2, <1>3, <1>4

\* The sum over a part, the rest counting for nothing.
LEMMA SumaParcial ==
  ASSUME NEW S, IsFiniteSet(S), NEW f \in [S -> Int], NEW T \in SUBSET S, NEW g,
         g = [x \in T |-> f[x]], NEW h \in [S -> Int],
         \A x \in S : h[x] = IF x \in T THEN f[x] ELSE 0
  PROVE  SumFunction(g) = SumFunctionOnSet(h, S)
<1>1. IsFiniteSet(T) /\ g \in [T -> Int] /\ \A x \in T : g[x] = f[x]
  BY FS_Subset
<1>2. SumFunction(g) = SumFunctionOnSet(g, T)
  BY <1>1, SumaTodo
<1>3. SumFunctionOnSet(g, T) = SumFunctionOnSet(f, T)
  <2>1. T \in SUBSET (T \cap S)
    OBVIOUS
  <2> QED BY <1>1, <2>1, SumaIgual
<1>4. SumFunctionOnSet(f, T) = SumFunctionOnSet([x \in S |-> IF x \in T THEN f[x] ELSE 0], S)
  BY SumaDeParte
<1>5. h = [x \in S |-> IF x \in T THEN f[x] ELSE 0]
  OBVIOUS
<1> QED BY <1>2, <1>3, <1>4, <1>5

\* What a line leaves payable in a cost centre.
Firma(z, l) ==
  IF l.cuenta = PorPagar /\ l.centro = z THEN (IF l.lado = "debito" THEN l.monto ELSE - l.monto) ELSE 0

\* The net of an account in a centre, line by line.
LEMMA NetoEsSuma ==
  ASSUME NEW L \in SUBSET LineaType, IsFiniteSet(L), NEW z, NEW s \in [L -> Int],
         \A l \in L : s[l] = Firma(z, l)
  PROVE  Neto(L, PorPagar, z) = SumFunctionOnSet(s, L)
<1> DEFINE suyas == {l \in L : l.cuenta = PorPagar /\ l.centro = z}
           D == {l \in suyas : l.lado = "debito"}
           C == {l \in suyas : l.lado = "credito"}
           m == [l \in L |-> l.monto]
           d == [l \in L |-> IF l \in D THEN m[l] ELSE 0]
           c == [l \in L |-> IF l \in C THEN m[l] ELSE 0]
           gd == [l \in D |-> l.monto]
           gc == [l \in C |-> l.monto]
<1>1. \A l \in L : l.monto \in Nat /\ l.lado \in {"debito", "credito"}
  BY DEF LineaType
<1>2. /\ m \in [L -> Int] /\ D \in SUBSET L /\ C \in SUBSET L
      /\ gd = [l \in D |-> m[l]] /\ gc = [l \in C |-> m[l]]
  BY <1>1
<1>3. d \in [L -> Int] /\ \A l \in L : d[l] = IF l \in D THEN m[l] ELSE 0
  BY <1>2
<1>4. c \in [L -> Int] /\ \A l \in L : c[l] = IF l \in C THEN m[l] ELSE 0
  BY <1>2
<1>5. \A l \in L : s[l] = d[l] - c[l]
  <2> TAKE l \in L
  <2>1. /\ l \in D <=> l.cuenta = PorPagar /\ l.centro = z /\ l.lado = "debito"
        /\ l \in C <=> l.cuenta = PorPagar /\ l.centro = z /\ l.lado = "credito"
    OBVIOUS
  <2>2. m[l] = l.monto /\ l.monto \in Int
    BY <1>1
  <2> HIDE DEF D, C, m, d, c
  <2> QED BY <1>1, <1>3, <1>4, <2>1, <2>2 DEF Firma
<1>6. Neto(L, PorPagar, z) = SumFunction(gd) - SumFunction(gc)
  BY DEF Neto, Lado, Montos
<1> HIDE DEF D, C, m, d, c, gd, gc
<1>7. SumFunction(gd) = SumFunctionOnSet(d, L)
  BY <1>2, <1>3, SumaParcial
<1>8. SumFunction(gc) = SumFunctionOnSet(c, L)
  BY <1>2, <1>4, SumaParcial
<1>9. SumFunctionOnSet(s, L) = SumFunctionOnSet(d, L) - SumFunctionOnSet(c, L)
  BY <1>3, <1>4, <1>5, SumaDosSumas
<1> QED BY <1>6, <1>7, <1>8, <1>9

\* What a pair of lines leaves payable.
FirmaPar(z, centro, debe, haber, monto) ==
  IF centro = z
  THEN (IF debe = PorPagar THEN monto ELSE 0) - (IF haber = PorPagar THEN monto ELSE 0)
  ELSE 0

\* What a renglon that is booked leaves payable.
LEMMA ParFirmado ==
  ASSUME NEW L, IsFiniteSet(L), NEW z, NEW s \in [L -> Int], \A l \in L : s[l] = Firma(z, l),
         NEW e, NEW k, NEW tipo, NEW concepto, NEW debe, NEW haber, NEW monto \in Int,
         NEW R \in SUBSET L, R = Par(e, k, tipo, concepto, debe, haber, monto)
  PROVE  SumFunctionOnSet(s, R) = FirmaPar(z, Recibo(e).centro, debe, haber, monto)
<1>1. PICK a, b : /\ a # b /\ R = {a, b}
                  /\ a.lado = "debito" /\ a.cuenta = debe /\ a.monto = monto
                  /\ a.centro = Recibo(e).centro
                  /\ b.lado = "credito" /\ b.cuenta = haber /\ b.monto = monto
                  /\ b.centro = Recibo(e).centro
  BY ParDeDos
<1> DEFINE f == [l \in {a, b} |-> s[l]]
<1>2. f \in [{a, b} -> Int] /\ f \in [R -> Int] /\ f[a] = s[a] /\ f[b] = s[b] /\ \A l \in R : f[l] = s[l]
  BY <1>1
<1>3. IsFiniteSet(R) /\ R \in SUBSET (L \cap R)
  BY FS_Subset
<1> HIDE DEF f
<1>4. SumFunctionOnSet(s, R) = SumFunctionOnSet(f, R)
  BY <1>2, <1>3, SumaIgual
<1>5. SumFunctionOnSet(f, R) = SumFunction(f)
  BY <1>2, SumaTodo
<1>6. SumFunction(f) = f[a] + f[b]
  <2>1. a # b /\ f \in [{a, b} -> Int]
    BY <1>1, <1>2
  <2> QED BY ONLY <2>1, SumaDeDos
<1>7. s[a] = Firma(z, a) /\ s[b] = Firma(z, b)
  BY <1>1
<1>8. Firma(z, a) = IF Recibo(e).centro = z /\ debe = PorPagar THEN monto ELSE 0
  BY <1>1 DEF Firma
<1>9. Firma(z, b) = IF Recibo(e).centro = z /\ haber = PorPagar THEN - monto ELSE 0
  BY <1>1 DEF Firma
<1>10. SumFunctionOnSet(s, R) = Firma(z, a) + Firma(z, b)
  BY <1>2, <1>4, <1>5, <1>6, <1>7
<1> QED BY <1>8, <1>9, <1>10 DEF FirmaPar

-----------------------------------------------------------------------------
(* A payslip                                                                 *)

\* The sides that the usual accounts book as payable.
DePagar(tipo, lado) ==
  \/ tipo \in {"salario_base", "income"} /\ lado = "credito"
  \/ tipo = "deduction" /\ lado = "debito"

\* A usual line that is of no loan is payable if its side is.
LEMMA Usuales ==
  ASSUME NEW L, CuentasUsuales(L), NEW l \in L, l.tipo # "loan"
  PROVE  l.cuenta = PorPagar <=> DePagar(l.tipo, l.lado)
<1>1. \A t, d : <<t, d>> \in {<<"salario_base", "credito">>, <<"income", "credito">>,
                              <<"deduction", "debito">>}
                <=> DePagar(t, d)
  BY DEF DePagar
<1>2. l.cuenta = PorPagar <=>
        <<l.tipo, l.lado>> \in {<<"salario_base", "credito">>, <<"income", "credito">>,
                                <<"deduction", "debito">>}
  BY DEF CuentasUsuales
<1> QED BY <1>1, <1>2

\* What a renglon of a payslip leaves payable.
Aporte(e, k) ==
  IF k \notin Detalles(e) THEN (IF k = 0 THEN - Recibo(e).sueldo ELSE 0)
  ELSE IF Detalle(e, k).tipo = "income" THEN - Detalle(e, k).monto
  ELSE IF Detalle(e, k).tipo = "deduction" THEN Detalle(e, k).monto
  ELSE 0

\* Where the accounts are usual, so it is booked.
LEMMA AportePar ==
  ASSUME NEW L, CuentasUsuales(L), NEW e, NEW k, NEW tipo, tipo # "loan", NEW concepto,
         NEW debe, NEW haber, NEW monto, Par(e, k, tipo, concepto, debe, haber, monto) \subseteq L
  PROVE  /\ debe = PorPagar <=> tipo = "deduction"
         /\ haber = PorPagar <=> tipo \in {"salario_base", "income"}
<1>1. PICK a, b : /\ Par(e, k, tipo, concepto, debe, haber, monto) = {a, b}
                  /\ a.lado = "debito" /\ a.cuenta = debe /\ a.tipo = tipo
                  /\ b.lado = "credito" /\ b.cuenta = haber /\ b.tipo = tipo
  BY ParDeDos
<1>2. a \in L /\ b \in L
  BY <1>1
<1>3. a.cuenta = PorPagar <=> DePagar(tipo, "debito")
  BY <1>1, <1>2, Usuales
<1>4. b.cuenta = PorPagar <=> DePagar(tipo, "credito")
  BY <1>1, <1>2, Usuales
<1> QED BY <1>1, <1>3, <1>4 DEF DePagar

\* Loans are collected in accounts that are not of what is payable.
LEMMA ControlNoEsPorPagar ==
  ASSUME PrestamosFijos, NEW L, CuentasUsuales(L)
  PROVE  PorPagar \notin CuentasControl
<1>1. PorPagar # Null
  BY AccountsAssumption
<1>2. \A i \in DOMAIN escenario.prestamos : escenario.prestamos[i].cuenta # PorPagar
  BY DEF PrestamosFijos, CuentasUsuales
<1> QED BY <1>1, <1>2 DEF CuentasControl

\* What each renglon of whole lines leaves payable.
LEMMA RenglonPorPagar ==
  ASSUME escenario \in Escenario, PrestamosFijos, NEW foto, NEW L, Formada(foto, L),
         CuentasUsuales(L), NEW z, NEW s \in [L -> Int], \A l \in L : s[l] = Firma(z, l),
         NEW e \in Empleados, NEW k \in 0 .. Ultimo(e)
  PROVE  SumFunctionOnSet(s, Renglon(L, e, k)) =
           IF Recibo(e).centro = z THEN Aporte(e, k) ELSE 0
<1> SUFFICES ASSUME NEW R, R = Renglon(L, e, k)
             PROVE  SumFunctionOnSet(s, R) = IF Recibo(e).centro = z THEN Aporte(e, k) ELSE 0
  OBVIOUS
<1>0. R \in SUBSET L /\ IsFiniteSet(L)
  BY LineasFinitas DEF Renglon
<1>1. /\ Detalles(e) = 1 .. Len(Recibo(e).detalles) /\ Len(Recibo(e).detalles) \in Nat
      /\ Recibo(e).sueldo \in Nat /\ Recibo(e).vacaciones.monto \in Nat
      /\ \A j \in Detalles(e) : /\ Detalle(e, j).monto \in Nat
                                /\ Detalle(e, j).tipo \in {"income", "deduction", "benefit"}
  BY RecibosTipo
<1>2. k = 0 \/ k \in Detalles(e) \/ k = Ultimo(e)
  BY <1>1 DEF Ultimo
<1>3. LineasSalario(foto, e) \subseteq L /\ foto.sueldo.haber = PorPagar
  <2>1. LineasSalario(foto, e) \subseteq L
    BY DEF Formada, Renglon
  <2> QED BY <2>1, AportePar DEF LineasSalario
<1>4. CASE k = 0
  <2> SUFFICES ASSUME NEW x, x = foto.sueldo.debe, NEW y, y = foto.sueldo.haber,
                      NEW m, m = Recibo(e).sueldo
               PROVE  SumFunctionOnSet(s, R) = IF Recibo(e).centro = z THEN Aporte(e, k) ELSE 0
    OBVIOUS
  <2>1. R = Par(e, 0, "salario_base", Null, x, y, m)
    BY <1>4 DEF Formada, LineasSalario
  <2>2. x # PorPagar
    BY <1>0, <2>1, AportePar
  <2>3. Aporte(e, k) = - m
    BY <1>1, <1>4 DEF Aporte
  <2>4. m \in Int
    BY <1>1
  <2>5. SumFunctionOnSet(s, R) = FirmaPar(z, Recibo(e).centro, x, y, m)
    BY <1>0, <2>1, <2>4, ParFirmado
  <2> QED BY <1>3, <2>2, <2>3, <2>4, <2>5 DEF FirmaPar
<1>5. CASE k \in Detalles(e)
  <2> SUFFICES ASSUME NEW d, d = Detalle(e, k)
               PROVE  SumFunctionOnSet(s, R) = IF Recibo(e).centro = z THEN Aporte(e, k) ELSE 0
    OBVIOUS
  <2>1. DetallePosible(foto, e, k, R)
    BY <1>5 DEF Formada
  <2>2. d.monto \in Nat /\ d.tipo \in {"income", "deduction", "benefit"}
    BY <1>1, <1>5
  <2>3. R # {}
    BY <1>5 DEF CuentasUsuales, Detallado, Renglon
  <2>4. \/ \E x, y : R = Par(e, k, d.tipo, d.concepto, x, y, d.monto)
        \/ /\ d.tipo = "deduction"
           /\ \E y \in CuentasControl : R = Par(e, k, "loan", d.concepto, foto.sueldo.haber, y, d.monto)
    <3>1. CASE R = DetalleFijo(foto, e, k)
      BY <2>3, <3>1 DEF DetalleFijo
    <3>2. CASE DetalleCorriente(e, k, R)
      BY <3>2 DEF DetalleCorriente
    <3>3. CASE DetalleAdelanto(foto, e, k, R)
      BY <3>3 DEF DetalleAdelanto
    <3> QED BY <2>1, <2>3, <3>1, <3>2, <3>3 DEF DetallePosible
  <2>5. Aporte(e, k) = IF d.tipo = "income" THEN - d.monto ELSE IF d.tipo = "deduction" THEN d.monto ELSE 0
    BY <1>5 DEF Aporte
  <2>6. CASE \E x, y : R = Par(e, k, d.tipo, d.concepto, x, y, d.monto)
    <3>1. PICK x, y : R = Par(e, k, d.tipo, d.concepto, x, y, d.monto)
      BY <2>6
    <3>2. /\ x = PorPagar <=> d.tipo = "deduction"
          /\ y = PorPagar <=> d.tipo = "income"
      BY <1>0, <2>2, <3>1, AportePar
    <3>3. SumFunctionOnSet(s, R) = FirmaPar(z, Recibo(e).centro, x, y, d.monto)
      BY <1>0, <2>2, <3>1, ParFirmado
    <3> QED BY <2>2, <2>5, <3>2, <3>3 DEF FirmaPar
  <2>7. CASE /\ d.tipo = "deduction"
             /\ \E y \in CuentasControl : R = Par(e, k, "loan", d.concepto, foto.sueldo.haber, y, d.monto)
    <3>1. PICK y \in CuentasControl : R = Par(e, k, "loan", d.concepto, foto.sueldo.haber, y, d.monto)
      BY <2>7
    <3>2. y # PorPagar
      BY ControlNoEsPorPagar
    <3>3. SumFunctionOnSet(s, R) = FirmaPar(z, Recibo(e).centro, foto.sueldo.haber, y, d.monto)
      BY <1>0, <2>2, <3>1, ParFirmado
    <3> QED BY <1>3, <2>2, <2>5, <2>7, <3>2, <3>3 DEF FirmaPar
  <2> QED BY <2>4, <2>6, <2>7
<1>6. CASE k = Ultimo(e)
  <2>1. Aporte(e, k) = 0
    BY <1>1, <1>6 DEF Aporte, Ultimo
  <2>2. R \in {{}, LineasVacaciones(foto, e)}
    BY <1>6 DEF Formada
  <2>3. CASE R = {}
    <3>1. SumFunctionOnSet(s, {}) = 0
      BY <1>0, SumaPaso
    <3> QED BY <2>1, <2>3, <3>1
  <2>4. CASE R # {}
    <3> DEFINE v == Recibo(e).vacaciones
               p == foto.politica
    <3>1. \/ R = Par(e, k, "vacation_liability", Null, p.haber, p.debe, v.monto)
          \/ R = Par(e, k, "vacation_liability", Null, p.debe, p.haber, v.monto)
      BY <1>6, <2>2, <2>4 DEF LineasVacaciones, Ultimo
    <3>2. PICK x, y : R = Par(e, k, "vacation_liability", Null, x, y, v.monto)
      BY <3>1
    <3>3. x # PorPagar /\ y # PorPagar
      BY <1>0, <3>2, AportePar
    <3>4. v.monto \in Int
      BY <1>1
    <3> HIDE DEF v, p
    <3>5. SumFunctionOnSet(s, R) = 0
      BY <1>0, <3>2, <3>3, <3>4, ParFirmado DEF FirmaPar
    <3> QED BY <2>1, <3>5
  <2> QED BY <2>3, <2>4
<1> QED BY <1>2, <1>4, <1>5, <1>6

\* What a renglon pays of a type.
Parte(e, tipo, k) ==
  IF k \in Detalles(e) /\ Detalle(e, k).tipo = tipo THEN Detalle(e, k).monto ELSE 0

\* What each renglon of a payslip pays of a type.
PagosDe(e, tipo) == [k \in 0 .. Ultimo(e) |-> Parte(e, tipo, k)]

\* What was paid of a type, over all the renglones of a payslip.
LEMMA PagadoEsSuma ==
  ASSUME escenario \in Escenario, NEW e \in Empleados, NEW tipo
  PROVE  /\ PagosDe(e, tipo) \in [0 .. Ultimo(e) -> Int]
         /\ Pagado(e, tipo) = SumFunctionOnSet(PagosDe(e, tipo), 0 .. Ultimo(e))
<1> SUFFICES ASSUME NEW K, K = 0 .. Ultimo(e), NEW h, h = PagosDe(e, tipo)
             PROVE  h \in [K -> Int] /\ Pagado(e, tipo) = SumFunctionOnSet(h, K)
  OBVIOUS
<1> DEFINE T == {j \in Detalles(e) : Detalle(e, j).tipo = tipo}
           f == [k \in K |-> IF k \in Detalles(e) THEN Detalle(e, k).monto ELSE 0]
           g == [k \in T |-> Detalle(e, k).monto]
<1>1. /\ Detalles(e) = 1 .. Len(Recibo(e).detalles) /\ Len(Recibo(e).detalles) \in Nat
      /\ \A j \in Detalles(e) : Detalle(e, j).monto \in Nat
  BY RecibosTipo
<1>2. Detalles(e) \subseteq K /\ T \in SUBSET K
  BY <1>1 DEF Ultimo
<1>3. f \in [K -> Int] /\ g = [k \in T |-> f[k]]
  BY <1>1, <1>2
<1>4. \A k \in K : h[k] = IF k \in T THEN f[k] ELSE 0
  BY DEF Parte, PagosDe
<1>5. IsFiniteSet(K)
  BY <1>1, FS_Interval DEF Ultimo
<1>6. Pagado(e, tipo) = SumFunction(g)
  BY DEF Pagado
<1> HIDE DEF T, f, g
<1>7. h \in [K -> Int]
  <2>1. \A k \in K : h[k] \in Int
    BY <1>3, <1>4
  <2> QED BY <2>1 DEF PagosDe
<1>8. SumFunction(g) = SumFunctionOnSet(h, K)
  BY ONLY <1>2, <1>3, <1>4, <1>5, <1>7, SumaParcial
<1> QED BY <1>6, <1>7, <1>8

\* A payslip without absences leaves payable its net.
LEMMA ReciboPorPagar ==
  ASSUME escenario \in Escenario, NEW e \in Empleados, Recibo(e).falta = 0,
         NEW K, K = 0 .. Ultimo(e), NEW a \in [K -> Int], \A k \in K : a[k] = Aporte(e, k)
  PROVE  SumFunctionOnSet(a, K) = - SalarioNeto(e) /\ SalarioNeto(e) \in Int
<1> DEFINE p == PagosDe(e, "income")
           d == PagosDe(e, "deduction")
           h == [k \in K |-> d[k] - p[k]]
<1>1. /\ Detalles(e) = 1 .. Len(Recibo(e).detalles) /\ Len(Recibo(e).detalles) \in Nat
      /\ Recibo(e).sueldo \in Nat
      /\ \A j \in Detalles(e) : Detalle(e, j).monto \in Nat
  BY RecibosTipo
<1>3. IsFiniteSet(K) /\ 0 \in K /\ 0 \notin Detalles(e)
  BY <1>1, FS_Interval DEF Ultimo
<1>4. p \in [K -> Int] /\ d \in [K -> Int]
  BY PagadoEsSuma
<1>5. h \in [K -> Int] /\ \A k \in K : h[k] = d[k] - p[k]
  <2> HIDE DEF p, d
  <2> QED BY <1>4
<1>6. Pagado(e, "income") = SumFunctionOnSet(p, K) /\ Pagado(e, "deduction") = SumFunctionOnSet(d, K)
  BY PagadoEsSuma
<1>7. \A k \in K : p[k] = Parte(e, "income", k) /\ d[k] = Parte(e, "deduction", k)
  BY DEF PagosDe
<1>8. \A k \in K \ {0} : a[k] = h[k]
  <2> SUFFICES ASSUME NEW k \in K \ {0} PROVE a[k] = h[k]
    OBVIOUS
  <2>1. h[k] = Parte(e, "deduction", k) - Parte(e, "income", k)
    BY <1>5, <1>7
  <2>2. Aporte(e, k) = Parte(e, "deduction", k) - Parte(e, "income", k)
    BY <1>1 DEF Aporte, Parte
  <2> QED BY <2>1, <2>2
<1>9. a[0] = - Recibo(e).sueldo /\ h[0] = 0
  <2>1. h[0] = 0
    BY <1>3, <1>5, <1>7 DEF Parte
  <2>2. a[0] = - Recibo(e).sueldo
    BY <1>3 DEF Aporte
  <2> QED BY <2>1, <2>2
<1>10. a \in [K -> Int]
  OBVIOUS
<1> HIDE DEF p, d, h
<1>11. SumFunctionOnSet(h, K) = SumFunctionOnSet(d, K) - SumFunctionOnSet(p, K)
  BY ONLY <1>3, <1>4, <1>5, SumaDosSumas
<1>12. SumFunctionOnSet(a, K) = SumFunctionOnSet(h, K) + a[0] - h[0]
  BY ONLY <1>3, <1>5, <1>8, <1>10, SumaCambia
<1>13. SumFunctionOnSet(d, K) \in Int /\ SumFunctionOnSet(p, K) \in Int
  <2>1. K \in SUBSET K
    OBVIOUS
  <2> QED BY <1>3, <1>4, <2>1, SumaPaso
<1>14. SalarioNeto(e) = Recibo(e).sueldo + SumFunctionOnSet(p, K) - SumFunctionOnSet(d, K)
  BY <1>1, <1>6, <1>7, <1>13 DEF SalarioNeto
<1> QED BY <1>1, <1>9, <1>11, <1>12, <1>13, <1>14

\* So do the lines of its employee, in the centre of the payslip.
LEMMA EmpleadoPorPagar ==
  ASSUME escenario \in Escenario, PrestamosFijos, NEW foto, NEW L, Formada(foto, L),
         CuentasUsuales(L), NEW z, NEW s \in [L -> Int], \A l \in L : s[l] = Firma(z, l),
         NEW e \in Empleados, Recibo(e).falta = 0
  PROVE  SumFunctionOnSet(s, {l \in L : l.empleado = e}) =
           IF Recibo(e).centro = z THEN - SalarioNeto(e) ELSE 0
<1> DEFINE K == 0 .. Ultimo(e)
           M == {l \in L : l.empleado = e}
           t == [l \in M |-> s[l]]
           p == [l \in M |-> l.renglon]
           a == [k \in K |-> Aporte(e, k)]
           u == [k \in K |-> IF Recibo(e).centro = z THEN a[k] ELSE 0]
<1>0. IsFiniteSet(L) /\ IsFiniteSet(M) /\ M \in SUBSET L /\ M \in SUBSET (L \cap M)
  BY LineasFinitas, FS_Subset
<1>1. t \in [M -> Int] /\ \A l \in M : s[l] = t[l]
  OBVIOUS
<1>2. p \in [M -> K]
  BY DEF Formada
<1>3. /\ Detalles(e) = 1 .. Len(Recibo(e).detalles) /\ Len(Recibo(e).detalles) \in Nat
      /\ Recibo(e).sueldo \in Nat
      /\ \A j \in Detalles(e) : Detalle(e, j).monto \in Nat
  BY RecibosTipo
<1>4. IsFiniteSet(K)
  BY <1>3, FS_Interval DEF Ultimo
<1>5. a \in [K -> Int] /\ \A k \in K : a[k] = Aporte(e, k)
  BY <1>3 DEF Aporte
<1>6. u \in [K -> Int] /\ \A k \in K : u[k] = IF Recibo(e).centro = z THEN Aporte(e, k) ELSE 0
  <2> HIDE DEF a
  <2> QED BY <1>5
<1>7. ASSUME NEW k \in K
      PROVE  u[k] = SumFunctionOnSet(t, {l \in M : p[l] = k})
  <2>1. {l \in M : p[l] = k} = Renglon(L, e, k)
    BY DEF Renglon
  <2>2. Renglon(L, e, k) \in SUBSET (L \cap M) /\ \A l \in Renglon(L, e, k) : s[l] = t[l]
    BY DEF Renglon
  <2>3. SumFunctionOnSet(s, Renglon(L, e, k)) = IF Recibo(e).centro = z THEN Aporte(e, k) ELSE 0
    BY RenglonPorPagar
  <2> HIDE DEF M, t, u, K, p
  <2>4. SumFunctionOnSet(s, Renglon(L, e, k)) = SumFunctionOnSet(t, Renglon(L, e, k))
    BY <1>0, <1>1, <2>2, SumaIgual
  <2> QED BY <1>6, <2>1, <2>3, <2>4
<1> HIDE DEF M, t, u, K, p, a
<1>8. SumFunctionOnSet(s, M) = SumFunctionOnSet(t, M)
  BY <1>0, <1>1, SumaIgual
<1>9. SumFunctionOnSet(t, M) = SumFunctionOnSet(u, K)
  BY <1>0, <1>1, <1>2, <1>4, <1>6, <1>7, SumaPorPartes
<1>10. SumFunctionOnSet(u, K) = IF Recibo(e).centro = z THEN - SalarioNeto(e) ELSE 0
  <2>1. CASE Recibo(e).centro = z
    <3>1. \A k \in K : u[k] = Aporte(e, k)
      BY <1>6, <2>1
    <3>2. SumFunctionOnSet(u, K) = - SalarioNeto(e)
      BY <1>6, <3>1, ReciboPorPagar DEF K
    <3> QED BY <2>1, <3>2
  <2>2. CASE Recibo(e).centro # z
    <3>1. \A k \in K : u[k] = 0
      BY <1>6, <2>2
    <3> QED BY <1>4, <1>6, <2>2, <3>1, SumaNula
  <2> QED BY <2>1, <2>2
<1> QED BY <1>8, <1>9, <1>10 DEF M

\* Whole lines leave payable in a centre the net pay of its employees.
LEMMA CentroPorPagar ==
  ASSUME escenario \in Escenario, PrestamosFijos, NEW foto, NEW L \in SUBSET LineaType, Formada(foto, L),
         CuentasUsuales(L), \A e \in Empleados : Recibo(e).falta = 0, NEW z
  PROVE  LET neto == SumFunction([e \in {x \in Empleados : Recibo(x).centro = z} |-> SalarioNeto(e)])
         IN neto \in Int /\ Neto(L, PorPagar, z) = - neto
<1> DEFINE Z == {x \in Empleados : Recibo(x).centro = z}
           s == [l \in L |-> Firma(z, l)]
           p == [l \in L |-> l.empleado]
           f == [e \in Empleados |-> SalarioNeto(e)]
           g == [e \in Z |-> SalarioNeto(e)]
           h == [e \in Empleados |-> IF e \in Z THEN f[e] ELSE 0]
           u == [e \in Empleados |-> - h[e]]
<1>1. IsFiniteSet(L) /\ IsFiniteSet(Empleados) /\ Z \in SUBSET Empleados
  BY LineasFinitas, EscenariosAssumption
<1>2. s \in [L -> Int] /\ \A l \in L : s[l] = Firma(z, l)
  <2>1. \A l \in L : l.monto \in Nat
    BY DEF LineaType
  <2> QED BY <2>1 DEF Firma
<1>3. p \in [L -> Empleados] /\ \A l \in L : p[l] = l.empleado
  BY DEF Formada
<1>4. \A e \in Empleados : SalarioNeto(e) \in Int
  <2> SUFFICES ASSUME NEW e \in Empleados PROVE SalarioNeto(e) \in Int
    OBVIOUS
  <2>1. SumFunctionOnSet(PagosDe(e, "income"), 0 .. Ultimo(e)) \in Int
    <3>1. PagosDe(e, "income") \in [0 .. Ultimo(e) -> Int]
      BY PagadoEsSuma
    <3>2. IsFiniteSet(0 .. Ultimo(e))
      BY RecibosTipo, FS_Interval DEF Ultimo
    <3> QED BY <3>1, <3>2, SumaPaso
  <2>2. SumFunctionOnSet(PagosDe(e, "deduction"), 0 .. Ultimo(e)) \in Int
    <3>1. PagosDe(e, "deduction") \in [0 .. Ultimo(e) -> Int]
      BY PagadoEsSuma
    <3>2. IsFiniteSet(0 .. Ultimo(e))
      BY RecibosTipo, FS_Interval DEF Ultimo
    <3> QED BY <3>1, <3>2, SumaPaso
  <2>3. Pagado(e, "income") \in Int /\ Pagado(e, "deduction") \in Int
    BY <2>1, <2>2, PagadoEsSuma
  <2>4. Recibo(e).sueldo \in Nat /\ Recibo(e).falta = 0
    BY RecibosTipo
  <2> QED BY <2>3, <2>4 DEF SalarioNeto
<1>5. f \in [Empleados -> Int] /\ g = [e \in Z |-> f[e]]
  BY <1>4
<1>6. h \in [Empleados -> Int] /\ \A e \in Empleados : h[e] = IF e \in Z THEN f[e] ELSE 0
  <2> HIDE DEF f, Z
  <2> QED BY <1>5
<1>7. u \in [Empleados -> Int] /\ \A e \in Empleados : u[e] = - h[e]
  <2> HIDE DEF h
  <2> QED BY <1>6
<1>8. ASSUME NEW e \in Empleados
      PROVE  u[e] = SumFunctionOnSet(s, {l \in L : p[l] = e})
  <2>1. {l \in L : p[l] = e} = {l \in L : l.empleado = e}
    OBVIOUS
  <2>2. u[e] = IF Recibo(e).centro = z THEN - SalarioNeto(e) ELSE 0
    BY <1>4
  <2> HIDE DEF s, u, p
  <2>3. SumFunctionOnSet(s, {l \in L : l.empleado = e}) = IF Recibo(e).centro = z THEN - SalarioNeto(e) ELSE 0
    BY <1>2, EmpleadoPorPagar
  <2> QED BY <2>1, <2>2, <2>3
<1> HIDE DEF Z, s, p, f, g, h, u
<1>9. Neto(L, PorPagar, z) = SumFunctionOnSet(s, L)
  BY <1>1, <1>2, NetoEsSuma
<1>10. SumFunctionOnSet(s, L) = SumFunctionOnSet(u, Empleados)
  BY ONLY <1>1, <1>2, <1>3, <1>7, <1>8, SumaPorPartes
<1>11. SumFunctionOnSet(u, Empleados) = - SumFunctionOnSet(h, Empleados)
  BY ONLY <1>1, <1>6, <1>7, SumaOpuesta
<1>12. SumFunction(g) = SumFunctionOnSet(h, Empleados)
  BY ONLY <1>1, <1>5, <1>6, SumaParcial
<1>13. SumFunctionOnSet(h, Empleados) \in Int
  BY ONLY <1>1, <1>6, SumaPaso
<1> QED BY <1>9, <1>10, <1>11, <1>12, <1>13 DEF g, Z

\* So does the summary of any complete generation, where it is not nothing.
LEMMA NominaSiempre == ComprobantesInd => NominaPorPagar
<1> SUFFICES ASSUME ComprobantesInd, NEW n \in Nominas, NEW l \in lotes[n], l.completo,
                    CuentasUsuales(l.lineas), \A e \in Empleados : Recibo(e).falta = 0,
                    NEW x \in Empleados, NEW z, z = Recibo(x).centro,
                    NEW neto, neto = SumFunction([e \in {y \in Empleados : Recibo(y).centro = z} |-> SalarioNeto(e)]),
                    neto # 0
             PROVE  [cuenta |-> PorPagar, centro |-> z, neto |-> - neto] \in Resumen(l.lineas)
  BY DEF NominaPorPagar
<1> SUFFICES ASSUME NEW foto, foto = nominas[n].foto, NEW L, L = l.lineas
             PROVE  [cuenta |-> PorPagar, centro |-> z, neto |-> - neto] \in Resumen(L)
  OBVIOUS
<1>1. ComprobantesTypeOK /\ PrestamosFijos
  BY DEF ComprobantesInd
<1>2. escenario \in Escenario /\ Formada(foto, L)
  BY <1>1, Partes DEF ComprobantesInd, LotesFormados
<1>3. L \in SUBSET LineaType
  <2>1. lotes[n] \in SUBSET LoteType
    BY <1>1, Partes
  <2> QED BY <2>1 DEF LoteType
<1>4. neto \in Int /\ Neto(L, PorPagar, z) = - neto
  BY <1>1, <1>2, <1>3, CentroPorPagar
<1>5. \E r \in L : r.cuenta = PorPagar /\ r.centro = z
  <2>1. Par(x, 0, "salario_base", Null, foto.sueldo.debe, foto.sueldo.haber, Recibo(x).sueldo) \subseteq L
    BY <1>2 DEF Formada, LineasSalario, Renglon
  <2>2. foto.sueldo.haber = PorPagar
    BY <2>1, AportePar
  <2> QED BY <2>1, <2>2, ParDeDos
<1>6. PICK r \in L : r.cuenta = PorPagar /\ r.centro = z
  BY <1>5
<1>7. - neto # 0
  BY <1>4
<1>8. [cuenta |-> PorPagar, centro |-> z, neto |-> - neto]
        \in {[cuenta |-> k.cuenta, centro |-> k.centro, neto |-> Neto(L, k.cuenta, k.centro)] : k \in L}
  BY <1>4, <1>6
<1> QED BY <1>7, <1>8 DEF Resumen

\* The line of a settlement that a detail above zero leaves payable.
PagarDe(k, d) ==
  [renglon |-> k, cuenta |-> "LIQUIDACION_POR_PAGAR",
   neto |-> IF d.tipo = "deduction" THEN d.monto ELSE - d.monto]

\* The payable line of a detail of a settlement, one if its amount is above zero.
LEMMA LineaPorPagar ==
  ASSUME NEW k, NEW d \in FiniquitoType, "LIQUIDACION_POR_PAGAR" \notin {d.debe, d.haber}
  PROVE  \A l : l \in LineasFiniquito(k, d) /\ l.cuenta = "LIQUIDACION_POR_PAGAR"
                <=> d.monto > 0 /\ l = PagarDe(k, d)
<1> DEFINE Linea(codigo, neto) == [renglon |-> k, cuenta |-> codigo, neto |-> neto]
           O(codigo, otro) == IF codigo = Null THEN otro ELSE codigo
           pagar == "LIQUIDACION_POR_PAGAR"
<1>1. O(d.haber, "LIQUIDACION_DEDUCCION") # pagar /\ O(d.debe, "LIQUIDACION_GASTO") # pagar
  OBVIOUS
<1>2. \A c, m : Linea(c, m).cuenta = c
  OBVIOUS
<1>3. d.monto \in Int
  BY DEF FiniquitoType
<1>4. CASE d.monto <= 0
  BY <1>3, <1>4 DEF LineasFiniquito
<1>5. CASE d.monto > 0 /\ d.tipo = "deduction"
  <2>1. LineasFiniquito(k, d)
          = {Linea(pagar, d.monto), Linea(O(d.haber, "LIQUIDACION_DEDUCCION"), - d.monto)}
    BY <1>3, <1>5 DEF LineasFiniquito
  <2>2. PagarDe(k, d) = Linea(pagar, d.monto)
    BY <1>5 DEF PagarDe
  <2> HIDE DEF Linea, O
  <2> QED BY <1>1, <1>2, <1>5, <2>1, <2>2
<1>6. CASE d.monto > 0 /\ d.tipo # "deduction"
  <2>1. LineasFiniquito(k, d)
          = {Linea(O(d.debe, "LIQUIDACION_GASTO"), d.monto), Linea(pagar, - d.monto)}
    BY <1>3, <1>6 DEF LineasFiniquito
  <2>2. PagarDe(k, d) = Linea(pagar, - d.monto)
    BY <1>6 DEF PagarDe
  <2> HIDE DEF Linea, O
  <2> QED BY <1>1, <1>2, <1>6, <2>1, <2>2
<1> QED BY <1>3, <1>4, <1>5, <1>6

\* Every settlement leaves payable what it pays less what it collects.
LEMMA FiniquitoSiempre == FiniquitoPorPagar
<1> SUFFICES ASSUME NEW fs \in Finiquitos,
                    \A k \in DOMAIN fs : "LIQUIDACION_POR_PAGAR" \notin {fs[k].debe, fs[k].haber}
             PROVE  SumFunction([l \in {l \in LineasLiquidacion(fs) : l.cuenta = "LIQUIDACION_POR_PAGAR"} |-> l.neto])
                      = SumFunction([k \in {j \in DOMAIN fs : fs[j].tipo \in {"deduction"} /\ fs[j].monto > 0} |-> fs[k].monto])
                        - SumFunction([k \in {j \in DOMAIN fs : fs[j].tipo \in {"income", "benefit"} /\ fs[j].monto > 0}
                                         |-> fs[k].monto])
  BY DEF FiniquitoPorPagar
<1> SUFFICES ASSUME NEW K, K = DOMAIN fs,
                    NEW P, P = {l \in LineasLiquidacion(fs) : l.cuenta = "LIQUIDACION_POR_PAGAR"},
                    NEW D, D = {j \in DOMAIN fs : fs[j].tipo \in {"deduction"} /\ fs[j].monto > 0},
                    NEW I, I = {j \in DOMAIN fs : fs[j].tipo \in {"income", "benefit"} /\ fs[j].monto > 0}
             PROVE  SumFunction([l \in P |-> l.neto])
                      = SumFunction([k \in D |-> fs[k].monto]) - SumFunction([k \in I |-> fs[k].monto])
  OBVIOUS
<1>1. fs \in Seq(FiniquitoType) /\ IsFiniteSet(K)
  <2>1. fs \in Seq(FiniquitoType)
    BY EscenariosAssumption
  <2>2. K = 1 .. Len(fs) /\ Len(fs) \in Nat
    BY <2>1
  <2> QED BY <2>1, <2>2, FS_Interval
<1>2. \A k \in K : fs[k] \in FiniquitoType
  BY <1>1
<1>3. \A k \in K : fs[k].monto \in Int /\ fs[k].tipo \in {"income", "deduction", "benefit"}
  BY <1>2 DEF FiniquitoType, TiposDetalle
<1> DEFINE M == {k \in K : fs[k].monto > 0}
           b == [k \in M |-> PagarDe(k, fs[k])]
           f == [k \in K |-> IF k \in M THEN fs[k].monto ELSE 0]
           d == [k \in K |-> IF k \in D THEN f[k] ELSE 0]
           i == [k \in K |-> IF k \in I THEN f[k] ELSE 0]
           h == [k \in K |-> d[k] - i[k]]
           hm == [k \in M |-> h[k]]
           g == [l \in P |-> l.neto]
<1>4. /\ M \in SUBSET K /\ D \in SUBSET M /\ I \in SUBSET M
      /\ \A k \in M : (k \in D <=> fs[k].tipo = "deduction") /\ (k \in I <=> fs[k].tipo # "deduction")
  BY <1>3
<1>5. f \in [K -> Int] /\ \A k \in M : f[k] = fs[k].monto
  BY <1>3
<1>6. d \in [K -> Int] /\ i \in [K -> Int]
  <2> HIDE DEF f, M
  <2> QED BY <1>5
<1>7. h \in [K -> Int] /\ \A k \in K : h[k] = d[k] - i[k]
  <2> HIDE DEF d, i
  <2> QED BY <1>6
<1>8. \A l : l \in P <=> \E k \in M : l = PagarDe(k, fs[k])
  <2>1. \A l : l \in P <=> \E k \in K : l \in LineasFiniquito(k, fs[k]) /\ l.cuenta = "LIQUIDACION_POR_PAGAR"
    BY DEF LineasLiquidacion
  <2>2. \A k \in K : \A l : l \in LineasFiniquito(k, fs[k]) /\ l.cuenta = "LIQUIDACION_POR_PAGAR"
                           <=> fs[k].monto > 0 /\ l = PagarDe(k, fs[k])
    BY <1>2, LineaPorPagar
  <2> QED BY <2>1, <2>2
<1>9. /\ b \in [M -> P] /\ \A x, y \in M : b[x] = b[y] => x = y
      /\ \A l \in P : \E k \in M : b[k] = l
  <2>1. \A k \in M : b[k] = PagarDe(k, fs[k]) /\ PagarDe(k, fs[k]).renglon = k
    BY DEF PagarDe
  <2>2. b \in [M -> P]
    <3> HIDE DEF M
    <3> QED BY <1>8
  <2> HIDE DEF b, M
  <2> QED BY <1>8, <2>1, <2>2
<1>10. \A k \in M : PagarDe(k, fs[k]).neto = h[k]
  <2> SUFFICES ASSUME NEW k \in M PROVE PagarDe(k, fs[k]).neto = h[k]
    OBVIOUS
  <2>1. PagarDe(k, fs[k]).neto = IF fs[k].tipo = "deduction" THEN fs[k].monto ELSE - fs[k].monto
    BY DEF PagarDe
  <2>2. d[k] = (IF fs[k].tipo = "deduction" THEN fs[k].monto ELSE 0)
    BY <1>4, <1>5
  <2>3. i[k] = (IF fs[k].tipo # "deduction" THEN fs[k].monto ELSE 0)
    BY <1>4, <1>5
  <2>4. fs[k].monto \in Int
    BY <1>3
  <2> HIDE DEF d, i, M, h
  <2> QED BY <1>4, <1>7, <2>1, <2>2, <2>3, <2>4
<1>11. IsFiniteSet(M) /\ IsFiniteSet(P)
  <2>1. IsFiniteSet(M)
    BY <1>1, <1>4, FS_Subset
  <2>2. b \in Surjection(M, P)
    <3> HIDE DEF b, M
    <3> QED BY <1>9 DEF Surjection
  <2> HIDE DEF b, M
  <2> QED BY <2>1, <2>2, FS_Surjection
<1>12. hm \in [M -> Int] /\ \A k \in M : hm[k] = h[k]
  <2> HIDE DEF h, M
  <2> QED BY <1>4, <1>7
<1>13. g \in [P -> Int] /\ \A k \in M : hm[k] = g[b[k]]
  <2>1. \A k \in M : b[k] = PagarDe(k, fs[k]) /\ b[k] \in P
    BY <1>9
  <2>2. \A l \in P : l.neto \in Int
    <3> HIDE DEF M, h
    <3> QED BY <1>4, <1>7, <1>8, <1>10
  <2> HIDE DEF M, h, hm, b
  <2> QED BY <1>10, <1>12, <2>1, <2>2
<1>14. \A k \in K : h[k] = IF k \in M THEN h[k] ELSE 0
  <2> SUFFICES ASSUME NEW k \in K, k \notin M PROVE h[k] = 0
    OBVIOUS
  <2>1. d[k] = 0 /\ i[k] = 0
    BY <1>4
  <2> HIDE DEF M, h, d, i
  <2> QED BY <1>7, <2>1
<1>17. M \in SUBSET K /\ D \in SUBSET K /\ I \in SUBSET K
  <2> HIDE DEF M
  <2> QED BY <1>4
<1>18. hm = [k \in M |-> h[k]]
  OBVIOUS
<1>19. \A k \in K : d[k] = IF k \in D THEN f[k] ELSE 0
  OBVIOUS
<1>20. \A k \in K : i[k] = IF k \in I THEN f[k] ELSE 0
  OBVIOUS
<1>21. g = [l \in P |-> l.neto]
  OBVIOUS
<1> HIDE DEF M, b, f, d, i, h, hm, g
<1>15. SumFunction(g) = SumFunctionOnSet(g, P)
  BY ONLY <1>13, SumaTodo
<1>16. SumFunctionOnSet(hm, M) = SumFunctionOnSet(g, P)
  BY ONLY <1>9, <1>11, <1>12, <1>13, SumaBiyeccion
<1>22. SumFunction(hm) = SumFunctionOnSet(hm, M)
  BY ONLY <1>12, SumaTodo
<1>23. SumFunction(hm) = SumFunctionOnSet(h, K)
  <2>1. IsFiniteSet(K) /\ h \in [K -> Int] /\ M \in SUBSET K
    BY ONLY <1>1, <1>7, <1>17
  <2> QED BY ONLY <2>1, <1>14, <1>18, SumaParcial
<1>24. SumFunctionOnSet(h, K) = SumFunctionOnSet(d, K) - SumFunctionOnSet(i, K)
  <2>1. IsFiniteSet(K)
    BY ONLY <1>1
  <2> QED BY ONLY <2>1, <1>6, <1>7, SumaDosSumas
<1>25. SumFunction([k \in D |-> fs[k].monto]) = SumFunctionOnSet(d, K)
  <2> DEFINE gd == [k \in D |-> fs[k].monto]
  <2>1. gd = [k \in D |-> f[k]]
    BY <1>4, <1>5
  <2> HIDE DEF gd
  <2>2. IsFiniteSet(K) /\ f \in [K -> Int] /\ d \in [K -> Int] /\ D \in SUBSET K
    BY ONLY <1>1, <1>5, <1>6, <1>17
  <2>3. SumFunction(gd) = SumFunctionOnSet(d, K)
    BY ONLY <2>1, <2>2, <1>19, SumaParcial
  <2> QED BY <2>3 DEF gd
<1>26. SumFunction([k \in I |-> fs[k].monto]) = SumFunctionOnSet(i, K)
  <2> DEFINE gi == [k \in I |-> fs[k].monto]
  <2>1. gi = [k \in I |-> f[k]]
    BY <1>4, <1>5
  <2> HIDE DEF gi
  <2>2. IsFiniteSet(K) /\ f \in [K -> Int] /\ i \in [K -> Int] /\ I \in SUBSET K
    BY ONLY <1>1, <1>5, <1>6, <1>17
  <2>3. SumFunction(gi) = SumFunctionOnSet(i, K)
    BY ONLY <2>1, <2>2, <1>20, SumaParcial
  <2> QED BY <2>3 DEF gi
<1> QED BY ONLY <1>15, <1>16, <1>21, <1>22, <1>23, <1>24, <1>25, <1>26

\* What the vouchers leave payable to a centre is what its employees are owed,
\* and what a settlement leaves payable is what it pays.
THEOREM PorPagarCorrect == ComprobantesSpec => []PorPagarEsElNeto
<1>1. ComprobantesInd => PorPagarEsElNeto
  BY NominaSiempre, FiniquitoSiempre DEF PorPagarEsElNeto
<1> QED BY <1>1, ComprobantesIndCorrect, PTL
=============================================================================
