---------------------------- MODULE NovedadesProofs ----------------------------
(***************************************************************************)
(* That payrolls count, list and execute the same novedades, and that no   *)
(* planilla pays one twice, for any number of payrolls, novedades and      *)
(* requests.                                                               *)
(*                                                                         *)
(* The parts of the invariant are operators of the rows and of one         *)
(* request, so that a step can be compared with the state before it.       *)
(***************************************************************************)
EXTENDS Novedades, TLAPS

-----------------------------------------------------------------------------
(* Requests                                                                  *)

Sencillas == {"crear", "editar", "eliminar"}
Calculan == {"calcular", "reenlazar"}
Operaciones == Sencillas \cup Calculan \cup {"recalcular"}

\* The fields of a request, by what it does.
Campos(q) ==
  /\ q.op \in Operaciones \cup {"idle"}
  /\ q.op # "idle" /\ q.op # "calcular" => q.n \in Nominas
  /\ q.op = "calcular" => q.n \in Nominas \cup {NULL}
  /\ q.op \in {"editar", "eliminar"} => q.v \in Novedades
  /\ q.op \in Calculan => q.m \in Nominas
  /\ q.op \in Calculan \cup {"recalcular"} => q.ids \in SUBSET Novedades
  /\ q.op = "idle" => q = Idle

LEMMA DoingCampos ==
  ASSUME NEW q \in Doing \cup {Idle}
  PROVE  Campos(q)
<1>1. CASE q = Idle
  BY <1>1 DEF Campos, Idle, Operaciones, Sencillas, Calculan
<1>2. CASE q \in [op : {"crear"}, n : Nominas]
  BY <1>2 DEF Campos, Operaciones, Sencillas, Calculan
<1>3. CASE q \in [op : {"editar", "eliminar"}, n : Nominas, v : Novedades]
  <2>1. q.op \in {"editar", "eliminar"} /\ q.n \in Nominas /\ q.v \in Novedades
    BY <1>3
  <2> QED BY <2>1 DEF Campos, Operaciones, Sencillas, Calculan
<1>4. CASE q \in [op : {"recalcular"}, n : Nominas, ids : SUBSET Novedades]
  BY <1>4 DEF Campos, Operaciones, Sencillas, Calculan
<1>5. CASE q \in [op : {"calcular"}, n : Nominas \cup {NULL}, m : Nominas, ids : SUBSET Novedades]
  BY <1>5 DEF Campos, Operaciones, Sencillas, Calculan
<1>6. CASE q \in [op : {"reenlazar"}, n : Nominas, m : Nominas, ids : SUBSET Novedades]
  BY <1>6 DEF Campos, Operaciones, Sencillas, Calculan
<1> QED BY <1>1, <1>2, <1>3, <1>4, <1>5, <1>6 DEF Doing

-----------------------------------------------------------------------------
(* The inductive invariant                                                   *)

\* A payroll that was committed once, and one that is still there.
Nacida(N, n) == N[n].estado \notin {"none", "naciente"}
Presente(N, n) == N[n].estado \notin {"none", "naciente", "deleted"}
Ocupa(N, n) == N[n].estado \in Ocupan
Vigente(N, n) == N[n].estado \in {"naciente", "generated", "approved", "applied"}

MismaFila(N, n, m) ==
  N[n].planilla = N[m].planilla /\ N[n].inicio = N[m].inicio /\ N[n].fin = N[m].fin

\* What a request says of the payrolls it names.
Referencia(N, q) ==
  /\ q.op \in Sencillas \cup {"recalcular", "reenlazar"} => Nacida(N, q.n)
  /\ q.op = "calcular" => N[q.m].estado = "naciente"
  /\ q.op = "calcular" /\ q.n # NULL => Nacida(N, q.n) /\ MismaFila(N, q.n, q.m)
  /\ q.op = "reenlazar" => Nacida(N, q.m) /\ q.n # q.m /\ MismaFila(N, q.n, q.m)

\* Two requests calculate different payrolls, at the same time of different planillas.
Distinta(N, q, s) ==
  q.op \in Calculan /\ s.op \in Calculan =>
    /\ q.m # s.m
    /\ q.op = "calcular" /\ s.op = "calcular" => N[q.m].planilla # N[s.m].planilla

Ajenas(N, n, k) == N[n].fin < N[k].inicio \/ N[k].fin < N[n].inicio

\* The period of a payroll in calculation was free, but for the payroll it replaces.
PeriodoPropio(N, q) ==
  q.op = "calcular" =>
    \A k \in Nominas :
      k # q.n /\ Ocupa(N, k) /\ N[k].planilla = N[q.m].planilla => Ajenas(N, k, q.m)

\* A request is about to put k in the place of n.
Releva(Q, n, k) == \E r \in Requests : Q[r].op = "reenlazar" /\ Q[r].n = n /\ Q[r].m = k

SinTraslape ==
  \A n, k \in Nominas \ incidentes :
    n # k /\ Ocupa(nomina, n) /\ Ocupa(nomina, k) /\ nomina[n].planilla = nomina[k].planilla =>
      Ajenas(nomina, n, k) \/ Releva(request, n, k) \/ Releva(request, k, n)

\* A payroll that is applied while it takes the place of another is an incident.
Apresurada(N, I, q) == q.op = "reenlazar" /\ N[q.m].estado = "applied" => q.m \in I

\* Novedades are bound to payrolls that were committed.
Enlace(N, w) == w.nomina # NULL => Nacida(N, w.nomina)

Recalcula(q) == q.op \in {"recalcular", "reenlazar"} \/ (q.op = "calcular" /\ q.n # NULL)

\* What a recalculation listed is bound to its payroll while that is there.
Listado(N, V, q) ==
  Recalcula(q) /\ Presente(N, q.n) =>
    \A v \in q.ids : V[v].nomina = q.n /\ V[v].estado # "none"

\* A payroll with this row reads the novedad as the payroll c.
EnLista(w, c, fila) ==
  /\ w.estado \in {"pending", "executed"}
  /\ w.empleado \in Miembros[fila.planilla]
  /\ w.nomina = c \/ (w.nomina = NULL /\ w.fecha \in fila.inicio .. fila.fin)

\* Bound to the payroll c, alive, and not in the list.
Olvidada(v, w, c, ids) ==
  w.estado \in {"pending", "executed"} /\ w.nomina = c /\ v \notin ids

\* The payroll in calculation counted what its context lists; what the list of
\* the recalculation leaves out will be marked as changed.
CuentaAlNacer(N, V, C, T, q) ==
  q.op \in Calculan /\ (q.n = NULL \/ Presente(N, q.n)) /\ Vigente(N, q.m) =>
    \A v \in Novedades \ T[q.m] :
      (q.n = NULL \/ ~Olvidada(v, V[v], q.n, q.ids)) =>
        (v \in C[q.m] <=> EnLista(V[v], IF q.n = NULL THEN q.m ELSE q.n, N[q.m]))

\* What is bound to it already was registered after it was calculated.
NadaPropio(N, V, T, q) ==
  q.op = "reenlazar" /\ Vigente(N, q.m) =>
    \A v \in Novedades \ T[q.m] : ~(V[v].estado \in {"pending", "executed"} /\ V[v].nomina = q.m)

\* CuentaLoListado, novedad by novedad.
Cuadra(N, V, C, T, n) ==
  \A v \in Novedades \ T[n] :
    /\ v \in C[n] <=> EnLista(V[v], n, N[n])
    /\ N[n].estado = "applied" /\ v \in C[n] => V[v].estado = "executed"

AlDia ==
  \A n \in Nominas \ incidentes :
    Ocupa(nomina, n) /\ ~Reenlazando(n) => Cuadra(nomina, novedad, contadas, tocadas, n)

Estructura ==
  /\ TypeOK
  /\ \A r \in Requests : Referencia(nomina, request[r])
  /\ \A r, s \in Requests : r # s => Distinta(nomina, request[r], request[s])
  /\ \A n \in Nominas : nomina[n].inicio <= nomina[n].fin
  /\ \A v \in Novedades : Enlace(nomina, novedad[v])

Periodos ==
  /\ \A r \in Requests : PeriodoPropio(nomina, request[r])
  /\ SinTraslape
  /\ \A r \in Requests : Apresurada(nomina, incidentes, request[r])

Cuentas ==
  /\ \A r \in Requests :
       /\ Listado(nomina, novedad, request[r])
       /\ CuentaAlNacer(nomina, novedad, contadas, tocadas, request[r])
       /\ NadaPropio(nomina, novedad, tocadas, request[r])
  /\ AlDia

IInv == Estructura /\ Periodos /\ Cuentas

-----------------------------------------------------------------------------
(* What a step that is not about a request leaves true of it                 *)

\* Committed payrolls keep their dates, and none comes back.
Avance(N, M) ==
  \A k \in Nominas : Nacida(N, k) =>
    /\ Nacida(M, k) /\ (Presente(M, k) => Presente(N, k))
    /\ M[k].planilla = N[k].planilla /\ M[k].inicio = N[k].inicio /\ M[k].fin = N[k].fin

\* A payroll keeps its dates.
MismasFechasDe(N, M, n) ==
  M[n].planilla = N[n].planilla /\ M[n].inicio = N[n].inicio /\ M[n].fin = N[n].fin

Conserva(w, x) == w.estado # "none" => x.nomina = w.nomina /\ x.estado # "none"

\* For every list the row is the same.
Misma(w, x) ==
  /\ x.nomina = w.nomina /\ x.empleado = w.empleado /\ x.fecha = w.fecha
  /\ x.estado \in {"pending", "executed"} <=> w.estado \in {"pending", "executed"}
  /\ w.estado = "executed" => x.estado = "executed"

LEMMA MismaLista ==
  ASSUME NEW w, NEW x, Misma(w, x), NEW c, NEW fila, NEW v, NEW ids
  PROVE  /\ EnLista(x, c, fila) <=> EnLista(w, c, fila)
         /\ Olvidada(v, x, c, ids) <=> Olvidada(v, w, c, ids)
BY DEF Misma, EnLista, Olvidada

LEMMA IdleCumple ==
  ASSUME NEW N, NEW V, NEW C, NEW T, NEW I
  PROVE  /\ Referencia(N, Idle) /\ PeriodoPropio(N, Idle) /\ Apresurada(N, I, Idle)
         /\ Listado(N, V, Idle) /\ CuentaAlNacer(N, V, C, T, Idle) /\ NadaPropio(N, V, T, Idle)
         /\ \A q : Distinta(N, Idle, q) /\ Distinta(N, q, Idle)
BY DEF Idle, Referencia, PeriodoPropio, Apresurada, Listado, Recalcula, CuentaAlNacer, NadaPropio,
       Distinta, Sencillas, Calculan

LEMMA ReferenciaSigue ==
  ASSUME NEW q \in Doing \cup {Idle}, NEW N, NEW M, Referencia(N, q), Avance(N, M),
         q.op = "calcular" => M[q.m] = N[q.m]
  PROVE  Referencia(M, q)
<1>1. Campos(q)
  BY DoingCampos
<1>2. CASE q.op \in Sencillas \cup {"recalcular"}
  BY <1>1, <1>2 DEF Campos, Referencia, Avance, Sencillas
<1>3. CASE q.op = "calcular"
  <2>1. q.n # NULL => q.n \in Nominas
    BY <1>1, <1>3 DEF Campos
  <2> QED BY <1>3, <2>1 DEF Referencia, Avance, MismaFila, Sencillas
<1>4. CASE q.op = "reenlazar"
  <2>1. q.n \in Nominas /\ q.m \in Nominas
    BY <1>1, <1>4 DEF Campos, Calculan
  <2> QED BY <1>4, <2>1 DEF Referencia, Avance, MismaFila, Sencillas
<1>5. CASE q.op = "idle"
  BY <1>5 DEF Referencia, Sencillas
<1> QED BY <1>1, <1>2, <1>3, <1>4, <1>5 DEF Campos, Operaciones, Calculan

LEMMA ListadoSigue ==
  ASSUME NEW q \in Doing \cup {Idle}, NEW N, NEW M, NEW V, NEW W,
         Referencia(N, q), Listado(N, V, q), Avance(N, M),
         \A v \in Novedades : Conserva(V[v], W[v])
  PROVE  Listado(M, W, q)
<1>1. Campos(q)
  BY DoingCampos
<1>2. SUFFICES ASSUME Recalcula(q), Presente(M, q.n), NEW v \in q.ids
               PROVE  W[v].nomina = q.n /\ W[v].estado # "none"
  BY DEF Listado
<1>3. q.n \in Nominas /\ q.ids \in SUBSET Novedades /\ Nacida(N, q.n)
  BY <1>1, <1>2 DEF Campos, Recalcula, Referencia, Calculan
<1>4. Presente(N, q.n)
  BY <1>2, <1>3 DEF Avance
<1>5. V[v].nomina = q.n /\ V[v].estado # "none"
  BY <1>2, <1>4 DEF Listado
<1> QED BY <1>3, <1>5 DEF Conserva

LEMMA CuentaSigue ==
  ASSUME NEW q \in Doing \cup {Idle}, NEW N, NEW M, NEW V, NEW W, NEW C, NEW D, NEW T, NEW U,
         Referencia(N, q), CuentaAlNacer(N, V, C, T, q), NadaPropio(N, V, T, q), Avance(N, M),
         q.op = "calcular" => M[q.m] = N[q.m],
         q.op \in Calculan /\ Vigente(M, q.m) =>
           /\ Vigente(N, q.m) /\ D[q.m] = C[q.m] /\ T[q.m] \subseteq U[q.m]
           /\ \A v \in Novedades \ U[q.m] : Misma(V[v], W[v])
  PROVE  CuentaAlNacer(M, W, D, U, q) /\ NadaPropio(M, W, U, q)
<1>1. Campos(q)
  BY DoingCampos
<1>2. ASSUME q.op \in Calculan, q.n = NULL \/ Presente(M, q.n), Vigente(M, q.m),
             NEW v \in Novedades \ U[q.m], q.n = NULL \/ ~Olvidada(v, W[v], q.n, q.ids)
      PROVE  v \in D[q.m] <=> EnLista(W[v], IF q.n = NULL THEN q.m ELSE q.n, M[q.m])
  <2> DEFINE c == IF q.n = NULL THEN q.m ELSE q.n
  <2>1. q.m \in Nominas /\ (q.n = NULL \/ (q.n \in Nominas /\ Nacida(N, q.n)))
    BY <1>1, <1>2 DEF Campos, Referencia, Calculan
  <2>2. q.n = NULL \/ Presente(N, q.n)
    BY <1>2, <2>1 DEF Avance
  <2>3. M[q.m].planilla = N[q.m].planilla /\ M[q.m].inicio = N[q.m].inicio /\ M[q.m].fin = N[q.m].fin
    BY <1>2, <2>1 DEF Avance, Referencia, Calculan
  <2>4. Misma(V[v], W[v]) /\ v \in Novedades \ T[q.m] /\ D[q.m] = C[q.m] /\ Vigente(N, q.m)
    BY <1>2
  <2>5. q.n = NULL \/ ~Olvidada(v, V[v], q.n, q.ids)
    BY <1>2, <2>4, MismaLista
  <2>6. v \in C[q.m] <=> EnLista(V[v], c, N[q.m])
    BY <1>2, <2>2, <2>4, <2>5 DEF CuentaAlNacer
  <2>7. EnLista(W[v], c, M[q.m]) <=> EnLista(V[v], c, M[q.m])
    <3> HIDE DEF c
    <3> QED BY <2>4, MismaLista
  <2>8. EnLista(V[v], c, M[q.m]) <=> EnLista(V[v], c, N[q.m])
    <3> HIDE DEF c
    <3> QED BY <2>3 DEF EnLista
  <2> QED BY <2>4, <2>6, <2>7, <2>8
<1>3. CuentaAlNacer(M, W, D, U, q)
  BY <1>2 DEF CuentaAlNacer
<1>4. NadaPropio(M, W, U, q)
  BY DEF NadaPropio, Misma, Calculan
<1> QED BY <1>3, <1>4

\* The same of a step.
LEMMA CuentaSigueAqui ==
  ASSUME NEW q \in Doing \cup {Idle}, Referencia(nomina, q),
         CuentaAlNacer(nomina, novedad, contadas, tocadas, q), NadaPropio(nomina, novedad, tocadas, q),
         Avance(nomina, nomina'), q.op = "calcular" => nomina'[q.m] = nomina[q.m],
         q.op \in Calculan /\ Vigente(nomina', q.m) =>
           /\ Vigente(nomina, q.m) /\ contadas'[q.m] = contadas[q.m]
           /\ tocadas[q.m] \subseteq tocadas'[q.m]
           /\ \A v \in Novedades \ tocadas'[q.m] : Misma(novedad[v], novedad'[v])
  PROVE  CuentaAlNacer(nomina', novedad', contadas', tocadas', q) /\ NadaPropio(nomina', novedad', tocadas', q)
BY CuentaSigue

LEMMA CuadraSigue ==
  ASSUME NEW n, NEW N, NEW M, NEW V, NEW W, NEW C, NEW D, NEW T, NEW U,
         Cuadra(N, V, C, T, n), MismasFechasDe(N, M, n), M[n].estado = "applied" => N[n].estado = "applied",
         D[n] = C[n], T[n] \subseteq U[n], \A v \in Novedades \ U[n] : Misma(V[v], W[v])
  PROVE  Cuadra(M, W, D, U, n)
<1>1. SUFFICES ASSUME NEW v \in Novedades \ U[n]
               PROVE  /\ v \in D[n] <=> EnLista(W[v], n, M[n])
                      /\ M[n].estado = "applied" /\ v \in D[n] => W[v].estado = "executed"
  BY DEF Cuadra
<1>2. Misma(V[v], W[v]) /\ v \in Novedades \ T[n]
  BY <1>1
<1>3. v \in C[n] <=> EnLista(V[v], n, N[n])
  BY <1>2 DEF Cuadra
<1>4. EnLista(V[v], n, N[n]) <=> EnLista(V[v], n, M[n])
  BY DEF EnLista, MismasFechasDe
<1>5. EnLista(W[v], n, M[n]) <=> EnLista(V[v], n, M[n])
  BY <1>2, MismaLista
<1>6. M[n].estado = "applied" /\ v \in D[n] => W[v].estado = "executed"
  BY <1>2 DEF Cuadra, Misma
<1> QED BY <1>3, <1>4, <1>5, <1>6

-----------------------------------------------------------------------------
(* The initial state                                                         *)

LEMMA InitIInv == Init => IInv
<1> SUFFICES ASSUME Init PROVE IInv
  OBVIOUS
<1>1. /\ (CHOOSE p \in Planillas : TRUE) \in Planillas
      /\ (CHOOSE e \in Empleados : TRUE) \in Empleados
  BY MiembrosAssumption
<1>2. 1 \in 1 .. MaxFecha /\ 0 \in Fechas
  BY BoundsAssumption DEF Fechas
<1>3. nomina \in [Nominas -> NominaType] /\ novedad \in [Novedades -> NovedadType]
  BY <1>1, <1>2 DEF Init, NominaType, NovedadType, Estados
<1>4. TypeOK
  BY <1>3, BoundsAssumption DEF Init, TypeOK
<1>5. \A r \in Requests : request[r] = Idle
  BY DEF Init
<1>6. \A n \in Nominas : nomina[n].estado = "none" /\ nomina[n].inicio = 1 /\ nomina[n].fin = 1
  BY DEF Init
<1>7. Estructura
  <2>1. \A v \in Novedades : Enlace(nomina, novedad[v])
    BY DEF Init, Enlace
  <2> QED BY <1>4, <1>5, <1>6, <2>1, IdleCumple DEF Estructura
<1>8. Periodos
  BY <1>5, <1>6, IdleCumple DEF Periodos, SinTraslape, Ocupa, Ocupan
<1>9. Cuentas
  BY <1>5, <1>6, IdleCumple DEF Cuentas, AlDia, Ocupa, Ocupan
<1> QED BY <1>7, <1>8, <1>9 DEF IInv

-----------------------------------------------------------------------------
(* Steps                                                                     *)

LEMMA Tipos ==
  ASSUME IInv
  PROVE  /\ nomina \in [Nominas -> NominaType] /\ novedad \in [Novedades -> NovedadType]
         /\ contadas \in [Nominas -> SUBSET Novedades] /\ tocadas \in [Nominas -> SUBSET Novedades]
         /\ incidentes \subseteq Nominas /\ operations \in 0 .. MaxOperations
         /\ request \in [Requests -> Doing \cup {Idle}]
         /\ \A r \in Requests : Campos(request[r])
         /\ \A k \in Nominas : /\ nomina[k].planilla \in Planillas /\ nomina[k].inicio \in Int
                               /\ nomina[k].fin \in Int /\ nomina[k].inicio <= nomina[k].fin
                               /\ nomina[k].estado \in Estados
<1>1. TypeOK /\ \A n \in Nominas : nomina[n].inicio <= nomina[n].fin
  BY DEF IInv, Estructura
<1>2. \A r \in Requests : request[r] \in Doing \cup {Idle}
  BY <1>1 DEF TypeOK
<1>3. \A k \in Nominas : nomina[k] \in NominaType
  BY <1>1 DEF TypeOK
<1>4. \A k \in Nominas : /\ nomina[k].planilla \in Planillas /\ nomina[k].inicio \in Int
                         /\ nomina[k].fin \in Int /\ nomina[k].estado \in Estados
  BY <1>3 DEF NominaType
<1> QED BY <1>1, <1>2, <1>4, DoingCampos DEF TypeOK

\* Everything the invariant says of one request.
Cumple(N, V, C, T, I, q) ==
  /\ Referencia(N, q) /\ PeriodoPropio(N, q) /\ Apresurada(N, I, q)
  /\ Listado(N, V, q) /\ CuentaAlNacer(N, V, C, T, q) /\ NadaPropio(N, V, T, q)

LEMMA TodasCumplen ==
  ASSUME IInv, NEW r \in Requests
  PROVE  Cumple(nomina, novedad, contadas, tocadas, incidentes, request[r])
BY DEF IInv, Estructura, Periodos, Cuentas, Cumple

\* The invariant of the next state, part by part.
LEMMA Junta ==
  ASSUME TypeOK',
         \A r \in Requests : Cumple(nomina', novedad', contadas', tocadas', incidentes', request'[r]),
         \A r, s \in Requests : r # s => Distinta(nomina', request'[r], request'[s]),
         \A n \in Nominas : nomina'[n].inicio <= nomina'[n].fin,
         \A v \in Novedades : Enlace(nomina', novedad'[v]),
         SinTraslape', AlDia'
  PROVE  IInv'
<1>1. Estructura'
  BY DEF Estructura, Cumple
<1>2. Periodos'
  BY DEF Periodos, Cumple
<1>3. Cuentas'
  BY DEF Cuentas, Cumple
<1> QED BY <1>1, <1>2, <1>3 DEF IInv

\* A request that calculates nothing begins or ends; a payroll that waited for
\* it to take the place of another is an incident.
LEMMA PasoSimple ==
  ASSUME IInv, NEW r \in Requests, NEW q \in Doing \cup {Idle},
         request' = [request EXCEPT ![r] = q], UNCHANGED <<nomina, novedad, contadas, tocadas>>,
         incidentes \subseteq incidentes', incidentes' \subseteq Nominas,
         operations' \in 0 .. MaxOperations,
         q.op \notin Calculan, Cumple(nomina, novedad, contadas, tocadas, incidentes, q),
         request[r].op = "reenlazar" => request[r].m \in incidentes'
  PROVE  IInv'
<1> USE Tipos
<1>1. \A s \in Requests : request'[s] = IF s = r THEN q ELSE request[s]
  OBVIOUS
<1>2. TypeOK'
  BY DEF TypeOK
<1>3. \A s \in Requests : Cumple(nomina', novedad', contadas', tocadas', incidentes', request'[s])
  <2>1. \A s \in Requests : Cumple(nomina, novedad, contadas, tocadas, incidentes, request'[s])
    BY <1>1, TodasCumplen
  <2>2. \A s \in Requests : Cumple(nomina, novedad, contadas, tocadas, incidentes', request'[s])
    BY <2>1 DEF Cumple, Apresurada
  <2> QED BY <2>2
<1>4. \A x, y \in Requests : x # y => Distinta(nomina', request'[x], request'[y])
  BY <1>1 DEF IInv, Estructura, Distinta
<1>5. \A n \in Nominas : nomina'[n].inicio <= nomina'[n].fin
  OBVIOUS
<1>6. \A v \in Novedades : Enlace(nomina', novedad'[v])
  BY DEF IInv, Estructura
<1>7. SinTraslape'
  <2>1. SUFFICES ASSUME NEW n \in Nominas \ incidentes', NEW k \in Nominas \ incidentes', n # k,
                        Ocupa(nomina, n), Ocupa(nomina, k), nomina[n].planilla = nomina[k].planilla
                 PROVE  Ajenas(nomina, n, k) \/ Releva(request', n, k) \/ Releva(request', k, n)
    BY DEF SinTraslape
  <2>2. Ajenas(nomina, n, k) \/ Releva(request, n, k) \/ Releva(request, k, n)
    BY <2>1 DEF IInv, Periodos, SinTraslape
  <2>3. \A a, b \in Nominas \ incidentes' : Releva(request, a, b) => Releva(request', a, b)
    BY <1>1 DEF Releva
  <2> QED BY <2>2, <2>3
<1>8. AlDia'
  <2>1. SUFFICES ASSUME NEW n \in Nominas \ incidentes', Ocupa(nomina, n), ~Reenlazando(n)'
                 PROVE  Cuadra(nomina, novedad, contadas, tocadas, n)
    BY DEF AlDia
  <2>2. ~Reenlazando(n)
    BY <1>1, <2>1 DEF Reenlazando
  <2> QED BY <2>1, <2>2 DEF IInv, Cuentas, AlDia
<1> QED BY <1>2, <1>3, <1>4, <1>5, <1>6, <1>7, <1>8, Junta

\* One row of novedad is written, and marked where a payroll counted it.
LEMMA PasoNovedad ==
  ASSUME IInv, NEW v \in Novedades, NEW w \in NovedadType, Escribe(v, w),
         Enlace(nomina, w), Conserva(novedad[v], w),
         UNCHANGED <<nomina, contadas, incidentes>>,
         request' \in [Requests -> Doing \cup {Idle}],
         \A r \in Requests :
           request'[r] = request[r] \/ (request'[r] = Idle /\ request[r].op \notin Calculan),
         operations' \in 0 .. MaxOperations
  PROVE  IInv'
<1> USE Tipos
<1>1. novedad' \in [Novedades -> NovedadType] /\ novedad'[v] = w
      /\ \A x \in Novedades \ {v} : novedad'[x] = novedad[x]
  BY DEF Escribe
<1>2. /\ tocadas' \in [Nominas -> SUBSET Novedades]
      /\ \A k \in Nominas : tocadas[k] \subseteq tocadas'[k]
      /\ \A k \in Nominas : Vigente(nomina, k) => v \in tocadas'[k]
  BY DEF Escribe, Toca, Vigentes, Estado, Vigente
<1>3. \A x \in Novedades : Conserva(novedad[x], novedad'[x])
  BY <1>1 DEF Conserva
<1>4. \A k \in Nominas : Vigente(nomina, k) =>
        \A x \in Novedades \ tocadas'[k] : Misma(novedad[x], novedad'[x])
  BY <1>1, <1>2 DEF Misma
<1>5. Avance(nomina, nomina)
  BY DEF Avance
<1>6. TypeOK'
  BY <1>1, <1>2 DEF TypeOK
<1>7. \A s \in Requests : Cumple(nomina', novedad', contadas', tocadas', incidentes', request'[s])
  <2> SUFFICES ASSUME NEW s \in Requests
               PROVE  Cumple(nomina, novedad', contadas, tocadas', incidentes, request'[s])
    OBVIOUS
  <2>1. CASE request'[s] = Idle
    BY <2>1, IdleCumple DEF Cumple
  <2>2. CASE request'[s] = request[s]
    <3> DEFINE q == request[s]
    <3>1. Cumple(nomina, novedad, contadas, tocadas, incidentes, q) /\ q \in Doing \cup {Idle}
      BY TodasCumplen
    <3>2. q.op \in Calculan => q.m \in Nominas
      BY DEF Campos
    <3> HIDE DEF q
    <3>3. Listado(nomina, novedad', q)
      BY <1>3, <1>5, <3>1, ListadoSigue DEF Cumple
    <3>4. q.op \in Calculan /\ Vigente(nomina, q.m) =>
            /\ Vigente(nomina, q.m) /\ contadas[q.m] = contadas[q.m] /\ tocadas[q.m] \subseteq tocadas'[q.m]
            /\ \A x \in Novedades \ tocadas'[q.m] : Misma(novedad[x], novedad'[x])
      BY <1>2, <1>4, <3>2
    <3>5. CuentaAlNacer(nomina, novedad', contadas, tocadas', q) /\ NadaPropio(nomina, novedad', tocadas', q)
      BY <1>5, <3>1, <3>4, CuentaSigue DEF Cumple
    <3> QED BY <2>2, <3>1, <3>3, <3>5 DEF Cumple, q
  <2> QED BY <2>1, <2>2
<1>8. \A x, y \in Requests : x # y => Distinta(nomina', request'[x], request'[y])
  <2> SUFFICES ASSUME NEW x \in Requests, NEW y \in Requests, x # y
               PROVE  Distinta(nomina, request'[x], request'[y])
    OBVIOUS
  <2>1. CASE request'[x] = Idle \/ request'[y] = Idle
    BY <2>1 DEF Distinta, Idle, Calculan
  <2>2. CASE request'[x] = request[x] /\ request'[y] = request[y]
    BY <2>2 DEF IInv, Estructura
  <2> QED BY <2>1, <2>2
<1>9. \A n \in Nominas : nomina'[n].inicio <= nomina'[n].fin
  OBVIOUS
<1>10. \A x \in Novedades : Enlace(nomina', novedad'[x])
  BY <1>1 DEF IInv, Estructura
<1>11. \A r \in Requests : request[r].op = "reenlazar" => request'[r] = request[r]
  BY DEF Calculan
<1>12. SinTraslape'
  <2>1. SUFFICES ASSUME NEW n \in Nominas \ incidentes, NEW k \in Nominas \ incidentes, n # k,
                        Ocupa(nomina, n), Ocupa(nomina, k), nomina[n].planilla = nomina[k].planilla
                 PROVE  Ajenas(nomina, n, k) \/ Releva(request', n, k) \/ Releva(request', k, n)
    BY DEF SinTraslape
  <2>2. Ajenas(nomina, n, k) \/ Releva(request, n, k) \/ Releva(request, k, n)
    BY <2>1 DEF IInv, Periodos, SinTraslape
  <2>3. \A a, b \in Nominas : Releva(request, a, b) => Releva(request', a, b)
    BY <1>11 DEF Releva
  <2> QED BY <2>2, <2>3
<1>13. AlDia'
  <2>1. SUFFICES ASSUME NEW n \in Nominas \ incidentes, Ocupa(nomina, n), ~Reenlazando(n)'
                 PROVE  Cuadra(nomina, novedad', contadas, tocadas', n)
    BY DEF AlDia
  <2>2. ~Reenlazando(n)
    BY <1>11, <2>1 DEF Reenlazando
  <2>3. Cuadra(nomina, novedad, contadas, tocadas, n) /\ Vigente(nomina, n)
    BY <2>1, <2>2 DEF IInv, Cuentas, AlDia, Ocupa, Ocupan, Vigente
  <2>4. MismasFechasDe(nomina, nomina, n)
    BY DEF MismasFechasDe
  <2> QED BY <1>2, <1>4, <2>3, <2>4, CuadraSigue
<1> QED BY <1>6, <1>7, <1>8, <1>9, <1>10, <1>12, <1>13, Junta

\* A committed payroll changes its state; nothing else that a list reads does.
LEMMA PasoEstado ==
  ASSUME IInv, NEW n \in Nominas, NEW e \in {"approved", "applied", "cancelled"}, Cambia(n, e),
         Presente(nomina, n), e # "cancelled" => Ocupa(nomina, n),
         novedad' \in [Novedades -> NovedadType],
         \A v \in Novedades : Misma(novedad[v], novedad'[v]) /\ Conserva(novedad[v], novedad'[v]),
         UNCHANGED <<contadas, tocadas, request, operations>>,
         incidentes \subseteq incidentes', incidentes' \subseteq Nominas,
         e = "applied" /\ n \notin incidentes' =>
           /\ ~Reenlazando(n)
           /\ \A v \in contadas[n] \ tocadas[n] : novedad'[v].estado = "executed"
  PROVE  IInv'
<1> USE Tipos
<1>1. /\ \A k \in Nominas \ {n} : nomina'[k] = nomina[k]
      /\ nomina'[n].estado = e
      /\ \A k \in Nominas : MismasFechasDe(nomina, nomina', k)
      /\ nomina' \in [Nominas -> NominaType]
  <2>1. nomina' = [nomina EXCEPT ![n].estado = e]
    BY DEF Cambia
  <2>2. \A k \in Nominas : nomina[k] \in NominaType
    OBVIOUS
  <2>3. e \in Estados
    BY DEF Estados
  <2> QED BY <2>1, <2>2, <2>3 DEF NominaType, MismasFechasDe
<1>2. Avance(nomina, nomina')
  BY <1>1 DEF Avance, Nacida, Presente, MismasFechasDe
<1>3. \A k \in Nominas : /\ Vigente(nomina', k) => Vigente(nomina, k)
                         /\ Ocupa(nomina', k) => Ocupa(nomina, k)
                         /\ nomina[k].estado = "naciente" => nomina'[k] = nomina[k]
  BY <1>1 DEF Vigente, Ocupa, Ocupan, Presente
<1>4. TypeOK'
  BY <1>1 DEF TypeOK
<1>5. \A s \in Requests : Cumple(nomina', novedad', contadas', tocadas', incidentes', request'[s])
  <2> SUFFICES ASSUME NEW s \in Requests
               PROVE  Cumple(nomina', novedad', contadas, tocadas, incidentes', request[s])
    OBVIOUS
  <2> DEFINE q == request[s]
  <2>1. Cumple(nomina, novedad, contadas, tocadas, incidentes, q) /\ q \in Doing \cup {Idle}
    BY TodasCumplen
  <2>2. q.op \in Calculan => q.m \in Nominas
    BY DEF Campos
  <2>3. q.op = "reenlazar" /\ q.m = n => Reenlazando(n)
    BY DEF Reenlazando
  <2> HIDE DEF q
  <2>4. q.op = "calcular" => nomina'[q.m] = nomina[q.m]
    BY <1>3, <2>1, <2>2 DEF Cumple, Referencia, Calculan
  <2>5. Referencia(nomina', q)
    BY <1>2, <2>1, <2>4, ReferenciaSigue DEF Cumple
  <2>6. PeriodoPropio(nomina', q)
    <3>1. SUFFICES ASSUME q.op = "calcular", NEW k \in Nominas, k # q.n, Ocupa(nomina', k),
                          nomina'[k].planilla = nomina'[q.m].planilla
                   PROVE  Ajenas(nomina', k, q.m)
      BY DEF PeriodoPropio
    <3>2. Ocupa(nomina, k) /\ nomina[k].planilla = nomina[q.m].planilla
      BY <1>1, <1>3, <2>2, <2>4, <3>1 DEF MismasFechasDe, Calculan
    <3>3. Ajenas(nomina, k, q.m)
      BY <2>1, <3>1, <3>2 DEF Cumple, PeriodoPropio
    <3> QED BY <1>1, <2>2, <2>4, <3>1, <3>3 DEF Ajenas, MismasFechasDe, Calculan
  <2>7. Apresurada(nomina', incidentes', q)
    <3>1. SUFFICES ASSUME q.op = "reenlazar", nomina'[q.m].estado = "applied"
                   PROVE  q.m \in incidentes'
      BY DEF Apresurada
    <3>2. CASE q.m = n
      BY <1>1, <2>3, <3>1, <3>2
    <3>3. CASE q.m # n
      BY <1>1, <2>1, <2>2, <3>1, <3>3 DEF Cumple, Apresurada, Calculan
    <3> QED BY <3>2, <3>3
  <2>8. Listado(nomina', novedad', q)
    BY <1>2, <2>1, ListadoSigue DEF Cumple
  <2>9. q.op \in Calculan /\ Vigente(nomina', q.m) =>
          /\ Vigente(nomina, q.m) /\ contadas[q.m] = contadas[q.m] /\ tocadas[q.m] \subseteq tocadas[q.m]
          /\ \A x \in Novedades \ tocadas[q.m] : Misma(novedad[x], novedad'[x])
    BY <1>3, <2>2
  <2>10. CuentaAlNacer(nomina', novedad', contadas, tocadas, q) /\ NadaPropio(nomina', novedad', tocadas, q)
    BY <1>2, <2>1, <2>4, <2>9, CuentaSigue DEF Cumple
  <2> QED BY <2>5, <2>6, <2>7, <2>8, <2>10 DEF Cumple, q
<1>6. \A x, y \in Requests : x # y => Distinta(nomina', request'[x], request'[y])
  <2> SUFFICES ASSUME NEW x \in Requests, NEW y \in Requests, x # y
               PROVE  Distinta(nomina', request[x], request[y])
    OBVIOUS
  <2>1. Distinta(nomina, request[x], request[y])
    BY DEF IInv, Estructura
  <2> QED BY <1>1, <2>1 DEF Distinta, MismasFechasDe, Campos
<1>7. \A k \in Nominas : nomina'[k].inicio <= nomina'[k].fin
  BY <1>1 DEF MismasFechasDe
<1>8. \A x \in Novedades : Enlace(nomina', novedad'[x])
  <2> SUFFICES ASSUME NEW x \in Novedades, novedad'[x].nomina # NULL
               PROVE  Nacida(nomina', novedad'[x].nomina)
    BY DEF Enlace
  <2>1. novedad'[x].nomina = novedad[x].nomina /\ novedad[x] \in NovedadType
    BY DEF Misma
  <2>2. novedad[x].nomina \in Nominas /\ Nacida(nomina, novedad[x].nomina)
    BY <2>1 DEF IInv, Estructura, Enlace, NovedadType
  <2> QED BY <1>2, <2>1, <2>2 DEF Avance
<1>9. SinTraslape'
  <2>1. SUFFICES ASSUME NEW a \in Nominas \ incidentes', NEW b \in Nominas \ incidentes', a # b,
                        Ocupa(nomina', a), Ocupa(nomina', b), nomina'[a].planilla = nomina'[b].planilla
                 PROVE  Ajenas(nomina', a, b) \/ Releva(request, a, b) \/ Releva(request, b, a)
    BY DEF SinTraslape
  <2>2. Ocupa(nomina, a) /\ Ocupa(nomina, b) /\ nomina[a].planilla = nomina[b].planilla
    BY <1>1, <1>3, <2>1 DEF MismasFechasDe
  <2>3. Ajenas(nomina, a, b) \/ Releva(request, a, b) \/ Releva(request, b, a)
    BY <2>1, <2>2 DEF IInv, Periodos, SinTraslape
  <2> QED BY <1>1, <2>3 DEF Ajenas, MismasFechasDe
<1>10. AlDia'
  <2>1. SUFFICES ASSUME NEW k \in Nominas \ incidentes', Ocupa(nomina', k), ~Reenlazando(k)'
                 PROVE  Cuadra(nomina', novedad', contadas, tocadas, k)
    BY DEF AlDia
  <2>2. ~Reenlazando(k)
    BY <2>1 DEF Reenlazando
  <2>3. Cuadra(nomina, novedad, contadas, tocadas, k)
    BY <1>3, <2>1, <2>2 DEF IInv, Cuentas, AlDia
  <2>4. CASE nomina'[k].estado = "applied" => nomina[k].estado = "applied"
    BY <1>1, <2>3, <2>4, CuadraSigue
  <2>5. CASE k = n /\ e = "applied"
    <3>1. SUFFICES ASSUME NEW v \in Novedades \ tocadas[n]
                   PROVE  /\ v \in contadas[n] <=> EnLista(novedad'[v], n, nomina'[n])
                          /\ v \in contadas[n] => novedad'[v].estado = "executed"
      BY <2>5 DEF Cuadra
    <3>2. v \in contadas[n] <=> EnLista(novedad[v], n, nomina[n])
      BY <2>3, <2>5, <3>1 DEF Cuadra
    <3>3. EnLista(novedad[v], n, nomina[n]) <=> EnLista(novedad[v], n, nomina'[n])
      BY <1>1 DEF EnLista, MismasFechasDe
    <3>4. EnLista(novedad'[v], n, nomina'[n]) <=> EnLista(novedad[v], n, nomina'[n])
      BY <3>1, MismaLista
    <3> QED BY <2>1, <2>5, <3>1, <3>2, <3>3, <3>4
  <2> QED BY <1>1, <2>4, <2>5
<1> QED BY <1>4, <1>5, <1>6, <1>7, <1>8, <1>9, <1>10, Junta

-----------------------------------------------------------------------------
(* Requests that read and requests that write one novedad                    *)

LEMMA LeerOK ==
  ASSUME IInv, NEW r \in Requests, NEW q \in Doing, Leer(r, q), q.op \notin Calculan,
         Referencia(nomina, q), Listado(nomina, novedad, q)
  PROVE  IInv'
<1>1. /\ request[r] = Idle /\ request' = [request EXCEPT ![r] = q] /\ operations' = operations + 1
      /\ operations < MaxOperations
      /\ UNCHANGED <<nomina, novedad, contadas, historia>>
  BY DEF Leer, Begin
<1>2. operations' \in 0 .. MaxOperations
  BY <1>1, Tipos, BoundsAssumption
<1>3. Cumple(nomina, novedad, contadas, tocadas, incidentes, q)
  BY DEF Cumple, PeriodoPropio, Apresurada, CuentaAlNacer, NadaPropio, Calculan
<1>4. request[r].op # "reenlazar"
  BY <1>1 DEF Idle
<1> QED BY <1>1, <1>2, <1>3, <1>4, Tipos, PasoSimple DEF historia

LEMMA CrearLeeOK ==
  ASSUME IInv, NEW r \in Requests, NEW n \in Nominas, CrearLee(r, n)
  PROVE  IInv'
<1> DEFINE q == [op |-> "crear", n |-> n]
<1>1. q \in Doing /\ q.op = "crear" /\ q.n = n
  BY DEF Doing
<1>2. Leer(r, q) /\ Nacida(nomina, n)
  BY DEF CrearLee, Abierta, Existe, Estado, Nacida
<1> HIDE DEF q
<1>3. Referencia(nomina, q) /\ Listado(nomina, novedad, q) /\ q.op \notin Calculan
  BY <1>1, <1>2 DEF Referencia, Listado, Recalcula, Calculan
<1> QED BY <1>1, <1>2, <1>3, LeerOK

LEMMA EditarLeeOK ==
  ASSUME IInv, NEW r \in Requests, NEW n \in Nominas, NEW v \in Novedades,
         EditarLee(r, n, v) \/ EliminarLee(r, n, v)
  PROVE  IInv'
<1>1. PICK op \in {"editar", "eliminar"} : Leer(r, [op |-> op, n |-> n, v |-> v])
  BY DEF EditarLee, EliminarLee
<1> DEFINE q == [op |-> op, n |-> n, v |-> v]
<1>2. q \in Doing /\ q.op = op /\ q.n = n
  BY DEF Doing
<1>3. Leer(r, q) /\ Nacida(nomina, n)
  BY <1>1 DEF EditarLee, EliminarLee, Abierta, Existe, Estado, Nacida
<1> HIDE DEF q
<1>4. Referencia(nomina, q) /\ Listado(nomina, novedad, q) /\ q.op \notin Calculan
  BY <1>2, <1>3 DEF Referencia, Listado, Recalcula, Calculan
<1> QED BY <1>2, <1>3, <1>4, LeerOK

LEMMA RecalcularLeeOK ==
  ASSUME IInv, NEW r \in Requests, NEW n \in Nominas, RecalcularLee(r, n)
  PROVE  IInv'
<1> DEFINE q == [op |-> "recalcular", n |-> n, ids |-> Ligadas(n)]
<1>1. Ligadas(n) \subseteq Novedades /\ \A v \in Ligadas(n) : novedad[v].nomina = n /\ novedad[v].estado # "none"
  BY DEF Ligadas, Viva
<1>2. q \in Doing /\ q.op = "recalcular" /\ q.n = n /\ q.ids = Ligadas(n)
  BY <1>1 DEF Doing
<1>3. Leer(r, q) /\ Nacida(nomina, n)
  BY DEF RecalcularLee, Existe, Estado, Nacida
<1> HIDE DEF q
<1>4. Referencia(nomina, q) /\ Listado(nomina, novedad, q) /\ q.op \notin Calculan
  BY <1>1, <1>2, <1>3 DEF Referencia, Listado, Recalcula, Calculan
<1> QED BY <1>2, <1>3, <1>4, LeerOK

LEMMA EndType ==
  ASSUME IInv, NEW r \in Requests, End(r)
  PROVE  /\ request' \in [Requests -> Doing \cup {Idle}] /\ operations' \in 0 .. MaxOperations
         /\ request' = [request EXCEPT ![r] = Idle]
         /\ \A s \in Requests : request'[s] = IF s = r THEN Idle ELSE request[s]
BY Tipos DEF End

LEMMA CrearOK ==
  ASSUME IInv, NEW r \in Requests, Crear(r)
  PROVE  IInv'
<1> DEFINE n == request[r].n
<1>1. n \in Nominas /\ request[r].op = "crear" /\ Nacida(nomina, n)
  BY Tipos, TodasCumplen DEF Crear, Campos, Cumple, Referencia, Sencillas
<1>2. PICK v \in Novedades, e \in Miembros[nomina[n].planilla], f \in FechaValida(n) :
        Fresca(v) /\ Escribe(v, [estado |-> "pending", nomina |-> n, empleado |-> e, fecha |-> f])
  BY DEF Crear
<1> DEFINE w == [estado |-> "pending", nomina |-> n, empleado |-> e, fecha |-> f]
<1>3. e \in Empleados /\ f \in Fechas
  <2>1. nomina[n] \in NominaType
    BY <1>1, Tipos
  <2>2. nomina[n].planilla \in Planillas /\ nomina[n].inicio \in 1 .. MaxFecha /\ nomina[n].fin \in 1 .. MaxFecha
    BY <2>1 DEF NominaType
  <2> QED BY <1>2, <2>2, MiembrosAssumption, BoundsAssumption DEF FechaValida, Fechas
<1>4. w \in NovedadType /\ w.nomina = n
  BY <1>1, <1>3 DEF NovedadType
<1>5. Enlace(nomina, w) /\ Conserva(novedad[v], w) /\ Escribe(v, w)
  BY <1>1, <1>2, <1>4 DEF Enlace, Conserva, Fresca
<1>6. \A s \in Requests : request'[s] = request[s] \/ (request'[s] = Idle /\ request[s].op \notin Calculan)
  BY <1>1, EndType DEF Crear, Calculan
<1>7. UNCHANGED <<nomina, contadas, incidentes>> /\ End(r)
  BY DEF Crear
<1> HIDE DEF w, n
<1> QED BY <1>4, <1>5, <1>6, <1>7, EndType, PasoNovedad

LEMMA EditarOK ==
  ASSUME IInv, NEW r \in Requests, Editar(r)
  PROVE  IInv'
<1> DEFINE n == request[r].n
           v == request[r].v
<1>1. n \in Nominas /\ v \in Novedades /\ request[r].op = "editar" /\ Nacida(nomina, n)
  BY Tipos, TodasCumplen DEF Editar, Campos, Cumple, Referencia, Sencillas
<1>2. PICK e \in Miembros[nomina[n].planilla], f \in FechaValida(n) :
        Escribe(v, [novedad[v] EXCEPT !.empleado = e, !.fecha = f])
  BY DEF Editar
<1> DEFINE w == [novedad[v] EXCEPT !.empleado = e, !.fecha = f]
<1>3. e \in Empleados /\ f \in Fechas
  <2>1. nomina[n] \in NominaType
    BY <1>1, Tipos
  <2>2. nomina[n].planilla \in Planillas /\ nomina[n].inicio \in 1 .. MaxFecha /\ nomina[n].fin \in 1 .. MaxFecha
    BY <2>1 DEF NominaType
  <2> QED BY <1>2, <2>2, MiembrosAssumption, BoundsAssumption DEF FechaValida, Fechas
<1>4. novedad[v] \in NovedadType /\ Enlace(nomina, novedad[v]) /\ Viva(v)
  BY <1>1, Tipos DEF IInv, Estructura, Editar
<1>5. w \in NovedadType /\ w.nomina = novedad[v].nomina /\ w.estado = novedad[v].estado
  BY <1>3, <1>4 DEF NovedadType
<1> HIDE DEF w
<1>6. Enlace(nomina, w) /\ Conserva(novedad[v], w)
  BY <1>4, <1>5 DEF Enlace, Conserva
<1>7. \A s \in Requests : request'[s] = request[s] \/ (request'[s] = Idle /\ request[s].op \notin Calculan)
  BY <1>1, EndType DEF Editar, Calculan
<1>8. UNCHANGED <<nomina, contadas, incidentes>> /\ End(r) /\ Escribe(v, w)
  BY <1>2 DEF Editar, w
<1> HIDE DEF n, v
<1> QED BY <1>1, <1>5, <1>6, <1>7, <1>8, EndType, PasoNovedad

LEMMA EliminarOK ==
  ASSUME IInv, NEW r \in Requests, Eliminar(r)
  PROVE  IInv'
<1> DEFINE v == request[r].v
           w == [novedad[v] EXCEPT !.estado = "deleted"]
<1>1. v \in Novedades /\ request[r].op = "eliminar"
  BY Tipos DEF Eliminar, Campos
<1>2. novedad[v] \in NovedadType /\ Enlace(nomina, novedad[v])
  BY <1>1, Tipos DEF IInv, Estructura
<1>3. w \in NovedadType /\ w.nomina = novedad[v].nomina /\ w.estado = "deleted"
  BY <1>2 DEF NovedadType
<1>4. \A s \in Requests : request'[s] = request[s] \/ (request'[s] = Idle /\ request[s].op \notin Calculan)
  BY <1>1, EndType DEF Eliminar, Calculan
<1>5. UNCHANGED <<nomina, contadas, incidentes>> /\ End(r) /\ Escribe(v, w)
  BY DEF Eliminar
<1> HIDE DEF w
<1>6. Enlace(nomina, w) /\ Conserva(novedad[v], w)
  BY <1>2, <1>3 DEF Enlace, Conserva
<1> HIDE DEF v
<1> QED BY <1>1, <1>3, <1>4, <1>5, <1>6, EndType, PasoNovedad

LEMMA SueltaOK ==
  ASSUME IInv, NEW v \in Novedades, NEW e \in Empleados, NEW f \in Fechas, Suelta(v, e, f)
  PROVE  IInv'
<1> DEFINE w == [estado |-> "pending", nomina |-> NULL, empleado |-> e, fecha |-> f]
<1>1. w \in NovedadType /\ w.nomina = NULL
  BY DEF NovedadType
<1>2. Escribe(v, w) /\ novedad[v].estado = "none" /\ UNCHANGED <<nomina, contadas, incidentes, request>>
  BY DEF Suelta, Fresca
<1>3. operations' \in 0 .. MaxOperations
  BY Tipos, BoundsAssumption DEF Suelta
<1> HIDE DEF w
<1>4. Enlace(nomina, w) /\ Conserva(novedad[v], w)
  BY <1>1, <1>2 DEF Enlace, Conserva
<1> QED BY <1>1, <1>2, <1>3, <1>4, Tipos, PasoNovedad

-----------------------------------------------------------------------------
(* The life of a payroll                                                     *)

LEMMA AprobarAnularOK ==
  ASSUME IInv, NEW n \in Nominas, Aprobar(n) \/ Anular(n)
  PROVE  IInv'
<1>1. PICK e \in {"approved", "cancelled"} : Cambia(n, e) /\ (e = "approved" => Estado(n) = "generated")
  BY DEF Aprobar, Anular
<1>2. Presente(nomina, n) /\ (e # "cancelled" => Ocupa(nomina, n))
  BY <1>1 DEF Aprobar, Anular, Presente, Ocupa, Ocupan, Estado
<1>3. UNCHANGED <<novedad, contadas, tocadas, incidentes, request, operations>>
  BY DEF Aprobar, Anular, historia
<1>4. \A v \in Novedades : Misma(novedad[v], novedad'[v]) /\ Conserva(novedad[v], novedad'[v])
  BY <1>3 DEF Misma, Conserva
<1> QED BY <1>1, <1>2, <1>3, <1>4, Tipos, PasoEstado

LEMMA ListaEnLista ==
  ASSUME IInv, NEW n \in Nominas, NEW v \in Novedades
  PROVE  v \in Lista(n) <=> EnLista(novedad[v], n, nomina[n])
BY DEF Lista, Cuenta, Viva, Pertenece, EnLista

LEMMA AplicarOK ==
  ASSUME IInv, NEW n \in Nominas, Aplicar(n)
  PROVE  IInv'
<1>1. /\ Cambia(n, "applied") /\ Presente(nomina, n) /\ Ocupa(nomina, n)
      /\ UNCHANGED <<contadas, tocadas, request, operations>>
  BY DEF Aplicar, Presente, Ocupa, Ocupan, Estado
<1>2. novedad' = [v \in Novedades |->
        IF v \in Lista(n) THEN [novedad[v] EXCEPT !.estado = "executed"] ELSE novedad[v]]
  BY DEF Aplicar, PorEjecutar
<1>3. \A v \in Novedades : /\ novedad'[v] \in NovedadType
                           /\ Misma(novedad[v], novedad'[v]) /\ Conserva(novedad[v], novedad'[v])
                           /\ v \in Lista(n) => novedad'[v].estado = "executed"
  <2> SUFFICES ASSUME NEW v \in Novedades
               PROVE  /\ novedad'[v] \in NovedadType
                      /\ Misma(novedad[v], novedad'[v]) /\ Conserva(novedad[v], novedad'[v])
                      /\ v \in Lista(n) => novedad'[v].estado = "executed"
    OBVIOUS
  <2>1. novedad[v] \in NovedadType
    BY Tipos
  <2>2. v \in Lista(n) => novedad[v].estado \in {"pending", "executed"}
    BY DEF Lista, Cuenta, Viva
  <2>3. novedad'[v] = IF v \in Lista(n) THEN [novedad[v] EXCEPT !.estado = "executed"] ELSE novedad[v]
    BY <1>2
  <2> HIDE DEF Lista
  <2> QED BY <2>1, <2>2, <2>3 DEF NovedadType, Misma, Conserva
<1>4. novedad' \in [Novedades -> NovedadType]
  BY <1>2, <1>3
<1>5. /\ incidentes \subseteq incidentes' /\ incidentes' \subseteq Nominas
      /\ n \notin incidentes' => n \notin incidentes /\ ~EnRecalculo(n)
  BY Tipos DEF Aplicar
<1>6. ASSUME n \notin incidentes'
      PROVE  /\ ~Reenlazando(n)
             /\ \A v \in contadas[n] \ tocadas[n] : novedad'[v].estado = "executed"
  <2>1. ~Reenlazando(n) /\ n \notin incidentes
    BY <1>5, <1>6 DEF EnRecalculo, Reenlazando
  <2>2. Cuadra(nomina, novedad, contadas, tocadas, n)
    BY <1>1, <2>1 DEF IInv, Cuentas, AlDia
  <2>3. contadas[n] \subseteq Novedades
    BY Tipos
  <2>4. \A v \in contadas[n] \ tocadas[n] : v \in Lista(n)
    BY <2>2, <2>3, ListaEnLista DEF Cuadra
  <2> QED BY <1>3, <2>1, <2>3, <2>4
<1> QED BY <1>1, <1>3, <1>4, <1>5, <1>6, PasoEstado

-----------------------------------------------------------------------------
(* Calculation                                                               *)

LEMMA PasoInserta ==
  ASSUME IInv, NEW r \in Requests, NEW m \in Nominas, NEW p \in Planillas,
         NEW i \in 1 .. MaxFecha, NEW f \in 1 .. MaxFecha, i <= f, NEW q \in Doing,
         q.op = "calcular", q.m = m, request[r].op \notin Calculan,
         Inserta(m, IF q.n = NULL THEN m ELSE q.n, p, i, f),
         PlanillaLibre(p), PeriodoLibre(p, i, f, q.n),
         q.n # NULL => /\ Nacida(nomina, q.n) /\ nomina[q.n].planilla = p
                       /\ nomina[q.n].inicio = i /\ nomina[q.n].fin = f,
         Listado(nomina, novedad, q),
         request' = [request EXCEPT ![r] = q], operations' \in 0 .. MaxOperations
  PROVE  IInv'
<1> USE Tipos
<1> DEFINE c == IF q.n = NULL THEN m ELSE q.n
           fila == [estado |-> "naciente", planilla |-> p, inicio |-> i, fin |-> f]
<1>1. /\ nomina[m].estado = "none" /\ nomina' = [nomina EXCEPT ![m] = fila]
      /\ contadas' = [contadas EXCEPT ![m] = Cuenta(c, p, i, f)]
      /\ tocadas' = [tocadas EXCEPT ![m] = {}]
      /\ UNCHANGED <<novedad, incidentes>>
  BY DEF Inserta, Estado
<1>2. /\ nomina'[m] = fila /\ \A k \in Nominas \ {m} : nomina'[k] = nomina[k]
      /\ nomina' \in [Nominas -> NominaType]
  BY <1>1 DEF NominaType, Estados
<1>3. /\ contadas'[m] = Cuenta(c, p, i, f) /\ tocadas'[m] = {}
      /\ \A k \in Nominas \ {m} : contadas'[k] = contadas[k] /\ tocadas'[k] = tocadas[k]
      /\ contadas' \in [Nominas -> SUBSET Novedades] /\ tocadas' \in [Nominas -> SUBSET Novedades]
  <2>1. Cuenta(c, p, i, f) \subseteq Novedades
    BY DEF Cuenta
  <2> HIDE DEF c
  <2> QED BY <1>1, <2>1
<1>4. \A s \in Requests : request'[s] = IF s = r THEN q ELSE request[s]
  OBVIOUS
<1>5. Avance(nomina, nomina')
  <2> SUFFICES ASSUME NEW k \in Nominas, Nacida(nomina, k) PROVE k # m
    BY <1>2 DEF Avance, Nacida, Presente
  <2> QED BY <1>1 DEF Nacida
<1>6. TypeOK'
  BY <1>1, <1>2, <1>3 DEF TypeOK
<1>7. ~Ocupa(nomina', m) /\ \A k \in Nominas \ {m} : Ocupa(nomina', k) <=> Ocupa(nomina, k)
  BY <1>2 DEF Ocupa, Ocupan
<1>8. \A k \in Nominas \ {m} : \A a \in Nominas \ {m} : Ajenas(nomina', a, k) <=> Ajenas(nomina, a, k)
  BY <1>2 DEF Ajenas
<1>9. Cumple(nomina', novedad', contadas', tocadas', incidentes', q)
  <2>1. q.n # NULL => q.n \in Nominas \ {m}
    BY <1>1, DoingCampos DEF Campos, Nacida
  <2>2. Referencia(nomina', q)
    BY <1>2, <1>5, <2>1 DEF Referencia, Avance, MismaFila, Sencillas
  <2>3. PeriodoPropio(nomina', q)
    <3>1. SUFFICES ASSUME NEW k \in Nominas, k # q.n, Ocupa(nomina', k), nomina'[k].planilla = p
                   PROVE  Ajenas(nomina', k, m)
      BY <1>2 DEF PeriodoPropio
    <3>2. k # m /\ Estado(k) \in Ocupan /\ nomina[k].planilla = p
      BY <1>2, <1>7, <3>1 DEF Ocupa, Estado
    <3>3. ~Traslapa(k, i, f)
      BY <3>1, <3>2 DEF PeriodoLibre
    <3>4. nomina[k].fin < i \/ f < nomina[k].inicio
      BY <3>3 DEF Traslapa
    <3> QED BY <1>2, <3>2, <3>4 DEF Ajenas
  <2>4. Apresurada(nomina', incidentes', q) /\ NadaPropio(nomina', novedad', tocadas', q)
    BY DEF Apresurada, NadaPropio
  <2>5. Listado(nomina', novedad', q)
    BY <1>1, <1>2, <2>1 DEF Listado, Presente, Recalcula
  <2>6. CuentaAlNacer(nomina', novedad', contadas', tocadas', q)
    <3>1. \A v \in Novedades : v \in Cuenta(c, p, i, f) <=> EnLista(novedad[v], c, fila)
      BY DEF Cuenta, Viva, Pertenece, EnLista
    <3> HIDE DEF c, fila
    <3>2. \A v \in Novedades : v \in contadas'[q.m] <=> EnLista(novedad'[v], c, nomina'[q.m])
      BY <1>1, <1>2, <1>3, <3>1
    <3> QED BY <3>2 DEF CuentaAlNacer, c
  <2> QED BY <2>2, <2>3, <2>4, <2>5, <2>6 DEF Cumple
<1>10. \A s \in Requests \ {r} : Cumple(nomina', novedad', contadas', tocadas', incidentes', request[s])
  <2> SUFFICES ASSUME NEW s \in Requests \ {r}
               PROVE  Cumple(nomina', novedad', contadas', tocadas', incidentes', request[s])
    OBVIOUS
  <2> DEFINE o == request[s]
  <2>1. Cumple(nomina, novedad, contadas, tocadas, incidentes, o) /\ o \in Doing \cup {Idle}
    BY TodasCumplen
  <2>2. o.op \in Calculan => o.m \in Nominas
    BY DEF Campos
  <2> HIDE DEF o
  <2>3. o.op \in Calculan => o.m # m
    BY <1>1, <2>1 DEF Cumple, Referencia, Nacida, Calculan
  <2>4. o.op = "calcular" => nomina'[o.m] = nomina[o.m]
    BY <1>2, <2>2, <2>3 DEF Calculan
  <2>5. Referencia(nomina', o)
    BY <1>5, <2>1, <2>4, ReferenciaSigue DEF Cumple
  <2>6. PeriodoPropio(nomina', o)
    <3>1. SUFFICES ASSUME o.op = "calcular", NEW k \in Nominas, k # o.n, Ocupa(nomina', k),
                          nomina'[k].planilla = nomina'[o.m].planilla
                   PROVE  Ajenas(nomina', k, o.m)
      BY DEF PeriodoPropio
    <3>2. k # m /\ o.m \in Nominas \ {m}
      BY <1>7, <2>2, <2>3, <3>1 DEF Calculan
    <3>3. Ocupa(nomina, k) /\ nomina[k].planilla = nomina[o.m].planilla
      BY <1>2, <1>7, <3>1, <3>2
    <3>4. Ajenas(nomina, k, o.m)
      BY <2>1, <3>1, <3>3 DEF Cumple, PeriodoPropio
    <3> QED BY <1>8, <3>2, <3>4
  <2>7. Apresurada(nomina', incidentes', o)
    BY <1>1, <1>2, <2>1, <2>2, <2>3 DEF Cumple, Apresurada, Calculan
  <2>8. Listado(nomina', novedad', o)
    <3>1. \A v \in Novedades : Conserva(novedad[v], novedad'[v])
      BY <1>1 DEF Conserva
    <3> QED BY <1>5, <2>1, <3>1, ListadoSigue DEF Cumple
  <2>9. o.op \in Calculan /\ Vigente(nomina', o.m) =>
          /\ Vigente(nomina, o.m) /\ contadas'[o.m] = contadas[o.m] /\ tocadas[o.m] \subseteq tocadas'[o.m]
          /\ \A x \in Novedades \ tocadas'[o.m] : Misma(novedad[x], novedad'[x])
    BY <1>1, <1>2, <1>3, <2>2, <2>3 DEF Vigente, Misma
  <2>10. CuentaAlNacer(nomina', novedad', contadas', tocadas', o) /\ NadaPropio(nomina', novedad', tocadas', o)
    BY <1>5, <2>1, <2>4, <2>9, CuentaSigue DEF Cumple
  <2> QED BY <2>5, <2>6, <2>7, <2>8, <2>10 DEF Cumple, o
<1>11. \A x, y \in Requests : x # y => Distinta(nomina', request'[x], request'[y])
  <2>1. \A s \in Requests \ {r} : Distinta(nomina', q, request[s]) /\ Distinta(nomina', request[s], q)
    <3> SUFFICES ASSUME NEW s \in Requests \ {r}, request[s].op \in Calculan
                 PROVE  /\ m # request[s].m
                        /\ request[s].op = "calcular" => nomina'[request[s].m].planilla # nomina'[m].planilla
      BY DEF Distinta
    <3>1. request[s].m \in Nominas \ {m}
      BY <1>1, TodasCumplen DEF Campos, Cumple, Referencia, Nacida, Calculan
    <3>2. request[s].op = "calcular" => nomina[request[s].m].planilla # p
      BY DEF PlanillaLibre
    <3> QED BY <1>2, <3>1, <3>2
  <2>2. ASSUME NEW x \in Requests \ {r}, NEW y \in Requests \ {r}, x # y
        PROVE  Distinta(nomina', request[x], request[y])
    <3>1. Distinta(nomina, request[x], request[y])
      BY <2>2 DEF IInv, Estructura
    <3>2. /\ request[x].op = "calcular" => request[x].m \in Nominas \ {m}
          /\ request[y].op = "calcular" => request[y].m \in Nominas \ {m}
      BY <1>1, TodasCumplen DEF Campos, Cumple, Referencia, Nacida, Calculan
    <3> QED BY <1>2, <3>1, <3>2 DEF Distinta
  <2> QED BY <1>4, <2>1, <2>2
<1>12. \A k \in Nominas : nomina'[k].inicio <= nomina'[k].fin
  BY <1>2
<1>13. \A x \in Novedades : Enlace(nomina', novedad'[x])
  <2> SUFFICES ASSUME NEW x \in Novedades, novedad[x].nomina # NULL
               PROVE  Nacida(nomina', novedad[x].nomina)
    BY <1>1 DEF Enlace
  <2>1. novedad[x].nomina \in Nominas /\ Nacida(nomina, novedad[x].nomina)
    <3>1. novedad[x] \in NovedadType
      OBVIOUS
    <3> QED BY <3>1 DEF IInv, Estructura, Enlace, NovedadType
  <2>2. \A k \in Nominas : Nacida(nomina, k) => Nacida(nomina', k)
    BY <1>5 DEF Avance
  <2> QED BY <2>1, <2>2
<1>14. SinTraslape'
  <2>1. SUFFICES ASSUME NEW a \in Nominas \ incidentes, NEW b \in Nominas \ incidentes, a # b,
                        Ocupa(nomina', a), Ocupa(nomina', b), nomina'[a].planilla = nomina'[b].planilla
                 PROVE  Ajenas(nomina', a, b) \/ Releva(request', a, b) \/ Releva(request', b, a)
    BY <1>1 DEF SinTraslape
  <2>2. a # m /\ b # m /\ Ocupa(nomina, a) /\ Ocupa(nomina, b) /\ nomina[a].planilla = nomina[b].planilla
    BY <1>2, <1>7, <2>1
  <2>3. Ajenas(nomina, a, b) \/ Releva(request, a, b) \/ Releva(request, b, a)
    BY <2>1, <2>2 DEF IInv, Periodos, SinTraslape
  <2>4. \A x, y \in Nominas : Releva(request, x, y) => Releva(request', x, y)
    BY <1>4 DEF Releva, Calculan
  <2> QED BY <1>8, <2>2, <2>3, <2>4
<1>15. AlDia'
  <2>1. SUFFICES ASSUME NEW k \in Nominas \ incidentes, Ocupa(nomina', k), ~Reenlazando(k)'
                 PROVE  Cuadra(nomina', novedad', contadas', tocadas', k)
    BY <1>1 DEF AlDia
  <2>2. k # m /\ Ocupa(nomina, k)
    BY <1>7, <2>1
  <2>3. ~Reenlazando(k)
    BY <1>4, <2>1 DEF Reenlazando, Calculan
  <2>4. Cuadra(nomina, novedad, contadas, tocadas, k)
    BY <2>1, <2>2, <2>3 DEF IInv, Cuentas, AlDia
  <2> QED BY <1>1, <1>2, <1>3, <2>2, <2>4 DEF Cuadra
<1> QED BY <1>4, <1>6, <1>9, <1>10, <1>11, <1>12, <1>13, <1>14, <1>15, Junta

LEMMA EjecutarOK ==
  ASSUME IInv, NEW r \in Requests, NEW p \in Planillas, NEW i \in 1 .. MaxFecha, NEW f \in 1 .. MaxFecha,
         Ejecutar(r, p, i, f)
  PROVE  IInv'
<1>1. PICK m \in Nominas :
        Inserta(m, m, p, i, f) /\ Begin(r, [op |-> "calcular", n |-> NULL, m |-> m, ids |-> {}])
  BY DEF Ejecutar
<1> DEFINE q == [op |-> "calcular", n |-> NULL, m |-> m, ids |-> {}]
<1>2. q \in Doing /\ q.op = "calcular" /\ q.m = m /\ q.n = NULL
  BY DEF Doing
<1>3. /\ request[r] = Idle /\ request' = [request EXCEPT ![r] = q] /\ operations' \in 0 .. MaxOperations
  BY <1>1, Tipos, BoundsAssumption DEF Begin
<1> HIDE DEF q
<1>4. Listado(nomina, novedad, q) /\ request[r].op \notin Calculan
  BY <1>2, <1>3 DEF Listado, Recalcula, Idle, Calculan
<1>5. i <= f /\ PlanillaLibre(p) /\ PeriodoLibre(p, i, f, q.n)
  BY <1>2 DEF Ejecutar
<1> QED BY <1>1, <1>2, <1>3, <1>4, <1>5, PasoInserta

LEMMA RecalcularOK ==
  ASSUME IInv, NEW r \in Requests, Recalcular(r)
  PROVE  IInv'
<1> DEFINE n == request[r].n
           p == nomina[n].planilla
           i == nomina[n].inicio
           f == nomina[n].fin
<1>1. /\ request[r].op = "recalcular" /\ n \in Nominas /\ request[r].ids \in SUBSET Novedades
      /\ Nacida(nomina, n) /\ Listado(nomina, novedad, request[r])
  BY Tipos, TodasCumplen DEF Recalcular, Campos, Cumple, Referencia, Calculan
<1>2. p \in Planillas /\ i \in 1 .. MaxFecha /\ f \in 1 .. MaxFecha /\ i <= f /\ n # NULL
  <2>1. nomina[n] \in NominaType
    BY <1>1, Tipos
  <2> QED BY <1>1, <2>1, Tipos, NullAssumption DEF NominaType
<1>3. PlanillaLibre(p) /\ PeriodoLibre(p, i, f, n) /\ operations' \in 0 .. MaxOperations
  BY Tipos DEF Recalcular
<1>4. PICK m \in Nominas :
        /\ Inserta(m, n, p, i, f)
        /\ request' = [request EXCEPT ![r] = [op |-> "calcular", n |-> n, m |-> m, ids |-> request[r].ids]]
  BY DEF Recalcular, Contexto
<1> DEFINE q == [op |-> "calcular", n |-> n, m |-> m, ids |-> request[r].ids]
<1>5. q \in Doing /\ q.op = "calcular" /\ q.m = m /\ q.n = n /\ q.ids = request[r].ids
  BY <1>1 DEF Doing
<1>6. request' = [request EXCEPT ![r] = q] /\ request[r].op \notin Calculan
  BY <1>1, <1>4 DEF Calculan
<1> HIDE DEF q
<1>7. Listado(nomina, novedad, q)
  BY <1>1, <1>5 DEF Listado, Recalcula
<1> HIDE DEF n, p, i, f
<1>8. q.n # NULL => /\ Nacida(nomina, q.n) /\ nomina[q.n].planilla = p
                    /\ nomina[q.n].inicio = i /\ nomina[q.n].fin = f
  BY <1>1, <1>5 DEF p, i, f
<1> QED BY <1>2, <1>3, <1>4, <1>5, <1>6, <1>7, <1>8, PasoInserta

\* The transaction of a calculation ends: with payslips, without, or rolled back.
LEMMA PasoCalculado ==
  ASSUME IInv, NEW r \in Requests, request[r].op = "calcular",
         NEW e \in {"generated", "error", "deleted"}, NEW q \in Doing \cup {Idle},
         nomina' = [nomina EXCEPT ![request[r].m].estado = e],
         contadas' = [contadas EXCEPT ![request[r].m] = IF e = "generated" THEN @ ELSE {}],
         UNCHANGED <<novedad, tocadas, incidentes>>,
         request' = [request EXCEPT ![r] = q], operations' \in 0 .. MaxOperations,
         IF request[r].n = NULL \/ e = "deleted" THEN q = Idle
         ELSE q.op = "reenlazar" /\ q.n = request[r].n /\ q.m = request[r].m /\ q.ids = request[r].ids
  PROVE  IInv'
<1> USE Tipos
<1> DEFINE m == request[r].m
           n == request[r].n
<1>1. /\ m \in Nominas /\ nomina[m].estado = "naciente"
      /\ n # NULL => n \in Nominas /\ n # m /\ Nacida(nomina, n) /\ MismaFila(nomina, n, m)
  BY TodasCumplen DEF Campos, Cumple, Referencia, Nacida, Calculan
<1> HIDE DEF m, n
<1>2. /\ \A k \in Nominas \ {m} : nomina'[k] = nomina[k]
      /\ nomina'[m].estado = e
      /\ \A k \in Nominas : MismasFechasDe(nomina, nomina', k)
      /\ nomina' \in [Nominas -> NominaType]
  <2>1. nomina' = [nomina EXCEPT ![m].estado = e]
    BY DEF m
  <2>2. \A k \in Nominas : nomina[k] \in NominaType
    OBVIOUS
  <2>3. e \in Estados
    BY DEF Estados
  <2> QED BY <1>1, <2>1, <2>2, <2>3 DEF NominaType, MismasFechasDe
<1>3. /\ contadas' \in [Nominas -> SUBSET Novedades]
      /\ \A k \in Nominas \ {m} : contadas'[k] = contadas[k]
      /\ e = "generated" => contadas'[m] = contadas[m]
  <2>1. contadas' = [contadas EXCEPT ![m] = IF e = "generated" THEN contadas[m] ELSE {}]
    BY DEF m
  <2> QED BY <1>1, <2>1
<1>4. \A s \in Requests : request'[s] = IF s = r THEN q ELSE request[s]
  OBVIOUS
<1>5. Avance(nomina, nomina')
  BY <1>1, <1>2 DEF Avance, Nacida, Presente
<1>6. TypeOK'
  BY <1>2, <1>3 DEF TypeOK
<1>7. \A s \in Requests \ {r} : request[s].op \in Calculan => request[s].m \in Nominas \ {m}
  BY DEF IInv, Estructura, Distinta, Campos, Calculan, m
<1>8. \A k \in Nominas \ {m} : Ocupa(nomina', k) <=> Ocupa(nomina, k)
  BY <1>2 DEF Ocupa, Ocupan
<1>9. \A a \in Nominas : \A b \in Nominas : Ajenas(nomina', a, b) <=> Ajenas(nomina, a, b)
  BY <1>2 DEF Ajenas, MismasFechasDe
<1>10. Cumple(nomina, novedad, contadas, tocadas, incidentes, request[r])
  BY TodasCumplen
<1>11. \A v \in Novedades : novedad[v].nomina # m /\ Enlace(nomina, novedad[v])
  BY <1>1, NullAssumption DEF IInv, Estructura, Enlace, Nacida
<1>12. Cumple(nomina', novedad', contadas', tocadas', incidentes', q)
  <2>1. CASE q = Idle
    BY <2>1, IdleCumple DEF Cumple
  <2>2. CASE n # NULL /\ e # "deleted" /\ q.op = "reenlazar" /\ q.n = n /\ q.m = m /\ q.ids = request[r].ids
    <3>1. Referencia(nomina', q)
      BY <1>1, <1>2, <1>5, <2>2 DEF Referencia, Nacida, Avance, MismaFila, MismasFechasDe, Sencillas
    <3>2. PeriodoPropio(nomina', q) /\ Apresurada(nomina', incidentes', q)
      BY <1>2, <2>2 DEF PeriodoPropio, Apresurada
    <3>3. Listado(nomina', novedad', q)
      BY <1>1, <1>2, <1>10, <2>2 DEF Cumple, Listado, Recalcula, Presente, n
    <3>4. NadaPropio(nomina', novedad', tocadas', q)
      BY <1>11, <2>2 DEF NadaPropio
    <3>5. CuentaAlNacer(nomina', novedad', contadas', tocadas', q)
      <4>1. SUFFICES ASSUME Presente(nomina, n), e = "generated", NEW v \in Novedades \ tocadas[m],
                            ~Olvidada(v, novedad[v], n, request[r].ids)
                     PROVE  v \in contadas[m] <=> EnLista(novedad[v], n, nomina'[m])
        BY <1>1, <1>2, <1>3, <2>2 DEF CuentaAlNacer, Presente, Vigente
      <4>2. v \in contadas[m] <=> EnLista(novedad[v], n, nomina[m])
        BY <1>1, <1>10, <2>2, <4>1 DEF Cumple, CuentaAlNacer, Calculan, Vigente, n, m
      <4>3. EnLista(novedad[v], n, nomina[m]) <=> EnLista(novedad[v], n, nomina'[m])
        BY <1>1, <1>2 DEF EnLista, MismasFechasDe
      <4> QED BY <4>2, <4>3
    <3> QED BY <3>1, <3>2, <3>3, <3>4, <3>5 DEF Cumple
  <2> QED BY <2>1, <2>2 DEF n, m
<1>13. \A s \in Requests \ {r} : Cumple(nomina', novedad', contadas', tocadas', incidentes', request[s])
  <2> SUFFICES ASSUME NEW s \in Requests \ {r}
               PROVE  Cumple(nomina', novedad', contadas', tocadas', incidentes', request[s])
    OBVIOUS
  <2> DEFINE o == request[s]
  <2>1. Cumple(nomina, novedad, contadas, tocadas, incidentes, o) /\ o \in Doing \cup {Idle}
    BY TodasCumplen
  <2>2. o.op \in Calculan => o.m \in Nominas \ {m}
    BY <1>7
  <2>3. o.op = "calcular" => nomina[o.m].planilla # nomina[m].planilla
    BY DEF IInv, Estructura, Distinta, Calculan, m
  <2> HIDE DEF o
  <2>4. o.op = "calcular" => nomina'[o.m] = nomina[o.m]
    BY <1>2, <2>2 DEF Calculan
  <2>5. Referencia(nomina', o)
    BY <1>5, <2>1, <2>4, ReferenciaSigue DEF Cumple
  <2>6. PeriodoPropio(nomina', o)
    <3>1. SUFFICES ASSUME o.op = "calcular", NEW k \in Nominas, k # o.n, Ocupa(nomina', k),
                          nomina'[k].planilla = nomina'[o.m].planilla
                   PROVE  Ajenas(nomina', k, o.m)
      BY DEF PeriodoPropio
    <3>2. k # m /\ o.m \in Nominas /\ nomina[k].planilla = nomina[o.m].planilla
      BY <1>2, <2>2, <2>3, <2>4, <3>1 DEF MismasFechasDe, Calculan
    <3>3. Ajenas(nomina, k, o.m)
      BY <1>8, <2>1, <3>1, <3>2 DEF Cumple, PeriodoPropio
    <3> QED BY <1>9, <3>2, <3>3
  <2>7. Apresurada(nomina', incidentes', o)
    BY <1>2, <2>1, <2>2 DEF Cumple, Apresurada, Calculan
  <2>8. Listado(nomina', novedad', o)
    <3>1. \A v \in Novedades : Conserva(novedad[v], novedad'[v])
      BY DEF Conserva
    <3> QED BY <1>5, <2>1, <3>1, ListadoSigue DEF Cumple
  <2>9. o.op \in Calculan /\ Vigente(nomina', o.m) =>
          /\ Vigente(nomina, o.m) /\ contadas'[o.m] = contadas[o.m] /\ tocadas[o.m] \subseteq tocadas'[o.m]
          /\ \A x \in Novedades \ tocadas'[o.m] : Misma(novedad[x], novedad'[x])
    BY <1>2, <1>3, <2>2 DEF Vigente, Misma
  <2>10. CuentaAlNacer(nomina', novedad', contadas', tocadas', o) /\ NadaPropio(nomina', novedad', tocadas', o)
    <3>1. /\ Referencia(nomina, o) /\ CuentaAlNacer(nomina, novedad, contadas, tocadas, o)
          /\ NadaPropio(nomina, novedad, tocadas, o) /\ o \in Doing \cup {Idle}
      BY <2>1 DEF Cumple
    <3> QED BY <1>5, <2>4, <2>9, <3>1, CuentaSigueAqui, Zenon
  <2> QED BY <2>5, <2>6, <2>7, <2>8, <2>10 DEF Cumple, o
<1>14. \A x, y \in Requests : x # y => Distinta(nomina', request'[x], request'[y])
  <2>1. ASSUME NEW x \in Requests \ {r}, NEW y \in Requests \ {r}, x # y
        PROVE  Distinta(nomina', request[x], request[y])
    <3>1. Distinta(nomina, request[x], request[y])
      BY <2>1 DEF IInv, Estructura
    <3> QED BY <1>2, <1>7, <3>1 DEF Distinta, Calculan
  <2>2. \A s \in Requests \ {r} : Distinta(nomina', q, request[s]) /\ Distinta(nomina', request[s], q)
    BY <1>7 DEF Distinta, Idle, Calculan, m
  <2> QED BY <1>4, <2>1, <2>2
<1>15. \A k \in Nominas : nomina'[k].inicio <= nomina'[k].fin
  BY <1>2 DEF MismasFechasDe
<1>16. \A x \in Novedades : Enlace(nomina', novedad'[x])
  <2> SUFFICES ASSUME NEW x \in Novedades, novedad[x].nomina # NULL
               PROVE  Nacida(nomina', novedad[x].nomina)
    BY DEF Enlace
  <2>1. novedad[x].nomina \in Nominas /\ Nacida(nomina, novedad[x].nomina)
    <3>1. novedad[x] \in NovedadType
      OBVIOUS
    <3> QED BY <1>11, <3>1 DEF Enlace, NovedadType
  <2>2. \A k \in Nominas : Nacida(nomina, k) => Nacida(nomina', k)
    BY <1>5 DEF Avance
  <2> QED BY <2>1, <2>2
<1>17. e = "generated" /\ n # NULL => /\ Releva(request', n, m)
                                       /\ request'[r].op = "reenlazar" /\ request'[r].m = m
  BY <1>4 DEF Releva, n, m
<1>18. SinTraslape'
  <2>1. SUFFICES ASSUME NEW a \in Nominas \ incidentes, NEW b \in Nominas \ incidentes, a # b,
                        Ocupa(nomina', a), Ocupa(nomina', b), nomina'[a].planilla = nomina'[b].planilla
                 PROVE  Ajenas(nomina', a, b) \/ Releva(request', a, b) \/ Releva(request', b, a)
    BY DEF SinTraslape
  <2>2. nomina[a].planilla = nomina[b].planilla
    BY <1>2, <2>1 DEF MismasFechasDe
  <2>3. CASE a # m /\ b # m
    <3>1. Ajenas(nomina, a, b) \/ Releva(request, a, b) \/ Releva(request, b, a)
      BY <1>8, <2>1, <2>2, <2>3 DEF IInv, Periodos, SinTraslape
    <3>2. \A x, y \in Nominas : Releva(request, x, y) => Releva(request', x, y)
      BY <1>4 DEF Releva
    <3> QED BY <1>9, <3>1, <3>2
  <2>4. ASSUME NEW k \in Nominas, k # m, Ocupa(nomina', m), Ocupa(nomina', k),
               nomina[k].planilla = nomina[m].planilla
        PROVE  Ajenas(nomina', k, m) \/ Releva(request', k, m)
    <3>1. e = "generated" /\ Ocupa(nomina, k)
      BY <1>2, <1>8, <2>4 DEF Ocupa, Ocupan
    <3>2. CASE k = n
      BY <1>1, <1>17, <3>1, <3>2, NullAssumption
    <3>3. CASE k # n
      BY <1>9, <1>1, <1>10, <2>4, <3>1, <3>3 DEF Cumple, PeriodoPropio, n, m
    <3> QED BY <3>2, <3>3
  <2>5. \A k \in Nominas : Ajenas(nomina', k, m) => Ajenas(nomina', m, k)
    BY DEF Ajenas
  <2> QED BY <2>1, <2>2, <2>3, <2>4, <2>5
<1>19. AlDia'
  <2>1. SUFFICES ASSUME NEW k \in Nominas \ incidentes, Ocupa(nomina', k), ~Reenlazando(k)'
                 PROVE  Cuadra(nomina', novedad, contadas', tocadas, k)
    BY DEF AlDia
  <2>2. CASE k # m
    <3>1. ~Reenlazando(k)
      BY <1>4, <2>1 DEF Reenlazando
    <3>2. Cuadra(nomina, novedad, contadas, tocadas, k)
      BY <1>8, <2>1, <2>2, <3>1 DEF IInv, Cuentas, AlDia
    <3> QED BY <1>2, <1>3, <2>2, <3>2 DEF Cuadra
  <2>3. CASE k = m
    <3>1. e = "generated" /\ n = NULL
      <4>1. e = "generated"
        BY <1>2, <2>1, <2>3 DEF Ocupa, Ocupan
      <4>2. ~(request'[r].op = "reenlazar" /\ request'[r].m = k)
        BY <2>1 DEF Reenlazando
      <4> QED BY <1>17, <2>3, <4>1, <4>2
    <3>2. SUFFICES ASSUME NEW v \in Novedades \ tocadas[m]
                   PROVE  v \in contadas[m] <=> EnLista(novedad[v], m, nomina'[m])
      BY <1>2, <1>3, <2>3, <3>1 DEF Cuadra
    <3>3. v \in contadas[m] <=> EnLista(novedad[v], m, nomina[m])
      BY <1>1, <1>10, <3>1, <3>2 DEF Cumple, CuentaAlNacer, Calculan, Vigente, n, m
    <3>4. EnLista(novedad[v], m, nomina[m]) <=> EnLista(novedad[v], m, nomina'[m])
      BY <1>1, <1>2 DEF EnLista, MismasFechasDe
    <3> QED BY <3>3, <3>4
  <2> QED BY <2>2, <2>3
<1> QED BY <1>4, <1>6, <1>12, <1>13, <1>14, <1>15, <1>16, <1>18, <1>19, Junta

LEMMA CalculadaOK ==
  ASSUME IInv, NEW r \in Requests, Calculada(r)
  PROVE  IInv'
<1> DEFINE n == request[r].n
           m == request[r].m
<1>1. /\ request[r].op = "calcular" /\ m \in Nominas /\ request[r].ids \in SUBSET Novedades
      /\ n \in Nominas \cup {NULL}
  BY Tipos DEF Calculada, Campos, Calculan
<1>2. PICK ok \in BOOLEAN :
        /\ nomina' = [nomina EXCEPT ![m].estado = IF ok THEN "generated" ELSE "error"]
        /\ contadas' = [contadas EXCEPT ![m] = IF ok THEN @ ELSE {}]
  BY DEF Calculada
<1> DEFINE e == IF ok THEN "generated" ELSE "error"
           q == IF n = NULL THEN Idle
                ELSE [op |-> "reenlazar", n |-> n, m |-> m, ids |-> request[r].ids]
<1>3. /\ e \in {"generated", "error", "deleted"} /\ e # "deleted"
      /\ nomina' = [nomina EXCEPT ![m].estado = e]
      /\ contadas' = [contadas EXCEPT ![m] = IF e = "generated" THEN @ ELSE {}]
  BY <1>2
<1>4. /\ q \in Doing \cup {Idle}
      /\ IF n = NULL \/ e = "deleted" THEN q = Idle
         ELSE q.op = "reenlazar" /\ q.n = n /\ q.m = m /\ q.ids = request[r].ids
  BY <1>1, <1>3 DEF Doing
<1>5. request' = [request EXCEPT ![r] = q] /\ operations' \in 0 .. MaxOperations
  BY Tipos DEF Calculada, End
<1>6. UNCHANGED <<novedad, tocadas, incidentes>>
  BY DEF Calculada, historia
<1> HIDE DEF e, q
<1> QED BY <1>1, <1>3, <1>4, <1>5, <1>6, PasoCalculado

LEMMA FailsOK ==
  ASSUME IInv, NEW r \in Requests, Fails(r)
  PROVE  IInv'
<1>1. /\ request' = [request EXCEPT ![r] = Idle] /\ operations' \in 0 .. MaxOperations
      /\ UNCHANGED <<novedad, tocadas>>
  BY EndType DEF Fails
<1>2. CASE request[r].op = "calcular"
  <2>1. /\ nomina' = [nomina EXCEPT ![request[r].m].estado = "deleted"]
        /\ contadas' = [contadas EXCEPT ![request[r].m] = {}]
        /\ incidentes' = incidentes
    BY <1>2 DEF Fails
  <2> QED BY <1>1, <1>2, <2>1, PasoCalculado
<1>3. CASE request[r].op # "calcular"
  <2>1. /\ UNCHANGED <<nomina, contadas>> /\ incidentes \subseteq incidentes'
        /\ request[r].op = "reenlazar" => incidentes' = incidentes \cup {request[r].m}
        /\ request[r].op # "reenlazar" => incidentes' = incidentes
    BY <1>3 DEF Fails
  <2>2. incidentes' \subseteq Nominas
    BY <2>1, Tipos DEF Campos, Calculan
  <2>3. Cumple(nomina, novedad, contadas, tocadas, incidentes, Idle) /\ Idle.op \notin Calculan
    BY IdleCumple DEF Cumple, Idle, Calculan
  <2> QED BY <1>1, <2>1, <2>2, <2>3, PasoSimple
<1> QED BY <1>2, <1>3

\* The old payroll gives its place to the new one.
LEMMA ReenlazarOK ==
  ASSUME IInv, NEW r \in Requests, Reenlazar(r)
  PROVE  IInv'
<1> USE Tipos
<1> DEFINE n == request[r].n
           m == request[r].m
           ids == request[r].ids
           Movida(v) == novedad[v].estado \in {"pending", "executed"} /\ novedad[v].nomina = n
<1>1. /\ request[r].op = "reenlazar" /\ n \in Nominas /\ m \in Nominas /\ ids \in SUBSET Novedades
      /\ n # m /\ n # NULL /\ Presente(nomina, n) /\ Presente(nomina, m) /\ MismaFila(nomina, n, m)
      /\ Cumple(nomina, novedad, contadas, tocadas, incidentes, request[r])
  BY TodasCumplen, NullAssumption
     DEF Reenlazar, Campos, Cumple, Referencia, Calculan, Existe, Estado, Presente
<1>2. \A v \in ids : novedad[v].nomina = n
  BY <1>1 DEF Cumple, Listado, Recalcula
<1>3. /\ nomina' = [nomina EXCEPT ![n].estado = "deleted"]
      /\ novedad' = [v \in Novedades |->
           IF Viva(v) /\ (v \in ids \/ novedad[v].nomina = n)
           THEN [novedad[v] EXCEPT !.nomina = Pasa(v, r)] ELSE novedad[v]]
      /\ Toca(Ligadas(n) \ ids) /\ contadas' = [contadas EXCEPT ![n] = {}]
      /\ End(r) /\ UNCHANGED incidentes
  BY DEF Reenlazar
<1>4. /\ request' \in [Requests -> Doing \cup {Idle}] /\ operations' \in 0 .. MaxOperations
      /\ \A s \in Requests : request'[s] = IF s = r THEN Idle ELSE request[s]
  BY <1>3, EndType
<1>5. \A v \in Novedades : novedad'[v] =
        IF Movida(v) THEN [novedad[v] EXCEPT !.nomina = IF v \in ids THEN m ELSE NULL] ELSE novedad[v]
  BY <1>2, <1>3 DEF Viva, Pasa
<1>6. \A v \in Novedades :
        /\ novedad'[v] \in NovedadType
        /\ ~Movida(v) => novedad'[v] = novedad[v]
        /\ novedad'[v].empleado = novedad[v].empleado /\ novedad'[v].fecha = novedad[v].fecha
        /\ novedad'[v].estado = novedad[v].estado
        /\ Movida(v) => novedad'[v].nomina = IF v \in ids THEN m ELSE NULL
  <2> SUFFICES ASSUME NEW v \in Novedades
               PROVE  /\ novedad'[v] \in NovedadType
                      /\ ~Movida(v) => novedad'[v] = novedad[v]
                      /\ novedad'[v].empleado = novedad[v].empleado /\ novedad'[v].fecha = novedad[v].fecha
                      /\ novedad'[v].estado = novedad[v].estado
                      /\ Movida(v) => novedad'[v].nomina = IF v \in ids THEN m ELSE NULL
    OBVIOUS
  <2>1. novedad[v] \in NovedadType
    OBVIOUS
  <2>2. (IF v \in ids THEN m ELSE NULL) \in Nominas \cup {NULL}
    BY <1>1
  <2> HIDE DEF m, ids
  <2> QED BY <1>5, <2>1, <2>2 DEF NovedadType
<1>7. novedad' \in [Novedades -> NovedadType]
  BY <1>3, <1>6
<1>8. /\ \A k \in Nominas \ {n} : nomina'[k] = nomina[k] /\ contadas'[k] = contadas[k]
      /\ nomina'[n].estado = "deleted"
      /\ \A k \in Nominas : MismasFechasDe(nomina, nomina', k)
      /\ nomina' \in [Nominas -> NominaType] /\ contadas' \in [Nominas -> SUBSET Novedades]
  <2>1. \A k \in Nominas : nomina[k] \in NominaType
    OBVIOUS
  <2> HIDE DEF n
  <2> QED BY <1>1, <1>3, <2>1 DEF NominaType, MismasFechasDe, Estados
<1>9. /\ tocadas' \in [Nominas -> SUBSET Novedades]
      /\ \A k \in Nominas : tocadas[k] \subseteq tocadas'[k]
      /\ \A k \in Nominas : Vigente(nomina, k) =>
           \A v \in Novedades \ tocadas'[k] : Movida(v) => v \in ids
  <2>1. Ligadas(n) \subseteq Novedades /\ \A v \in Novedades : v \in Ligadas(n) <=> Movida(v)
    BY DEF Ligadas, Viva
  <2> HIDE DEF n, ids
  <2> QED BY <1>3, <2>1 DEF Toca, Vigentes, Estado, Vigente
<1> HIDE DEF n, m, ids, Movida
<1>10. Avance(nomina, nomina')
  BY <1>1, <1>8 DEF Avance, Nacida, Presente, MismasFechasDe
<1>11. TypeOK'
  BY <1>3, <1>4, <1>7, <1>8, <1>9 DEF TypeOK
<1>12. \A k \in Nominas : /\ Ocupa(nomina', k) => k # n /\ Ocupa(nomina, k)
                          /\ Vigente(nomina', k) => k # n /\ Vigente(nomina, k)
                          /\ Presente(nomina', k) => k # n /\ Presente(nomina, k)
  BY <1>8 DEF Ocupa, Ocupan, Vigente, Presente
<1>13. \A v \in Novedades : Movida(v) => novedad[v].nomina = n /\ novedad[v].estado # "none"
  BY DEF Movida
\* What another payroll reads as c of a novedad that it was not told of.
<1>14. ASSUME NEW v \in Novedades, NEW c \in Nominas \ {n, m}, NEW fila, Movida(v) => v \in ids
       PROVE  EnLista(novedad'[v], c, fila) <=> EnLista(novedad[v], c, fila)
  <2>1. CASE ~Movida(v)
    BY <1>6, <2>1
  <2>2. CASE Movida(v)
    BY <1>1, <1>6, <1>13, <1>14, <2>2, NullAssumption DEF EnLista
  <2> QED BY <2>1, <2>2
<1>15. \A s \in Requests : Cumple(nomina', novedad', contadas', tocadas', incidentes', request'[s])
  <2> SUFFICES ASSUME NEW s \in Requests
               PROVE  Cumple(nomina', novedad', contadas', tocadas', incidentes', request'[s])
    OBVIOUS
  <2>1. CASE s = r
    BY <1>4, <2>1, IdleCumple DEF Cumple
  <2>2. CASE s # r
    <3> DEFINE q == request[s]
    <3>1. /\ Referencia(nomina, q) /\ PeriodoPropio(nomina, q) /\ Apresurada(nomina, incidentes, q)
          /\ Listado(nomina, novedad, q) /\ CuentaAlNacer(nomina, novedad, contadas, tocadas, q)
          /\ NadaPropio(nomina, novedad, tocadas, q) /\ q \in Doing \cup {Idle}
      BY TodasCumplen DEF Cumple
    <3>2. /\ q.op \in Calculan => /\ q.m \in Nominas \ {m} /\ q.ids \in SUBSET Novedades
                                  /\ q.n = NULL \/ q.n \in Nominas
          /\ Recalcula(q) => q.n \in Nominas /\ q.ids \in SUBSET Novedades
      BY <1>1, <2>2 DEF IInv, Estructura, Distinta, Campos, Calculan, Recalcula, m
    <3> HIDE DEF q
    <3>3. q.op = "calcular" => q.m # n /\ nomina'[q.m] = nomina[q.m]
      BY <1>1, <1>8, <3>1, <3>2 DEF Referencia, Presente, Calculan
    <3>4. Referencia(nomina', q)
      BY <1>10, <3>1, <3>3, ReferenciaSigue
    <3>5. PeriodoPropio(nomina', q)
      <4>1. SUFFICES ASSUME q.op = "calcular", NEW k \in Nominas, k # q.n, Ocupa(nomina', k),
                            nomina'[k].planilla = nomina'[q.m].planilla
                     PROVE  Ajenas(nomina', k, q.m)
        BY DEF PeriodoPropio
      <4>2. Ocupa(nomina, k) /\ nomina'[k] = nomina[k]
        BY <1>8, <1>12, <4>1
      <4> QED BY <3>1, <3>3, <4>1, <4>2 DEF PeriodoPropio, Ajenas
    <3>6. Apresurada(nomina', incidentes', q)
      <4>1. SUFFICES ASSUME q.op = "reenlazar", nomina'[q.m].estado = "applied"
                     PROVE  q.m \in incidentes
        BY <1>3 DEF Apresurada
      <4>2. q.m \in Nominas
        BY <3>2, <4>1 DEF Calculan
      <4>3. nomina[q.m].estado = "applied"
        BY <1>8, <4>1, <4>2
      <4> QED BY <3>1, <4>1, <4>3 DEF Apresurada
    <3>7. Listado(nomina', novedad', q)
      <4>1. SUFFICES ASSUME Recalcula(q), Presente(nomina', q.n), NEW v \in q.ids
                     PROVE  novedad'[v].nomina = q.n /\ novedad'[v].estado # "none"
        BY DEF Listado
      <4>2. q.n # n /\ Presente(nomina, q.n) /\ v \in Novedades
        BY <1>12, <3>2, <4>1
      <4>3. novedad[v].nomina = q.n /\ novedad[v].estado # "none"
        BY <3>1, <4>1, <4>2 DEF Listado
      <4> QED BY <1>6, <1>13, <4>2, <4>3
    <3>8. CuentaAlNacer(nomina', novedad', contadas', tocadas', q)
      <4> DEFINE c == IF q.n = NULL THEN q.m ELSE q.n
      <4>1. SUFFICES ASSUME q.op \in Calculan, q.n = NULL \/ Presente(nomina', q.n), Vigente(nomina', q.m),
                            NEW v \in Novedades \ tocadas'[q.m],
                            q.n = NULL \/ ~Olvidada(v, novedad'[v], q.n, q.ids)
                     PROVE  v \in contadas'[q.m] <=> EnLista(novedad'[v], c, nomina'[q.m])
        BY DEF CuentaAlNacer
      <4>2. /\ q.m \in Nominas \ {m, n} /\ Vigente(nomina, q.m) /\ v \in Novedades \ tocadas[q.m]
            /\ nomina'[q.m] = nomina[q.m] /\ contadas'[q.m] = contadas[q.m]
            /\ q.n = NULL \/ (Presente(nomina, q.n) /\ q.n \in Nominas \ {n})
        BY <1>8, <1>9, <1>12, <3>2, <4>1
      <4>3. Movida(v) => v \in ids
        BY <1>9, <4>1, <4>2
      <4>4. c \in Nominas \ {n}
        BY <4>2
      <4>5. q.n = NULL \/ ~Olvidada(v, novedad[v], q.n, q.ids)
        BY <1>6, <1>13, <4>1, <4>2 DEF Olvidada
      <4>6. v \in contadas[q.m] <=> EnLista(novedad[v], c, nomina[q.m])
        BY <3>1, <4>1, <4>2, <4>5 DEF CuentaAlNacer
      <4>7. CASE c # m
        <5> HIDE DEF c
        <5> QED BY <1>14, <4>2, <4>3, <4>4, <4>6, <4>7
      <4>8. CASE c = m
        <5>1. q.n = m /\ Recalcula(q)
          BY <1>1, <4>1, <4>2, <4>8, NullAssumption DEF Recalcula, Calculan
        <5>2. v \in q.ids => novedad[v].nomina = m
          BY <1>1, <3>1, <5>1 DEF Listado
        <5>3. ~Movida(v)
          <6>1. SUFFICES ASSUME Movida(v) PROVE FALSE
            OBVIOUS
          <6>2. v \notin q.ids
            BY <1>1, <1>13, <5>2, <6>1
          <6>3. /\ novedad'[v].nomina = m /\ novedad'[v].estado \in {"pending", "executed"}
            BY <1>6, <4>3, <6>1 DEF Movida
          <6> QED BY <1>1, <4>1, <5>1, <6>2, <6>3, NullAssumption DEF Olvidada
        <5>4. novedad'[v] = novedad[v]
          BY <1>6, <5>3
        <5> HIDE DEF c
        <5> QED BY <4>2, <4>6, <5>4
      <4> QED BY <4>7, <4>8
    <3>9. NadaPropio(nomina', novedad', tocadas', q)
      <4>1. SUFFICES ASSUME q.op = "reenlazar", Vigente(nomina', q.m), NEW v \in Novedades \ tocadas'[q.m],
                            novedad'[v].estado \in {"pending", "executed"}, novedad'[v].nomina = q.m
                     PROVE  FALSE
        BY DEF NadaPropio
      <4>2. q.m \in Nominas \ {m} /\ Vigente(nomina, q.m) /\ v \in Novedades \ tocadas[q.m]
        BY <1>9, <1>12, <3>2, <4>1 DEF Calculan
      <4>3. ~Movida(v)
        BY <1>6, <4>1, <4>2, NullAssumption
      <4>4. novedad'[v] = novedad[v]
        BY <1>6, <4>3
      <4> QED BY <3>1, <4>1, <4>2, <4>4 DEF NadaPropio
    <3>10. request'[s] = q
      BY <1>4, <2>2 DEF q
    <3> QED BY <3>4, <3>5, <3>6, <3>7, <3>8, <3>9, <3>10 DEF Cumple
  <2> QED BY <2>1, <2>2
<1>16. \A x, y \in Requests : x # y => Distinta(nomina', request'[x], request'[y])
  <2> SUFFICES ASSUME NEW x \in Requests, NEW y \in Requests, x # y
               PROVE  Distinta(nomina', request'[x], request'[y])
    OBVIOUS
  <2>1. CASE request'[x] = Idle \/ request'[y] = Idle
    BY <2>1 DEF Distinta, Idle, Calculan
  <2>2. CASE request'[x] = request[x] /\ request'[y] = request[y]
    <3>1. Distinta(nomina, request[x], request[y])
      BY DEF IInv, Estructura
    <3> QED BY <1>8, <2>2, <3>1 DEF Distinta, MismasFechasDe, Campos
  <2> QED BY <1>4, <2>1, <2>2
<1>17. \A k \in Nominas : nomina'[k].inicio <= nomina'[k].fin
  BY <1>8 DEF MismasFechasDe
<1>18. \A x \in Novedades : Enlace(nomina', novedad'[x])
  <2> SUFFICES ASSUME NEW x \in Novedades, novedad'[x].nomina # NULL
               PROVE  Nacida(nomina', novedad'[x].nomina)
    BY DEF Enlace
  <2>1. \A k \in Nominas : Nacida(nomina, k) => Nacida(nomina', k)
    BY <1>10 DEF Avance
  <2>2. CASE Movida(x)
    <3>1. novedad'[x].nomina = m /\ Nacida(nomina, m)
      BY <1>1, <1>6, <2>2 DEF Presente, Nacida
    <3> QED BY <1>1, <2>1, <3>1
  <2>3. CASE ~Movida(x)
    <3>1. novedad'[x] = novedad[x] /\ novedad[x] \in NovedadType
      BY <1>6, <2>3
    <3>2. novedad[x].nomina \in Nominas /\ Nacida(nomina, novedad[x].nomina)
      BY <3>1 DEF IInv, Estructura, Enlace, NovedadType
    <3> QED BY <2>1, <3>1, <3>2
  <2> QED BY <2>2, <2>3
<1>19. SinTraslape'
  <2>1. SUFFICES ASSUME NEW a \in Nominas \ incidentes, NEW b \in Nominas \ incidentes, a # b,
                        Ocupa(nomina', a), Ocupa(nomina', b), nomina'[a].planilla = nomina'[b].planilla
                 PROVE  Ajenas(nomina', a, b) \/ Releva(request', a, b) \/ Releva(request', b, a)
    BY <1>3 DEF SinTraslape
  <2>2. /\ a # n /\ b # n /\ Ocupa(nomina, a) /\ Ocupa(nomina, b)
        /\ nomina'[a] = nomina[a] /\ nomina'[b] = nomina[b]
    BY <1>8, <1>12, <2>1
  <2>3. Ajenas(nomina, a, b) \/ Releva(request, a, b) \/ Releva(request, b, a)
    BY <2>1, <2>2 DEF IInv, Periodos, SinTraslape
  <2>4. \A x, y \in Nominas : x # n /\ Releva(request, x, y) => Releva(request', x, y)
    BY <1>4 DEF Releva, n
  <2> QED BY <2>2, <2>3, <2>4 DEF Ajenas
<1>20. AlDia'
  <2>1. SUFFICES ASSUME NEW k \in Nominas \ incidentes, Ocupa(nomina', k), ~Reenlazando(k)'
                 PROVE  Cuadra(nomina', novedad', contadas', tocadas', k)
    BY <1>3 DEF AlDia
  <2>2. /\ k # n /\ Ocupa(nomina, k) /\ Vigente(nomina, k)
        /\ nomina'[k] = nomina[k] /\ contadas'[k] = contadas[k]
    BY <1>8, <1>12, <2>1 DEF Ocupa, Ocupan, Vigente
  <2>3. SUFFICES ASSUME NEW v \in Novedades \ tocadas'[k]
                 PROVE  /\ v \in contadas[k] <=> EnLista(novedad'[v], k, nomina[k])
                        /\ nomina[k].estado = "applied" /\ v \in contadas[k] => novedad'[v].estado = "executed"
    BY <2>2 DEF Cuadra
  <2>4. (Movida(v) => v \in ids) /\ v \in Novedades \ tocadas[k] /\ novedad'[v].estado = novedad[v].estado
    BY <1>6, <1>9, <2>2, <2>3
  <2>5. CASE k # m
    <3>1. ~Reenlazando(k)
      BY <1>4, <2>1, <2>5 DEF Reenlazando, m
    <3>2. Cuadra(nomina, novedad, contadas, tocadas, k)
      BY <2>1, <2>2, <3>1 DEF IInv, Cuentas, AlDia
    <3>3. /\ v \in contadas[k] <=> EnLista(novedad[v], k, nomina[k])
          /\ nomina[k].estado = "applied" /\ v \in contadas[k] => novedad[v].estado = "executed"
      BY <2>4, <3>2 DEF Cuadra
    <3>4. EnLista(novedad'[v], k, nomina[k]) <=> EnLista(novedad[v], k, nomina[k])
      BY <1>14, <2>2, <2>4, <2>5
    <3> QED BY <2>4, <3>3, <3>4
  <2>6. CASE k = m
    <3>1. nomina[m].estado # "applied"
      BY <1>1, <2>1, <2>6 DEF Cumple, Apresurada, m
    <3>2. ~Olvidada(v, novedad[v], n, ids)
      BY <2>4 DEF Olvidada, Movida
    <3>3. v \in contadas[m] <=> EnLista(novedad[v], n, nomina[m])
      BY <1>1, <2>2, <2>4, <2>6, <3>2 DEF Cumple, CuentaAlNacer, Calculan, n, m, ids
    <3>4. ~(novedad[v].estado \in {"pending", "executed"} /\ novedad[v].nomina = m)
      BY <1>1, <2>2, <2>4, <2>6 DEF Cumple, NadaPropio, m
    <3>5. EnLista(novedad'[v], m, nomina[m]) <=> EnLista(novedad[v], n, nomina[m])
      <4>1. CASE Movida(v)
        <5>1. novedad'[v].nomina = m /\ novedad[v].nomina = n
          BY <1>6, <1>13, <2>4, <4>1
        <5> QED BY <1>6, <5>1 DEF EnLista
      <4>2. CASE ~Movida(v)
        BY <1>6, <3>4, <4>2 DEF EnLista, Movida
      <4> QED BY <4>1, <4>2
    <3> QED BY <2>6, <3>1, <3>3, <3>5
  <2> QED BY <2>5, <2>6
<1> QED BY <1>11, <1>15, <1>16, <1>17, <1>18, <1>19, <1>20, Junta

-----------------------------------------------------------------------------
(* Theorems                                                                  *)

LEMMA NextIInv == IInv /\ [Next]_vars => IInv'
<1> SUFFICES ASSUME IInv, [Next]_vars PROVE IInv'
  OBVIOUS
<1>1. CASE \E r \in Requests, p \in Planillas, i, f \in 1 .. MaxFecha : Ejecutar(r, p, i, f)
  BY <1>1, EjecutarOK
<1>2. CASE \E r \in Requests, n \in Nominas : CrearLee(r, n) \/ RecalcularLee(r, n)
  BY <1>2, CrearLeeOK, RecalcularLeeOK
<1>3. CASE \E r \in Requests, n \in Nominas, v \in Novedades : EditarLee(r, n, v) \/ EliminarLee(r, n, v)
  BY <1>3, EditarLeeOK
<1>4. CASE \E r \in Requests : Crear(r) \/ Editar(r) \/ Eliminar(r)
  BY <1>4, CrearOK, EditarOK, EliminarOK
<1>5. CASE \E r \in Requests : Recalcular(r) \/ Calculada(r) \/ Reenlazar(r) \/ Fails(r)
  BY <1>5, RecalcularOK, CalculadaOK, ReenlazarOK, FailsOK
<1>6. CASE \E n \in Nominas : Aprobar(n) \/ Aplicar(n) \/ Anular(n)
  BY <1>6, AprobarAnularOK, AplicarOK
<1>7. CASE \E v \in Novedades, e \in Empleados, f \in Fechas : Suelta(v, e, f)
  BY <1>7, SueltaOK
<1>8. CASE UNCHANGED vars
  <2>1. UNCHANGED <<nomina, novedad, contadas, tocadas, incidentes, request, operations>>
    BY <1>8 DEF vars, historia
  <2> QED BY <2>1 DEF IInv, Estructura, TypeOK, Periodos, SinTraslape, Cuentas, AlDia, Reenlazando
<1> QED BY <1>1, <1>2, <1>3, <1>4, <1>5, <1>6, <1>7, <1>8 DEF Next

LEMMA Invariant == Spec => []IInv
BY InitIInv, NextIInv, PTL DEF Spec

\* Payrolls, novedades and requests keep their types.
THEOREM TypeCorrect == Spec => []TypeOK
<1>1. IInv => TypeOK
  BY DEF IInv, Estructura
<1> QED BY <1>1, Invariant, PTL

LEMMA IInvCuenta == IInv => CuentaLoListado
<1> SUFFICES ASSUME IInv, NEW n \in Nominas \ incidentes, Estado(n) \in Ocupan, ~Reenlazando(n)
             PROVE  /\ contadas[n] \ tocadas[n] = Lista(n) \ tocadas[n]
                    /\ Estado(n) = "applied" =>
                         \A v \in contadas[n] \ tocadas[n] : novedad[v].estado = "executed"
  BY DEF CuentaLoListado
<1>1. Cuadra(nomina, novedad, contadas, tocadas, n)
  BY DEF IInv, Cuentas, AlDia, Ocupa, Estado
<1>2. contadas[n] \subseteq Novedades /\ Lista(n) \subseteq Novedades
  BY Tipos DEF Lista, Cuenta
<1>3. \A v \in Novedades : v \in Lista(n) <=> EnLista(novedad[v], n, nomina[n])
  BY ListaEnLista
<1> QED BY <1>1, <1>2, <1>3 DEF Cuadra, Estado

\* What a payroll counted is what its list shows, and what its application
\* marked, but for the novedades that changed since.
THEOREM CountsWhatItLists == Spec => []CuentaLoListado
BY Invariant, IInvCuenta, PTL

\* Two payrolls that are applied are of different days; a novedad bound to one
\* is not bound to the other, and a loose one has one date.
LEMMA IInvUnaVez == IInv => PagadaUnaVez
<1> SUFFICES ASSUME IInv, NEW n \in Aplicadas \ incidentes, NEW k \in Aplicadas \ incidentes, n # k,
                    nomina[n].planilla = nomina[k].planilla, NEW v \in contadas[n] \cap contadas[k],
                    v \notin tocadas[n] \cup tocadas[k]
             PROVE  FALSE
  BY DEF PagadaUnaVez
<1> USE Tipos
<1>1. /\ n \in Nominas /\ k \in Nominas /\ Ocupa(nomina, n) /\ Ocupa(nomina, k)
      /\ nomina[n].estado = "applied" /\ nomina[k].estado = "applied"
  BY DEF Aplicadas, Estado, Ocupa, Ocupan
<1>2. ~Reenlazando(n) /\ ~Reenlazando(k)
  BY <1>1, TodasCumplen DEF Reenlazando, Cumple, Apresurada
<1>3. Ajenas(nomina, n, k)
  <2>1. ~Releva(request, n, k) /\ ~Releva(request, k, n)
    BY <1>2 DEF Releva, Reenlazando
  <2> QED BY <1>1, <2>1 DEF IInv, Periodos, SinTraslape
<1>4. Cuadra(nomina, novedad, contadas, tocadas, n) /\ Cuadra(nomina, novedad, contadas, tocadas, k)
  BY <1>1, <1>2 DEF IInv, Cuentas, AlDia
<1>5. v \in Novedades
  BY <1>1
<1>6. EnLista(novedad[v], n, nomina[n]) /\ EnLista(novedad[v], k, nomina[k])
  BY <1>4, <1>5 DEF Cuadra
<1>7. novedad[v].fecha \in nomina[n].inicio .. nomina[n].fin
      /\ novedad[v].fecha \in nomina[k].inicio .. nomina[k].fin
  BY <1>1, <1>6, NullAssumption DEF EnLista
<1> QED BY <1>1, <1>3, <1>7 DEF Ajenas

\* No two applied payrolls of a planilla counted one novedad, unless it changed
\* after one of them had read it: their periods are apart, and a novedad has
\* one date and one payroll.
THEOREM PaidOnce == Spec => []PagadaUnaVez
BY Invariant, IInvUnaVez, PTL
=============================================================================
