---------------------------- MODULE Configuracion -----------------------------
(***************************************************************************)
(* The configuration a payroll is calculated from - the concepts of its    *)
(* planilla, the associations between them, the employees and their        *)
(* salaries - and the snapshot of it that a payroll keeps, from which it   *)
(* is calculated and, later, recalculated.                                 *)
(*                                                                         *)
(* Any of it may be edited between the capture of the snapshot, the job    *)
(* that calculates with it and a recalculation.  Whether a concept is      *)
(* approved changes nothing here: see Aprobacion.                          *)
(*                                                                         *)
(* monto stands for what a snapshot always has (amount, formula,           *)
(* percentage, taxability); tope for what it has only if the row had it:   *)
(* the ceiling, the calculation rule, the configuration of the company.    *)
(***************************************************************************)
EXTENDS Cambios

CONSTANTS
  Empleados     \* employees of the company

VARIABLES
  concepto,     \* the catalog of concepts
  asociacion,   \* the concepts of the planilla
  asignado,     \* the employees of the planilla
  activos,      \* the employees who work for the company
  salario,      \* salario_base of each employee
  nomina,       \* a payroll of the planilla
  original      \* history: what it paid when first calculated

catalogo == <<concepto, asociacion>>
personal == <<asignado, activos, salario>>
vars == <<catalogo, personal, nomina, original, version>>

Ausente == -1

-----------------------------------------------------------------------------
(* Types                                                                     *)

ConceptoType == [activo : BOOLEAN, monto : Versiones, tope : Versiones \cup {Ausente}]
FijoType == [monto : Versiones, tope : Versiones \cup {Ausente}]
UsoType == [monto : Versiones, tope : Versiones \cup {Ausente}, asociacion : Versiones]

Parcial(D, R) == UNION {[S -> R] : S \in SUBSET D}
FotoType == [conceptos : Parcial(Conceptos, FijoType), contexto : Parcial(Conceptos, Versiones),
             salarios : Parcial(Empleados, Versiones)]
ResultadoType == [conceptos : Parcial(Conceptos, UsoType), salarios : Parcial(Empleados, Versiones)]

SinNomina == [estado |-> "none"]
SinResultado == [conceptos |-> <<>>, salarios |-> <<>>]
NominaType == [estado : {"calculating", "generated", "error"}, fondo : BOOLEAN,
               recalculada : BOOLEAN, foto : FotoType, resultado : ResultadoType]

\* A concept that is frozen belongs to the planilla of then, and what was paid
\* was paid to employees of the company.
TypeOK ==
  /\ concepto \in [Conceptos -> ConceptoType]
  /\ asociacion \in [Conceptos -> Versiones]
  /\ asignado \subseteq Empleados /\ activos \subseteq Empleados
  /\ salario \in [Empleados -> Versiones]
  /\ version \in Versiones
  /\ nomina = SinNomina \/ nomina \in NominaType
  /\ nomina # SinNomina =>
       DOMAIN nomina.foto.conceptos \subseteq DOMAIN nomina.foto.contexto
  /\ original \in ResultadoType

Init ==
  /\ concepto = [c \in Conceptos |-> [activo |-> TRUE, monto |-> 0, tope |-> Ausente]]
  /\ asociacion = [c \in Conceptos |-> 0]
  /\ asignado = Empleados /\ activos = Empleados
  /\ salario = [e \in Empleados |-> 0]
  /\ nomina = SinNomina /\ original = SinResultado
  /\ version = 0

-----------------------------------------------------------------------------
(* Edits of the configuration                                                *)

\* edit_concept; save_schema, for the rule.
EditarConcepto(c) ==
  /\ Cambia
  /\ \/ concepto' = [concepto EXCEPT ![c].monto = version + 1]
     \/ concepto' = [concepto EXCEPT ![c].tope = version + 1]
     \/ concepto[c].tope # Ausente /\ concepto' = [concepto EXCEPT ![c].tope = Ausente]
  /\ UNCHANGED <<asociacion, personal, nomina, original>>

ActivarConcepto(c) ==
  /\ concepto' = [concepto EXCEPT ![c].activo = ~@]
  /\ UNCHANGED <<asociacion, personal, nomina, original, version>>

\* agregar_asociacion: a new row; 0 stands for none.
Asociar(c) ==
  /\ asociacion[c] = 0 /\ Cambia
  /\ asociacion' = [asociacion EXCEPT ![c] = version + 1]
  /\ UNCHANGED <<concepto, personal, nomina, original>>

Quitar(c) ==
  /\ asociacion[c] # 0
  /\ asociacion' = [asociacion EXCEPT ![c] = 0]
  /\ UNCHANGED <<concepto, personal, nomina, original, version>>

Asignar(e) ==
  /\ asignado' = IF e \in asignado THEN asignado \ {e} ELSE asignado \cup {e}
  /\ UNCHANGED <<catalogo, activos, salario, nomina, original, version>>

\* An employee leaves or returns.
Activar(e) ==
  /\ activos' = IF e \in activos THEN activos \ {e} ELSE activos \cup {e}
  /\ UNCHANGED <<catalogo, asignado, salario, nomina, original, version>>

CambiarSalario(e) ==
  /\ Cambia
  /\ salario' = [salario EXCEPT ![e] = version + 1]
  /\ UNCHANGED <<catalogo, asignado, activos, nomina, original>>

-----------------------------------------------------------------------------
(* The snapshot                                                              *)

Asociados == {c \in Conceptos : asociacion[c] # 0}
EnUso == {c \in Asociados : concepto[c].activo}
Contexto == [c \in Asociados |-> asociacion[c]]
EnNomina == asignado \cap activos

Fijo(c) == [monto |-> concepto[c].monto, tope |-> concepto[c].tope]

\* A slip: the catalog is not narrowed to the planilla.
CapturaTodo ==
  [conceptos |-> [c \in {d \in Conceptos : concepto[d].activo} |-> Fijo(c)],
   contexto |-> Contexto, salarios |-> [e \in EnNomina |-> salario[e]]]

\* capture_complete_snapshot
Captura ==
  [conceptos |-> [c \in EnUso |-> Fijo(c)],
   contexto |-> Contexto, salarios |-> [e \in EnNomina |-> salario[e]]]

\* A slip: the calculators look up the row.
UsadoDelCatalogo(foto, c) ==
  [monto |-> concepto[c].monto, tope |-> concepto[c].tope, asociacion |-> asociacion[c]]

\* What the calculators use of a concept: the snapshot, the row when it was
\* not in it, and the row again for what the snapshot has as absent; the
\* association is always the live one.
Usado(foto, c) ==
  LET f == IF c \in DOMAIN foto.conceptos THEN foto.conceptos[c] ELSE Fijo(c)
  IN  [monto |-> f.monto, tope |-> IF f.tope = Ausente THEN concepto[c].tope ELSE f.tope,
       asociacion |-> asociacion[c]]

Conceptuado(foto) == [c \in EnUso |-> Usado(foto, c)]

\* execute_payroll: employees with a snapshot are paid though they left.
SalariosDe(foto) ==
  [e \in {d \in asignado : d \in activos \/ d \in DOMAIN foto.salarios} |->
     IF e \in DOMAIN foto.salarios THEN foto.salarios[e] ELSE salario[e]]

\* A slip: only the associations are compared, not the concepts they lead to.
ContextoSinConceptos(foto) == foto.contexto = Contexto

\* validate_planilla_snapshot
ContextoIgual(foto) ==
  /\ foto.contexto = Contexto
  /\ \A c \in DOMAIN foto.conceptos : concepto[c].activo

-----------------------------------------------------------------------------
(* The payroll                                                               *)

NominaNueva(estado, fondo, resultado) ==
  [estado |-> estado, fondo |-> fondo, recalculada |-> FALSE, foto |-> Captura,
   resultado |-> resultado]

\* The snapshot is taken and used in one transaction, which locks the planilla.
Ejecutar ==
  /\ nomina = SinNomina /\ asignado # {}
  /\ nomina' = NominaNueva("generated", FALSE,
                 [conceptos |-> Conceptuado(Captura), salarios |-> SalariosDe(Captura)])
  /\ original' = nomina'.resultado
  /\ UNCHANGED <<catalogo, personal, version>>

\* ejecutar_nomina takes the snapshot when it enqueues a long payroll ...
Encolar ==
  /\ nomina = SinNomina /\ EnNomina # {}
  /\ nomina' = NominaNueva("calculating", TRUE, SinResultado)
  /\ UNCHANGED <<catalogo, personal, original, version>>

\* ... and the job calculates with it, but for the associations, the employees
\* and the salaries, which it reads anew.
Procesar ==
  /\ nomina.estado = "calculating"
  /\ nomina' = IF EnNomina = {} THEN [nomina EXCEPT !.estado = "error"]
               ELSE [nomina EXCEPT !.estado = "generated",
                       !.resultado = [conceptos |-> Conceptuado(nomina.foto),
                                      salarios |-> [e \in EnNomina |-> salario[e]]]]
  /\ original' = nomina'.resultado
  /\ UNCHANGED <<catalogo, personal, version>>

\* recalcular_nomina: a new payroll with the snapshot of the old.
Recalcular ==
  /\ nomina.estado = "generated" /\ asignado # {}
  /\ ContextoIgual(nomina.foto)
  /\ nomina' = [nomina EXCEPT !.recalculada = TRUE,
                  !.resultado = [conceptos |-> Conceptuado(nomina.foto),
                                 salarios |-> SalariosDe(nomina.foto)]]
  /\ UNCHANGED <<catalogo, personal, original, version>>

-----------------------------------------------------------------------------
Next ==
  \/ \E c \in Conceptos : \/ EditarConcepto(c) \/ ActivarConcepto(c)
                          \/ Asociar(c) \/ Quitar(c)
  \/ \E e \in Empleados : Asignar(e) \/ Activar(e) \/ CambiarSalario(e)
  \/ Ejecutar \/ Encolar \/ Procesar \/ Recalcular

Spec == Init /\ [][Next]_vars

-----------------------------------------------------------------------------
(* Properties                                                                *)

\* A payroll calculated at once and then recalculated pays every employee of
\* both runs the same salary, and uses every concept of the first with the
\* same amount, the same association and the ceiling it had, whatever was
\* edited in between (snapshot_service.py and the calculators).
RecalculoFiel ==
  nomina.estado = "generated" /\ nomina.recalculada /\ ~nomina.fondo =>
    /\ \A e \in DOMAIN nomina.resultado.salarios \cap DOMAIN original.salarios :
         nomina.resultado.salarios[e] = original.salarios[e]
    /\ \A c \in DOMAIN original.conceptos :
         /\ c \in DOMAIN nomina.resultado.conceptos
         /\ nomina.resultado.conceptos[c].monto = original.conceptos[c].monto
         /\ nomina.resultado.conceptos[c].asociacion = original.conceptos[c].asociacion
         /\ original.conceptos[c].tope # Ausente =>
              nomina.resultado.conceptos[c].tope = original.conceptos[c].tope

\* A recalculation that goes through finds the planilla it was captured from:
\* no concept joined or left it, not even one that came back as a new row, so
\* every concept that was frozen is used (validate_planilla_snapshot).
RecalculoConSuContexto ==
  [][nomina'.estado = "generated" /\ nomina' # nomina /\ nomina.estado = "generated" =>
       \A c \in DOMAIN nomina.foto.conceptos :
         /\ c \in DOMAIN nomina'.resultado.conceptos
         /\ nomina'.resultado.conceptos[c].asociacion = nomina.foto.contexto[c]]_vars

-----------------------------------------------------------------------------
(* What the repository says and the code does not do                         *)

\* "guaranteeing reproducible results even if configuration changed since the
\* original run" (payroll_execution_service.py:105-106): a recalculation pays
\* the employees of both runs by the same concepts, values and salaries.
RecalculoReproduce ==
  nomina.estado = "generated" /\ nomina.recalculada =>
    /\ nomina.resultado.conceptos = original.conceptos
    /\ \A e \in DOMAIN nomina.resultado.salarios \cap DOMAIN original.salarios :
         nomina.resultado.salarios[e] = original.salarios[e]
=============================================================================
