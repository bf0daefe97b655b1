------------------------------ MODULE Aprobacion ------------------------------
(***************************************************************************)
(* The approval and the audit log of the concepts of a payroll             *)
(* (percepciones, deducciones, prestaciones) and of the planillas, edited, *)
(* approved and rejected by several users.                                 *)
(*                                                                         *)
(* No request locks the row: it loads it, and on commit writes the columns *)
(* it changed.                                                             *)
(*                                                                         *)
(* monto stands for the fields that the edit compares; tope for those of a *)
(* concept that it does not: what the dictionaries of edit_concept leave   *)
(* out (gravable, tipo, es_impuesto, tope_aplicacion), what                *)
(* campos_importantes leaves out (techo_anual, monto_exento) and the       *)
(* calculation rule, edited apart.                                         *)
(*                                                                         *)
(* The specification is named apart from that of Configuracion:            *)
(* ConceptosProofs extends both.                                           *)
(***************************************************************************)
EXTENDS Cambios

CONSTANTS
  Requests,     \* requests in progress at the same time
  Planillas     \* payroll templates

ASSUME NamesAssumption == Conceptos \cap Planillas = {}

VARIABLES
  ficha,        \* the concepts and the planillas
  bitacora,     \* the audit log of each: ConceptoAuditLog, PlanillaAuditLog
  request,      \* what each request is doing
  revisado,     \* history: the monto of each row when it was last approved
  encimado      \* history: rows written by a request that had read an older one

historia == <<revisado, encimado>>
aprobacionVars == <<ficha, bitacora, request, version, historia>>

Fichas == Conceptos \cup Planillas

-----------------------------------------------------------------------------
(* Types                                                                     *)

Estados == {"none", "draft", "approved", "deleted"}

FichaType ==
  [estado : Estados, plugin : BOOLEAN, activo : BOOLEAN, monto : Versiones, tope : Versiones]

\* ultimo is estado_nuevo of the last entry; encadena, that every entry began
\* in the state the one before it ended in.
BitacoraType == [ultimo : {"none", "draft", "approved"}, encadena : BOOLEAN]
SinEntradas == [ultimo |-> "none", encadena |-> TRUE]

Idle == [op |-> "idle"]
Ops == {"approve", "reject", "edit"}
SolicitudType == [op : Ops, c : Fichas, leido : FichaType, nuevo : FichaType]

AprobacionTypeOK ==
  /\ ficha \in [Fichas -> FichaType]
  /\ bitacora \in [Fichas -> BitacoraType]
  /\ \A r \in Requests : request[r] = Idle \/ request[r] \in SolicitudType
  /\ version \in Versiones
  /\ revisado \in [Fichas -> Versiones]
  /\ encimado \subseteq Fichas

\* Plugins bring approved concepts; the others are yet to be created.
Ficha(estado, plugin) ==
  [estado |-> estado, plugin |-> plugin, activo |-> TRUE, monto |-> 0, tope |-> 0]

AprobacionInit ==
  /\ \E plugins \in SUBSET Conceptos :
       ficha = [c \in Fichas |-> IF c \in plugins THEN Ficha("approved", TRUE)
                                 ELSE Ficha("none", FALSE)]
  /\ bitacora = [c \in Fichas |-> SinEntradas]
  /\ request = [r \in Requests |-> Idle]
  /\ version = 0
  /\ revisado = [c \in Fichas |-> 0] /\ encimado = {}

-----------------------------------------------------------------------------
(* What a decision and an edit do to the row and to its log                  *)

\* crear_log_auditoria
Anota(b, e) ==
  [ultimo |-> e.nuevo,
   encadena |-> b.encadena /\ (b.ultimo = "none" \/ b.ultimo = e.anterior)]

\* What a session writes on commit: the columns it changed since it read them.
Escribe(actual, leido, nuevo) ==
  [k \in DOMAIN actual |-> IF nuevo[k] # leido[k] THEN nuevo[k] ELSE actual[k]]

\* A slip: the amount is not among the fields compared.
SeguidosSinMonto == {"activo"}

\* detectar_cambios: the fields both dictionaries hold.
Seguidos == {"monto", "activo"}

\* marcar_como_borrador_si_editado and marcar_planilla_como_borrador_si_editada
VuelveABorrador(q) ==
  /\ q.op = "edit"
  /\ \E k \in Seguidos : q.nuevo[k] # q.leido[k]
  /\ ~q.leido.plugin /\ q.leido.estado = "approved"

Decidida(q) ==
  CASE q.op = "approve" -> [q.nuevo EXCEPT !.estado = "approved"]
    [] q.op = "reject" \/ VuelveABorrador(q) -> [q.nuevo EXCEPT !.estado = "draft"]
    [] OTHER -> q.nuevo

\* A slip: the return to draft leaves no entry in the log.
AnotaSoloDecisiones(q) == q.op \in {"approve", "reject"}

\* aprobar_concepto, rechazar_concepto and the edit of what was approved.
DejaEntrada(q) == q.op \in {"approve", "reject"} \/ VuelveABorrador(q)

Entrada(q) == [anterior |-> q.leido.estado, nuevo |-> Decidida(q).estado]

-----------------------------------------------------------------------------
(* Requests                                                                  *)

\* create_concept: a draft with its entry.
CrearConcepto(c) ==
  /\ ficha[c].estado = "none"
  /\ ficha' = [ficha EXCEPT ![c].estado = "draft"]
  /\ bitacora' = [bitacora EXCEPT ![c] = Anota(@, [anterior |-> "none", nuevo |-> "draft"])]
  /\ UNCHANGED <<historia, request, version>>

\* new: a planilla begins as a draft, with no entry.
CrearPlanilla(p) ==
  /\ ficha[p].estado = "none"
  /\ ficha' = [ficha EXCEPT ![p].estado = "draft"]
  /\ UNCHANGED <<bitacora, historia, request, version>>

\* A slip: the deletion is logged in the log that goes with the row.
EliminarYAnotar(c) ==
  /\ ficha[c].estado \in {"draft", "approved"}
  /\ ficha' = [ficha EXCEPT ![c].estado = "deleted"]
  /\ bitacora' = [bitacora EXCEPT
       ![c] = Anota(@, [anterior |-> ficha[c].estado, nuevo |-> "deleted"])]
  /\ UNCHANGED <<historia, request, version>>

\* delete_concept: a concept of no planilla goes, and its log with it.
EliminarConcepto(c) ==
  /\ ficha[c].estado \in {"draft", "approved"}
  /\ ficha' = [ficha EXCEPT ![c].estado = "deleted"]
  /\ bitacora' = [bitacora EXCEPT ![c] = SinEntradas]
  /\ UNCHANGED <<historia, request, version>>

Lee(r, op, c, nuevo) ==
  /\ request[r] = Idle
  /\ ficha[c].estado \in {"draft", "approved"}
  /\ request' = [request EXCEPT
       ![r] = [op |-> op, c |-> c, leido |-> ficha[c], nuevo |-> nuevo]]
  /\ UNCHANGED <<ficha, bitacora, historia>>

\* An approval of what is approved already ends there.
AprobarLee(r, c) == ficha[c].estado # "approved" /\ Lee(r, "approve", c, ficha[c]) /\ UNCHANGED version

RechazarLee(r, c) == Lee(r, "reject", c, ficha[c]) /\ UNCHANGED version

EditarLee(r, c) ==
  /\ Cambia
  /\ \/ Lee(r, "edit", c, [ficha[c] EXCEPT !.monto = version + 1])
     \/ Lee(r, "edit", c, [ficha[c] EXCEPT !.activo = ~@])
     \/ c \in Conceptos /\ Lee(r, "edit", c, [ficha[c] EXCEPT !.tope = version + 1])

\* The commit; the UPDATE of a row that is gone fails and undoes the request.
Termina(r) ==
  LET q == request[r]
      c == q.c
  IN  /\ q # Idle
      /\ request' = [request EXCEPT ![r] = Idle]
      /\ UNCHANGED version
      /\ IF ficha[c].estado = "deleted"
         THEN UNCHANGED <<ficha, bitacora, historia>>
         ELSE /\ ficha' = [ficha EXCEPT ![c] = Escribe(@, q.leido, Decidida(q))]
              /\ bitacora' = IF DejaEntrada(q)
                             THEN [bitacora EXCEPT ![c] = Anota(@, Entrada(q))] ELSE bitacora
              /\ revisado' = IF q.op = "approve"
                             THEN [revisado EXCEPT ![c] = ficha'[c].monto] ELSE revisado
              /\ encimado' = IF ficha[c] # q.leido THEN encimado \cup {c} ELSE encimado

\* The rule of a concept has no approval of its own and leaves the concept's.
EditarRegla(c) ==
  /\ ficha[c].estado \in {"draft", "approved"} /\ Cambia
  /\ ficha' = [ficha EXCEPT ![c].tope = version + 1]
  /\ UNCHANGED <<bitacora, historia, request>>

-----------------------------------------------------------------------------
AprobacionNext ==
  \/ \E c \in Conceptos : CrearConcepto(c) \/ EliminarConcepto(c) \/ EditarRegla(c)
  \/ \E p \in Planillas : CrearPlanilla(p)
  \/ \E r \in Requests :
       \/ \E c \in Fichas : AprobarLee(r, c) \/ RechazarLee(r, c) \/ EditarLee(r, c)
       \/ Termina(r)

AprobacionSpec == AprobacionInit /\ [][AprobacionNext]_aprobacionVars

-----------------------------------------------------------------------------
(* Properties                                                                *)

\* The audit log of a row tells its story: each entry begins where the one
\* before it ended and the last one ends in the state of the row, unless a
\* request wrote over a change it had not read (audit_helpers.py).
BitacoraCuadra ==
  \A c \in Fichas \ encimado :
    /\ bitacora[c].encadena
    /\ ficha[c].estado # "deleted" => bitacora[c].ultimo \in {"none", ficha[c].estado}

\* What is approved is what was approved: since then its amount has not
\* changed, unless a plugin made the row or a request wrote over a change it
\* had not read (marcar_como_borrador_si_editado).
AprobadoEsRevisado ==
  \A c \in Fichas \ encimado :
    ficha[c].estado = "approved" /\ ~ficha[c].plugin => ficha[c].monto = revisado[c]

-----------------------------------------------------------------------------
(* What the repository says and the code does not do                         *)

\* "When an approved concept is edited, it must return to draft status unless
\* it was created by a plugin" (audit_helpers.py:240-241): what the approver
\* saw is what is approved, fields that are not compared and concurrent edits
\* included.
AprobadoSinCambios ==
  [][\A c \in Fichas :
       ficha[c].estado = "approved" /\ ficha'[c].estado = "approved" /\ ~ficha[c].plugin =>
         ficha'[c].monto = ficha[c].monto /\ ficha'[c].tope = ficha[c].tope]_aprobacionVars
=============================================================================
