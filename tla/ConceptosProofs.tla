---------------------------- MODULE ConceptosProofs ----------------------------
(***************************************************************************)
(* What the approval of concepts and planillas guarantees of every row     *)
(* that no two requests wrote over one another (Aprobacion), and what the  *)
(* snapshot of a payroll guarantees of its recalculation (Configuracion),  *)
(* for any number of rows, requests, employees and changes.                *)
(***************************************************************************)
EXTENDS Aprobacion, Configuracion, TLAPS

-----------------------------------------------------------------------------
(* Approval: rows                                                            *)

LEMMA ConEstado ==
  ASSUME NEW f \in FichaType, NEW e \in Estados
  PROVE  LET g == [f EXCEPT !.estado = e]
         IN  g \in FichaType /\ g.estado = e /\ g.plugin = f.plugin /\ g.monto = f.monto
BY DEF FichaType

LEMMA ConMonto ==
  ASSUME NEW f \in FichaType, NEW v \in Versiones
  PROVE  LET g == [f EXCEPT !.monto = v]
         IN  g \in FichaType /\ g.estado = f.estado /\ g.plugin = f.plugin
BY DEF FichaType

LEMMA ConTope ==
  ASSUME NEW f \in FichaType, NEW v \in Versiones
  PROVE  LET g == [f EXCEPT !.tope = v]
         IN  /\ g \in FichaType /\ g.estado = f.estado /\ g.plugin = f.plugin
             /\ g.monto = f.monto
BY DEF FichaType

LEMMA ConActivo ==
  ASSUME NEW f \in FichaType
  PROVE  LET g == [f EXCEPT !.activo = ~@]
         IN  g \in FichaType /\ g.estado = f.estado /\ g.plugin = f.plugin
BY DEF FichaType

\* A commit over the row that was read leaves the row as decided.
LEMMA EscribeTodo ==
  ASSUME NEW f \in FichaType, NEW n \in FichaType
  PROVE  Escribe(f, f, n) = n
BY DEF Escribe, FichaType

LEMMA EscribeType ==
  ASSUME NEW f \in FichaType, NEW l \in FichaType, NEW n \in FichaType
  PROVE  Escribe(f, l, n) \in FichaType
BY DEF Escribe, FichaType

-----------------------------------------------------------------------------
(* Approval: the inductive invariant                                         *)

\* A request read a row that exists, and changes neither its state nor its
\* origin before it commits.
Pedido(q) ==
  /\ q \in SolicitudType
  /\ q.leido.estado \in {"draft", "approved"}
  /\ q.nuevo.estado = q.leido.estado /\ q.nuevo.plugin = q.leido.plugin

Pedidos == \A r \in Requests : request[r] = Idle \/ Pedido(request[r])

FilasOK ==
  /\ ficha \in [Fichas -> FichaType]
  /\ bitacora \in [Fichas -> BitacoraType]
  /\ request \in [Requests -> SolicitudType \cup {Idle}]
  /\ version \in Versiones
  /\ revisado \in [Fichas -> Versiones]
  /\ encimado \subseteq Fichas

AprobacionIInv == FilasOK /\ Pedidos /\ BitacoraCuadra /\ AprobadoEsRevisado

LEMMA SiguienteVersion ==
  ASSUME version \in Versiones, version < MaxVersion
  PROVE  version + 1 \in Versiones
BY BoundAssumption DEF Versiones

LEMMA InitAprobacionIInv == AprobacionInit => AprobacionIInv
<1> SUFFICES ASSUME AprobacionInit PROVE AprobacionIInv
  OBVIOUS
<1>1. 0 \in Versiones
  BY BoundAssumption DEF Versiones
<1>2. PICK plugins \in SUBSET Conceptos :
        ficha = [c \in Fichas |-> IF c \in plugins THEN Ficha("approved", TRUE)
                                  ELSE Ficha("none", FALSE)]
  BY DEF AprobacionInit
<1>3. \A c \in Fichas : ficha[c].monto = 0
  BY <1>2 DEF Ficha
<1>4. ficha \in [Fichas -> FichaType]
  <2>1. /\ Ficha("approved", TRUE) \in FichaType /\ Ficha("none", FALSE) \in FichaType
    BY <1>1 DEF Ficha, FichaType, Estados
  <2> QED BY <1>2, <2>1
<1>5. SinEntradas \in BitacoraType /\ SinEntradas.encadena = TRUE /\ SinEntradas.ultimo = "none"
  BY DEF SinEntradas, BitacoraType
<1>6. FilasOK
  BY <1>1, <1>4, <1>5 DEF AprobacionInit, FilasOK
<1>7. Pedidos
  BY DEF AprobacionInit, Pedidos
<1>8. BitacoraCuadra
  BY <1>5 DEF AprobacionInit, BitacoraCuadra
<1>9. AprobadoEsRevisado
  <2>1. \A c \in Fichas : ficha[c].monto = revisado[c]
    BY <1>3 DEF AprobacionInit
  <2> QED BY <2>1 DEF AprobadoEsRevisado
<1> QED BY <1>6, <1>7, <1>8, <1>9 DEF AprobacionIInv

-----------------------------------------------------------------------------
(* Approval: every step keeps it                                             *)

\* A row whose state and log are set, by a request that takes no time.
LEMMA CambiaFila ==
  ASSUME AprobacionIInv, NEW c \in Fichas, NEW f \in FichaType, NEW b \in BitacoraType,
         ficha' = [ficha EXCEPT ![c] = f], bitacora' = [bitacora EXCEPT ![c] = b],
         version' \in Versiones, UNCHANGED <<historia, request>>,
         c \notin encimado =>
           /\ b.encadena
           /\ f.estado # "deleted" => b.ultimo \in {"none", f.estado}
           /\ f.estado = "approved" /\ ~f.plugin => f.monto = revisado[c]
  PROVE  AprobacionIInv'
<1>1. FilasOK'
  BY DEF AprobacionIInv, FilasOK, historia
<1>2. Pedidos'
  BY DEF AprobacionIInv, Pedidos
<1>3. encimado' = encimado /\ revisado' = revisado
  BY DEF historia
<1>4. ficha'[c] = f /\ bitacora'[c] = b
      /\ \A d \in Fichas \ {c} : ficha'[d] = ficha[d] /\ bitacora'[d] = bitacora[d]
  BY DEF AprobacionIInv, FilasOK
<1>5. BitacoraCuadra'
  <2>1. SUFFICES ASSUME NEW d \in Fichas \ encimado
                 PROVE  /\ bitacora'[d].encadena
                        /\ ficha'[d].estado # "deleted" => bitacora'[d].ultimo \in {"none", ficha'[d].estado}
    BY <1>3 DEF BitacoraCuadra
  <2>2. /\ bitacora[d].encadena
        /\ ficha[d].estado # "deleted" => bitacora[d].ultimo \in {"none", ficha[d].estado}
    BY DEF AprobacionIInv, BitacoraCuadra
  <2> QED BY <1>4, <2>2
<1>6. AprobadoEsRevisado'
  <2>1. SUFFICES ASSUME NEW d \in Fichas \ encimado
                 PROVE  ficha'[d].estado = "approved" /\ ~ficha'[d].plugin => ficha'[d].monto = revisado[d]
    BY <1>3 DEF AprobadoEsRevisado
  <2>2. ficha[d].estado = "approved" /\ ~ficha[d].plugin => ficha[d].monto = revisado[d]
    BY DEF AprobacionIInv, AprobadoEsRevisado
  <2> QED BY <1>4, <2>2
<1> QED BY <1>1, <1>2, <1>5, <1>6 DEF AprobacionIInv

LEMMA AnotaType ==
  ASSUME NEW b \in BitacoraType, NEW e, e.nuevo \in {"draft", "approved"}
  PROVE  /\ Anota(b, e) \in BitacoraType /\ Anota(b, e).ultimo = e.nuevo
         /\ Anota(b, e).encadena = (b.encadena /\ (b.ultimo = "none" \/ b.ultimo = e.anterior))
BY DEF Anota, BitacoraType

LEMMA CrearConceptoOK ==
  ASSUME AprobacionIInv, NEW c \in Conceptos, CrearConcepto(c)
  PROVE  AprobacionIInv'
<1> DEFINE f == [ficha[c] EXCEPT !.estado = "draft"]
           e == [anterior |-> "none", nuevo |-> "draft"]
           b == Anota(bitacora[c], e)
<1>1. c \in Fichas /\ ficha[c] \in FichaType /\ bitacora[c] \in BitacoraType
  BY DEF Fichas, AprobacionIInv, FilasOK
<1>2. f \in FichaType /\ f.estado = "draft"
  BY <1>1, ConEstado DEF Estados
<1>3. /\ b \in BitacoraType /\ b.ultimo = "draft"
      /\ b.encadena = (bitacora[c].encadena /\ bitacora[c].ultimo = "none")
  BY <1>1, AnotaType
<1>4. ficha' = [ficha EXCEPT ![c] = f] /\ bitacora' = [bitacora EXCEPT ![c] = b]
  BY DEF CrearConcepto
<1>5. version' \in Versiones /\ UNCHANGED <<historia, request>>
  BY DEF CrearConcepto, AprobacionIInv, FilasOK
<1>6. c \notin encimado => bitacora[c].encadena /\ bitacora[c].ultimo = "none"
  BY <1>1 DEF CrearConcepto, AprobacionIInv, BitacoraCuadra
<1> HIDE DEF f, b
<1> QED BY <1>1, <1>2, <1>3, <1>4, <1>5, <1>6, CambiaFila

LEMMA CrearPlanillaOK ==
  ASSUME AprobacionIInv, NEW c \in Planillas, CrearPlanilla(c)
  PROVE  AprobacionIInv'
<1> DEFINE f == [ficha[c] EXCEPT !.estado = "draft"]
           b == bitacora[c]
<1>1. c \in Fichas /\ ficha[c] \in FichaType /\ b \in BitacoraType
  BY DEF Fichas, AprobacionIInv, FilasOK
<1>2. f \in FichaType /\ f.estado = "draft"
  BY <1>1, ConEstado DEF Estados
<1>3. ficha' = [ficha EXCEPT ![c] = f] /\ bitacora' = [bitacora EXCEPT ![c] = b]
  BY <1>1 DEF CrearPlanilla, AprobacionIInv, FilasOK
<1>4. version' \in Versiones /\ UNCHANGED <<historia, request>>
  BY DEF CrearPlanilla, AprobacionIInv, FilasOK
<1>5. c \notin encimado => b.encadena /\ b.ultimo = "none"
  BY <1>1 DEF CrearPlanilla, AprobacionIInv, BitacoraCuadra
<1> HIDE DEF f, b
<1> QED BY <1>1, <1>2, <1>3, <1>4, <1>5, CambiaFila

LEMMA EliminarConceptoOK ==
  ASSUME AprobacionIInv, NEW c \in Conceptos, EliminarConcepto(c)
  PROVE  AprobacionIInv'
<1> DEFINE f == [ficha[c] EXCEPT !.estado = "deleted"]
<1>1. c \in Fichas /\ ficha[c] \in FichaType
  BY DEF Fichas, AprobacionIInv, FilasOK
<1>2. f \in FichaType /\ f.estado = "deleted"
  BY <1>1, ConEstado DEF Estados
<1>3. SinEntradas \in BitacoraType /\ SinEntradas.encadena
  BY DEF SinEntradas, BitacoraType
<1>4. ficha' = [ficha EXCEPT ![c] = f] /\ bitacora' = [bitacora EXCEPT ![c] = SinEntradas]
  BY DEF EliminarConcepto
<1>5. version' \in Versiones /\ UNCHANGED <<historia, request>>
  BY DEF EliminarConcepto, AprobacionIInv, FilasOK
<1> HIDE DEF f
<1> QED BY <1>1, <1>2, <1>3, <1>4, <1>5, CambiaFila

LEMMA EditarReglaOK ==
  ASSUME AprobacionIInv, NEW c \in Conceptos, EditarRegla(c)
  PROVE  AprobacionIInv'
<1> DEFINE v == version + 1
           f == [ficha[c] EXCEPT !.tope = v]
           b == bitacora[c]
<1>1. c \in Fichas /\ ficha[c] \in FichaType /\ b \in BitacoraType /\ v \in Versiones
  BY SiguienteVersion DEF Fichas, AprobacionIInv, FilasOK, EditarRegla, Cambia
<1>2. ficha' = [ficha EXCEPT ![c] = f] /\ bitacora' = [bitacora EXCEPT ![c] = b] /\ version' = v
  BY <1>1 DEF EditarRegla, Cambia, AprobacionIInv, FilasOK
<1> HIDE DEF v
<1>3. /\ f \in FichaType /\ f.estado = ficha[c].estado /\ f.plugin = ficha[c].plugin
      /\ f.monto = ficha[c].monto
  BY <1>1, ConTope
<1>4. UNCHANGED <<historia, request>>
  BY DEF EditarRegla, Cambia
<1>5. c \notin encimado =>
        /\ b.encadena /\ (ficha[c].estado # "deleted" => b.ultimo \in {"none", ficha[c].estado})
        /\ ficha[c].estado = "approved" /\ ~ficha[c].plugin => ficha[c].monto = revisado[c]
  BY <1>1 DEF AprobacionIInv, BitacoraCuadra, AprobadoEsRevisado
<1> HIDE DEF f, b
<1> QED BY <1>1, <1>2, <1>3, <1>4, <1>5, CambiaFila

\* A request reads a row.
LEMMA LeeOK ==
  ASSUME AprobacionIInv, NEW r \in Requests, NEW op \in Ops, NEW c \in Fichas, NEW nuevo \in FichaType,
         Lee(r, op, c, nuevo), version' \in Versiones,
         nuevo.estado = ficha[c].estado, nuevo.plugin = ficha[c].plugin
  PROVE  AprobacionIInv'
<1> DEFINE q == [op |-> op, c |-> c, leido |-> ficha[c], nuevo |-> nuevo]
<1>1. ficha[c] \in FichaType /\ ficha[c].estado \in {"draft", "approved"}
  BY DEF AprobacionIInv, FilasOK, Lee
<1>2. Pedido(q)
  BY <1>1 DEF Pedido, SolicitudType
<1>3. q \in SolicitudType
  BY <1>2 DEF Pedido
<1>4. request' = [request EXCEPT ![r] = q]
  BY DEF Lee
<1>5. ficha' = ficha /\ bitacora' = bitacora /\ revisado' = revisado /\ encimado' = encimado
  BY DEF Lee, historia
<1> HIDE DEF q
<1>6. FilasOK'
  BY <1>3, <1>4, <1>5 DEF AprobacionIInv, FilasOK
<1>7. Pedidos'
  <2>1. \A s \in Requests : request'[s] = Idle \/ Pedido(request'[s])
    BY <1>2, <1>4 DEF AprobacionIInv, FilasOK, Pedidos
  <2> QED BY <2>1 DEF Pedidos, Pedido
<1>8. BitacoraCuadra' /\ AprobadoEsRevisado'
  BY <1>5 DEF AprobacionIInv, BitacoraCuadra, AprobadoEsRevisado
<1> QED BY <1>6, <1>7, <1>8 DEF AprobacionIInv

LEMMA LecturasOK ==
  ASSUME AprobacionIInv, NEW r \in Requests, NEW c \in Fichas,
         AprobarLee(r, c) \/ RechazarLee(r, c) \/ EditarLee(r, c)
  PROVE  AprobacionIInv'
<1>1. ficha[c] \in FichaType /\ version \in Versiones
  BY DEF AprobacionIInv, FilasOK
<1>2. CASE AprobarLee(r, c) \/ RechazarLee(r, c)
  <2>1. version' = version /\ \E op \in Ops : Lee(r, op, c, ficha[c])
    BY <1>2 DEF AprobarLee, RechazarLee, Ops
  <2> QED BY <1>1, <2>1, LeeOK
<1>3. CASE EditarLee(r, c)
  <2> DEFINE v == version + 1
             conMonto == [ficha[c] EXCEPT !.monto = v]
             conActivo == [ficha[c] EXCEPT !.activo = ~@]
             conTope == [ficha[c] EXCEPT !.tope = v]
  <2>1. version' = v /\ v \in Versiones /\ "edit" \in Ops
    BY <1>1, <1>3, SiguienteVersion DEF EditarLee, Cambia, Ops
  <2>2. Lee(r, "edit", c, conMonto) \/ Lee(r, "edit", c, conActivo) \/ Lee(r, "edit", c, conTope)
    BY <1>3 DEF EditarLee, Cambia
  <2> HIDE DEF v
  <2>3. /\ conMonto \in FichaType /\ conMonto.estado = ficha[c].estado
        /\ conMonto.plugin = ficha[c].plugin
    BY <1>1, <2>1, ConMonto
  <2>4. /\ conActivo \in FichaType /\ conActivo.estado = ficha[c].estado
        /\ conActivo.plugin = ficha[c].plugin
    BY <1>1, ConActivo
  <2>5. /\ conTope \in FichaType /\ conTope.estado = ficha[c].estado
        /\ conTope.plugin = ficha[c].plugin
    BY <1>1, <2>1, ConTope
  <2> HIDE DEF conMonto, conActivo, conTope
  <2> QED BY <2>1, <2>2, <2>3, <2>4, <2>5, LeeOK
<1> QED BY <1>2, <1>3

\* What a request decides to write.
LEMMA DecididaFila ==
  ASSUME NEW q, Pedido(q)
  PROVE  /\ Decidida(q) \in FichaType
         /\ Decidida(q).estado \in {"draft", "approved"}
         /\ Decidida(q).monto = q.nuevo.monto /\ Decidida(q).plugin = q.leido.plugin
         /\ ~DejaEntrada(q) => Decidida(q).estado = q.leido.estado
         /\ Decidida(q).estado = "approved" /\ q.op # "approve" =>
              q.leido.estado = "approved" /\ ~VuelveABorrador(q) /\ q.op = "edit"
<1>1. /\ q.op \in Ops /\ q.leido \in FichaType /\ q.nuevo \in FichaType
      /\ q.leido.estado \in {"draft", "approved"}
      /\ q.nuevo.estado = q.leido.estado /\ q.nuevo.plugin = q.leido.plugin
  BY DEF Pedido, SolicitudType
<1>2. CASE q.op = "approve"
  <2>1. Decidida(q) = [q.nuevo EXCEPT !.estado = "approved"]
    <3>1. ~(q.op = "reject" \/ VuelveABorrador(q))
      BY <1>2 DEF VuelveABorrador
    <3> QED BY <1>2, <3>1, Zenon DEF Decidida
  <2>2. /\ Decidida(q) \in FichaType /\ Decidida(q).estado = "approved"
        /\ Decidida(q).monto = q.nuevo.monto /\ Decidida(q).plugin = q.nuevo.plugin
    <3> DEFINE n == q.nuevo
               g == [n EXCEPT !.estado = "approved"]
    <3>1. n \in FichaType /\ Decidida(q) = g /\ "approved" \in Estados
      BY <1>1, <2>1 DEF Estados
    <3>2. g \in FichaType /\ g.estado = "approved" /\ g.plugin = n.plugin /\ g.monto = n.monto
      <4> HIDE DEF n
      <4> QED BY <3>1, ConEstado
    <3> HIDE DEF g
    <3> QED BY <3>1, <3>2
  <2>3. DejaEntrada(q)
    BY <1>2 DEF DejaEntrada
  <2> QED BY <1>1, <1>2, <2>2, <2>3
<1>3. CASE q.op = "reject" \/ VuelveABorrador(q)
  <2>1. q.op # "approve"
    BY <1>3 DEF VuelveABorrador
  <2>2. Decidida(q) = [q.nuevo EXCEPT !.estado = "draft"]
    BY <1>3, <2>1, Zenon DEF Decidida
  <2>3. /\ Decidida(q) \in FichaType /\ Decidida(q).estado = "draft"
        /\ Decidida(q).monto = q.nuevo.monto /\ Decidida(q).plugin = q.nuevo.plugin
    <3> DEFINE n == q.nuevo
               g == [n EXCEPT !.estado = "draft"]
    <3>1. n \in FichaType /\ Decidida(q) = g /\ "draft" \in Estados
      BY <1>1, <2>2 DEF Estados
    <3>2. g \in FichaType /\ g.estado = "draft" /\ g.plugin = n.plugin /\ g.monto = n.monto
      <4> HIDE DEF n
      <4> QED BY <3>1, ConEstado
    <3> HIDE DEF g
    <3> QED BY <3>1, <3>2
  <2>4. DejaEntrada(q)
    BY <1>3 DEF DejaEntrada
  <2> QED BY <1>1, <1>3, <2>3, <2>4
<1>4. CASE q.op # "approve" /\ ~(q.op = "reject" \/ VuelveABorrador(q))
  <2>1. Decidida(q) = q.nuevo
    BY <1>4, Zenon DEF Decidida
  <2>2. q.op = "edit"
    BY <1>1, <1>4 DEF Ops
  <2> QED BY <1>1, <1>4, <2>1, <2>2
<1> QED BY <1>2, <1>3, <1>4

\* An edit that does not bring an approved row back to draft has left its
\* amount, unless a plugin made the row.
LEMMA EdicionSinCambio ==
  ASSUME NEW q, Pedido(q), q.op = "edit", q.leido.estado = "approved", ~VuelveABorrador(q),
         ~q.leido.plugin
  PROVE  q.nuevo.monto = q.leido.monto
<1>1. ~ \E k \in Seguidos : q.nuevo[k] # q.leido[k]
  BY DEF VuelveABorrador
<1>2. q.nuevo["monto"] = q.leido["monto"]
  BY <1>1 DEF Seguidos
<1> QED BY <1>2

LEMMA TerminaOK ==
  ASSUME AprobacionIInv, NEW r \in Requests, Termina(r)
  PROVE  AprobacionIInv'
<1> DEFINE q == request[r]
           c == q.c
           d == Decidida(q)
<1>1. Pedido(q) /\ c \in Fichas /\ request' = [request EXCEPT ![r] = Idle] /\ version' = version
  BY DEF Termina, AprobacionIInv, Pedidos, Pedido, SolicitudType
<1>2. Pedidos'
  <2>1. \A s \in Requests : request'[s] = Idle \/ Pedido(request'[s])
    BY <1>1 DEF AprobacionIInv, FilasOK, Pedidos
  <2> QED BY <2>1 DEF Pedidos, Pedido
<1>3. request' \in [Requests -> SolicitudType \cup {Idle}]
  BY <1>1 DEF AprobacionIInv, FilasOK
<1>4. CASE ficha[c].estado = "deleted"
  <2>1. UNCHANGED <<ficha, bitacora, historia>>
    BY <1>4 DEF Termina
  <2>2. FilasOK'
    BY <1>1, <1>3, <2>1 DEF AprobacionIInv, FilasOK, historia
  <2>3. BitacoraCuadra' /\ AprobadoEsRevisado'
    BY <2>1 DEF AprobacionIInv, BitacoraCuadra, AprobadoEsRevisado, historia
  <2> QED BY <1>2, <2>2, <2>3 DEF AprobacionIInv
<1>5. CASE ficha[c].estado # "deleted"
  <2> DEFINE w == Escribe(ficha[c], q.leido, d)
             e == Entrada(q)
             b == Anota(bitacora[c], e)
  <2>1. /\ ficha' = [ficha EXCEPT ![c] = w]
        /\ bitacora' = IF DejaEntrada(q) THEN [bitacora EXCEPT ![c] = b] ELSE bitacora
        /\ revisado' = IF q.op = "approve" THEN [revisado EXCEPT ![c] = ficha'[c].monto] ELSE revisado
        /\ encimado' = IF ficha[c] # q.leido THEN encimado \cup {c} ELSE encimado
    BY <1>5 DEF Termina
  <2>2. /\ ficha[c] \in FichaType /\ bitacora[c] \in BitacoraType /\ q.leido \in FichaType
        /\ q.leido.estado \in {"draft", "approved"}
    BY <1>1 DEF AprobacionIInv, FilasOK, Pedido, SolicitudType
  <2>3. /\ d \in FichaType /\ d.estado \in {"draft", "approved"}
        /\ d.monto = q.nuevo.monto /\ d.plugin = q.leido.plugin
        /\ ~DejaEntrada(q) => d.estado = q.leido.estado
        /\ d.estado = "approved" /\ q.op # "approve" =>
              q.leido.estado = "approved" /\ ~VuelveABorrador(q) /\ q.op = "edit"
    BY <1>1, DecididaFila
  <2>4. w \in FichaType /\ (ficha[c] = q.leido => w = d)
    BY <2>2, <2>3, EscribeType, EscribeTodo
  <2>5. /\ b \in BitacoraType /\ b.ultimo = d.estado
        /\ b.encadena = (bitacora[c].encadena /\ (bitacora[c].ultimo = "none" \/ bitacora[c].ultimo = q.leido.estado))
    <3>1. e.nuevo = d.estado /\ e.anterior = q.leido.estado
      BY DEF Entrada
    <3> HIDE DEF e, d
    <3> QED BY <2>2, <2>3, <3>1, AnotaType
  <2> HIDE DEF w, b, d, c, q
  <2>6. ficha'[c] = w /\ \A x \in Fichas \ {c} : ficha'[x] = ficha[x] /\ bitacora'[x] = bitacora[x]
        /\ revisado'[x] = revisado[x]
    BY <1>1, <2>1 DEF AprobacionIInv, FilasOK
  <2>7. w.monto \in Versiones
    BY <2>4 DEF FichaType
  <2>8. FilasOK'
    <3>1. ficha' \in [Fichas -> FichaType] /\ bitacora' \in [Fichas -> BitacoraType]
      BY <2>1, <2>4, <2>5 DEF AprobacionIInv, FilasOK
    <3>2. revisado' \in [Fichas -> Versiones] /\ encimado' \subseteq Fichas
      BY <1>1, <2>1, <2>6, <2>7 DEF AprobacionIInv, FilasOK
    <3> QED BY <1>1, <1>3, <3>1, <3>2 DEF AprobacionIInv, FilasOK
  <2>9. BitacoraCuadra'
    <3>1. SUFFICES ASSUME NEW x \in Fichas \ encimado'
                   PROVE  /\ bitacora'[x].encadena
                          /\ ficha'[x].estado # "deleted" => bitacora'[x].ultimo \in {"none", ficha'[x].estado}
      BY DEF BitacoraCuadra
    <3>2. x \in Fichas \ encimado
      BY <2>1
    <3>3. /\ bitacora[x].encadena
          /\ ficha[x].estado # "deleted" => bitacora[x].ultimo \in {"none", ficha[x].estado}
      BY <3>2 DEF AprobacionIInv, BitacoraCuadra
    <3>4. CASE x # c
      BY <2>6, <3>2, <3>3, <3>4
    <3>5. CASE x = c
      <4>1. ficha[c] = q.leido /\ w = d
        BY <2>1, <2>4, <3>5
      <4>2. CASE DejaEntrada(q)
        <5>1. bitacora'[c] = b
          BY <1>1, <2>1, <4>2 DEF AprobacionIInv, FilasOK
        <5>2. b.encadena
          BY <1>5, <2>5, <3>3, <3>5, <4>1
        <5> QED BY <2>5, <2>6, <3>5, <4>1, <5>1, <5>2
      <4>3. CASE ~DejaEntrada(q)
        BY <1>5, <2>1, <2>3, <2>6, <3>3, <3>5, <4>1, <4>3
      <4> QED BY <4>2, <4>3
    <3> QED BY <3>4, <3>5
  <2>10. AprobadoEsRevisado'
    <3>1. SUFFICES ASSUME NEW x \in Fichas \ encimado', ficha'[x].estado = "approved", ~ficha'[x].plugin
                   PROVE  ficha'[x].monto = revisado'[x]
      BY DEF AprobadoEsRevisado
    <3>2. x \in Fichas \ encimado
      BY <2>1
    <3>3. ficha[x].estado = "approved" /\ ~ficha[x].plugin => ficha[x].monto = revisado[x]
      BY <3>2 DEF AprobacionIInv, AprobadoEsRevisado
    <3>4. CASE x # c
      BY <2>6, <3>1, <3>2, <3>3, <3>4
    <3>5. CASE x = c /\ q.op = "approve"
      BY <1>1, <2>1, <2>6, <3>5 DEF AprobacionIInv, FilasOK
    <3>6. CASE x = c /\ q.op # "approve"
      <4>1. ficha[c] = q.leido /\ w = d /\ revisado' = revisado
        BY <2>1, <2>4, <3>6
      <4>2. q.leido.estado = "approved" /\ ~VuelveABorrador(q) /\ q.op = "edit" /\ ~q.leido.plugin
        BY <2>3, <2>6, <3>1, <3>6, <4>1
      <4>3. q.nuevo.monto = q.leido.monto
        BY <1>1, <4>2, EdicionSinCambio
      <4> QED BY <2>3, <2>6, <3>3, <3>6, <4>1, <4>2, <4>3
    <3> QED BY <3>4, <3>5, <3>6
  <2> QED BY <1>2, <2>8, <2>9, <2>10 DEF AprobacionIInv
<1> QED BY <1>4, <1>5

LEMMA NextAprobacionIInv == AprobacionIInv /\ [AprobacionNext]_aprobacionVars => AprobacionIInv'
<1> SUFFICES ASSUME AprobacionIInv, [AprobacionNext]_aprobacionVars PROVE AprobacionIInv'
  OBVIOUS
<1>1. CASE \E c \in Conceptos : CrearConcepto(c) \/ EliminarConcepto(c) \/ EditarRegla(c)
  BY <1>1, CrearConceptoOK, EliminarConceptoOK, EditarReglaOK
<1>2. CASE \E p \in Planillas : CrearPlanilla(p)
  BY <1>2, CrearPlanillaOK
<1>3. CASE \E r \in Requests : \E c \in Fichas : AprobarLee(r, c) \/ RechazarLee(r, c) \/ EditarLee(r, c)
  BY <1>3, LecturasOK
<1>4. CASE \E r \in Requests : Termina(r)
  BY <1>4, TerminaOK
<1>5. CASE UNCHANGED aprobacionVars
  BY <1>5 DEF aprobacionVars, historia, AprobacionIInv, FilasOK, Pedidos, Pedido, BitacoraCuadra, AprobadoEsRevisado
<1> QED BY <1>1, <1>2, <1>3, <1>4, <1>5 DEF AprobacionNext

LEMMA ApprovalInvariant == AprobacionSpec => []AprobacionIInv
BY InitAprobacionIInv, NextAprobacionIInv, PTL DEF AprobacionSpec

-----------------------------------------------------------------------------
(* Approval: theorems                                                        *)

\* Rows, logs and requests have their types.
THEOREM ApprovalTypeCorrect == AprobacionSpec => []AprobacionTypeOK
<1>1. AprobacionIInv => AprobacionTypeOK
  BY DEF AprobacionIInv, FilasOK, AprobacionTypeOK
<1> QED BY <1>1, ApprovalInvariant, PTL

\* The log of a row that nobody wrote over tells its story.
THEOREM LogTellsTheStory == AprobacionSpec => []BitacoraCuadra
<1>1. AprobacionIInv => BitacoraCuadra
  BY DEF AprobacionIInv
<1> QED BY <1>1, ApprovalInvariant, PTL

\* What is approved has the amount that was approved.
THEOREM ApprovedIsReviewed == AprobacionSpec => []AprobadoEsRevisado
<1>1. AprobacionIInv => AprobadoEsRevisado
  BY DEF AprobacionIInv
<1> QED BY <1>1, ApprovalInvariant, PTL

-----------------------------------------------------------------------------
(* Snapshots: partial functions                                              *)

LEMMA ParcialIntro ==
  ASSUME NEW D, NEW R, NEW S \in SUBSET D, NEW f \in [S -> R]
  PROVE  f \in Parcial(D, R)
BY DEF Parcial

LEMMA ParcialElim ==
  ASSUME NEW D, NEW R, NEW f \in Parcial(D, R)
  PROVE  DOMAIN f \subseteq D /\ f \in [DOMAIN f -> R]
BY DEF Parcial

LEMMA Vacio ==
  ASSUME NEW D, NEW R
  PROVE  <<>> \in Parcial(D, R)
<1>1. <<>> \in [{} -> R]
  OBVIOUS
<1> QED BY <1>1, ParcialIntro

-----------------------------------------------------------------------------
(* Snapshots: what is frozen and what is calculated with it                  *)

CatalogoOK ==
  /\ concepto \in [Conceptos -> ConceptoType]
  /\ asociacion \in [Conceptos -> Versiones]
  /\ asignado \subseteq Empleados /\ activos \subseteq Empleados
  /\ salario \in [Empleados -> Versiones]
  /\ version \in Versiones

LEMMA FijoFields ==
  ASSUME CatalogoOK, NEW c \in Conceptos
  PROVE  /\ Fijo(c) \in FijoType
         /\ Fijo(c).monto = concepto[c].monto /\ Fijo(c).tope = concepto[c].tope
         /\ concepto[c].tope \in Versiones \cup {Ausente}
BY DEF CatalogoOK, Fijo, FijoType, ConceptoType

LEMMA CapturaFields ==
  ASSUME CatalogoOK
  PROVE  /\ Captura \in FotoType
         /\ Captura.conceptos = [c \in EnUso |-> Fijo(c)]
         /\ Captura.contexto = Contexto
         /\ Captura.salarios = [e \in EnNomina |-> salario[e]]
         /\ EnUso \subseteq Asociados /\ Asociados \subseteq Conceptos /\ EnNomina \subseteq Empleados
<1>1. EnUso \subseteq Asociados /\ Asociados \subseteq Conceptos /\ EnNomina \subseteq Empleados
  BY DEF CatalogoOK, EnUso, Asociados, EnNomina
<1>2. [c \in EnUso |-> Fijo(c)] \in Parcial(Conceptos, FijoType)
  <2>1. [c \in EnUso |-> Fijo(c)] \in [EnUso -> FijoType]
    BY <1>1, FijoFields
  <2> QED BY <1>1, <2>1, ParcialIntro
<1>3. Contexto \in Parcial(Conceptos, Versiones)
  <2>1. Contexto \in [Asociados -> Versiones]
    BY <1>1 DEF Contexto, CatalogoOK
  <2> QED BY <1>1, <2>1, ParcialIntro
<1>4. [e \in EnNomina |-> salario[e]] \in Parcial(Empleados, Versiones)
  <2>1. [e \in EnNomina |-> salario[e]] \in [EnNomina -> Versiones]
    BY <1>1 DEF CatalogoOK
  <2> QED BY <1>1, <2>1, ParcialIntro
<1> QED BY <1>1, <1>2, <1>3, <1>4 DEF Captura, FotoType

LEMMA FotoFields ==
  ASSUME NEW foto \in FotoType
  PROVE  /\ foto.conceptos \in [DOMAIN foto.conceptos -> FijoType]
         /\ DOMAIN foto.conceptos \subseteq Conceptos
         /\ foto.contexto \in [DOMAIN foto.contexto -> Versiones]
         /\ foto.salarios \in [DOMAIN foto.salarios -> Versiones]
         /\ DOMAIN foto.salarios \subseteq Empleados
<1>1. /\ foto.conceptos \in Parcial(Conceptos, FijoType) /\ foto.contexto \in Parcial(Conceptos, Versiones)
      /\ foto.salarios \in Parcial(Empleados, Versiones)
  BY DEF FotoType
<1> QED BY <1>1, ParcialElim

\* What a concept in use is calculated with.
LEMMA UsadoFields ==
  ASSUME CatalogoOK, NEW foto \in FotoType, NEW c \in Conceptos
  PROVE  /\ Usado(foto, c) \in UsoType
         /\ Usado(foto, c).asociacion = asociacion[c]
         /\ c \in DOMAIN foto.conceptos =>
              /\ Usado(foto, c).monto = foto.conceptos[c].monto
              /\ foto.conceptos[c].tope # Ausente => Usado(foto, c).tope = foto.conceptos[c].tope
              /\ foto.conceptos[c].tope = Ausente => Usado(foto, c).tope = concepto[c].tope
<1> DEFINE f == IF c \in DOMAIN foto.conceptos THEN foto.conceptos[c] ELSE Fijo(c)
           t == IF f.tope = Ausente THEN concepto[c].tope ELSE f.tope
<1>1. f \in FijoType
  BY FotoFields, FijoFields
<1>2. asociacion[c] \in Versiones /\ concepto[c].tope \in Versiones \cup {Ausente}
  BY FijoFields DEF CatalogoOK
<1>3. f.monto \in Versiones /\ f.tope \in Versiones \cup {Ausente}
  BY <1>1 DEF FijoType
<1>4. Usado(foto, c) = [monto |-> f.monto, tope |-> t, asociacion |-> asociacion[c]]
  BY DEF Usado
<1>5. c \in DOMAIN foto.conceptos => f = foto.conceptos[c]
  OBVIOUS
<1> HIDE DEF f
<1>6. t \in Versiones \cup {Ausente}
  BY <1>2, <1>3
<1>7. Usado(foto, c) \in UsoType /\ Usado(foto, c).asociacion = asociacion[c]
      /\ Usado(foto, c).monto = f.monto /\ Usado(foto, c).tope = t
  <2> HIDE DEF t
  <2> QED BY <1>2, <1>3, <1>4, <1>6 DEF UsoType
<1> QED BY <1>5, <1>7

LEMMA ConceptuadoFields ==
  ASSUME CatalogoOK, NEW foto \in FotoType
  PROVE  /\ Conceptuado(foto) \in Parcial(Conceptos, UsoType)
         /\ DOMAIN Conceptuado(foto) = EnUso
         /\ \A c \in EnUso : Conceptuado(foto)[c] = Usado(foto, c)
<1>1. EnUso \subseteq Conceptos
  BY CapturaFields
<1>2. Conceptuado(foto) \in [EnUso -> UsoType]
  BY <1>1, UsadoFields DEF Conceptuado
<1> QED BY <1>1, <1>2, ParcialIntro DEF Conceptuado

LEMMA SalariosFields ==
  ASSUME CatalogoOK, NEW foto \in FotoType
  PROVE  /\ SalariosDe(foto) \in Parcial(Empleados, Versiones)
         /\ DOMAIN SalariosDe(foto) = {d \in asignado : d \in activos \/ d \in DOMAIN foto.salarios}
         /\ \A e \in DOMAIN SalariosDe(foto) :
              e \in DOMAIN foto.salarios => SalariosDe(foto)[e] = foto.salarios[e]
<1> DEFINE S == {d \in asignado : d \in activos \/ d \in DOMAIN foto.salarios}
<1>1. S \subseteq Empleados
  BY DEF CatalogoOK
<1>2. SalariosDe(foto) = [e \in S |-> IF e \in DOMAIN foto.salarios THEN foto.salarios[e] ELSE salario[e]]
  BY DEF SalariosDe
<1> HIDE DEF S
<1>3. \A e \in S : (IF e \in DOMAIN foto.salarios THEN foto.salarios[e] ELSE salario[e]) \in Versiones
  BY <1>1, FotoFields DEF CatalogoOK
<1>4. SalariosDe(foto) \in [S -> Versiones]
  BY <1>2, <1>3
<1> QED BY <1>1, <1>2, <1>4, ParcialIntro DEF S

-----------------------------------------------------------------------------
(* Snapshots: the payroll                                                    *)

LEMMA NominaFields ==
  ASSUME NEW n \in NominaType
  PROVE  /\ n.estado \in {"calculating", "generated", "error"}
         /\ n.fondo \in BOOLEAN /\ n.recalculada \in BOOLEAN
         /\ n.foto \in FotoType /\ n.resultado \in ResultadoType
         /\ n # SinNomina
BY DEF NominaType, SinNomina

LEMMA ResultadoFields ==
  ASSUME NEW C \in Parcial(Conceptos, UsoType), NEW S \in Parcial(Empleados, Versiones)
  PROVE  /\ [conceptos |-> C, salarios |-> S] \in ResultadoType
         /\ [conceptos |-> C, salarios |-> S].conceptos = C
         /\ [conceptos |-> C, salarios |-> S].salarios = S
BY DEF ResultadoType

LEMMA NuevaFields ==
  ASSUME CatalogoOK, NEW estado \in {"calculating", "generated", "error"}, NEW fondo \in BOOLEAN,
         NEW r \in ResultadoType
  PROVE  LET n == NominaNueva(estado, fondo, r)
         IN  /\ n \in NominaType /\ n.estado = estado /\ n.fondo = fondo /\ n.recalculada = FALSE
             /\ n.foto = Captura /\ n.resultado = r
<1>1. Captura \in FotoType
  BY CapturaFields
<1> DEFINE f == Captura
<1>2. f \in FotoType
  BY <1>1
<1>3. NominaNueva(estado, fondo, r) =
        [estado |-> estado, fondo |-> fondo, recalculada |-> FALSE, foto |-> f, resultado |-> r]
  BY DEF NominaNueva
<1> HIDE DEF f
<1>4. LET n == NominaNueva(estado, fondo, r)
      IN  /\ n \in NominaType /\ n.estado = estado /\ n.fondo = fondo /\ n.recalculada = FALSE
          /\ n.foto = f /\ n.resultado = r
  BY <1>2, <1>3 DEF NominaType
<1> QED BY <1>4 DEF f

\* A payroll whose state, or mark, and result are replaced.
LEMMA GeneradaFields ==
  ASSUME NEW n \in NominaType, NEW r \in ResultadoType
  PROVE  LET g == [n EXCEPT !.estado = "generated", !.resultado = r]
         IN  /\ g \in NominaType /\ g.estado = "generated" /\ g.fondo = n.fondo
             /\ g.recalculada = n.recalculada /\ g.foto = n.foto /\ g.resultado = r
<1> DEFINE n1 == [n EXCEPT !.estado = "generated"]
           n2 == [n1 EXCEPT !.resultado = r]
<1>1. [n EXCEPT !.estado = "generated", !.resultado = r] = n2
  OBVIOUS
<1>2. /\ n1 \in NominaType /\ n1.estado = "generated" /\ n1.fondo = n.fondo
      /\ n1.recalculada = n.recalculada /\ n1.foto = n.foto
  BY DEF NominaType
<1>3. /\ n2 \in NominaType /\ n2.estado = "generated" /\ n2.fondo = n.fondo
      /\ n2.recalculada = n.recalculada /\ n2.foto = n.foto /\ n2.resultado = r
  <2> HIDE DEF n1
  <2> QED BY <1>2 DEF NominaType
<1> HIDE DEF n2
<1> QED BY <1>1, <1>3

LEMMA RecalculadaFields ==
  ASSUME NEW n \in NominaType, NEW r \in ResultadoType
  PROVE  LET g == [n EXCEPT !.recalculada = TRUE, !.resultado = r]
         IN  /\ g \in NominaType /\ g.estado = n.estado /\ g.fondo = n.fondo
             /\ g.recalculada = TRUE /\ g.foto = n.foto /\ g.resultado = r
<1> DEFINE n1 == [n EXCEPT !.recalculada = TRUE]
           n2 == [n1 EXCEPT !.resultado = r]
<1>1. [n EXCEPT !.recalculada = TRUE, !.resultado = r] = n2
  OBVIOUS
<1>2. /\ n1 \in NominaType /\ n1.estado = n.estado /\ n1.fondo = n.fondo
      /\ n1.recalculada = TRUE /\ n1.foto = n.foto
  BY DEF NominaType
<1>3. /\ n2 \in NominaType /\ n2.estado = n.estado /\ n2.fondo = n.fondo
      /\ n2.recalculada = TRUE /\ n2.foto = n.foto /\ n2.resultado = r
  <2> HIDE DEF n1
  <2> QED BY <1>2 DEF NominaType
<1> HIDE DEF n2
<1> QED BY <1>1, <1>3

LEMMA ErrorFields ==
  ASSUME NEW n \in NominaType
  PROVE  LET g == [n EXCEPT !.estado = "error"]
         IN  /\ g \in NominaType /\ g.estado = "error" /\ g.fondo = n.fondo
             /\ g.recalculada = n.recalculada /\ g.foto = n.foto /\ g.resultado = n.resultado
BY DEF NominaType

-----------------------------------------------------------------------------
(* Snapshots: the inductive invariant                                        *)

NominaOK == nomina = SinNomina \/ nomina \in NominaType

\* A concept that was frozen belonged to the planilla of then.
FotoCerrada ==
  nomina # SinNomina => DOMAIN nomina.foto.conceptos \subseteq DOMAIN nomina.foto.contexto

\* What a payroll calculated at once first paid is its snapshot.
Origen ==
  nomina # SinNomina =>
    /\ nomina.estado # "generated" => nomina.fondo
    /\ ~nomina.fondo =>
         /\ original.salarios = nomina.foto.salarios
         /\ DOMAIN original.conceptos = DOMAIN nomina.foto.conceptos
         /\ \A c \in DOMAIN nomina.foto.conceptos :
              /\ original.conceptos[c].monto = nomina.foto.conceptos[c].monto
              /\ original.conceptos[c].tope = nomina.foto.conceptos[c].tope
              /\ original.conceptos[c].asociacion = nomina.foto.contexto[c]

IInv ==
  /\ CatalogoOK
  /\ NominaOK
  /\ FotoCerrada
  /\ original \in ResultadoType
  /\ Origen
  /\ RecalculoFiel

LEMMA InitIInv == Init => IInv
<1> SUFFICES ASSUME Init
             PROVE  IInv
  OBVIOUS
<1>1. 0 \in Versiones
  BY BoundAssumption DEF Versiones
<1>2. CatalogoOK
  <2>1. [activo |-> TRUE, monto |-> 0, tope |-> Ausente] \in ConceptoType
    BY <1>1 DEF ConceptoType
  <2> QED BY <1>1, <2>1 DEF Init, CatalogoOK
<1>3. nomina = SinNomina /\ ~(nomina.estado = "generated")
  BY DEF Init, SinNomina
<1>4. original \in ResultadoType
  BY Vacio DEF Init, SinResultado, ResultadoType
<1> QED BY <1>2, <1>3, <1>4 DEF IInv, NominaOK, FotoCerrada, Origen, RecalculoFiel

\* The edits of the configuration keep its types and touch no payroll.
LEMMA EdicionCatalogo ==
  ASSUME CatalogoOK, NEW c \in Conceptos,
         EditarConcepto(c) \/ ActivarConcepto(c) \/ Asociar(c) \/ Quitar(c)
  PROVE  CatalogoOK' /\ nomina' = nomina /\ original' = original
<1>1. version + 1 \in Versiones \/ version >= MaxVersion
  BY BoundAssumption DEF CatalogoOK, Versiones
<1>2. 0 \in Versiones
  BY BoundAssumption DEF Versiones
<1>3. concepto[c] \in ConceptoType /\ concepto[c].activo \in BOOLEAN
  BY DEF CatalogoOK, ConceptoType
<1>4. CASE EditarConcepto(c)
  <2>1. version + 1 \in Versiones /\ version' = version + 1
    BY <1>4, <1>1, BoundAssumption DEF EditarConcepto, Cambia, CatalogoOK, Versiones
  <2> DEFINE v == version + 1
             q == concepto[c]
  <2>2. /\ [q EXCEPT !.monto = v] \in ConceptoType
        /\ [q EXCEPT !.tope = v] \in ConceptoType
        /\ [q EXCEPT !.tope = Ausente] \in ConceptoType
    <3>1. v \in Versiones /\ q \in ConceptoType
      BY <2>1, <1>3
    <3> HIDE DEF v, q
    <3> QED BY <3>1 DEF ConceptoType
  <2>3. concepto' \in [Conceptos -> ConceptoType]
    BY <1>4, <2>2 DEF EditarConcepto, CatalogoOK
  <2> QED BY <1>4, <2>1, <2>3 DEF EditarConcepto, CatalogoOK, personal
<1>5. CASE ActivarConcepto(c)
  <2> DEFINE q == concepto[c]
             a == ~q.activo
  <2>1. [q EXCEPT !.activo = a] \in ConceptoType
    <3>1. a \in BOOLEAN /\ q \in ConceptoType
      BY <1>3
    <3> HIDE DEF a, q
    <3> QED BY <3>1 DEF ConceptoType
  <2>2. concepto' \in [Conceptos -> ConceptoType]
    <3>1. concepto' = [concepto EXCEPT ![c] = [q EXCEPT !.activo = a]]
      BY <1>5 DEF ActivarConcepto
    <3> HIDE DEF a, q
    <3> QED BY <2>1, <3>1 DEF CatalogoOK
  <2> QED BY <1>5, <2>2 DEF ActivarConcepto, CatalogoOK, personal
<1>6. CASE Asociar(c)
  BY <1>6, <1>1, BoundAssumption DEF Asociar, Cambia, CatalogoOK, personal, Versiones
<1>7. CASE Quitar(c)
  BY <1>7, <1>2 DEF Quitar, CatalogoOK, personal
<1> QED BY <1>4, <1>5, <1>6, <1>7

LEMMA EdicionPersonal ==
  ASSUME CatalogoOK, NEW e \in Empleados, Asignar(e) \/ Activar(e) \/ CambiarSalario(e)
  PROVE  CatalogoOK' /\ nomina' = nomina /\ original' = original
<1>1. CASE Asignar(e)
  BY <1>1 DEF Asignar, CatalogoOK, catalogo
<1>2. CASE Activar(e)
  BY <1>2 DEF Activar, CatalogoOK, catalogo
<1>3. CASE CambiarSalario(e)
  BY <1>3, BoundAssumption DEF CambiarSalario, Cambia, CatalogoOK, catalogo, Versiones
<1> QED BY <1>1, <1>2, <1>3

\* A step that touches neither a payroll nor its history.
LEMMA SinTocar ==
  ASSUME IInv, CatalogoOK', nomina' = nomina, original' = original
  PROVE  IInv'
BY DEF IInv, NominaOK, FotoCerrada, Origen, RecalculoFiel

\* A run that calculates at once pays its own snapshot.
LEMMA EjecutarIInv == ASSUME IInv, Ejecutar PROVE IInv'
<1>1. CatalogoOK /\ CatalogoOK'
  BY DEF IInv, Ejecutar, CatalogoOK, catalogo, personal
<1>2. /\ Captura \in FotoType /\ Captura.contexto = Contexto
      /\ Captura.conceptos = [c \in EnUso |-> Fijo(c)]
      /\ Captura.salarios = [e \in EnNomina |-> salario[e]]
      /\ EnUso \subseteq Asociados /\ Asociados \subseteq Conceptos
  BY <1>1, CapturaFields
<1> DEFINE f == Captura
           C == Conceptuado(f)
           S == SalariosDe(f)
           r == [conceptos |-> C, salarios |-> S]
<1>3. /\ C \in Parcial(Conceptos, UsoType) /\ DOMAIN C = EnUso
      /\ \A c \in EnUso : C[c] = Usado(f, c)
  BY <1>1, <1>2, ConceptuadoFields
<1>4. /\ S \in Parcial(Empleados, Versiones)
      /\ DOMAIN S = {d \in asignado : d \in activos \/ d \in DOMAIN f.salarios}
      /\ \A e \in DOMAIN S : e \in DOMAIN f.salarios => S[e] = f.salarios[e]
  BY <1>1, <1>2, SalariosFields
<1>5. r \in ResultadoType /\ r.conceptos = C /\ r.salarios = S
  <2> HIDE DEF C, S
  <2> QED BY <1>3, <1>4, ResultadoFields
<1>6. DOMAIN f.salarios = EnNomina /\ DOMAIN f.conceptos = EnUso /\ DOMAIN f.contexto = Asociados
  BY <1>2 DEF Contexto
<1>7. S = f.salarios
  <2>1. DOMAIN S = EnNomina
    BY <1>4, <1>6 DEF EnNomina
  <2>2. S \in [EnNomina -> Versiones] /\ f.salarios \in [EnNomina -> Versiones]
    BY <2>1, <1>2, <1>4, <1>6, ParcialElim, FotoFields
  <2> HIDE DEF S, f
  <2> QED BY <1>4, <1>6, <2>1, <2>2
<1>8. \A c \in EnUso : /\ C[c].monto = f.conceptos[c].monto /\ C[c].tope = f.conceptos[c].tope
                       /\ C[c].asociacion = f.contexto[c]
  <2> SUFFICES ASSUME NEW c \in EnUso
               PROVE  /\ C[c].monto = f.conceptos[c].monto /\ C[c].tope = f.conceptos[c].tope
                      /\ C[c].asociacion = f.contexto[c]
    OBVIOUS
  <2>1. c \in Conceptos /\ c \in Asociados /\ C[c] = Usado(f, c) /\ f \in FotoType
    BY <1>2, <1>3
  <2>2. f.contexto[c] = asociacion[c] /\ f.conceptos[c] = Fijo(c)
    BY <1>2, <2>1 DEF Contexto
  <2>3. f.conceptos[c].tope = concepto[c].tope
    BY <1>1, <2>1, <2>2, FijoFields
  <2>4. /\ Usado(f, c).asociacion = asociacion[c]
        /\ Usado(f, c).monto = f.conceptos[c].monto
        /\ f.conceptos[c].tope # Ausente => Usado(f, c).tope = f.conceptos[c].tope
        /\ f.conceptos[c].tope = Ausente => Usado(f, c).tope = concepto[c].tope
    <3> HIDE DEF f
    <3> QED BY <1>1, <1>6, <2>1, UsadoFields
  <2> HIDE DEF f, C
  <2> QED BY <2>1, <2>2, <2>3, <2>4
<1>9. nomina' = NominaNueva("generated", FALSE, r) /\ original' = nomina'.resultado
  BY DEF Ejecutar
<1> HIDE DEF C, S, r
<1>10. /\ nomina' \in NominaType /\ nomina'.estado = "generated" /\ nomina'.fondo = FALSE
       /\ nomina'.recalculada = FALSE /\ nomina'.foto = f /\ nomina'.resultado = r
  BY <1>1, <1>5, <1>9, NuevaFields
<1>11. original' = r
  BY <1>9, <1>10
<1> HIDE DEF f
<1>12. FotoCerrada'
  BY <1>2, <1>6, <1>10 DEF FotoCerrada
<1>13. Origen'
  BY <1>3, <1>5, <1>6, <1>7, <1>8, <1>10, <1>11 DEF Origen
<1>14. RecalculoFiel'
  BY <1>10 DEF RecalculoFiel
<1> QED BY <1>1, <1>5, <1>10, <1>11, <1>12, <1>13, <1>14 DEF IInv, NominaOK

LEMMA EncolarIInv == ASSUME IInv, Encolar PROVE IInv'
<1>1. CatalogoOK /\ CatalogoOK' /\ original' = original /\ original \in ResultadoType
  BY DEF IInv, Encolar, CatalogoOK, catalogo, personal
<1>2. SinResultado \in ResultadoType
  BY Vacio DEF SinResultado, ResultadoType
<1> DEFINE r == SinResultado
<1>3. nomina' = NominaNueva("calculating", TRUE, r) /\ r \in ResultadoType
  BY <1>2 DEF Encolar
<1> HIDE DEF r
<1>4. /\ nomina' \in NominaType /\ nomina'.estado = "calculating" /\ nomina'.fondo
      /\ nomina'.foto = Captura
  <2> DEFINE n == NominaNueva("calculating", TRUE, r)
  <2>1. n \in NominaType
    BY <1>1, <1>3, NuevaFields
  <2>2. n.fondo
    BY <1>1, <1>3, NuevaFields
  <2>3. n.estado = "calculating" /\ n.foto = Captura
    BY DEF NominaNueva
  <2>4. nomina' = n
    BY <1>3
  <2> HIDE DEF n
  <2> QED BY <2>1, <2>2, <2>3, <2>4
<1>5. DOMAIN Captura.conceptos \subseteq DOMAIN Captura.contexto
  BY <1>1, CapturaFields DEF Contexto
<1> QED BY <1>1, <1>4, <1>5 DEF IInv, NominaOK, FotoCerrada, Origen, RecalculoFiel

LEMMA ProcesarIInv == ASSUME IInv, Procesar PROVE IInv'
<1>1. CatalogoOK /\ CatalogoOK' /\ nomina.estado = "calculating"
  BY DEF IInv, Procesar, CatalogoOK, catalogo, personal
<1>2. nomina \in NominaType
  BY <1>1 DEF IInv, NominaOK, SinNomina
<1>3. nomina.foto \in FotoType /\ nomina.resultado \in ResultadoType /\ nomina # SinNomina
  BY <1>2, NominaFields
<1>4. nomina.fondo = TRUE
  BY <1>1, <1>2, <1>3, NominaFields DEF IInv, Origen
<1>5. \E r \in ResultadoType :
        \/ nomina' = [nomina EXCEPT !.estado = "error"]
        \/ nomina' = [nomina EXCEPT !.estado = "generated", !.resultado = r]
  <2> DEFINE C == Conceptuado(nomina.foto)
             S == [e \in EnNomina |-> salario[e]]
             r == [conceptos |-> C, salarios |-> S]
  <2>1. C \in Parcial(Conceptos, UsoType)
    BY <1>1, <1>3, ConceptuadoFields
  <2>2. S \in Parcial(Empleados, Versiones)
    <3>1. S \in [EnNomina -> Versiones] /\ EnNomina \subseteq Empleados
      BY <1>1, CapturaFields DEF CatalogoOK
    <3> QED BY <3>1, ParcialIntro
  <2>3. r \in ResultadoType
    <3> HIDE DEF C, S
    <3> QED BY <2>1, <2>2, ResultadoFields
  <2>4. \/ nomina' = [nomina EXCEPT !.estado = "error"]
        \/ nomina' = [nomina EXCEPT !.estado = "generated", !.resultado = r]
    BY DEF Procesar
  <2> HIDE DEF r
  <2> QED BY <2>3, <2>4
<1>6. /\ nomina' \in NominaType /\ nomina'.fondo = nomina.fondo /\ nomina'.foto = nomina.foto
      /\ nomina'.resultado \in ResultadoType
  <2>1. PICK r \in ResultadoType :
          \/ nomina' = [nomina EXCEPT !.estado = "error"]
          \/ nomina' = [nomina EXCEPT !.estado = "generated", !.resultado = r]
    BY <1>5
  <2>2. CASE nomina' = [nomina EXCEPT !.estado = "error"]
    BY <1>2, <1>3, <2>2, ErrorFields
  <2>3. CASE nomina' = [nomina EXCEPT !.estado = "generated", !.resultado = r]
    BY <1>2, <2>1, <2>3, GeneradaFields
  <2> QED BY <2>1, <2>2, <2>3
<1>7. original' = nomina'.resultado
  BY DEF Procesar
<1> QED BY <1>1, <1>3, <1>4, <1>6, <1>7 DEF IInv, NominaOK, FotoCerrada, Origen, RecalculoFiel

\* A recalculation finds every concept of the snapshot, as it was associated.
LEMMA ContextoFields ==
  ASSUME CatalogoOK, NEW foto \in FotoType,
         DOMAIN foto.conceptos \subseteq DOMAIN foto.contexto, ContextoIgual(foto)
  PROVE  \A c \in DOMAIN foto.conceptos :
           c \in EnUso /\ c \in Conceptos /\ foto.contexto[c] = asociacion[c]
<1>1. DOMAIN foto.conceptos \subseteq Conceptos
  BY FotoFields
<1>2. foto.contexto = Contexto /\ \A c \in DOMAIN foto.conceptos : concepto[c].activo
  BY DEF ContextoIgual
<1>3. DOMAIN Contexto = Asociados /\ \A c \in Asociados : Contexto[c] = asociacion[c]
  BY DEF Contexto
<1> QED BY <1>1, <1>2, <1>3 DEF EnUso

\* What a recalculation writes.
LEMMA RecalcularFields ==
  ASSUME IInv, Recalcular
  PROVE  /\ nomina \in NominaType /\ nomina' \in NominaType /\ nomina.foto \in FotoType
         /\ nomina'.estado = "generated" /\ nomina'.fondo = nomina.fondo /\ nomina'.foto = nomina.foto
         /\ \A e \in DOMAIN nomina'.resultado.salarios :
              e \in DOMAIN nomina.foto.salarios =>
                nomina'.resultado.salarios[e] = nomina.foto.salarios[e]
         /\ \A c \in DOMAIN nomina.foto.conceptos :
              /\ c \in DOMAIN nomina'.resultado.conceptos
              /\ nomina'.resultado.conceptos[c].monto = nomina.foto.conceptos[c].monto
              /\ nomina'.resultado.conceptos[c].asociacion = nomina.foto.contexto[c]
              /\ nomina.foto.conceptos[c].tope # Ausente =>
                   nomina'.resultado.conceptos[c].tope = nomina.foto.conceptos[c].tope
<1>1. CatalogoOK /\ nomina.estado = "generated"
  BY DEF IInv, Recalcular
<1>2. nomina \in NominaType
  BY <1>1 DEF IInv, NominaOK, SinNomina
<1> DEFINE f == nomina.foto
<1>3. f \in FotoType /\ nomina # SinNomina
  BY <1>2, NominaFields
<1>4. DOMAIN f.conceptos \subseteq DOMAIN f.contexto /\ ContextoIgual(f)
  BY <1>3 DEF IInv, FotoCerrada, Recalcular
<1> DEFINE C == Conceptuado(f)
           S == SalariosDe(f)
           r == [conceptos |-> C, salarios |-> S]
<1>5. nomina' = [nomina EXCEPT !.recalculada = TRUE, !.resultado = r]
  BY DEF Recalcular
<1> HIDE DEF f
<1>6. /\ C \in Parcial(Conceptos, UsoType) /\ DOMAIN C = EnUso
      /\ \A c \in EnUso : C[c] = Usado(f, c)
  BY <1>1, <1>3, ConceptuadoFields
<1>7. /\ S \in Parcial(Empleados, Versiones)
      /\ \A e \in DOMAIN S : e \in DOMAIN f.salarios => S[e] = f.salarios[e]
  BY <1>1, <1>3, SalariosFields
<1>8. \A c \in DOMAIN f.conceptos : c \in EnUso /\ c \in Conceptos /\ f.contexto[c] = asociacion[c]
  BY <1>1, <1>3, <1>4, ContextoFields
<1>9. \A c \in DOMAIN f.conceptos :
        /\ c \in DOMAIN C /\ C[c].monto = f.conceptos[c].monto
        /\ C[c].asociacion = f.contexto[c]
        /\ f.conceptos[c].tope # Ausente => C[c].tope = f.conceptos[c].tope
  <2> SUFFICES ASSUME NEW c \in DOMAIN f.conceptos
               PROVE  /\ c \in DOMAIN C /\ C[c].monto = f.conceptos[c].monto
                      /\ C[c].asociacion = f.contexto[c]
                      /\ f.conceptos[c].tope # Ausente => C[c].tope = f.conceptos[c].tope
    OBVIOUS
  <2>1. c \in EnUso /\ c \in Conceptos /\ f.contexto[c] = asociacion[c]
    BY <1>8
  <2>2. /\ Usado(f, c).asociacion = asociacion[c]
        /\ Usado(f, c).monto = f.conceptos[c].monto
        /\ f.conceptos[c].tope # Ausente => Usado(f, c).tope = f.conceptos[c].tope
    BY <1>1, <1>3, <2>1, UsadoFields
  <2> HIDE DEF C
  <2> QED BY <1>6, <2>1, <2>2
<1> HIDE DEF C, S
<1>10. r \in ResultadoType /\ r.conceptos = C /\ r.salarios = S
  BY <1>6, <1>7, ResultadoFields
<1> HIDE DEF r
<1>11. /\ nomina' \in NominaType /\ nomina'.estado = nomina.estado /\ nomina'.fondo = nomina.fondo
       /\ nomina'.recalculada = TRUE /\ nomina'.foto = nomina.foto /\ nomina'.resultado = r
  BY <1>2, <1>5, <1>10, RecalculadaFields
<1> QED BY <1>1, <1>2, <1>3, <1>7, <1>9, <1>10, <1>11 DEF f

LEMMA RecalcularIInv == ASSUME IInv, Recalcular PROVE IInv'
<1> USE RecalcularFields
<1>1. /\ CatalogoOK' /\ original' = original /\ original \in ResultadoType
      /\ nomina # SinNomina /\ nomina' # SinNomina
  BY NominaFields DEF IInv, Recalcular, CatalogoOK, catalogo, personal
<1>2. FotoCerrada'
  BY <1>1 DEF IInv, FotoCerrada
<1>3. Origen'
  BY <1>1 DEF IInv, Origen
<1>4. RecalculoFiel'
  <2> SUFFICES ASSUME ~nomina.fondo
               PROVE  RecalculoFiel'
    BY DEF RecalculoFiel
  <2>1. /\ original.salarios = nomina.foto.salarios
        /\ DOMAIN original.conceptos = DOMAIN nomina.foto.conceptos
        /\ \A c \in DOMAIN nomina.foto.conceptos :
             /\ original.conceptos[c].monto = nomina.foto.conceptos[c].monto
             /\ original.conceptos[c].tope = nomina.foto.conceptos[c].tope
             /\ original.conceptos[c].asociacion = nomina.foto.contexto[c]
    BY <1>1 DEF IInv, Origen
  <2> QED BY <1>1, <2>1 DEF RecalculoFiel
<1> QED BY <1>1, <1>2, <1>3, <1>4 DEF IInv, NominaOK

LEMMA NextIInv == ASSUME IInv, [Next]_vars PROVE IInv'
<1> CatalogoOK
  BY DEF IInv
<1>1. CASE UNCHANGED vars
  <2>1. CatalogoOK' /\ nomina' = nomina /\ original' = original
    BY <1>1 DEF vars, CatalogoOK, catalogo, personal
  <2> QED BY <2>1, SinTocar
<1>2. ASSUME NEW c \in Conceptos,
             EditarConcepto(c) \/ ActivarConcepto(c) \/ Asociar(c) \/ Quitar(c)
      PROVE  IInv'
  BY <1>2, EdicionCatalogo, SinTocar
<1>3. ASSUME NEW e \in Empleados, Asignar(e) \/ Activar(e) \/ CambiarSalario(e)
      PROVE  IInv'
  BY <1>3, EdicionPersonal, SinTocar
<1> QED BY <1>1, <1>2, <1>3, EjecutarIInv, EncolarIInv, ProcesarIInv, RecalcularIInv DEF Next

THEOREM ConfigurationInvariant == Spec => []IInv
<1>1. Init => IInv
  BY InitIInv
<1>2. IInv /\ [Next]_vars => IInv'
  BY NextIInv
<1> QED BY <1>1, <1>2, PTL DEF Spec

-----------------------------------------------------------------------------
(* Snapshots: theorems                                                       *)

\* The catalog, the planilla, the payroll, its snapshot and its results have
\* their types, and a concept that was frozen belonged to the planilla.
THEOREM ConfigurationTypeCorrect == Spec => []TypeOK
<1>1. IInv => TypeOK
  BY DEF IInv, TypeOK, CatalogoOK, NominaOK, FotoCerrada
<1> QED BY <1>1, ConfigurationInvariant, PTL

\* A payroll calculated at once and recalculated pays each employee of both
\* runs the same salary and uses every concept as the first time, whatever was
\* edited in between.
THEOREM RecalculationIsFaithful == Spec => []RecalculoFiel
<1>1. IInv => RecalculoFiel
  BY DEF IInv
<1> QED BY <1>1, ConfigurationInvariant, PTL

\* A recalculation that goes through uses every concept that was frozen, with
\* the association it was frozen with.
THEOREM RecalculationKeepsContext == Spec => RecalculoConSuContexto
<1> DEFINE P == nomina'.estado = "generated" /\ nomina' # nomina /\ nomina.estado = "generated" =>
                  \A c \in DOMAIN nomina.foto.conceptos :
                    /\ c \in DOMAIN nomina'.resultado.conceptos
                    /\ nomina'.resultado.conceptos[c].asociacion = nomina.foto.contexto[c]
<1>1. IInv /\ [Next]_vars => [P]_vars
  <2> SUFFICES ASSUME IInv, Next, nomina' # nomina, nomina.estado = "generated"
               PROVE  P
    OBVIOUS
  <2>1. CatalogoOK
    BY DEF IInv
  <2>2. Recalcular
    <3>1. \A c \in Conceptos : ~(EditarConcepto(c) \/ ActivarConcepto(c) \/ Asociar(c) \/ Quitar(c))
      BY <2>1, EdicionCatalogo
    <3>2. \A e \in Empleados : ~(Asignar(e) \/ Activar(e) \/ CambiarSalario(e))
      BY <2>1, EdicionPersonal
    <3>3. nomina # SinNomina /\ nomina.estado # "calculating"
      BY DEF SinNomina
    <3>4. ~Ejecutar /\ ~Encolar
      BY <3>3 DEF Ejecutar, Encolar
    <3>5. ~Procesar
      BY <3>3 DEF Procesar
    <3> QED BY <3>1, <3>2, <3>4, <3>5 DEF Next
  <2> QED BY <2>2, RecalcularFields
<1> QED BY <1>1, ConfigurationInvariant, PTL DEF Spec, RecalculoConSuContexto
================================================================================
