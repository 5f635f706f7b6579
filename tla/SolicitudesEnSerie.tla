-------------------------- MODULE SolicitudesEnSerie --------------------------
(****************************************************************************)
(* The promises of the handlers of Solicitudes that each of them checks     *)
(* before it writes, and so keeps when the calls come one at a time         *)
(* (MaxSimultaneas = 1) and no statement fails; what happens to them when   *)
(* calls overlap is shown by runs of their own.                             *)
(****************************************************************************)
EXTENDS Solicitudes

\* The changes of estado the handlers have a rule for: advance, reject, delete,
\* delete mine, and delete_user, which takes any estado.
FlujoDeTramite ==
  {<<"Pendiente", "En proceso">>, <<"En proceso", "Finalizado">>}
  \cup {<<e, "Rechazado">> : e \in {"Pendiente", "En proceso", "Eliminada"}}
  \cup {<<e, "Eliminada">> : e \in EstadoFila}

\* PATCH has none: it goes from any estado to the one the client sent.
FlujoDeEdicion ==
  EstadoFila \X ({e.estado : e \in Ediciones} \ {Nulo, Ausente})

\* HISTORIAL, and after it the rows owed for what is written already.
Debidos ==
  IF \E p \in Peticion : peticion[p].cambios # <<>>
    THEN peticion[CHOOSE p \in Peticion : peticion[p].cambios # <<>>].cambios
    ELSE <<>>

\* The rows of h about the estado of a request, at their places, without tipo.
Asentado(c) == [sol |-> c.sol, antiguo |-> c.antiguo, nuevo |-> c.nuevo]
Acta(h) ==
  [k \in {j \in DOMAIN h : h[j].tipo \in TipoDeEstado} |-> Asentado(h[k])]

Registro == INSTANCE Expediente WITH
  Estado   <- EstadoFila,
  Apertura <- EstadoSolicitud,
  Nada     <- "",
  Flujo    <- FlujoDeTramite \cup FlujoDeEdicion,
  estados  <- [i \in Ids |-> solicitudes[i].estado],
  acta     <- Acta(historial \o Debidos)

(* One call at a time, the UPDATE and the INSERT of every handler together    *)
(* are one step of Expediente: the estado goes where the flow of the handlers *)
(* lets it (a 'Finalizado' one is not rejected, 'Finalizado' is reached from  *)
(* 'En proceso') and HISTORIAL tells every change of it, in order.            *)
CumpleExpediente == Registro!Spec

(* PATCH changes the columns the client sent and no other                     *)
(* (models/onboarding.py 22-23: "actualización parcial").                     *)
EdicionParcial ==
  [][\A p \in Peticion :
       LET t == peticion[p]
       IN  t.paso = "editar" /\ peticion'[p].paso # "editar" =>
             \A campo \in DOMAIN t.fila :
               t.fila[campo] = t.leida[campo] =>
                 solicitudes'[t.sol][campo] = solicitudes[t.sol][campo]]_vars

(* No request that is 'En proceso' is deleted by a call about requests        *)
(* (onboarding/delete.py 63-69; delete_user, a call about a user, does).      *)
EnProcesoNoSeElimina ==
  [][\A i \in Ids, p \in Peticion :
       /\ solicitudes[i].estado = "En proceso"
       /\ peticion[p].paso = "marcar" /\ peticion'[p].paso # "marcar"
       /\ peticion[p].usuario = Nulo
       => solicitudes'[i].estado # "Eliminada"]_vars

\* Requests i and j are of one employee and one kind.
MismoTipo(i, j) ==
  /\ solicitudes[i].id_empleado = solicitudes[j].id_empleado
  /\ Nulo \notin {solicitudes[i].especificaciones, solicitudes[j].especificaciones}
  /\ Clave[solicitudes[i].especificaciones] = Clave[solicitudes[j].especificaciones]

(* An employee has one request of each kind (onboarding/create.py 72-86).     *)
(* Only where no PATCH changes especificaciones, which it does unchecked.     *)
SinDuplicadas == \A i, j \in Ids : MismoTipo(i, j) => i = j

(* Two requests of one kind are the doing of a PATCH, and the trail says of   *)
(* which: one of the two has a row that tells how it became of that kind      *)
(* (update.py 219-225 and 235: the one way round the check of create.py).     *)
DuplicadaConRastro ==
  \A i, j \in Ids : MismoTipo(i, j) /\ i # j =>
    \E h \in Asientos : /\ h.sol \in {i, j}
                        /\ h.tipo = "CAMBIO_ESPECIFICACIONES"
                        /\ Clave[h.nuevo] = Clave[solicitudes[i].especificaciones]

(* A specification has one template (onboarding/dotacion.py 80-89, create.py  *)
(* 88-96).                                                                    *)
PlantillaUnica ==
  \A i, j \in DOMAIN dotacion :
    Clave[dotacion[i].especificacion] = Clave[dotacion[j].especificacion] => i = j

(* A user becomes 'Eliminada' with every request marked: none is left behind  *)
(* 'Pendiente' or 'En proceso' for an employee who is gone (auth/delete.py    *)
(* 63-92).                                                                    *)
BajaArrastraSolicitudes ==
  [][\A u \in Usuario :
       estadoUsuario[u] # "Eliminada" /\ estadoUsuario'[u] = "Eliminada" =>
         \A i \in Ids : solicitudes[i].id_empleado = u =>
                        solicitudes[i].estado = "Eliminada"]_vars

(* Nothing of a user whose onboarding is 'Finalizado' is deleted with him:    *)
(* he stays 'Finalizado', and no delete_user marks a request of his, at any   *)
(* of its statements (auth/delete.py 55-59 checks first, 61-92 write).        *)
FinalizadoIntacto ==
  [][\A u \in Usuario :
       estadoUsuario[u] = "Finalizado" =>
         /\ estadoUsuario'[u] = "Finalizado"
         /\ \A i \in Ids, p \in Peticion :
              /\ solicitudes[i].id_empleado = u
              /\ peticion[p].paso = "marcar" /\ peticion'[p].paso # "marcar"
              /\ peticion[p].usuario # Nulo
              => solicitudes'[i] = solicitudes[i]]_vars

(* delete_user, once it has marked the requests, marks the user               *)
(* (auth/delete.py 89-92).                                                    *)
BajaSeCompleta ==
  [][\A p \in Peticion :
       peticion[p].paso = "baja_usuario" /\ peticion'[p].paso # "baja_usuario" =>
         estadoUsuario'[peticion[p].usuario] = "Eliminada"]_vars

(* A user goes from 'Pendiente' to 'En proceso' first                         *)
(* (tests/testv1/test_onboarding.py 574-583).                                 *)
UsuarioAvanzaPorPasos ==
  [][\A u \in Usuario :
       estadoUsuario[u] = "Pendiente" => estadoUsuario'[u] # "Finalizado"]_vars
=============================================================================
