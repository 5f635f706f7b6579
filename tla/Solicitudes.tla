----------------------------- MODULE Solicitudes -----------------------------
(****************************************************************************)
(* The onboarding requests (table SOLICITUDES), their audit trail (table    *)
(* HISTORIAL), the template catalogue (DOTACION) and the onboarding state   *)
(* of the users, as the handlers of api/v1/onboarding and auth/delete.py    *)
(* change them.                                                             *)
(*                                                                          *)
(* A handler is a coroutine that awaits one D1 statement at a time, with no *)
(* transaction: between two statements the statements of other requests    *)
(* run, in this isolate or in another.  A call of the API is an element of  *)
(* Peticion and lives once, its program counter is its field paso, and each *)
(* action is one D1 statement with the code up to the next one.  Reads of   *)
(* columns no handler writes cost no step.                                  *)
(****************************************************************************)
EXTENDS Jerarquia, Sequences, FiniteSets

CONSTANTS
  Peticion,         \* the HTTP calls of a behaviour, each used once
  Usuario,          \* USUARIO.id
  CargoDe,          \* USUARIO.cargo
  Fecha,            \* values of SOLICITUDES.fecha_fin
  Ausente,          \* a field the client did not send
  Altas,            \* bodies of POST /
  Ediciones,        \* bodies of PATCH /{solicitud_id}
  Moldes,           \* bodies of POST /dotacion
  Bajas,            \* users DELETE /usuarios/{user_id} is called for
  Iniciales,        \* SOLICITUDES at the start
  PlantillasIniciales, \* DOTACION at the start
  EstadoInicial,    \* USUARIO.estado_onboarding at the start
  EstadosUsuario,   \* what the CHECK of USUARIO.estado_onboarding allows
  MaxSimultaneas,   \* bound: calls in flight at the same time
  ConFallos         \* may a D1 call raise, or the worker be evicted?

EstadoSolicitud == {"Pendiente", "En proceso", "Finalizado", "Rechazado"}
EstadoFila == EstadoSolicitud \cup {"Eliminada"}

Fila == [id_empleado: Usuario, fecha_fin: Fecha, estado: EstadoFila,
         especificaciones: TextoONulo, destinatario: TextoONulo]

Plantilla == [encargado: TextoONulo, especificacion: Texto]

\* The body of POST /: any estado of the enum may be sent.
OnboardingRequest ==
  [id_empleado: Usuario, fecha_fin: Fecha, estado: EstadoSolicitud,
   especificaciones: TextoONulo, destinatario: TextoONulo]

\* The body of PATCH: for fecha_fin and estado, null is as good as absent.
OnboardingUpdateRequest ==
  [fecha_fin: Fecha \cup {Nulo, Ausente},
   estado: EstadoSolicitud \cup {Nulo, Ausente},
   especificaciones: TextoONulo \cup {Ausente},
   destinatario: TextoONulo \cup {Ausente}]

TipoDeEstado == {"CREACION", "CAMBIO_ESTADO", "ELIMINACION"}
TipoDeCampo ==
  {"CAMBIO_FECHA_FIN", "CAMBIO_ESPECIFICACIONES", "CAMBIO_DESTINATARIO"}

\* A row of HISTORIAL; its autonumbered id is its place in the sequence.
Asiento == [sol: Nat \ {0}, tipo: TipoDeEstado \cup TipoDeCampo,
            antiguo: EstadoFila \cup Fecha \cup Texto,
            nuevo: EstadoFila \cup Fecha \cup Texto]

ASSUME SolicitudesAssumption ==
  /\ CargoDe \in [Usuario -> Cargo \cup {Nulo}]
  /\ Altas \subseteq OnboardingRequest
  /\ Ediciones \subseteq OnboardingUpdateRequest
  /\ Moldes \subseteq [encargado: TextoONulo, especificacion: Texto]
  /\ Bajas \subseteq Usuario
  /\ Iniciales \in Seq(OnboardingRequest)
  /\ PlantillasIniciales \in Seq(Plantilla)
  /\ EstadoInicial \in [Usuario -> EstadosUsuario]
  /\ "Finalizado" \in EstadosUsuario
  /\ MaxSimultaneas \in Nat
  /\ ConFallos \in BOOLEAN
  /\ Nulo \notin Usuario /\ Ausente \notin TextoONulo
  /\ {Nulo, Ausente} \cap (Fecha \cup EstadoFila) = {}

VARIABLES
  solicitudes,   \* SOLICITUDES: row i has the autonumbered id i
  historial,     \* HISTORIAL
  dotacion,      \* DOTACION
  estadoUsuario, \* USUARIO.estado_onboarding
  peticion,      \* what each call knows and owes
  correos        \* the requests somebody was mailed about

db   == <<solicitudes, historial, dotacion, estadoUsuario, correos>>
vars == <<solicitudes, historial, dotacion, estadoUsuario, peticion, correos>>

Elementos(s) == {s[k] : k \in DOMAIN s}
Ids == DOMAIN solicitudes
\* An id of a path: one of the table, or one it does not have.
IdPedido == 1..(Len(solicitudes) + 1)

----------------------------------------------------------------------------
(* Calls.  paso names the statement the call awaits.                        *)

Respuesta == {"ok", "negada", "error"}   \* 2xx, 4xx, 500
EnEspera  == {"plantilla", "alta_dotacion", "alta", "editar", "marcar",
              "registrar", "avisar", "listar_usuario", "baja_usuario",
              "finalizar_usuario", "alta_plantilla"}
Paso == {"nueva"} \cup EnEspera \cup Respuesta

Nueva == [paso    |-> "nueva",
          sol     |-> 0,      \* the request it is about
          usuario |-> Nulo,   \* the user it is about
          leida   |-> Nulo,   \* the row PATCH read
          fila    |-> Nulo,   \* the row it is going to write
          resto   |-> {},     \* estado updates still to do, with their history
          cambios |-> <<>>,   \* history rows owed for what was written
          avisar  |-> FALSE,  \* mail to send after the history
          fin     |-> "ok"]   \* what it answers at its end

EnCurso(p) == peticion[p].paso \in EnEspera

\* A call arrives and executes up to its first write, or to its answer.
Llega(p) ==
  /\ peticion[p].paso = "nueva"
  /\ Cardinality({q \in Peticion : EnCurso(q)}) < MaxSimultaneas

Queda(p, t)     == peticion' = [peticion EXCEPT ![p] = t]
Responde(p, r)  == Queda(p, [Nueva EXCEPT !.paso = r])

\* Variant: the mail goes out before the history.
Siguiente_AvisaAntes(t) ==
  CASE t.avisar         -> "avisar"
    [] ~t.avisar /\ t.cambios # <<>> -> "registrar"
    [] ~t.avisar /\ t.cambios = <<>> /\ t.resto # {} -> "marcar"
    [] ~t.avisar /\ t.cambios = <<>> /\ t.resto = {} /\ t.usuario # Nulo -> "baja_usuario"
    [] OTHER            -> t.fin

\* The statement that follows once the one of t is done.
Siguiente(t) ==
  CASE t.cambios # <<>>   -> "registrar"
    [] t.cambios = <<>> /\ t.resto # {} -> "marcar"
    [] t.cambios = <<>> /\ t.resto = {} /\ t.avisar -> "avisar"
    [] t.cambios = <<>> /\ t.resto = {} /\ ~t.avisar /\ t.usuario # Nulo
         -> "baja_usuario"
    [] OTHER -> t.fin

Prosigue(p, t) ==
  IF Siguiente(t) \in Respuesta
    THEN Responde(p, Siguiente(t))
    ELSE Queda(p, [t EXCEPT !.paso = Siguiente(t)])

\* _register_history stores None as the empty string.
ComoTexto(v) == IF v = Nulo THEN "" ELSE v

Cambio(i, tipo, antiguo, nuevo) ==
  [sol |-> i, tipo |-> tipo,
   antiguo |-> ComoTexto(antiguo), nuevo |-> ComoTexto(nuevo)]

----------------------------------------------------------------------------
Init ==
  /\ solicitudes = Iniciales
  /\ historial =
       [i \in DOMAIN Iniciales |-> Cambio(i, "CREACION", Nulo, Iniciales[i].estado)]
  /\ dotacion = PlantillasIniciales
  /\ estadoUsuario = EstadoInicial
  /\ peticion = [p \in Peticion |-> Nueva]
  /\ correos = {}
----------------------------------------------------------------------------
(* POST /: create_onboarding_request.                                       *)

\* Variant: the comparison is by the text as stored.
Duplicada_Exacta(e, spec) ==
  \E f \in Elementos(solicitudes) : f.id_empleado = e /\ f.especificaciones = spec

Duplicada(e, spec) ==
  \E f \in Elementos(solicitudes) :
    /\ f.id_empleado = e
    /\ f.especificaciones # Nulo
    /\ Clave[f.especificaciones] = Clave[spec]

HayPlantilla(spec) ==
  \E d \in Elementos(dotacion) : Clave[d.especificacion] = Clave[spec]

FilaDeAlta(a) == [a EXCEPT !.especificaciones = Limpio(@), !.destinatario = Limpio(@)]

AltaAdmitida(u, a) ==
  /\ can_create_onboarding_for_employee(CargoDe[u], CargoDe[a.id_empleado])
  /\ FilaDeAlta(a).especificaciones # ""
  /\ FilaDeAlta(a).destinatario # ""
  /\ ~Duplicada(a.id_empleado, FilaDeAlta(a).especificaciones)

CreateOnboardingRequest(p) ==
  /\ Llega(p)
  /\ \E u \in Usuario, a \in Altas :
       \/ /\ AltaAdmitida(u, a)
          /\ Queda(p, [Nueva EXCEPT !.paso = "plantilla", !.fila = FilaDeAlta(a)])
       \/ ~AltaAdmitida(u, a) /\ Responde(p, "negada")
  /\ UNCHANGED db

\* Variant: the SELECT has lost its WHERE.
SelectTemplate_Cualquiera(p) ==
  /\ peticion[p].paso = "plantilla"
  /\ Queda(p, [peticion[p] EXCEPT !.paso = IF dotacion # <<>> THEN "alta" ELSE "alta_dotacion"])
  /\ UNCHANGED db

SelectTemplate(p) ==
  /\ peticion[p].paso = "plantilla"
  /\ LET hay == HayPlantilla(peticion[p].fila.especificaciones)
     IN  Queda(p, [peticion[p] EXCEPT !.paso = IF hay THEN "alta" ELSE "alta_dotacion"])
  /\ UNCHANGED db

InsertMissingTemplate(p) ==
  /\ peticion[p].paso = "alta_dotacion"
  /\ dotacion' = Append(dotacion, [encargado      |-> peticion[p].fila.destinatario,
                                   especificacion |-> peticion[p].fila.especificaciones])
  /\ Queda(p, [peticion[p] EXCEPT !.paso = "alta"])
  /\ UNCHANGED <<solicitudes, historial, estadoUsuario, correos>>

\* Variant: the history says 'Pendiente', whatever the body said.
InsertRequest_Pendiente(p) ==
  LET id == Len(solicitudes) + 1
  IN  /\ peticion[p].paso = "alta"
      /\ solicitudes' = Append(solicitudes, peticion[p].fila)
      /\ Prosigue(p, [Nueva EXCEPT
           !.sol = id, !.cambios = <<Cambio(id, "CREACION", Nulo, "Pendiente")>>])
      /\ UNCHANGED <<historial, dotacion, estadoUsuario, correos>>

InsertRequest(p) ==
  LET fila == peticion[p].fila
      id   == Len(solicitudes) + 1
  IN  /\ peticion[p].paso = "alta"
      /\ solicitudes' = Append(solicitudes, fila)
      /\ Prosigue(p, [Nueva EXCEPT
           !.sol = id, !.cambios = <<Cambio(id, "CREACION", Nulo, fila.estado)>>])
      /\ UNCHANGED <<historial, dotacion, estadoUsuario, correos>>

----------------------------------------------------------------------------
(* PATCH /{solicitud_id}: update_onboarding_request.                        *)

\* Variant: a null is a value for every field.
Nuevo_ConNulos(leido, enviado, nada) == IF enviado = Ausente THEN leido ELSE enviado

\* What the client sent for a field, or what was read.
Nuevo(leido, enviado, nada) == IF enviado \in nada THEN leido ELSE enviado

FilaEditada(f, e) ==
  [f EXCEPT !.fecha_fin        = Nuevo(@, e.fecha_fin, {Nulo, Ausente}),
            !.estado           = Nuevo(@, e.estado, {Nulo, Ausente}),
            !.especificaciones = Nuevo(@, e.especificaciones, {Ausente}),
            !.destinatario     = Nuevo(@, e.destinatario, {Ausente})]

SiCambia(i, tipo, a, b) == IF a = b THEN <<>> ELSE <<Cambio(i, tipo, a, b)>>

\* Variant: PATCH records the other three columns only.
Cambios_SinEstado(i, leida, fila) ==
     SiCambia(i, "CAMBIO_FECHA_FIN", leida.fecha_fin, fila.fecha_fin)
  \o SiCambia(i, "CAMBIO_ESPECIFICACIONES", leida.especificaciones, fila.especificaciones)
  \o SiCambia(i, "CAMBIO_DESTINATARIO", leida.destinatario, fila.destinatario)

Cambios(i, leida, fila) ==
     SiCambia(i, "CAMBIO_ESTADO", leida.estado, fila.estado)
  \o SiCambia(i, "CAMBIO_FECHA_FIN", leida.fecha_fin, fila.fecha_fin)
  \o SiCambia(i, "CAMBIO_ESPECIFICACIONES", leida.especificaciones, fila.especificaciones)
  \o SiCambia(i, "CAMBIO_DESTINATARIO", leida.destinatario, fila.destinatario)

\* OnboardingResponse has no 'Eliminada': such a row cannot be answered.
RespuestaDe(fila) == IF fila.estado \in EstadoSolicitud THEN "ok" ELSE "error"

EdicionAdmitida(u, i, e) ==
  /\ \E campo \in DOMAIN e : e[campo] # Ausente
  /\ i \in Ids
  /\ can_update_onboarding_request(CargoDe[u], solicitudes[i].destinatario)

UpdateOnboardingRequest(p) ==
  /\ Llega(p)
  /\ \E u \in Usuario, i \in IdPedido, e \in Ediciones :
       \/ ~EdicionAdmitida(u, i, e) /\ Responde(p, "negada")
       \/ /\ EdicionAdmitida(u, i, e)
          /\ FilaEditada(solicitudes[i], e) = solicitudes[i]
          /\ Responde(p, RespuestaDe(solicitudes[i]))
       \/ /\ EdicionAdmitida(u, i, e)
          /\ FilaEditada(solicitudes[i], e) # solicitudes[i]
          /\ Queda(p, [Nueva EXCEPT !.paso = "editar", !.sol = i,
                                    !.leida = solicitudes[i],
                                    !.fila = FilaEditada(solicitudes[i], e)])
  /\ UNCHANGED db

\* Variant: the recipient is normalised, as it is when it is compared.
FilaEscrita_Normalizada(actual, fila) ==
  [fila EXCEPT !.id_empleado  = actual.id_empleado,
               !.destinatario = IF @ = Nulo THEN @ ELSE Lower[Strip[@]]]

\* The UPDATE sets the four columns, with what was read where nothing was sent.
FilaEscrita(actual, fila) == [fila EXCEPT !.id_empleado = actual.id_empleado]

WriteUpdate(p) ==
  LET t == peticion[p]
  IN  /\ t.paso = "editar"
      /\ solicitudes' = [solicitudes EXCEPT ![t.sol] = FilaEscrita(@, t.fila)]
      /\ Prosigue(p, [Nueva EXCEPT
           !.sol     = t.sol,
           !.cambios = Cambios(t.sol, t.leida, t.fila),
           !.avisar  = t.leida.estado # "En proceso" /\ t.fila.estado = "En proceso",
           !.fin     = RespuestaDe(t.fila)])
      /\ UNCHANGED <<historial, dotacion, estadoUsuario, correos>>
----------------------------------------------------------------------------
(* The handlers that only change estado: read, decide, write, record.       *)

\* The call goes on to set the estado of the requests of resto, one by one.
Marca(p, resto) == Prosigue(p, [Nueva EXCEPT !.resto = resto])

\* _next_state; Nulo where the code raises.
STATE_FLOW == <<"Pendiente", "En proceso", "Finalizado">>
\* Variant: straight to the end, as the estado of a user goes.
next_state_Final(e) == IF e \in {"Pendiente", "En proceso"} THEN "Finalizado" ELSE Nulo

next_state(e) ==
  IF \E k \in 1..2 : STATE_FLOW[k] = e
    THEN STATE_FLOW[1 + CHOOSE k \in 1..2 : STATE_FLOW[k] = e]
    ELSE Nulo

\* Who moves a request on: out of Pendiente the direct boss of the employee,
\* out of En proceso whom the request is addressed to.
PuedeAvanzar(c, f) ==
  /\ get_payload_cargo(c)
  /\ CargoDe[f.id_empleado] # Nulo
  /\ f.estado = "Pendiente"  => is_direct_boss_of_cargo(c, CargoDe[f.id_empleado])
  /\ f.estado = "En proceso" => destination_matches_user_cargo(c, f.destinatario)
  /\ next_state(f.estado) # Nulo

AdvanceOnboardingRequestState(p) ==
  /\ Llega(p)
  /\ \E u \in Usuario, i \in IdPedido :
       \/ /\ i \in Ids
          /\ PuedeAvanzar(CargoDe[u], solicitudes[i])
          /\ LET antes   == solicitudes[i].estado
                 despues == next_state(antes)
             IN  Prosigue(p, [Nueva EXCEPT
                   !.sol    = i,
                   !.resto  = {Cambio(i, "CAMBIO_ESTADO", antes, despues)},
                   !.avisar = despues = "En proceso"])
       \/ /\ i \in Ids => ~PuedeAvanzar(CargoDe[u], solicitudes[i])
          /\ Responde(p, "negada")
  /\ UNCHANGED db

\* Variant: only a second rejection is refused.
PuedeRechazar_Finalizada(c, f) ==
  can_update_onboarding_request(c, f.destinatario) /\ f.estado # "Rechazado"

PuedeRechazar(c, f) ==
  /\ can_update_onboarding_request(c, f.destinatario)
  /\ f.estado \notin {"Rechazado", "Finalizado"}

RejectOnboardingRequest(p) ==
  /\ Llega(p)
  /\ \E u \in Usuario, i \in IdPedido :
       \/ /\ i \in Ids
          /\ PuedeRechazar(CargoDe[u], solicitudes[i])
          /\ Marca(p, {Cambio(i, "CAMBIO_ESTADO", solicitudes[i].estado, "Rechazado")})
       \/ /\ i \in Ids => ~PuedeRechazar(CargoDe[u], solicitudes[i])
          /\ Responde(p, "negada")
  /\ UNCHANGED db

\* Variant: permission is all it takes.
PuedeEliminar_EnProceso(c, f) == can_delete_onboarding_request(c, CargoDe[f.id_empleado])

PuedeEliminar(c, f) ==
  /\ f.estado # "En proceso"
  /\ can_delete_onboarding_request(c, CargoDe[f.id_empleado])

DeleteOnboardingRequest(p) ==
  /\ Llega(p)
  /\ \E u \in Usuario, i \in IdPedido :
       \/ /\ i \in Ids
          /\ PuedeEliminar(CargoDe[u], solicitudes[i])
          /\ Marca(p, {Cambio(i, "ELIMINACION", solicitudes[i].estado, "Eliminada")})
       \/ /\ i \in Ids => ~PuedeEliminar(CargoDe[u], solicitudes[i])
          /\ Responde(p, "negada")
  /\ UNCHANGED db

\* Variant: every request of the user.
PendientesDe_Todas(u) == {i \in Ids : solicitudes[i].id_empleado = u}

\* The rows of HISTORIAL say 'Pendiente', which is what the SELECT asked for.
PendientesDe(u) ==
  {i \in Ids : solicitudes[i].id_empleado = u /\ solicitudes[i].estado = "Pendiente"}

DeleteMyOnboardingRequests(p) ==
  /\ Llega(p)
  /\ \E u \in Usuario :
       Marca(p, {Cambio(i, "ELIMINACION", "Pendiente", "Eliminada") : i \in PendientesDe(u)})
  /\ UNCHANGED db

\* Variant: the call to _register_history has slipped out of the loop.
WriteState_FueraDelBucle(p) ==
  LET t == peticion[p]
  IN  /\ t.paso = "marcar"
      /\ \E c \in t.resto :
           /\ \A d \in t.resto : c.sol <= d.sol
           /\ solicitudes' = [solicitudes EXCEPT ![c.sol].estado = c.nuevo]
           /\ Prosigue(p, [t EXCEPT !.resto = @ \ {c},
                                    !.cambios = IF t.resto = {c} THEN <<c>> ELSE <<>>])
      /\ UNCHANGED <<historial, dotacion, estadoUsuario, correos>>

\* The next UPDATE of a call; the rows of a SELECT come by their id.
WriteState(p) ==
  LET t == peticion[p]
  IN  /\ t.paso = "marcar"
      /\ \E c \in t.resto :
           /\ \A d \in t.resto : c.sol <= d.sol
           /\ solicitudes' = [solicitudes EXCEPT ![c.sol].estado = c.nuevo]
           /\ Prosigue(p, [t EXCEPT !.resto = @ \ {c}, !.cambios = <<c>>])
      /\ UNCHANGED <<historial, dotacion, estadoUsuario, correos>>

\* _register_history, for the first of the rows the call owes.
RegisterHistory(p) ==
  LET t == peticion[p]
  IN  /\ t.paso = "registrar"
      /\ historial' = Append(historial, Head(t.cambios))
      /\ Prosigue(p, [t EXCEPT !.cambios = Tail(@)])
      /\ UNCHANGED <<solicitudes, dotacion, estadoUsuario, correos>>

\* _send_en_proceso_notification_email: it may fail, and says so to nobody.
SendNotification(p) ==
  LET t == peticion[p]
  IN  /\ t.paso = "avisar"
      /\ correos' \in {correos, correos \cup {t.sol}}
      /\ Prosigue(p, [t EXCEPT !.avisar = FALSE])
      /\ UNCHANGED <<solicitudes, historial, dotacion, estadoUsuario>>
----------------------------------------------------------------------------
(* POST /dotacion: create_dotacion_template.                                *)

PlantillaDe(m) ==
  [encargado      |-> IF Limpio(m.encargado) = "" THEN Nulo ELSE Limpio(m.encargado),
   especificacion |-> Limpio(m.especificacion)]

\* Variant: nobody looks for the template first.
MoldeAdmitido_Repetido(u, m) ==
  can_manage_dotacion(CargoDe[u]) /\ PlantillaDe(m).especificacion # ""

MoldeAdmitido(u, m) ==
  /\ can_manage_dotacion(CargoDe[u])
  /\ PlantillaDe(m).especificacion # ""
  /\ ~HayPlantilla(PlantillaDe(m).especificacion)

CreateDotacionTemplate(p) ==
  /\ Llega(p)
  /\ \E u \in Usuario, m \in Moldes :
       \/ /\ MoldeAdmitido(u, m)
          /\ Queda(p, [Nueva EXCEPT !.paso = "alta_plantilla", !.fila = PlantillaDe(m)])
       \/ ~MoldeAdmitido(u, m) /\ Responde(p, "negada")
  /\ UNCHANGED db

InsertTemplate(p) ==
  /\ peticion[p].paso = "alta_plantilla"
  /\ dotacion' = Append(dotacion, peticion[p].fila)
  /\ Responde(p, "ok")
  /\ UNCHANGED <<solicitudes, historial, estadoUsuario, correos>>

----------------------------------------------------------------------------
(* POST /usuarios/{id}/estado-onboarding/siguiente and DELETE               *)
(* /usuarios/{id}.                                                          *)

AdvanceUserOnboardingState(p) ==
  /\ Llega(p)
  /\ \E u, v \in Usuario :
       \/ /\ u = v
          /\ estadoUsuario[v] \notin {"Finalizado", "Eliminada"}
          /\ Queda(p, [Nueva EXCEPT !.paso = "finalizar_usuario", !.usuario = v])
       \/ /\ u # v \/ estadoUsuario[v] \in {"Finalizado", "Eliminada"}
          /\ Responde(p, "negada")
  /\ UNCHANGED db

WriteUserState(p) ==
  /\ peticion[p].paso = "finalizar_usuario"
  /\ estadoUsuario' = [estadoUsuario EXCEPT ![peticion[p].usuario] = "Finalizado"]
  /\ Responde(p, "ok")
  /\ UNCHANGED <<solicitudes, historial, dotacion, correos>>

\* Variant: nobody looks at the estado_onboarding of the user first.
BajaAdmitida_Finalizado(u, v) ==
  require_permission("usuarios_eliminar", CargoDe[u]) /\ u # v

BajaAdmitida(u, v) ==
  /\ require_permission("usuarios_eliminar", CargoDe[u])
  /\ u # v
  /\ estadoUsuario[v] # "Finalizado"

DeleteUser(p) ==
  /\ Llega(p)
  /\ \E u \in Usuario, v \in Bajas :
       \/ /\ BajaAdmitida(u, v)
          /\ Queda(p, [Nueva EXCEPT !.paso = "listar_usuario", !.usuario = v])
       \/ ~BajaAdmitida(u, v) /\ Responde(p, "negada")
  /\ UNCHANGED db

\* Variant: the rows of HISTORIAL say 'Pendiente', as those of delete mine do.
SelectUserRequests_Pendiente(p) ==
  LET t == peticion[p]
      suyas == {i \in Ids : solicitudes[i].id_empleado = t.usuario}
  IN  /\ t.paso = "listar_usuario"
      /\ Prosigue(p, [t EXCEPT !.resto =
           {Cambio(i, "ELIMINACION", "Pendiente", "Eliminada") : i \in suyas}])
      /\ UNCHANGED db

\* Variant: the SELECT of delete mine.
SelectUserRequests_SoloPendientes(p) ==
  LET t == peticion[p]
  IN  /\ t.paso = "listar_usuario"
      /\ Prosigue(p, [t EXCEPT !.resto =
           {Cambio(i, "ELIMINACION", "Pendiente", "Eliminada") : i \in PendientesDe(t.usuario)}])
      /\ UNCHANGED db

\* Every request of the user, whatever its estado.
SelectUserRequests(p) ==
  LET t == peticion[p]
      suyas == {i \in Ids : solicitudes[i].id_empleado = t.usuario}
  IN  /\ t.paso = "listar_usuario"
      /\ Prosigue(p, [t EXCEPT !.resto =
           {Cambio(i, "ELIMINACION", solicitudes[i].estado, "Eliminada") : i \in suyas}])
      /\ UNCHANGED db

\* The UPDATE violates the CHECK unless the CHECK has 'Eliminada'.
MarkUserDeleted(p) ==
  /\ peticion[p].paso = "baja_usuario"
  /\ \/ /\ "Eliminada" \in EstadosUsuario
        /\ estadoUsuario' = [estadoUsuario EXCEPT ![peticion[p].usuario] = "Eliminada"]
        /\ Responde(p, "ok")
     \/ /\ "Eliminada" \notin EstadosUsuario
        /\ estadoUsuario' = estadoUsuario
        /\ Responde(p, "error")
  /\ UNCHANGED <<solicitudes, historial, dotacion, correos>>

----------------------------------------------------------------------------
\* A statement raises or the worker is evicted: the client gets a 500, or
\* nothing, and the call ends with the rows it still owed never written.
Fail(p) ==
  /\ ConFallos
  /\ EnCurso(p)
  /\ Queda(p, [Nueva EXCEPT !.paso = "error", !.cambios = peticion[p].cambios])
  /\ UNCHANGED db

Arrive(p) ==
  \/ CreateOnboardingRequest(p)
  \/ UpdateOnboardingRequest(p)
  \/ AdvanceOnboardingRequestState(p)
  \/ RejectOnboardingRequest(p)
  \/ DeleteOnboardingRequest(p)
  \/ DeleteMyOnboardingRequests(p)
  \/ CreateDotacionTemplate(p)
  \/ AdvanceUserOnboardingState(p)
  \/ DeleteUser(p)

Continue(p) ==
  \/ SelectTemplate(p)
  \/ InsertMissingTemplate(p)
  \/ InsertRequest(p)
  \/ WriteUpdate(p)
  \/ WriteState(p)
  \/ RegisterHistory(p)
  \/ SendNotification(p)
  \/ InsertTemplate(p)
  \/ WriteUserState(p)
  \/ SelectUserRequests(p)
  \/ MarkUserDeleted(p)

\* Every call of the behaviour has been answered.
Terminated ==
  /\ \A p \in Peticion : peticion[p].paso \in Respuesta
  /\ UNCHANGED vars

Next ==
  \/ \E p \in Peticion : Arrive(p) \/ Continue(p) \/ Fail(p)
  \/ Terminated

Spec == Init /\ [][Next]_vars

\* A handler that awaits an answer of D1 gets it and goes on; nobody has to call.
FairSpec == Spec /\ \A p \in Peticion : WF_vars(Continue(p))
----------------------------------------------------------------------------
(* What holds, however the statements of the calls interleave.              *)

Llamada ==
  [paso: Paso, sol: Nat, usuario: Usuario \cup {Nulo}, leida: Fila \cup {Nulo},
   fila: Fila \cup Plantilla \cup {Nulo}, resto: SUBSET Asiento,
   cambios: Seq(Asiento), avisar: BOOLEAN, fin: Respuesta]

\* What a call holds fits the statement it awaits; ids are the requests there are.
Coherente(t, ids) ==
  /\ t.paso \in {"plantilla", "alta_dotacion", "alta", "editar"} => t.fila \in Fila
  /\ t.paso \in {"plantilla", "alta_dotacion"} => t.fila.especificaciones \in Texto
  /\ t.paso = "editar" => t.leida \in Fila /\ t.sol \in ids
  /\ t.paso = "alta_plantilla" => t.fila \in Plantilla
  /\ t.paso \in {"finalizar_usuario", "listar_usuario", "baja_usuario"} =>
       t.usuario \in Usuario
  /\ t.paso = "avisar" => t.avisar
  /\ t.avisar => t.sol \in ids
  /\ t.paso = "registrar" => t.cambios # <<>>
  /\ t.cambios # <<>> => t.paso \in {"registrar", "error"}
  /\ \A c \in t.resto :
       c.sol \in ids /\ c.tipo \in {"CAMBIO_ESTADO", "ELIMINACION"} /\ c.nuevo \in EstadoFila
  /\ \A k \in DOMAIN t.cambios : t.cambios[k].sol \in ids

\* The type invariant.
TypeOK ==
  /\ solicitudes \in Seq(Fila)
  /\ historial \in Seq(Asiento)
  /\ dotacion \in Seq(Plantilla)
  /\ estadoUsuario \in [Usuario -> EstadosUsuario]
  /\ peticion \in [Peticion -> Llamada]
  /\ correos \subseteq Ids
  /\ \A p \in Peticion : Coherente(peticion[p], Ids)

\* A row says that request i took the estado e.
Dice(h, i, e) == h.sol = i /\ h.tipo \in TipoDeEstado /\ h.nuevo = e

Consta(asientos, i, e) == \E h \in asientos : Dice(h, i, e)

\* The rows of HISTORIAL, and with them those owed for what is written already
\* (by a call that failed, for ever).
Escritos == Elementos(historial)
Asientos == Escritos \cup UNION {Elementos(peticion[p].cambios) : p \in Peticion}

Registrado(i, e) == Consta(Escritos, i, e)
Acreditado(i, e) == Consta(Asientos, i, e)

\* What call t holds is founded on the rows there are.
Fundada(t, escritos, asientos) ==
  /\ t.paso = "editar" => Consta(asientos, t.sol, t.leida.estado)
  /\ \A c \in t.resto \cup Elementos(t.cambios) :
       c.tipo \in {"CAMBIO_ESTADO", "ELIMINACION"} => Consta(asientos, c.sol, c.antiguo)
  /\ t.paso \in {"avisar", "listar_usuario"} => t.resto = {}
  /\ t.avisar => Consta(escritos \cup Elementos(t.cambios) \cup t.resto, t.sol, "En proceso")

(* What a call read before an await and still holds was true of the request:  *)
(* the estado PATCH read, the estado_antiguo of the rows to be written, the   *)
(* passage to 'En proceso' somebody is to be mailed about.  The properties    *)
(* that follow are inductive only together with this one and TypeOK.          *)
LlamadasFundadas ==
  \A p \in Peticion : Fundada(peticion[p], Escritos, Asientos)

(* The estado of every request is one that HISTORIAL records for it, or that  *)
(* some call has written and still owes the row of: no handler writes estado  *)
(* without a row of its own to follow (update.py 233-258, 334-355, 475-496,   *)
(* delete.py 95-107, 160-175, auth/delete.py 68-87, create.py 98-127).        *)
EstadoAcreditado ==
  \A i \in Ids : Acreditado(i, solicitudes[i].estado)

(* The estado_antiguo of a row is an estado the request really went through,  *)
(* although it was read long before the row is written, and although          *)
(* delete_my_onboarding_requests writes 'Pendiente' without having read it.   *)
HistorialVeraz ==
  \A h \in Escritos :
    h.tipo \in {"CAMBIO_ESTADO", "ELIMINACION"} => Acreditado(h.sol, h.antiguo)

(* When no call is running and none has ended in an error, HISTORIAL has the  *)
(* estado of every request: the audit trail is only ever cut short by a call  *)
(* that failed between its UPDATE and its INSERT.                             *)
HistorialCompleto ==
  (\A p \in Peticion : peticion[p].paso \in {"nueva", "ok", "negada"}) =>
    \A i \in Ids : Registrado(i, solicitudes[i].estado)

(* Nobody is mailed that a request is 'En proceso' before HISTORIAL says so   *)
(* (update.py 248-272 and 349-368: the mail is sent last).                    *)
AvisoFundado == \A i \in correos : Registrado(i, "En proceso")

\* A PATCH has changed the especificaciones of request i.
TipoEditado(i) ==
  \E h \in Asientos : h.sol = i /\ h.tipo = "CAMBIO_ESPECIFICACIONES"

(* Every request created has its template in DOTACION, even if the call that  *)
(* created it lost a race or failed half way (create.py 88-119: the template  *)
(* goes first), unless a PATCH has made it of another kind: that leaves a row *)
(* (update.py 219-225).                                                       *)
TodaSolicitudTienePlantilla ==
  \A i \in Ids : TipoEditado(i) \/ HayPlantilla(solicitudes[i].especificaciones)

(* A request that turns 'Finalizado' was 'En proceso' before, by a row that   *)
(* is written or owed, whoever else advances, edits, rejects or deletes it    *)
(* meanwhile (_STATE_FLOW, update.py 32 and 148-157).  PATCH alone may write  *)
(* it from any estado (update.py 197-202; tests/testv1/test_onboarding.py     *)
(* 477-486 finishes one so), and never in silence: it owes the row that tells *)
(* of it, or it writes back the 'Finalizado' it had read, which is recorded   *)
(* or owed.                                                                   *)
FinalizaTrasEnProceso ==
  [][\A i \in Ids :
       solicitudes[i].estado # "Finalizado" /\ solicitudes'[i].estado = "Finalizado" =>
         \/ Acreditado(i, "En proceso")
         \/ \E p \in Peticion :
              /\ peticion[p].paso = "editar" /\ peticion[p].sol = i
              /\ peticion'[p].paso # "editar"
              /\ \/ Acreditado(i, "Finalizado")
                 \/ Consta(Elementos(peticion'[p].cambios), i, "Finalizado")]_vars

(* Whatever calls come and however they overlap, there is always a later      *)
(* moment at which HISTORIAL has the estado of every request: no call keeps   *)
(* it behind for ever, if no statement fails.                                 *)
HistorialSePoneAlDia ==
  []<>(\A i \in Ids : Registrado(i, solicitudes[i].estado))
=============================================================================
