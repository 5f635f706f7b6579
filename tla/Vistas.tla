-------------------------------- MODULE Vistas --------------------------------
(****************************************************************************)
(* Who sees which requests: the lists of api/v1/onboarding/list.py and the  *)
(* history of history.py, each one SELECT on the tables as they are (the    *)
(* columns it asks first, of the chart or of one request, aside).  The      *)
(* reader is known by the job title (c) or the id (u) of the token.         *)
(* e is the query parameter estado, r the pair fecha_desde, fecha_hasta;    *)
(* Nulo is a parameter that was not sent.                                   *)
(****************************************************************************)
EXTENDS Cronica

\* What is blank has nothing to strip or to fold, and there is nothing to strip
\* twice; two texts that are the same for SQLite, which folds and trims less,
\* are the same for Python.
ASSUME VistasAssumption ==
  /\ \A t \in Texto : Strip[Strip[t]] = Strip[t] /\ (Lower[t] = "" <=> t = "")
  /\ Strip[""] = ""
  /\ \A s, t \in Texto : Clave[s] = Clave[t] => Lower[Strip[s]] = Lower[Strip[t]]

Siempre == <<Nulo, Nulo>>

\* The column is '2026-04-04 10:00:00' and the parameter '2026-04-04T10:00:00';
\* they are compared as texts, and a space comes before a T.
EnRango(i, r) ==
  /\ r[1] # Nulo => Dia(creadas[i]) > Dia(r[1])
  /\ r[2] # Nulo => Dia(creadas[i]) <= Dia(r[2])

\* The clause of a list without, or with, the parameter estado.
EstadoListado(f, e) == IF e = Nulo THEN f.estado # "Eliminada" ELSE f.estado = e

list_onboarding_requests(c) ==
  {i \in Ids : require_permission("onboarding_listar", c) /\ EstadoListado(solicitudes[i], Nulo)}

list_my_onboarding_requests(u, e, r) ==
  {i \in Ids : /\ solicitudes[i].id_empleado = u
               /\ EstadoListado(solicitudes[i], e)
               /\ EnRango(i, r)}

list_team_onboarding_requests(c, e, r) ==
  {i \in Ids : /\ is_direct_boss_of_cargo(c, CargoDe[solicitudes[i].id_empleado])
               /\ EstadoListado(solicitudes[i], e)
               /\ EnRango(i, r)}

\* Variant: the recipient is compared as it is stored.
DirigidaA_Exacta(i, c) ==
  solicitudes[i].destinatario \in {Strip[NombreCargo[c]], Strip[Area[c]]} \ {""}

\* The recipient is the name or the area of the job title, for SQLite.
DirigidaA(i, c) ==
  LET propios == {Strip[NombreCargo[c]], Strip[Area[c]]}
  IN  /\ propios # {""}
      /\ solicitudes[i].destinatario # Nulo
      /\ Clave[solicitudes[i].destinatario] \in {Clave[t] : t \in propios}

list_assigned_onboarding_requests(c, r) ==
  {i \in Ids : /\ c \in Cargo
               /\ DirigidaA(i, c)
               /\ solicitudes[i].estado = "En proceso"
               /\ EnRango(i, r)}

\* Variant: the direct boss of the employee is left out.
VeHistorial_SinJefe(c, i) ==
  /\ solicitudes[i].estado # "Eliminada"
  /\ estadoUsuario[solicitudes[i].id_empleado] # "Eliminada"
  /\ can_update_onboarding_request(c, solicitudes[i].destinatario)

\* get_onboarding_request_history answers with the rows of request i.
VeHistorial(c, i) ==
  /\ solicitudes[i].estado # "Eliminada"
  /\ estadoUsuario[solicitudes[i].id_empleado] # "Eliminada"
  /\ can_view_onboarding_history(c, solicitudes[i].destinatario,
                                 CargoDe[solicitudes[i].id_empleado])

----------------------------------------------------------------------------
\* The job titles of those who may ask: a token without one is refused.
Lectores == {CargoDe[u] : u \in Usuario} \cap Cargo

\* SQLite folds t as Python does: it has no capital with an accent.
PliegueComun(t) == Clave[t] = Lower[Strip[t]]

(* A request is never stuck for want of being seen: whoever may move it on,   *)
(* by update.py (Python's lower and strip), finds it in the list of the team  *)
(* or of the assigned (SQLite's LOWER and TRIM), whatever was edited, unless  *)
(* the recipient was typed with an accented capital.                          *)
QuienPuedeAvanzarLaVe ==
  \A c \in Lectores, i \in Ids :
    /\ PuedeAvanzar(c, solicitudes[i])
    /\ solicitudes[i].estado = "En proceso" =>
         \A t \in {solicitudes[i].destinatario, Strip[NombreCargo[c]], Strip[Area[c]]} :
           PliegueComun(t)
    => i \in list_team_onboarding_requests(c, Nulo, Siempre)
             \cup list_assigned_onboarding_requests(c, Siempre)

(* A list leads to no error. Whoever has a request in a list of requests of   *)
(* others can read its history too, although one asks SQLite and the other    *)
(* asks Python, unless the employee is gone; and the list of one's own        *)
(* requests has none with 'Eliminada', which OnboardingResponse cannot hold   *)
(* and which would make the whole list a 500.                                 *)
HistorialConsultable ==
  /\ \A c \in Lectores :
       \A i \in list_onboarding_requests(c) \cup list_team_onboarding_requests(c, Nulo, Siempre)
                \cup list_assigned_onboarding_requests(c, Siempre) :
         estadoUsuario[solicitudes[i].id_empleado] # "Eliminada" => VeHistorial(c, i)
  /\ \A u \in Usuario : \A i \in list_my_onboarding_requests(u, Nulo, Siempre) :
       RespuestaDe(solicitudes[i]) = "ok"

(* A list asked for a range of instants has the requests created in it        *)
(* (tests/testv1/test_onboarding.py 298-312).                                 *)
FiltroPorFecha ==
  \A c \in Lectores, desde, hasta \in 0..MaxReloj :
    \A i \in list_team_onboarding_requests(c, Nulo, Siempre) :
      creadas[i] \in desde..hasta =>
        i \in list_team_onboarding_requests(c, Nulo, <<desde, hasta>>)
=============================================================================
