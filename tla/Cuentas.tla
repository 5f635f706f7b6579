------------------------------- MODULE Cuentas -------------------------------
(****************************************************************************)
(* Accounts: POST /v1/auth/signup and POST /v1/auth/activate-password       *)
(* (api/v1/auth/signin.py), on the tables USUARIO, ACTIVACION_USUARIO,      *)
(* SOLICITUDES and HISTORIAL, one D1 statement at a time.                   *)
(*                                                                          *)
(* CREATE TABLE IF NOT EXISTS, the look-up of the boss and the e-mails      *)
(* change no row and cost no step.  The clock is time.time() of whichever   *)
(* isolate reads it: a tick is what an expiry tells apart, and a statement  *)
(* may be answered any number of ticks after the code before it.            *)
(****************************************************************************)
EXTENDS Jerarquia, Sequences, FiniteSets

CONSTANTS
  Peticion,    \* the HTTP calls of a behaviour, each used once
  Correo,      \* values of USUARIO.correo
  Contrasena,  \* the passwords people choose
  Placeholder, \* 'PENDIENTE_ACTIVACION'
  CargoPedido, \* SignupRequest.cargo: a job title, none, or one there is not
  ACTIVATION_TOKEN_TTL_SECONDS, \* in ticks
  MaxReloj,    \* bound: the last instant
  ConFallos    \* may a D1 call raise, or the worker be evicted?

ASSUME CuentasAssumption ==
  /\ Placeholder \notin Contrasena
  /\ Nulo \notin Correo \cup Contrasena
  /\ ACTIVATION_TOKEN_TTL_SECONDS \in Nat /\ MaxReloj \in Nat
  /\ ConFallos \in BOOLEAN

VARIABLES
  usuarios,     \* USUARIO: row i has the autonumbered id i
  activaciones, \* ACTIVACION_USUARIO: a token stands for the row it is in
  solicitudes,  \* SOLICITUDES, of each its employee and its place among the defaults
  creadas,      \* the requests HISTORIAL has a CREACION row of
  peticion,     \* what each call knows and has to do
  reloj         \* the present instant

db   == <<usuarios, activaciones, solicitudes, creadas, reloj>>
vars == <<usuarios, activaciones, solicitudes, creadas, peticion, reloj>>

\* The requests every new user gets, numbered.
Predeterminadas == 1..3

Respuesta == {"ok", "negada", "error"}
EnEspera  == {"alta", "solicitud", "registrar", "enlace", "token", "contrasena", "usada"}

Nueva == [paso    |-> "nueva",
          correo  |-> Nulo,   \* the body of signup
          cargo   |-> Nulo,
          usuario |-> 0,      \* the user it creates or activates
          sol     |-> 0,      \* the request it has inserted last
          resto   |-> {},     \* the default requests still to insert
          caduca  |-> 0,      \* expires_at of the token it is going to insert
          token   |-> 0,      \* the body of activate_password
          clave   |-> Nulo,
          ahora   |-> 0,      \* now_ts of activate_password
          previas |-> {}]     \* ghost: who had been answered ok for that token

EnCurso(p) == peticion[p].paso \in EnEspera
Queda(p, t) == peticion' = [peticion EXCEPT ![p] = t]
Pasa(p, paso) == Queda(p, [peticion[p] EXCEPT !.paso = paso])

\* Variant: dict.get without a default.
role_from_cargo_SinDefecto(c) ==
  CASE c = 2  -> "Root"
    [] c = 48 -> "Administrador"
    [] c = 49 -> "Encargado de Area"
    [] OTHER  -> Nulo

role_from_cargo(c) ==
  CASE c = 2  -> "Root"
    [] c = 48 -> "Administrador"
    [] c = 49 -> "Encargado de Area"
    [] OTHER  -> "Operador"

Init ==
  /\ usuarios = <<>> /\ activaciones = <<>> /\ solicitudes = <<>> /\ creadas = {}
  /\ reloj = 0
  /\ peticion = [p \in Peticion |-> Nueva]
----------------------------------------------------------------------------
(* POST /signup: signup.                                                    *)

Tomado(correo) == \E i \in DOMAIN usuarios : usuarios[i].correo = correo

Signup(p) ==
  /\ peticion[p].paso = "nueva"
  /\ \E quien \in Cargo, correo \in Correo, cargo \in CargoPedido :
       LET admitida == require_permission("auth_signup", quien) /\ ~Tomado(correo)
       IN  Queda(p, [Nueva EXCEPT !.paso = IF admitida THEN "alta" ELSE "negada",
                                  !.correo = correo, !.cargo = cargo])
  /\ UNCHANGED db

\* Variant: USUARIO without UNIQUE (correo).
CabeEnUsuario_SinUnique(correo, cargo) == cargo \in Cargo \cup {Nulo}

\* UNIQUE (correo) and FOREIGN KEY (cargo) hold of the new row.
CabeEnUsuario(correo, cargo) == ~Tomado(correo) /\ cargo \in Cargo \cup {Nulo}

InsertUser(p) ==
  LET t == peticion[p]
  IN  /\ t.paso = "alta"
      /\ \/ /\ CabeEnUsuario(t.correo, t.cargo)
            /\ usuarios' = Append(usuarios,
                 [correo |-> t.correo, contrasena |-> Placeholder,
                  rol |-> role_from_cargo(t.cargo), cargo |-> t.cargo])
            /\ Queda(p, [t EXCEPT !.paso = "solicitud", !.usuario = Len(usuarios) + 1,
                                  !.resto = Predeterminadas])
         \/ /\ ~CabeEnUsuario(t.correo, t.cargo)
            /\ Pasa(p, "error")
            /\ UNCHANGED usuarios
      /\ UNCHANGED <<activaciones, solicitudes, creadas, reloj>>

InsertDefaultRequest(p) ==
  LET t == peticion[p]
  IN  /\ t.paso = "solicitud"
      /\ \E n \in t.resto :
           /\ \A m \in t.resto : n <= m
           /\ solicitudes' = Append(solicitudes, [id_empleado |-> t.usuario, orden |-> n])
           /\ Queda(p, [t EXCEPT !.paso = "registrar", !.sol = Len(solicitudes) + 1,
                                 !.resto = @ \ {n}])
      /\ UNCHANGED <<usuarios, activaciones, creadas, reloj>>

\* expires_at is set before the INSERT that is awaited next.
ConCaducidad(t) ==
  [t EXCEPT !.paso = "enlace", !.caduca = reloj + ACTIVATION_TOKEN_TTL_SECONDS]

\* Variant: the loop inserts first, and the history is left for the end.
RegisterCreation_AlFinal(p) ==
  LET t == peticion[p]
  IN  /\ t.paso = "registrar"
      /\ creadas' = IF t.resto = {} THEN creadas \cup {t.sol} ELSE creadas
      /\ \/ t.resto # {} /\ Pasa(p, "solicitud")
         \/ t.resto = {} /\ Queda(p, ConCaducidad(t))
      /\ UNCHANGED <<usuarios, activaciones, solicitudes, reloj>>

RegisterCreation(p) ==
  LET t == peticion[p]
  IN  /\ t.paso = "registrar"
      /\ creadas' = creadas \cup {t.sol}
      /\ \/ t.resto # {} /\ Pasa(p, "solicitud")
         \/ t.resto = {} /\ Queda(p, ConCaducidad(t))
      /\ UNCHANGED <<usuarios, activaciones, solicitudes, reloj>>

\* Variant: the id is looked up again, as the last one of the table.
InsertToken_UltimoId(p) ==
  /\ peticion[p].paso = "enlace"
  /\ activaciones' = Append(activaciones, [usuario |-> Len(usuarios), used |-> FALSE,
                                          caduca |-> peticion[p].caduca])
  /\ Pasa(p, "ok")
  /\ UNCHANGED <<usuarios, solicitudes, creadas, reloj>>

InsertToken(p) ==
  /\ peticion[p].paso = "enlace"
  /\ activaciones' = Append(activaciones, [usuario |-> peticion[p].usuario, used |-> FALSE,
                                          caduca |-> peticion[p].caduca])
  /\ Pasa(p, "ok")
  /\ UNCHANGED <<usuarios, solicitudes, creadas, reloj>>
----------------------------------------------------------------------------
(* POST /activate-password: activate_password.                              *)

\* now_ts is taken before the row of the token is asked for; a token that was
\* never issued is not guessed.
ActivatePassword(p) ==
  /\ peticion[p].paso = "nueva"
  /\ \/ \E k \in DOMAIN activaciones, clave \in Contrasena :
          Queda(p, [Nueva EXCEPT !.paso = "token", !.token = k, !.clave = clave,
                                 !.ahora = reloj])
     \/ Queda(p, [Nueva EXCEPT !.paso = "negada"])
  /\ UNCHANGED db

\* Variant: whether it has expired is not asked.
Vigente_SinCaducidad(a, ahora) == ~a.used

\* Variant: whether it was used is not asked.
Vigente_SinUso(a, ahora) == a.caduca >= ahora

Vigente(a, ahora) == ~a.used /\ a.caduca >= ahora

SelectToken(p) ==
  LET t == peticion[p]
      a == activaciones[t.token]
  IN  /\ t.paso = "token"
      /\ \/ /\ Vigente(a, t.ahora)
            /\ Queda(p, [t EXCEPT !.paso = "contrasena", !.usuario = a.usuario,
                                  !.previas = {q \in Peticion : /\ peticion[q].token = t.token
                                                                /\ peticion[q].paso = "ok"}])
         \/ ~Vigente(a, t.ahora) /\ Queda(p, [Nueva EXCEPT !.paso = "negada"])
      /\ UNCHANGED db

\* Variant: the id of the activation, where its user_id belongs.
WritePassword_IdDeActivacion(p) ==
  LET t == peticion[p]
  IN  /\ t.paso = "contrasena"
      /\ usuarios' = [usuarios EXCEPT ![t.token].contrasena = t.clave]
      /\ Pasa(p, "usada")
      /\ UNCHANGED <<activaciones, solicitudes, creadas, reloj>>

WritePassword(p) ==
  LET t == peticion[p]
  IN  /\ t.paso = "contrasena"
      /\ usuarios' = [usuarios EXCEPT ![t.usuario].contrasena = t.clave]
      /\ Pasa(p, "usada")
      /\ UNCHANGED <<activaciones, solicitudes, creadas, reloj>>

\* Variant: the user's id, where the token belongs.
MarkTokenUsed_IdDeUsuario(p) ==
  LET k == peticion[p].usuario
  IN  /\ peticion[p].paso = "usada"
      /\ activaciones' = [activaciones EXCEPT ![k].used = TRUE]
      /\ Pasa(p, "ok")
      /\ UNCHANGED <<usuarios, solicitudes, creadas, reloj>>

MarkTokenUsed(p) ==
  /\ peticion[p].paso = "usada"
  /\ activaciones' = [activaciones EXCEPT ![peticion[p].token].used = TRUE]
  /\ Pasa(p, "ok")
  /\ UNCHANGED <<usuarios, solicitudes, creadas, reloj>>
----------------------------------------------------------------------------
Fail(p) ==
  /\ ConFallos
  /\ EnCurso(p)
  /\ Pasa(p, "error")
  /\ UNCHANGED db

Arrive(p) == Signup(p) \/ ActivatePassword(p)

Continue(p) ==
  \/ InsertUser(p)
  \/ InsertDefaultRequest(p)
  \/ RegisterCreation(p)
  \/ InsertToken(p)
  \/ SelectToken(p)
  \/ WritePassword(p)
  \/ MarkTokenUsed(p)

Tick ==
  /\ reloj < MaxReloj
  /\ reloj' = reloj + 1
  /\ UNCHANGED <<usuarios, activaciones, solicitudes, creadas, peticion>>

Terminated ==
  /\ \A p \in Peticion : peticion[p].paso \in Respuesta
  /\ UNCHANGED vars

Next ==
  \/ \E p \in Peticion : Arrive(p) \/ Continue(p) \/ Fail(p)
  \/ Tick
  \/ Terminated

Spec == Init /\ [][Next]_vars
----------------------------------------------------------------------------
RolAdmitido == {"Root", "Administrador", "Encargado de Area", "Operador"}

\* The ids of the requests of user i.
DeUsuario(i) == {s \in DOMAIN solicitudes : solicitudes[s].id_empleado = i}

\* The type invariant, foreign keys included.
TypeOK ==
  /\ usuarios \in Seq([correo: Correo, contrasena: Contrasena \cup {Placeholder},
                       rol: RolAdmitido, cargo: Cargo \cup {Nulo}])
  /\ activaciones \in Seq([usuario: DOMAIN usuarios, used: BOOLEAN, caduca: Nat])
  /\ solicitudes \in Seq([id_empleado: DOMAIN usuarios, orden: Predeterminadas])
  /\ creadas \subseteq DOMAIN solicitudes
  /\ reloj \in 0..MaxReloj
  /\ peticion \in [Peticion ->
       [paso: {"nueva"} \cup EnEspera \cup Respuesta, correo: Correo \cup {Nulo},
        cargo: CargoPedido \cup {Nulo}, usuario: {0} \cup DOMAIN usuarios,
        sol: {0} \cup DOMAIN solicitudes, resto: SUBSET Predeterminadas, caduca: Nat,
        token: {0} \cup DOMAIN activaciones, clave: Contrasena \cup {Nulo},
        ahora: 0..reloj, previas: SUBSET Peticion]]

(* One user per address, although signup looks for the address three         *)
(* statements before it inserts it (signin.py 150-173): UNIQUE (correo) of    *)
(* schema.sql stops the second of two.                                       *)
CorreoUnico ==
  \A i, j \in DOMAIN usuarios : usuarios[i].correo = usuarios[j].correo => i = j

(* A signup that answers ok has made everything a new employee needs: each   *)
(* of the default requests, once, with its CREACION row, and the token that   *)
(* activates that user and no other, whoever else signs up meanwhile          *)
(* (signin.py 211-236).                                                       *)
AltaCompleta ==
  \A p \in Peticion :
    LET i == peticion[p].usuario
    IN  peticion[p].paso = "ok" /\ peticion[p].token = 0 =>
          /\ \A n \in Predeterminadas :
               \E s \in DeUsuario(i) \cap creadas : solicitudes[s].orden = n
          /\ Cardinality(DeUsuario(i)) = Cardinality(Predeterminadas)
          /\ \E k \in DOMAIN activaciones : activaciones[k].usuario = i

(* Wherever a signup is cut short, the default requests of the user it        *)
(* created are the first ones of the list, and HISTORIAL lacks the last of    *)
(* them at most (signin.py 100-132: insert, record, next).                    *)
AltaPorOrden ==
  \A i \in DOMAIN usuarios : \A s \in DeUsuario(i) :
    /\ \A n \in 1..(solicitudes[s].orden - 1) :
         \E r \in DeUsuario(i) \cap creadas : r < s /\ solicitudes[r].orden = n
    /\ s \notin creadas => \A r \in DeUsuario(i) : r <= s

(* A token is spent only for a password: marked used, its user has one, even  *)
(* if the call failed between its two UPDATEs (signin.py 314-320: a failure   *)
(* leaves a token that may be presented again, not an account locked out).    *)
TokenGastadoConContrasena ==
  \A k \in DOMAIN activaciones :
    activaciones[k].used => usuarios[activaciones[k].usuario].contrasena # Placeholder

(* A user with a password has spent a token, or the call that set the         *)
(* password is about to mark it, or failed before it could.                   *)
ContrasenaGastaToken ==
  \A i \in DOMAIN usuarios :
    usuarios[i].contrasena # Placeholder =>
      \E k \in DOMAIN activaciones :
        /\ activaciones[k].usuario = i
        /\ \/ activaciones[k].used
           \/ \E p \in Peticion : /\ peticion[p].token = k
                                 /\ peticion[p].usuario = i
                                 /\ peticion[p].clave = usuarios[i].contrasena
                                 /\ peticion[p].paso \in {"usada", "error"}

(* A password that was answered ok is the one of the account, unless another  *)
(* call had read the same token before this one marked it (signin.py 293-320: *)
(* the token is read, and marked two statements later).                       *)
ContrasenaAceptadaVale ==
  \A p \in Peticion :
    peticion[p].paso = "ok" /\ peticion[p].token # 0 =>
      \/ usuarios[peticion[p].usuario].contrasena = peticion[p].clave
      \/ \E q \in Peticion \ {p} : /\ peticion[q].token = peticion[p].token
                                     /\ peticion[q].usuario = peticion[p].usuario
                                     /\ p \notin peticion[q].previas

\* Nobody works on the account of user i, and every token it has is past.
Perdida(i) ==
  /\ usuarios[i].contrasena = Placeholder
  /\ \A k \in DOMAIN activaciones :
       activaciones[k].usuario = i => activaciones[k].caduca < reloj
  /\ \A p \in Peticion : EnCurso(p) =>
       /\ peticion[p].usuario # i
       /\ peticion[p].paso = "token" =>
            LET a == activaciones[peticion[p].token]
            IN  a.usuario = i => a.caduca < peticion[p].ahora

(* An account whose hour has gone by stays locked whatever is called: no      *)
(* late answer activates it with an expired token, no signup takes the        *)
(* address again, nothing issues another token (signin.py 150-158, 309).      *)
CuentaPerdidaNoVuelve ==
  [][\A i \in DOMAIN usuarios : Perdida(i) => Perdida(i)']_vars
=============================================================================
