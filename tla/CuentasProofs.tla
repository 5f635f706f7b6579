---------------------------- MODULE CuentasProofs ----------------------------
(****************************************************************************)
(* What holds of Cuentas for any number of calls, addresses, passwords and  *)
(* job titles, with any time to live and a clock that goes as far as wanted.*)
(****************************************************************************)
EXTENDS Cuentas, FiniteSetTheorems, TLAPS

\* The sets TypeOK takes its rows and calls from.
FilaDeUsuario == [correo: Correo, contrasena: Contrasena \cup {Placeholder},
                  rol: RolAdmitido, cargo: Cargo \cup {Nulo}]

FilaDeActivacion == [usuario: DOMAIN usuarios, used: BOOLEAN, caduca: Nat]

FilaDeSolicitud == [id_empleado: DOMAIN usuarios, orden: Predeterminadas]

Llamada ==
  [paso: {"nueva"} \cup EnEspera \cup Respuesta, correo: Correo \cup {Nulo},
   cargo: CargoPedido \cup {Nulo}, usuario: {0} \cup DOMAIN usuarios,
   sol: {0} \cup DOMAIN solicitudes, resto: SUBSET Predeterminadas, caduca: Nat,
   token: {0} \cup DOMAIN activaciones, clave: Contrasena \cup {Nulo},
   ahora: 0..reloj, previas: SUBSET Peticion]

DeAlta == {"solicitud", "registrar", "enlace"}

\* What a call has by the step it is at.
Etapa(p) ==
  LET t == peticion[p]
  IN  /\ t.paso \in {"nueva", "alta", "negada", "token"} => t.usuario = 0
      /\ t.paso \in {"nueva", "alta"} \cup DeAlta => t.token = 0
      /\ t.paso = "alta" => t.correo \in Correo
      /\ t.paso \in DeAlta => t.usuario # 0
      /\ t.paso = "registrar" => t.sol # 0
      /\ t.paso \in {"token", "contrasena", "usada"} => t.token # 0 /\ t.clave \in Contrasena
      /\ t.paso \in {"contrasena", "usada"} => t.usuario # 0

Etapas == \A p \in Peticion : Etapa(p)

Formados == TypeOK /\ Etapas

LEMMA TablasTipadas ==
  ASSUME TypeOK
  PROVE  /\ usuarios \in Seq(FilaDeUsuario)
         /\ activaciones \in Seq(FilaDeActivacion)
         /\ solicitudes \in Seq(FilaDeSolicitud)
         /\ peticion \in [Peticion -> Llamada]
         /\ creadas \subseteq DOMAIN solicitudes
         /\ reloj \in 0..MaxReloj
  BY DEF TypeOK, FilaDeUsuario, FilaDeActivacion, FilaDeSolicitud, Llamada

LEMMA TablasTipadasYa ==
  ASSUME usuarios' \in Seq(FilaDeUsuario'), activaciones' \in Seq(FilaDeActivacion'),
         solicitudes' \in Seq(FilaDeSolicitud'), peticion' \in [Peticion -> Llamada'],
         creadas' \subseteq DOMAIN solicitudes', reloj' \in 0..MaxReloj
  PROVE  TypeOK'
  BY DEF TypeOK, FilaDeUsuario, FilaDeActivacion, FilaDeSolicitud, Llamada

LEMMA SeqCrece ==
  ASSUME NEW S, NEW T, S \subseteq T
  PROVE  Seq(S) \subseteq Seq(T)
  OBVIOUS

(* Tables only grow, and so do the sets that are made of them.                *)
LEMMA Crecen ==
  ASSUME TypeOK,
         DOMAIN usuarios \subseteq DOMAIN usuarios',
         DOMAIN activaciones \subseteq DOMAIN activaciones',
         DOMAIN solicitudes \subseteq DOMAIN solicitudes',
         reloj' \in Nat, reloj <= reloj'
  PROVE  /\ Llamada \subseteq Llamada'
         /\ FilaDeUsuario' = FilaDeUsuario
         /\ FilaDeActivacion \subseteq FilaDeActivacion'
         /\ FilaDeSolicitud \subseteq FilaDeSolicitud'
<1>1. 0..reloj \subseteq 0..reloj'
  BY DEF TypeOK
<1>2. Llamada \subseteq Llamada'
  BY <1>1 DEF Llamada
<1> QED
  BY <1>2 DEF FilaDeUsuario, FilaDeActivacion, FilaDeSolicitud

(* A call that changes only its own record.                                   *)
LEMMA Propia ==
  ASSUME TypeOK, NEW p \in Peticion, NEW t, Queda(p, t)
  PROVE  /\ peticion'[p] = t
         /\ \A q \in Peticion \ {p} : peticion'[q] = peticion[q]
         /\ Llamada \subseteq Llamada' /\ t \in Llamada' => peticion' \in [Peticion -> Llamada']
<1>1. peticion \in [Peticion -> Llamada]
  BY TablasTipadas
<1> QED
  BY <1>1 DEF Queda

(* The step of a call that leaves every table as it is.                       *)
LEMMA SinTablas ==
  ASSUME Formados, NEW p \in Peticion, NEW t \in Llamada, Queda(p, t), UNCHANGED db
  PROVE  TypeOK'
<1>1. /\ usuarios' = usuarios /\ activaciones' = activaciones
      /\ solicitudes' = solicitudes /\ creadas' = creadas /\ reloj' = reloj
  BY DEF db
<1>2. /\ Llamada' = Llamada /\ FilaDeUsuario' = FilaDeUsuario
      /\ FilaDeActivacion' = FilaDeActivacion /\ FilaDeSolicitud' = FilaDeSolicitud
  BY <1>1 DEF Llamada, FilaDeUsuario, FilaDeActivacion, FilaDeSolicitud
<1>3. peticion' \in [Peticion -> Llamada']
  BY <1>2, Propia DEF Formados
<1> QED
  BY <1>1, <1>2, <1>3, TablasTipadas, TablasTipadasYa DEF Formados

(* The rest of the calls are at the step they were.                           *)
LEMMA OtrasEtapas ==
  ASSUME Formados, NEW p \in Peticion, NEW t, Queda(p, t), Etapa(p)'
  PROVE  Etapas'
<1>1. \A q \in Peticion \ {p} : Etapa(q)'
  BY Propia DEF Formados, Etapas, Etapa
<1> QED
  BY <1>1 DEF Etapas
----------------------------------------------------------------------------
(* One lemma per action: the step leaves tables and calls well formed.        *)

LEMMA NuevaTipada ==
  ASSUME TypeOK
  PROVE  Nueva \in Llamada
<1>1. 0 \in 0..reloj
  BY DEF TypeOK
<1> QED
  BY <1>1 DEF Nueva, Llamada

LEMMA SignupForma ==
  ASSUME Formados, NEW p \in Peticion, Signup(p)
  PROVE  TypeOK' /\ Etapas'
<1>1. PICK correo \in Correo, cargo \in CargoPedido, paso \in {"alta", "negada"} :
        Queda(p, [Nueva EXCEPT !.paso = paso, !.correo = correo, !.cargo = cargo])
  BY DEF Signup
<1> DEFINE t == [Nueva EXCEPT !.paso = paso, !.correo = correo, !.cargo = cargo]
<1>2. t \in Llamada
  BY NuevaTipada DEF Llamada, EnEspera, Respuesta, Formados
<1>3. TypeOK'
  BY <1>1, <1>2, SinTablas DEF Signup
<1>4. Etapa(p)'
  <2>1. peticion'[p] = t
    BY <1>1, Propia DEF Formados
  <2> QED
    BY <2>1 DEF Etapa, Nueva, DeAlta
<1> QED
  BY <1>1, <1>3, <1>4, OtrasEtapas

LEMMA InsertUserForma ==
  ASSUME Formados, NEW p \in Peticion, InsertUser(p)
  PROVE  TypeOK' /\ Etapas'
<1> DEFINE t == peticion[p]
<1>1. /\ t \in Llamada /\ t.paso = "alta" /\ t.usuario = 0 /\ t.token = 0 /\ t.correo \in Correo
      /\ usuarios \in Seq(FilaDeUsuario) /\ Len(usuarios) \in Nat
  BY TablasTipadas DEF InsertUser, Formados, Etapas, Etapa
<1>2. /\ activaciones' = activaciones /\ solicitudes' = solicitudes
      /\ creadas' = creadas /\ reloj' = reloj
  BY DEF InsertUser
<1>3. ASSUME NEW t1 \in Llamada', Queda(p, t1),
             usuarios' \in Seq(FilaDeUsuario), DOMAIN usuarios \subseteq DOMAIN usuarios'
      PROVE  TypeOK'
  <2>1. /\ Llamada \subseteq Llamada' /\ FilaDeUsuario' = FilaDeUsuario
        /\ FilaDeActivacion \subseteq FilaDeActivacion'
        /\ FilaDeSolicitud \subseteq FilaDeSolicitud'
    BY <1>2, <1>3, Crecen DEF Formados, TypeOK
  <2>2. peticion' \in [Peticion -> Llamada']
    BY <1>3, <2>1, Propia DEF Formados
  <2>3. /\ activaciones \in Seq(FilaDeActivacion')
        /\ solicitudes \in Seq(FilaDeSolicitud')
    BY <2>1, SeqCrece, TablasTipadas DEF Formados
  <2> QED
    BY <1>2, <1>3, <2>1, <2>2, <2>3, TablasTipadas, TablasTipadasYa DEF Formados
<1>4. CASE CabeEnUsuario(t.correo, t.cargo)
  <2> DEFINE fila == [correo |-> t.correo, contrasena |-> Placeholder,
                      rol |-> role_from_cargo(t.cargo), cargo |-> t.cargo]
             t1 == [t EXCEPT !.paso = "solicitud", !.usuario = Len(usuarios) + 1,
                             !.resto = Predeterminadas]
  <2>1. usuarios' = Append(usuarios, fila) /\ Queda(p, t1)
    BY <1>4 DEF InsertUser
  <2>2. fila \in FilaDeUsuario
    BY <1>1, <1>4 DEF FilaDeUsuario, CabeEnUsuario, role_from_cargo, RolAdmitido
  <2>3. /\ usuarios' \in Seq(FilaDeUsuario)
        /\ DOMAIN usuarios \subseteq DOMAIN usuarios'
        /\ Len(usuarios) + 1 \in DOMAIN usuarios'
    <3> HIDE DEF fila
    <3> QED
      BY <1>1, <2>1, <2>2
  <2>4. t1 \in Llamada'
    BY <1>1, <1>2, <2>3 DEF Llamada, EnEspera
  <2>5. Etapa(p)'
    <3>1. peticion'[p] = t1
      BY <2>1, Propia DEF Formados
    <3> QED
      BY <3>1, <1>1 DEF Etapa, DeAlta, Llamada
  <2> QED
    BY <1>3, <2>1, <2>3, <2>4, <2>5, OtrasEtapas
<1>5. CASE ~CabeEnUsuario(t.correo, t.cargo)
  <2> DEFINE t1 == [t EXCEPT !.paso = "error"]
  <2>1. usuarios' = usuarios /\ Queda(p, t1)
    BY <1>5 DEF InsertUser, Pasa
  <2>2. t1 \in Llamada'
    BY <1>1, <1>2, <2>1 DEF Llamada, Respuesta
  <2>3. Etapa(p)'
    <3>1. peticion'[p] = t1
      BY <2>1, Propia DEF Formados
    <3> QED
      BY <3>1, <1>1 DEF Etapa, DeAlta, Llamada
  <2> QED
    BY <1>1, <1>3, <2>1, <2>2, <2>3, OtrasEtapas
<1> QED
  BY <1>4, <1>5

LEMMA InsertDefaultRequestForma ==
  ASSUME Formados, NEW p \in Peticion, InsertDefaultRequest(p)
  PROVE  TypeOK' /\ Etapas'
<1> DEFINE t == peticion[p]
<1>1. /\ t \in Llamada /\ t.paso = "solicitud" /\ t.usuario # 0 /\ t.token = 0
      /\ solicitudes \in Seq(FilaDeSolicitud) /\ Len(solicitudes) \in Nat
      /\ t.usuario \in DOMAIN usuarios
  BY TablasTipadas DEF InsertDefaultRequest, Formados, Etapas, Etapa, DeAlta, Llamada
<1>2. PICK n \in t.resto :
        /\ solicitudes' = Append(solicitudes, [id_empleado |-> t.usuario, orden |-> n])
        /\ Queda(p, [t EXCEPT !.paso = "registrar", !.sol = Len(solicitudes) + 1,
                              !.resto = @ \ {n}])
  BY DEF InsertDefaultRequest
<1> DEFINE fila == [id_empleado |-> t.usuario, orden |-> n]
           t1 == [t EXCEPT !.paso = "registrar", !.sol = Len(solicitudes) + 1,
                           !.resto = @ \ {n}]
<1>3. /\ activaciones' = activaciones /\ usuarios' = usuarios
      /\ creadas' = creadas /\ reloj' = reloj
  BY DEF InsertDefaultRequest
<1>4. fila \in FilaDeSolicitud
  BY <1>1 DEF FilaDeSolicitud, Llamada
<1>5. /\ solicitudes' \in Seq(FilaDeSolicitud)
      /\ DOMAIN solicitudes \subseteq DOMAIN solicitudes'
      /\ Len(solicitudes) + 1 \in DOMAIN solicitudes'
  <2>1. solicitudes' = Append(solicitudes, fila)
    BY <1>2
  <2>2. solicitudes \in Seq(FilaDeSolicitud) /\ Len(solicitudes) \in Nat
    BY <1>1
  <2> HIDE DEF fila
  <2> QED
    BY <1>4, <2>1, <2>2
<1>6. /\ Llamada \subseteq Llamada' /\ FilaDeUsuario' = FilaDeUsuario
      /\ FilaDeActivacion' = FilaDeActivacion /\ FilaDeSolicitud' = FilaDeSolicitud
  BY <1>3, <1>5, Crecen DEF Formados, TypeOK, FilaDeActivacion, FilaDeSolicitud
<1>7. t1 \in Llamada'
  <2>1. t \in Llamada'
    BY <1>1, <1>6
  <2>2. /\ t.resto \ {n} \in SUBSET Predeterminadas /\ "registrar" \in EnEspera
        /\ Len(solicitudes) + 1 \in {0} \cup (DOMAIN solicitudes)'
    BY <1>1, <1>5 DEF Llamada, EnEspera
  <2> DEFINE sol == Len(solicitudes) + 1
             resto == t.resto \ {n}
  <2>3. t1 = [t EXCEPT !.paso = "registrar", !.sol = sol, !.resto = resto]
    BY <2>1 DEF Llamada
  <2> HIDE DEF sol, resto, t1
  <2>4. resto \in SUBSET Predeterminadas /\ sol \in {0} \cup (DOMAIN solicitudes)'
    BY <2>2 DEF sol, resto
  <2> QED
    BY <2>1, <2>2, <2>3, <2>4 DEF Llamada
<1>8. peticion' \in [Peticion -> Llamada']
  BY <1>2, <1>6, <1>7, Propia DEF Formados
<1>9. TypeOK'
  BY <1>3, <1>5, <1>6, <1>8, TablasTipadas, TablasTipadasYa DEF Formados
<1>10. Etapa(p)'
  <2>1. peticion'[p] = t1
    BY <1>2, Propia DEF Formados
  <2>2. Len(solicitudes) + 1 # 0
    BY <1>1
  <2> QED
    BY <2>1, <2>2, <1>1 DEF Etapa, DeAlta, Llamada
<1> QED
  BY <1>2, <1>9, <1>10, OtrasEtapas

LEMMA RegisterCreationForma ==
  ASSUME Formados, NEW p \in Peticion, RegisterCreation(p)
  PROVE  TypeOK' /\ Etapas'
<1> DEFINE t == peticion[p]
<1>1. /\ t \in Llamada /\ t.paso = "registrar" /\ t.usuario # 0 /\ t.token = 0
      /\ t.sol \in DOMAIN solicitudes
  BY TablasTipadas DEF RegisterCreation, Formados, Etapas, Etapa, DeAlta, Llamada
<1>2. /\ activaciones' = activaciones /\ usuarios' = usuarios
      /\ solicitudes' = solicitudes /\ reloj' = reloj
      /\ creadas' = creadas \cup {t.sol}
  BY DEF RegisterCreation
<1>3. /\ Llamada' = Llamada /\ FilaDeUsuario' = FilaDeUsuario
      /\ FilaDeActivacion' = FilaDeActivacion /\ FilaDeSolicitud' = FilaDeSolicitud
  BY <1>2 DEF Llamada, FilaDeUsuario, FilaDeActivacion, FilaDeSolicitud
<1>4. reloj + ACTIVATION_TOKEN_TTL_SECONDS \in Nat
  BY CuentasAssumption DEF Formados, TypeOK
<1>5. PICK paso \in {"solicitud", "enlace"}, caduca \in Nat :
        Queda(p, [t EXCEPT !.paso = paso, !.caduca = caduca])
  <2>1. CASE Pasa(p, "solicitud")
    <3>1. /\ [t EXCEPT !.paso = "solicitud"] = [t EXCEPT !.paso = "solicitud", !.caduca = t.caduca]
          /\ t.caduca \in Nat
      BY <1>1 DEF Llamada
    <3> QED
      BY <2>1, <3>1 DEF Pasa
  <2>2. CASE Queda(p, ConCaducidad(t))
    BY <2>2, <1>4 DEF ConCaducidad
  <2> QED
    BY <2>1, <2>2 DEF RegisterCreation
<1> DEFINE t1 == [t EXCEPT !.paso = paso, !.caduca = caduca]
<1>6. t1 \in Llamada'
  <2>1. paso \in EnEspera
    BY <1>5 DEF EnEspera
  <2>2. t1 \in Llamada
    BY <1>1, <1>5, <2>1 DEF Llamada
  <2> QED
    BY <1>3, <2>2
<1>7. peticion' \in [Peticion -> Llamada']
  BY <1>3, <1>5, <1>6, Propia DEF Formados
<1>8. TypeOK'
  BY <1>1, <1>2, <1>3, <1>7, TablasTipadas, TablasTipadasYa DEF Formados
<1>9. Etapa(p)'
  <2>1. peticion'[p] = t1
    BY <1>5, Propia DEF Formados
  <2> QED
    BY <2>1, <1>1 DEF Etapa, DeAlta, Llamada
<1> QED
  BY <1>5, <1>8, <1>9, OtrasEtapas

LEMMA InsertTokenForma ==
  ASSUME Formados, NEW p \in Peticion, InsertToken(p)
  PROVE  TypeOK' /\ Etapas'
<1> DEFINE t == peticion[p]
           fila == [usuario |-> t.usuario, used |-> FALSE, caduca |-> t.caduca]
           t1 == [t EXCEPT !.paso = "ok"]
<1>1. /\ t \in Llamada /\ t.paso = "enlace" /\ t.usuario \in DOMAIN usuarios /\ t.token = 0
      /\ activaciones \in Seq(FilaDeActivacion) /\ Len(activaciones) \in Nat
  BY TablasTipadas DEF InsertToken, Formados, Etapas, Etapa, DeAlta, Llamada
<1>2. /\ solicitudes' = solicitudes /\ usuarios' = usuarios
      /\ creadas' = creadas /\ reloj' = reloj
      /\ activaciones' = Append(activaciones, fila)
      /\ Queda(p, t1)
  BY DEF InsertToken, Pasa
<1>3. fila \in FilaDeActivacion
  BY <1>1 DEF FilaDeActivacion, Llamada
<1>4. /\ activaciones' \in Seq(FilaDeActivacion)
      /\ DOMAIN activaciones \subseteq DOMAIN activaciones'
  <2> HIDE DEF fila
  <2> QED
    BY <1>1, <1>2, <1>3
<1>5. /\ Llamada \subseteq Llamada' /\ FilaDeUsuario' = FilaDeUsuario
      /\ FilaDeActivacion' = FilaDeActivacion /\ FilaDeSolicitud' = FilaDeSolicitud
  BY <1>2, <1>4, Crecen DEF Formados, TypeOK, FilaDeActivacion, FilaDeSolicitud
<1>6. t1 \in Llamada'
  BY <1>1, <1>5 DEF Llamada, Respuesta
<1>7. peticion' \in [Peticion -> Llamada']
  BY <1>2, <1>5, <1>6, Propia DEF Formados
<1>8. TypeOK'
  BY <1>2, <1>4, <1>5, <1>7, TablasTipadas, TablasTipadasYa DEF Formados
<1>9. Etapa(p)'
  <2>1. peticion'[p] = t1
    BY <1>2, Propia DEF Formados
  <2> QED
    BY <2>1, <1>1 DEF Etapa, DeAlta, Llamada
<1> QED
  BY <1>2, <1>8, <1>9, OtrasEtapas

LEMMA ActivatePasswordForma ==
  ASSUME Formados, NEW p \in Peticion, ActivatePassword(p)
  PROVE  TypeOK' /\ Etapas'
<1>1. CASE Queda(p, [Nueva EXCEPT !.paso = "negada"])
  <2> DEFINE t == [Nueva EXCEPT !.paso = "negada"]
  <2>1. t \in Llamada
    BY NuevaTipada DEF Llamada, Respuesta, Formados
  <2>2. TypeOK'
    BY <1>1, <2>1, SinTablas DEF ActivatePassword
  <2>3. Etapa(p)'
    <3>1. peticion'[p] = t
      BY <1>1, Propia DEF Formados
    <3> QED
      BY <3>1 DEF Etapa, Nueva, DeAlta
  <2> QED
    BY <1>1, <2>2, <2>3, OtrasEtapas
<1>2. ASSUME NEW k \in DOMAIN activaciones, NEW clave \in Contrasena,
             Queda(p, [Nueva EXCEPT !.paso = "token", !.token = k, !.clave = clave,
                                    !.ahora = reloj])
      PROVE  TypeOK' /\ Etapas'
  <2> DEFINE t == [Nueva EXCEPT !.paso = "token", !.token = k, !.clave = clave,
                                !.ahora = reloj]
  <2>0. reloj \in 0..reloj /\ k # 0
    BY DEF Formados, TypeOK
  <2>1. t \in Llamada
    BY <2>0, NuevaTipada DEF Llamada, EnEspera, Formados
  <2>2. TypeOK'
    BY <1>2, <2>1, SinTablas DEF ActivatePassword
  <2>3. Etapa(p)'
    <3>1. peticion'[p] = t
      BY <1>2, Propia DEF Formados
    <3> QED
      BY <2>0, <3>1 DEF Etapa, Nueva, DeAlta
  <2> QED
    BY <1>2, <2>2, <2>3, OtrasEtapas
<1> QED
  BY <1>1, <1>2 DEF ActivatePassword

LEMMA SelectTokenForma ==
  ASSUME Formados, NEW p \in Peticion, SelectToken(p)
  PROVE  TypeOK' /\ Etapas'
<1> DEFINE t == peticion[p]
           a == activaciones[t.token]
<1>1. /\ t \in Llamada /\ t.paso = "token" /\ t.token \in DOMAIN activaciones
      /\ t.token # 0 /\ t.clave \in Contrasena
  BY TablasTipadas DEF SelectToken, Formados, Etapas, Etapa, Llamada
<1>2. a.usuario \in DOMAIN usuarios /\ a.usuario # 0
  <2>1. activaciones \in Seq(FilaDeActivacion)
    BY TablasTipadas DEF Formados
  <2>2. a \in FilaDeActivacion
    BY <1>1, <2>1
  <2>3. 0 \notin DOMAIN usuarios
    BY DEF Formados, TypeOK
  <2> QED
    BY <2>2, <2>3 DEF FilaDeActivacion
<1>3. CASE Queda(p, [Nueva EXCEPT !.paso = "negada"])
  <2> DEFINE t1 == [Nueva EXCEPT !.paso = "negada"]
  <2>1. t1 \in Llamada
    BY NuevaTipada DEF Llamada, Respuesta, Formados
  <2>2. TypeOK'
    BY <1>3, <2>1, SinTablas DEF SelectToken
  <2>3. Etapa(p)'
    <3>1. peticion'[p] = t1
      BY <1>3, Propia DEF Formados
    <3> QED
      BY <3>1 DEF Etapa, Nueva, DeAlta
  <2> QED
    BY <1>3, <2>2, <2>3, OtrasEtapas
<1>4. ASSUME NEW previas \in SUBSET Peticion,
             Queda(p, [t EXCEPT !.paso = "contrasena", !.usuario = a.usuario,
                                !.previas = previas])
      PROVE  TypeOK' /\ Etapas'
  <2> DEFINE t1 == [t EXCEPT !.paso = "contrasena", !.usuario = a.usuario,
                             !.previas = previas]
  <2>1. t1 \in Llamada
    BY <1>1, <1>2 DEF Llamada, EnEspera
  <2>2. TypeOK'
    BY <1>4, <2>1, SinTablas DEF SelectToken
  <2>3. Etapa(p)'
    <3>1. peticion'[p] = t1
      BY <1>4, Propia DEF Formados
    <3> QED
      BY <1>1, <1>2, <3>1 DEF Etapa, DeAlta, Llamada
  <2> QED
    BY <1>4, <2>2, <2>3, OtrasEtapas
<1> QED
  BY <1>3, <1>4 DEF SelectToken

LEMMA WritePasswordForma ==
  ASSUME Formados, NEW p \in Peticion, WritePassword(p)
  PROVE  TypeOK' /\ Etapas'
<1> DEFINE t == peticion[p]
           i == t.usuario
           t1 == [t EXCEPT !.paso = "usada"]
<1>1. /\ t \in Llamada /\ t.paso = "contrasena" /\ i \in DOMAIN usuarios /\ i # 0
      /\ t.token # 0 /\ t.clave \in Contrasena
      /\ usuarios \in Seq(FilaDeUsuario)
  BY TablasTipadas DEF WritePassword, Formados, Etapas, Etapa, Llamada
<1>2. /\ solicitudes' = solicitudes /\ activaciones' = activaciones
      /\ creadas' = creadas /\ reloj' = reloj
      /\ usuarios' = [usuarios EXCEPT ![i] = [usuarios[i] EXCEPT !.contrasena = t.clave]]
      /\ Queda(p, t1)
  BY DEF WritePassword, Pasa
<1>3. [usuarios[i] EXCEPT !.contrasena = t.clave] \in FilaDeUsuario
  <2>1. usuarios[i] \in FilaDeUsuario
    BY <1>1
  <2> QED
    BY <1>1, <2>1 DEF FilaDeUsuario
<1>4. usuarios' \in Seq(FilaDeUsuario) /\ DOMAIN usuarios' = DOMAIN usuarios
  BY <1>1, <1>2, <1>3
<1>5. /\ Llamada' = Llamada /\ FilaDeUsuario' = FilaDeUsuario
      /\ FilaDeActivacion' = FilaDeActivacion /\ FilaDeSolicitud' = FilaDeSolicitud
  BY <1>2, <1>4 DEF Llamada, FilaDeUsuario, FilaDeActivacion, FilaDeSolicitud
<1>6. t1 \in Llamada
  BY <1>1 DEF Llamada, EnEspera
<1>7. peticion' \in [Peticion -> Llamada']
  BY <1>2, <1>5, <1>6, Propia DEF Formados
<1>8. TypeOK'
  BY <1>2, <1>4, <1>5, <1>7, TablasTipadas, TablasTipadasYa DEF Formados
<1>9. Etapa(p)'
  <2>1. peticion'[p] = t1
    BY <1>2, Propia DEF Formados
  <2> QED
    BY <2>1, <1>1 DEF Etapa, DeAlta, Llamada
<1> QED
  BY <1>2, <1>8, <1>9, OtrasEtapas

LEMMA MarkTokenUsedForma ==
  ASSUME Formados, NEW p \in Peticion, MarkTokenUsed(p)
  PROVE  TypeOK' /\ Etapas'
<1> DEFINE t == peticion[p]
           k == t.token
           t1 == [t EXCEPT !.paso = "ok"]
<1>1. /\ t \in Llamada /\ t.paso = "usada" /\ k \in DOMAIN activaciones
      /\ activaciones \in Seq(FilaDeActivacion)
  BY TablasTipadas DEF MarkTokenUsed, Formados, Etapas, Etapa, Llamada
<1>2. /\ solicitudes' = solicitudes /\ usuarios' = usuarios
      /\ creadas' = creadas /\ reloj' = reloj
      /\ activaciones' = [activaciones EXCEPT ![k] = [activaciones[k] EXCEPT !.used = TRUE]]
      /\ Queda(p, t1)
  BY DEF MarkTokenUsed, Pasa
<1>3. [activaciones[k] EXCEPT !.used = TRUE] \in FilaDeActivacion
  <2>1. activaciones[k] \in FilaDeActivacion
    BY <1>1
  <2> QED
    BY <2>1 DEF FilaDeActivacion
<1>4. /\ activaciones' \in Seq(FilaDeActivacion)
      /\ DOMAIN activaciones' = DOMAIN activaciones
  BY <1>1, <1>2, <1>3
<1>5. /\ Llamada' = Llamada /\ FilaDeUsuario' = FilaDeUsuario
      /\ FilaDeActivacion' = FilaDeActivacion /\ FilaDeSolicitud' = FilaDeSolicitud
  BY <1>2, <1>4 DEF Llamada, FilaDeUsuario, FilaDeActivacion, FilaDeSolicitud
<1>6. t1 \in Llamada
  BY <1>1 DEF Llamada, Respuesta
<1>7. peticion' \in [Peticion -> Llamada']
  BY <1>2, <1>5, <1>6, Propia DEF Formados
<1>8. TypeOK'
  BY <1>2, <1>4, <1>5, <1>7, TablasTipadas, TablasTipadasYa DEF Formados
<1>9. Etapa(p)'
  <2>1. peticion'[p] = t1
    BY <1>2, Propia DEF Formados
  <2> QED
    BY <2>1, <1>1 DEF Etapa, DeAlta, Llamada
<1> QED
  BY <1>2, <1>8, <1>9, OtrasEtapas

LEMMA FailForma ==
  ASSUME Formados, NEW p \in Peticion, Fail(p)
  PROVE  TypeOK' /\ Etapas'
<1> DEFINE t1 == [peticion[p] EXCEPT !.paso = "error"]
<1>1. peticion[p] \in Llamada /\ Queda(p, t1)
  BY TablasTipadas DEF Formados, Fail, Pasa
<1>2. t1 \in Llamada
  BY <1>1 DEF Llamada, Respuesta
<1>3. TypeOK'
  BY <1>1, <1>2, SinTablas DEF Fail
<1>4. Etapa(p)'
  <2>1. peticion'[p] = t1
    BY <1>1, Propia DEF Formados
  <2> QED
    BY <1>1, <2>1 DEF Etapa, DeAlta, Llamada
<1> QED
  BY <1>1, <1>3, <1>4, OtrasEtapas

LEMMA TickForma ==
  ASSUME Formados, Tick
  PROVE  TypeOK' /\ Etapas'
<1>1. /\ usuarios' = usuarios /\ activaciones' = activaciones
      /\ solicitudes' = solicitudes /\ creadas' = creadas /\ peticion' = peticion
      /\ reloj \in Nat /\ reloj <= reloj' /\ reloj' \in 0..MaxReloj
  BY CuentasAssumption DEF Tick, Formados, TypeOK
<1>2. /\ Llamada \subseteq Llamada' /\ FilaDeUsuario' = FilaDeUsuario
      /\ FilaDeActivacion' = FilaDeActivacion /\ FilaDeSolicitud' = FilaDeSolicitud
  BY <1>1, Crecen DEF Formados, FilaDeActivacion, FilaDeSolicitud
<1>3. peticion' \in [Peticion -> Llamada']
  BY <1>1, <1>2, TablasTipadas DEF Formados
<1>4. TypeOK'
  BY <1>1, <1>2, <1>3, TablasTipadas, TablasTipadasYa DEF Formados
<1>5. Etapas'
  BY <1>1 DEF Formados, Etapas, Etapa
<1> QED
  BY <1>4, <1>5

LEMMA SiempreFormados == Spec => []Formados
<1>1. Init => Formados
  <2> SUFFICES ASSUME Init PROVE Formados
    OBVIOUS
  <2>1. /\ usuarios = <<>> /\ activaciones = <<>> /\ solicitudes = <<>> /\ creadas = {}
        /\ reloj = 0 /\ peticion = [p \in Peticion |-> Nueva]
    BY DEF Init
  <2>2. Nueva \in Llamada
    BY <2>1 DEF Nueva, Llamada
  <2>3. peticion \in [Peticion -> Llamada]
    BY <2>1, <2>2
  <2>4. TypeOK
    BY <2>1, <2>3, CuentasAssumption DEF TypeOK, Llamada
  <2>5. Etapas
    BY <2>1 DEF Etapas, Etapa, Nueva, DeAlta
  <2> QED
    BY <2>4, <2>5 DEF Formados
<1>2. Formados /\ [Next]_vars => Formados'
  <2> SUFFICES ASSUME Formados, [Next]_vars PROVE TypeOK' /\ Etapas'
    BY DEF Formados
  <2>1. ASSUME NEW p \in Peticion, Arrive(p) \/ Continue(p) \/ Fail(p)
        PROVE  TypeOK' /\ Etapas'
    BY <2>1, SignupForma, InsertUserForma, InsertDefaultRequestForma,
       RegisterCreationForma, InsertTokenForma, ActivatePasswordForma,
       SelectTokenForma, WritePasswordForma, MarkTokenUsedForma, FailForma
       DEF Arrive, Continue
  <2>2. CASE Tick
    BY <2>2, TickForma
  <2>3. CASE UNCHANGED vars
    BY <2>3 DEF vars, Formados, TypeOK, Etapas, Etapa
  <2> QED
    BY <2>1, <2>2, <2>3 DEF Next, Terminated
<1> QED
  BY <1>1, <1>2, PTL DEF Spec

(* Every statement of every call leaves the four tables and the calls well    *)
(* formed: no activation and no request is of a user there is not, and every  *)
(* role is one of the four (signin.py 84-132, 160-236, 280-320).              *)
THEOREM CuentasBienFormadas == Spec => []TypeOK
<1>1. Formados => TypeOK
  BY DEF Formados
<1> QED
  BY <1>1, SiempreFormados, PTL
----------------------------------------------------------------------------
(* What each action does, in the terms the invariants below are stated in.    *)

\* Every call but p, and the tables the invariants look at, stay.
SoloLlamada(p) ==
  /\ usuarios' = usuarios /\ activaciones' = activaciones
  /\ \A q \in Peticion \ {p} : peticion'[q] = peticion[q]

\* The call p has neither user nor token.
Vacia(p) == peticion[p].usuario = 0 /\ peticion[p].token = 0 /\ peticion[p].previas = {}

\* It is the same call, at another step.
MismaLlamada(p) ==
  /\ peticion'[p].usuario = peticion[p].usuario
  /\ peticion'[p].token = peticion[p].token
  /\ peticion'[p].clave = peticion[p].clave
  /\ peticion'[p].previas = peticion[p].previas
  /\ peticion'[p].ahora = peticion[p].ahora

\* What calls and rows refer to is there.
Referencias ==
  /\ \A p \in Peticion :
       LET t == peticion[p]
       IN  /\ t.token \in {0} \cup DOMAIN activaciones
           /\ t.usuario \in {0} \cup DOMAIN usuarios
           /\ t.paso \in {"nueva", "alta", "token"} => t.usuario = 0
           /\ t.paso \in {"nueva", "alta"} \cup DeAlta => t.token = 0
           /\ t.paso \in DeAlta => t.usuario # 0
           /\ t.paso \in {"token", "contrasena", "usada"} => t.token # 0
           /\ t.paso \in {"contrasena", "usada"} => t.usuario # 0
  /\ \A k \in DOMAIN activaciones : activaciones[k].usuario \in DOMAIN usuarios
  /\ 0 \notin DOMAIN usuarios

Instantes ==
  /\ \A p \in Peticion : peticion[p].ahora \in Nat
  /\ \A k \in DOMAIN activaciones : activaciones[k].caduca \in Nat
  /\ reloj \in Nat

LEMMA HayReferencias ==
  ASSUME Formados
  PROVE  Referencias /\ Instantes
<1>1. \A k \in DOMAIN activaciones : activaciones[k] \in FilaDeActivacion
  BY TablasTipadas DEF Formados
<1>2. \A k \in DOMAIN activaciones : /\ activaciones[k].usuario \in DOMAIN usuarios
                                     /\ activaciones[k].caduca \in Nat
  BY <1>1 DEF FilaDeActivacion
<1>3. \A p \in Peticion : peticion[p] \in Llamada
  BY TablasTipadas DEF Formados
<1>4. \A p \in Peticion : /\ peticion[p].token \in {0} \cup DOMAIN activaciones
                          /\ peticion[p].usuario \in {0} \cup DOMAIN usuarios
                          /\ peticion[p].ahora \in Nat
  BY <1>3 DEF Llamada, Formados, TypeOK
<1>5. 0 \notin DOMAIN usuarios /\ reloj \in Nat
  BY DEF Formados, TypeOK
<1> QED
  BY <1>2, <1>4, <1>5 DEF Referencias, Instantes, Formados, Etapas, Etapa

LEMMA SignupEfecto ==
  ASSUME Formados, NEW p \in Peticion, Signup(p)
  PROVE  /\ SoloLlamada(p) /\ reloj' = reloj
         /\ peticion[p].paso = "nueva"
         /\ peticion'[p].paso \in {"alta", "negada"} /\ Vacia(p)'
<1>1. PICK correo \in Correo, cargo \in CargoPedido, paso \in {"alta", "negada"} :
        Queda(p, [Nueva EXCEPT !.paso = paso, !.correo = correo, !.cargo = cargo])
  BY DEF Signup
<1>2. /\ peticion'[p] = [Nueva EXCEPT !.paso = paso, !.correo = correo, !.cargo = cargo]
      /\ \A q \in Peticion \ {p} : peticion'[q] = peticion[q]
  BY <1>1, Propia DEF Formados
<1> QED
  BY <1>2 DEF Signup, SoloLlamada, Vacia, db, Nueva

LEMMA InsertUserEfecto ==
  ASSUME Formados, NEW p \in Peticion, InsertUser(p)
  PROVE  LET n == Len(usuarios) + 1
         IN  /\ activaciones' = activaciones /\ reloj' = reloj
             /\ \A q \in Peticion \ {p} : peticion'[q] = peticion[q]
             /\ peticion[p].paso = "alta" /\ peticion[p].usuario = 0 /\ peticion[p].token = 0
             /\ peticion'[p].token = 0 /\ peticion'[p].previas = peticion[p].previas
             /\ \/ /\ ~Tomado(peticion[p].correo)
                   /\ n \in Nat \ {0} /\ DOMAIN usuarios = 1..(n - 1) /\ DOMAIN usuarios' = 1..n
                   /\ \A i \in DOMAIN usuarios : usuarios'[i] = usuarios[i]
                   /\ usuarios'[n].contrasena = Placeholder
                   /\ usuarios'[n].correo = peticion[p].correo
                   /\ peticion'[p].paso = "solicitud" /\ peticion'[p].usuario = n
                \/ usuarios' = usuarios /\ peticion'[p].paso = "error" /\ peticion'[p].usuario = 0
<1> DEFINE t == peticion[p]
<1>1. /\ t \in Llamada /\ t.paso = "alta" /\ t.usuario = 0 /\ t.token = 0
      /\ usuarios \in Seq(FilaDeUsuario) /\ Len(usuarios) \in Nat
      /\ DOMAIN usuarios = 1..Len(usuarios)
  BY TablasTipadas DEF InsertUser, Formados, Etapas, Etapa
<1>2. activaciones' = activaciones /\ reloj' = reloj
  BY DEF InsertUser
<1>3. CASE CabeEnUsuario(t.correo, t.cargo)
  <2> DEFINE fila == [correo |-> t.correo, contrasena |-> Placeholder,
                      rol |-> role_from_cargo(t.cargo), cargo |-> t.cargo]
             t1 == [t EXCEPT !.paso = "solicitud", !.usuario = Len(usuarios) + 1,
                             !.resto = Predeterminadas]
  <2>1. usuarios' = Append(usuarios, fila) /\ Queda(p, t1) /\ ~Tomado(t.correo)
    BY <1>3 DEF InsertUser, CabeEnUsuario
  <2>2. peticion'[p] = t1 /\ \A q \in Peticion \ {p} : peticion'[q] = peticion[q]
    BY <2>1, Propia DEF Formados
  <2>3. /\ peticion'[p].paso = "solicitud" /\ peticion'[p].usuario = Len(usuarios) + 1
        /\ peticion'[p].token = 0 /\ peticion'[p].previas = peticion[p].previas
    BY <1>1, <2>2 DEF Llamada
  <2>4. /\ DOMAIN usuarios' = 1..(Len(usuarios) + 1)
        /\ \A i \in 1..Len(usuarios) : usuarios'[i] = usuarios[i]
        /\ usuarios'[Len(usuarios) + 1] = fila
    <3> HIDE DEF fila
    <3> QED
      BY <1>1, <2>1
  <2> QED
    BY <1>1, <1>2, <2>1, <2>2, <2>3, <2>4
<1>4. CASE ~CabeEnUsuario(t.correo, t.cargo)
  <2>1. usuarios' = usuarios /\ Queda(p, [t EXCEPT !.paso = "error"])
    BY <1>4 DEF InsertUser, Pasa
  <2>2. /\ peticion'[p] = [t EXCEPT !.paso = "error"]
        /\ \A q \in Peticion \ {p} : peticion'[q] = peticion[q]
    BY <2>1, Propia DEF Formados
  <2> QED
    BY <1>1, <1>2, <2>1, <2>2 DEF Llamada
<1> QED
  BY <1>3, <1>4

\* The two statements of the default requests.
LEMMA SolicitudesEfecto ==
  ASSUME Formados, NEW p \in Peticion, InsertDefaultRequest(p) \/ RegisterCreation(p)
  PROVE  /\ SoloLlamada(p) /\ MismaLlamada(p) /\ reloj' = reloj
         /\ peticion[p].paso \in DeAlta /\ peticion'[p].paso \in DeAlta
<1> DEFINE t == peticion[p]
<1>1. t \in Llamada
  BY TablasTipadas DEF Formados
<1>2. CASE InsertDefaultRequest(p)
  <2>1. PICK n \in t.resto :
          Queda(p, [t EXCEPT !.paso = "registrar", !.sol = Len(solicitudes) + 1,
                             !.resto = @ \ {n}])
    BY <1>2 DEF InsertDefaultRequest
  <2>2. /\ peticion'[p] = [t EXCEPT !.paso = "registrar", !.sol = Len(solicitudes) + 1,
                                    !.resto = @ \ {n}]
        /\ \A q \in Peticion \ {p} : peticion'[q] = peticion[q]
    BY <2>1, Propia DEF Formados
  <2>3. MismaLlamada(p) /\ peticion'[p].paso = "registrar"
    BY <1>1, <2>2 DEF MismaLlamada, Llamada
  <2> QED
    BY <1>2, <2>2, <2>3 DEF InsertDefaultRequest, SoloLlamada, DeAlta
<1>3. CASE RegisterCreation(p)
  <2>1. CASE Pasa(p, "solicitud")
    <3>1. /\ peticion'[p] = [t EXCEPT !.paso = "solicitud"]
          /\ \A q \in Peticion \ {p} : peticion'[q] = peticion[q]
      BY <2>1, Propia DEF Formados, Pasa
    <3>2. MismaLlamada(p) /\ peticion'[p].paso = "solicitud"
      BY <1>1, <3>1 DEF MismaLlamada, Llamada
    <3> QED
      BY <1>3, <3>1, <3>2 DEF RegisterCreation, SoloLlamada, DeAlta
  <2>2. CASE Queda(p, ConCaducidad(t))
    <3>1. /\ peticion'[p] = ConCaducidad(t)
          /\ \A q \in Peticion \ {p} : peticion'[q] = peticion[q]
      BY <2>2, Propia DEF Formados
    <3>2. MismaLlamada(p) /\ peticion'[p].paso = "enlace"
      BY <1>1, <3>1 DEF MismaLlamada, Llamada, ConCaducidad
    <3> QED
      BY <1>3, <3>1, <3>2 DEF RegisterCreation, SoloLlamada, DeAlta
  <2> QED
    BY <1>3, <2>1, <2>2 DEF RegisterCreation
<1> QED
  BY <1>2, <1>3

LEMMA InsertTokenEfecto ==
  ASSUME Formados, NEW p \in Peticion, InsertToken(p)
  PROVE  LET n == Len(activaciones) + 1
         IN  /\ usuarios' = usuarios /\ reloj' = reloj /\ MismaLlamada(p)
             /\ \A q \in Peticion \ {p} : peticion'[q] = peticion[q]
             /\ peticion[p].paso = "enlace" /\ peticion'[p].paso = "ok"
             /\ peticion[p].token = 0 /\ peticion[p].usuario \in DOMAIN usuarios
             /\ n \in Nat \ {0} /\ DOMAIN activaciones = 1..(n - 1)
             /\ DOMAIN activaciones' = 1..n
             /\ \A k \in DOMAIN activaciones : activaciones'[k] = activaciones[k]
             /\ activaciones'[n].usuario = peticion[p].usuario
             /\ ~activaciones'[n].used
<1> DEFINE t == peticion[p]
           fila == [usuario |-> t.usuario, used |-> FALSE, caduca |-> t.caduca]
<1>1. /\ t \in Llamada /\ t.paso = "enlace" /\ t.usuario \in DOMAIN usuarios /\ t.token = 0
      /\ activaciones \in Seq(FilaDeActivacion) /\ Len(activaciones) \in Nat
      /\ DOMAIN activaciones = 1..Len(activaciones)
  BY TablasTipadas DEF InsertToken, Formados, Etapas, Etapa, DeAlta, Llamada
<1>2. /\ usuarios' = usuarios /\ reloj' = reloj
      /\ activaciones' = Append(activaciones, fila)
      /\ Queda(p, [t EXCEPT !.paso = "ok"])
  BY DEF InsertToken, Pasa
<1>3. /\ peticion'[p] = [t EXCEPT !.paso = "ok"]
      /\ \A q \in Peticion \ {p} : peticion'[q] = peticion[q]
  BY <1>2, Propia DEF Formados
<1>4. MismaLlamada(p) /\ peticion'[p].paso = "ok"
  BY <1>1, <1>3 DEF MismaLlamada, Llamada
<1>5. /\ DOMAIN activaciones' = 1..(Len(activaciones) + 1)
      /\ \A k \in 1..Len(activaciones) : activaciones'[k] = activaciones[k]
      /\ activaciones'[Len(activaciones) + 1] = fila
  <2>1. activaciones' = Append(activaciones, fila)
    BY <1>2
  <2> HIDE DEF fila
  <2> QED
    BY <1>1, <2>1
<1> QED
  BY <1>1, <1>2, <1>3, <1>4, <1>5

LEMMA ActivatePasswordEfecto ==
  ASSUME Formados, NEW p \in Peticion, ActivatePassword(p)
  PROVE  /\ SoloLlamada(p) /\ reloj' = reloj
         /\ peticion[p].paso = "nueva"
         /\ peticion'[p].usuario = 0 /\ peticion'[p].previas = {}
         /\ \/ peticion'[p].paso = "negada" /\ Vacia(p)'
            \/ /\ peticion'[p].paso = "token" /\ peticion'[p].token \in DOMAIN activaciones
               /\ peticion'[p].ahora = reloj
<1>1. CASE Queda(p, [Nueva EXCEPT !.paso = "negada"])
  <2>1. /\ peticion'[p] = [Nueva EXCEPT !.paso = "negada"]
        /\ \A q \in Peticion \ {p} : peticion'[q] = peticion[q]
    BY <1>1, Propia DEF Formados
  <2> QED
    BY <2>1 DEF ActivatePassword, SoloLlamada, Vacia, db, Nueva
<1>2. ASSUME NEW k \in DOMAIN activaciones, NEW clave \in Contrasena,
             Queda(p, [Nueva EXCEPT !.paso = "token", !.token = k, !.clave = clave,
                                    !.ahora = reloj])
      PROVE  /\ SoloLlamada(p)
             /\ peticion'[p].usuario = 0 /\ peticion'[p].previas = {}
             /\ peticion'[p].paso = "token" /\ peticion'[p].token \in DOMAIN activaciones
             /\ peticion'[p].ahora = reloj
  <2>1. /\ peticion'[p] = [Nueva EXCEPT !.paso = "token", !.token = k, !.clave = clave,
                                        !.ahora = reloj]
        /\ \A q \in Peticion \ {p} : peticion'[q] = peticion[q]
    BY <1>2, Propia DEF Formados
  <2> QED
    BY <2>1 DEF ActivatePassword, SoloLlamada, db, Nueva
<1>3. reloj' = reloj /\ peticion[p].paso = "nueva"
  BY DEF ActivatePassword, db
<1> QED
  BY <1>1, <1>2, <1>3 DEF ActivatePassword

LEMMA SelectTokenEfecto ==
  ASSUME Formados, NEW p \in Peticion, SelectToken(p)
  PROVE  LET t == peticion[p]
             a == activaciones[t.token]
         IN  /\ SoloLlamada(p) /\ reloj' = reloj
             /\ t.paso = "token" /\ t.usuario = 0 /\ t.token \in DOMAIN activaciones
             /\ \/ peticion'[p].paso = "negada" /\ Vacia(p)'
                \/ /\ Vigente(a, t.ahora)
                   /\ peticion'[p].paso = "contrasena"
                   /\ peticion'[p].usuario = a.usuario
                   /\ peticion'[p].token = t.token
                   /\ peticion'[p].previas = {q \in Peticion : /\ peticion[q].token = t.token
                                                               /\ peticion[q].paso = "ok"}
<1> DEFINE t == peticion[p]
           a == activaciones[t.token]
           previas == {q \in Peticion : /\ peticion[q].token = t.token
                                        /\ peticion[q].paso = "ok"}
<1>1. /\ t \in Llamada /\ t.paso = "token" /\ t.usuario = 0 /\ t.token \in DOMAIN activaciones
  BY TablasTipadas DEF SelectToken, Formados, Etapas, Etapa, Llamada
<1>2. usuarios' = usuarios /\ activaciones' = activaciones /\ reloj' = reloj
  BY DEF SelectToken, db
<1>3. CASE Queda(p, [Nueva EXCEPT !.paso = "negada"])
  <2>1. /\ peticion'[p] = [Nueva EXCEPT !.paso = "negada"]
        /\ \A q \in Peticion \ {p} : peticion'[q] = peticion[q]
    BY <1>3, Propia DEF Formados
  <2> QED
    BY <1>1, <1>2, <2>1 DEF SoloLlamada, Vacia, Nueva
<1>4. CASE /\ Vigente(a, t.ahora)
           /\ Queda(p, [t EXCEPT !.paso = "contrasena", !.usuario = a.usuario,
                                 !.previas = previas])
  <2> HIDE DEF previas
  <2>1. /\ peticion'[p] = [t EXCEPT !.paso = "contrasena", !.usuario = a.usuario,
                                    !.previas = previas]
        /\ \A q \in Peticion \ {p} : peticion'[q] = peticion[q]
    BY <1>4, Propia DEF Formados
  <2>2. /\ peticion'[p].paso = "contrasena" /\ peticion'[p].usuario = a.usuario
        /\ peticion'[p].token = t.token /\ peticion'[p].previas = previas
    BY <1>1, <2>1 DEF Llamada
  <2> QED
    BY <1>1, <1>2, <1>4, <2>1, <2>2 DEF SoloLlamada, previas
<1> QED
  BY <1>3, <1>4 DEF SelectToken

LEMMA WritePasswordEfecto ==
  ASSUME Formados, NEW p \in Peticion, WritePassword(p)
  PROVE  LET t == peticion[p]
         IN  /\ activaciones' = activaciones /\ reloj' = reloj /\ MismaLlamada(p)
             /\ \A q \in Peticion \ {p} : peticion'[q] = peticion[q]
             /\ t.paso = "contrasena" /\ peticion'[p].paso = "usada"
             /\ t.usuario \in DOMAIN usuarios /\ t.token \in DOMAIN activaciones
             /\ t.clave \in Contrasena
             /\ DOMAIN usuarios' = DOMAIN usuarios
             /\ usuarios'[t.usuario].contrasena = t.clave
             /\ \A i \in DOMAIN usuarios : usuarios'[i].correo = usuarios[i].correo
             /\ \A i \in DOMAIN usuarios \ {t.usuario} : usuarios'[i] = usuarios[i]
<1> DEFINE t == peticion[p]
           i == t.usuario
<1>1. /\ t \in Llamada /\ t.paso = "contrasena" /\ i \in DOMAIN usuarios
      /\ t.token \in DOMAIN activaciones /\ t.clave \in Contrasena
      /\ usuarios \in Seq(FilaDeUsuario)
  BY TablasTipadas DEF WritePassword, Formados, Etapas, Etapa, Llamada
<1>2. /\ activaciones' = activaciones /\ reloj' = reloj
      /\ usuarios' = [usuarios EXCEPT ![i] = [usuarios[i] EXCEPT !.contrasena = t.clave]]
      /\ Queda(p, [t EXCEPT !.paso = "usada"])
  BY DEF WritePassword, Pasa
<1>3. /\ peticion'[p] = [t EXCEPT !.paso = "usada"]
      /\ \A q \in Peticion \ {p} : peticion'[q] = peticion[q]
  BY <1>2, Propia DEF Formados
<1>4. MismaLlamada(p) /\ peticion'[p].paso = "usada"
  BY <1>1, <1>3 DEF MismaLlamada, Llamada
<1>5. /\ usuarios[i] \in FilaDeUsuario /\ DOMAIN usuarios' = DOMAIN usuarios
      /\ usuarios'[i] = [usuarios[i] EXCEPT !.contrasena = t.clave]
      /\ \A j \in DOMAIN usuarios \ {i} : usuarios'[j] = usuarios[j]
  BY <1>1, <1>2
<1>6. /\ usuarios'[i].contrasena = t.clave
      /\ usuarios'[i].correo = usuarios[i].correo
  BY <1>5 DEF FilaDeUsuario
<1> QED
  BY <1>1, <1>2, <1>3, <1>4, <1>5, <1>6

LEMMA MarkTokenUsedEfecto ==
  ASSUME Formados, NEW p \in Peticion, MarkTokenUsed(p)
  PROVE  LET t == peticion[p]
         IN  /\ usuarios' = usuarios /\ reloj' = reloj /\ MismaLlamada(p)
             /\ \A q \in Peticion \ {p} : peticion'[q] = peticion[q]
             /\ t.paso = "usada" /\ peticion'[p].paso = "ok"
             /\ t.usuario \in DOMAIN usuarios /\ t.token \in DOMAIN activaciones
             /\ DOMAIN activaciones' = DOMAIN activaciones
             /\ activaciones'[t.token].used
             /\ \A k \in DOMAIN activaciones :
                  /\ activaciones'[k].usuario = activaciones[k].usuario
                  /\ activaciones'[k].caduca = activaciones[k].caduca
             /\ \A k \in DOMAIN activaciones \ {t.token} : activaciones'[k] = activaciones[k]
<1> DEFINE t == peticion[p]
           k == t.token
<1>1. /\ t \in Llamada /\ t.paso = "usada" /\ t.usuario \in DOMAIN usuarios
      /\ k \in DOMAIN activaciones
      /\ activaciones \in Seq(FilaDeActivacion)
  BY TablasTipadas DEF MarkTokenUsed, Formados, Etapas, Etapa, Llamada
<1>2. /\ usuarios' = usuarios /\ reloj' = reloj
      /\ activaciones' = [activaciones EXCEPT ![k] = [activaciones[k] EXCEPT !.used = TRUE]]
      /\ Queda(p, [t EXCEPT !.paso = "ok"])
  BY DEF MarkTokenUsed, Pasa
<1>3. /\ peticion'[p] = [t EXCEPT !.paso = "ok"]
      /\ \A q \in Peticion \ {p} : peticion'[q] = peticion[q]
  BY <1>2, Propia DEF Formados
<1>4. MismaLlamada(p) /\ peticion'[p].paso = "ok"
  BY <1>1, <1>3 DEF MismaLlamada, Llamada
<1>5. /\ activaciones[k] \in FilaDeActivacion /\ DOMAIN activaciones' = DOMAIN activaciones
      /\ activaciones'[k] = [activaciones[k] EXCEPT !.used = TRUE]
      /\ \A j \in DOMAIN activaciones \ {k} : activaciones'[j] = activaciones[j]
  BY <1>1, <1>2
<1>6. /\ activaciones'[k].used
      /\ activaciones'[k].usuario = activaciones[k].usuario
      /\ activaciones'[k].caduca = activaciones[k].caduca
  BY <1>5 DEF FilaDeActivacion
<1> QED
  BY <1>1, <1>2, <1>3, <1>4, <1>5, <1>6

LEMMA FailEfecto ==
  ASSUME Formados, NEW p \in Peticion, Fail(p)
  PROVE  /\ SoloLlamada(p) /\ MismaLlamada(p) /\ reloj' = reloj
         /\ EnCurso(p) /\ peticion'[p].paso = "error"
<1>1. /\ peticion[p] \in Llamada
      /\ peticion'[p] = [peticion[p] EXCEPT !.paso = "error"]
      /\ \A q \in Peticion \ {p} : peticion'[q] = peticion[q]
  BY TablasTipadas, Propia DEF Formados, Fail, Pasa
<1> QED
  BY <1>1 DEF Fail, SoloLlamada, MismaLlamada, db, Llamada
----------------------------------------------------------------------------
(* One user per address (signin.py 150-173 and the UNIQUE of schema.sql): the *)
(* second of two signups for an address is refused by the table, whatever it  *)
(* was told three statements before.                                          *)
THEOREM UnCorreoUnUsuario == Spec => []CorreoUnico
<1>1. Init => CorreoUnico
  BY DEF Init, CorreoUnico
<1>2. Formados /\ CorreoUnico /\ [Next]_vars => CorreoUnico'
  <2> SUFFICES ASSUME Formados, CorreoUnico, [Next]_vars PROVE CorreoUnico'
    OBVIOUS
  <2>1. ASSUME usuarios' = usuarios PROVE CorreoUnico'
    BY <2>1 DEF CorreoUnico
  <2>2. ASSUME NEW p \in Peticion, InsertUser(p) PROVE CorreoUnico'
    BY <2>2, InsertUserEfecto DEF CorreoUnico, Tomado
  <2>3. ASSUME NEW p \in Peticion, WritePassword(p) PROVE CorreoUnico'
    BY <2>3, WritePasswordEfecto DEF CorreoUnico
  <2> QED
    BY <2>1, <2>2, <2>3 DEF Next, Arrive, Continue, Signup, ActivatePassword,
       InsertDefaultRequest, RegisterCreation, InsertToken, SelectToken, MarkTokenUsed,
       Fail, Tick, Terminated, db, vars
<1> QED
  BY <1>1, <1>2, SiempreFormados, PTL DEF Spec
----------------------------------------------------------------------------
\* A call has the user of its token.
Enlazados ==
  \A p \in Peticion :
    peticion[p].token # 0 /\ peticion[p].usuario # 0 =>
      activaciones[peticion[p].token].usuario = peticion[p].usuario

UnTokenCadaUno ==
  \A k, l \in DOMAIN activaciones :
    activaciones[k].usuario = activaciones[l].usuario => k = l

\* A signup under way has a user of its own, who has no token yet.
AltasAparte ==
  \A p \in Peticion : peticion[p].paso \in DeAlta =>
    /\ \A k \in DOMAIN activaciones : activaciones[k].usuario # peticion[p].usuario
    /\ \A q \in Peticion \ {p} :
         peticion[q].paso \in DeAlta => peticion[q].usuario # peticion[p].usuario

Tokens == Enlazados /\ UnTokenCadaUno /\ AltasAparte

LEMMA SiempreTokens == Spec => []Tokens
<1>1. Init => Tokens
  BY DEF Init, Tokens, Enlazados, UnTokenCadaUno, AltasAparte, Nueva, DeAlta
<1>2. Formados /\ Tokens /\ [Next]_vars => Tokens'
  <2> SUFFICES ASSUME Formados, Tokens, [Next]_vars
               PROVE  Enlazados' /\ UnTokenCadaUno' /\ AltasAparte'
    BY DEF Tokens
  <2> USE DEF Referencias, Tokens, Enlazados, UnTokenCadaUno, AltasAparte
  <2>0. Referencias
    BY HayReferencias
  <2>1. ASSUME NEW p \in Peticion, Signup(p) \/ ActivatePassword(p)
        PROVE  Enlazados' /\ UnTokenCadaUno' /\ AltasAparte'
    BY <2>1, SignupEfecto, ActivatePasswordEfecto DEF SoloLlamada, Vacia, DeAlta
  <2>2. ASSUME NEW p \in Peticion, InsertUser(p)
        PROVE  Enlazados' /\ UnTokenCadaUno' /\ AltasAparte'
    BY <2>0, <2>2, InsertUserEfecto DEF DeAlta
  <2>3. ASSUME NEW p \in Peticion, InsertDefaultRequest(p) \/ RegisterCreation(p)
        PROVE  Enlazados' /\ UnTokenCadaUno' /\ AltasAparte'
    BY <2>3, SolicitudesEfecto DEF SoloLlamada, MismaLlamada
  <2>4. ASSUME NEW p \in Peticion, InsertToken(p)
        PROVE  Enlazados' /\ UnTokenCadaUno' /\ AltasAparte'
    BY <2>0, <2>4, InsertTokenEfecto DEF MismaLlamada, DeAlta
  <2>5. ASSUME NEW p \in Peticion, SelectToken(p)
        PROVE  Enlazados' /\ UnTokenCadaUno' /\ AltasAparte'
    BY <2>5, SelectTokenEfecto DEF SoloLlamada, Vacia, DeAlta
  <2>6. ASSUME NEW p \in Peticion, WritePassword(p)
        PROVE  Enlazados' /\ UnTokenCadaUno' /\ AltasAparte'
    BY <2>6, WritePasswordEfecto DEF MismaLlamada, DeAlta
  <2>7. ASSUME NEW p \in Peticion, MarkTokenUsed(p)
        PROVE  Enlazados' /\ UnTokenCadaUno' /\ AltasAparte'
    BY <2>0, <2>7, MarkTokenUsedEfecto DEF MismaLlamada, DeAlta
  <2>8. ASSUME NEW p \in Peticion, Fail(p)
        PROVE  Enlazados' /\ UnTokenCadaUno' /\ AltasAparte'
    BY <2>8, FailEfecto DEF SoloLlamada, MismaLlamada, DeAlta
  <2>9. CASE UNCHANGED <<activaciones, peticion>>
    BY <2>9
  <2> QED
    BY <2>1, <2>2, <2>3, <2>4, <2>5, <2>6, <2>7, <2>8, <2>9
       DEF Next, Arrive, Continue, Tick, Terminated, vars
<1> QED
  BY <1>1, <1>2, SiempreFormados, PTL DEF Spec
----------------------------------------------------------------------------
\* Between its two UPDATEs a call has left a password behind.
UsadaConContrasena ==
  \A p \in Peticion :
    peticion[p].paso = "usada" => usuarios[peticion[p].usuario].contrasena # Placeholder

(* A token is marked used after its user has got a password, by whichever     *)
(* call, and a password is never taken back (signin.py 314-320).              *)
THEOREM TokenNuncaEnBalde == Spec => []TokenGastadoConContrasena
<1> DEFINE I == UsadaConContrasena /\ TokenGastadoConContrasena
<1>1. Init => I
  BY DEF Init, UsadaConContrasena, TokenGastadoConContrasena, Nueva
<1>2. Formados /\ Tokens /\ I /\ [Next]_vars => I'
  <2> SUFFICES ASSUME Formados, Tokens, I, [Next]_vars
               PROVE  UsadaConContrasena' /\ TokenGastadoConContrasena'
    OBVIOUS
  <2> USE DEF Referencias, UsadaConContrasena, TokenGastadoConContrasena
  <2>0. Referencias
    BY HayReferencias
  <2>1. ASSUME NEW p \in Peticion, Signup(p) \/ ActivatePassword(p)
        PROVE  UsadaConContrasena' /\ TokenGastadoConContrasena'
    BY <2>1, SignupEfecto, ActivatePasswordEfecto DEF SoloLlamada
  <2>2. ASSUME NEW p \in Peticion, InsertUser(p)
        PROVE  UsadaConContrasena' /\ TokenGastadoConContrasena'
    BY <2>0, <2>2, InsertUserEfecto
  <2>3. ASSUME NEW p \in Peticion, InsertDefaultRequest(p) \/ RegisterCreation(p)
        PROVE  UsadaConContrasena' /\ TokenGastadoConContrasena'
    BY <2>3, SolicitudesEfecto DEF SoloLlamada, DeAlta
  <2>4. ASSUME NEW p \in Peticion, InsertToken(p)
        PROVE  UsadaConContrasena' /\ TokenGastadoConContrasena'
    BY <2>0, <2>4, InsertTokenEfecto
  <2>5. ASSUME NEW p \in Peticion, SelectToken(p)
        PROVE  UsadaConContrasena' /\ TokenGastadoConContrasena'
    BY <2>5, SelectTokenEfecto DEF SoloLlamada
  <2>6. ASSUME NEW p \in Peticion, WritePassword(p)
        PROVE  UsadaConContrasena' /\ TokenGastadoConContrasena'
    BY <2>0, <2>6, WritePasswordEfecto, CuentasAssumption DEF MismaLlamada
  <2>7. ASSUME NEW p \in Peticion, MarkTokenUsed(p)
        PROVE  UsadaConContrasena' /\ TokenGastadoConContrasena'
    BY <2>0, <2>7, MarkTokenUsedEfecto DEF MismaLlamada, Tokens, Enlazados
  <2>8. ASSUME NEW p \in Peticion, Fail(p)
        PROVE  UsadaConContrasena' /\ TokenGastadoConContrasena'
    BY <2>8, FailEfecto DEF SoloLlamada
  <2>9. CASE UNCHANGED <<usuarios, activaciones, peticion>>
    BY <2>9
  <2> QED
    BY <2>1, <2>2, <2>3, <2>4, <2>5, <2>6, <2>7, <2>8, <2>9
       DEF Next, Arrive, Continue, Tick, Terminated, vars
<1> QED
  BY <1>1, <1>2, SiempreFormados, SiempreTokens, PTL DEF Spec
----------------------------------------------------------------------------
(* Every password was paid for with a token of that user, used or about to be *)
(* (signin.py 292-320: it is asked for, then written, then marked).           *)
THEOREM ContrasenaSiempreGastaToken == Spec => []ContrasenaGastaToken
<1>1. Init => ContrasenaGastaToken
  BY DEF Init, ContrasenaGastaToken
<1>2. Formados /\ Tokens /\ ContrasenaGastaToken /\ [Next]_vars => ContrasenaGastaToken'
  <2> SUFFICES ASSUME Formados, Tokens, ContrasenaGastaToken, [Next]_vars
               PROVE  ContrasenaGastaToken'
    OBVIOUS
  <2> USE DEF Referencias, ContrasenaGastaToken
  <2>0. Referencias
    BY HayReferencias
  <2>1. ASSUME NEW p \in Peticion, Signup(p) \/ ActivatePassword(p)
        PROVE  ContrasenaGastaToken'
    BY <2>1, SignupEfecto, ActivatePasswordEfecto DEF SoloLlamada
  <2>2. ASSUME NEW p \in Peticion, InsertUser(p) PROVE ContrasenaGastaToken'
    <3>1. \A i \in DOMAIN usuarios' : usuarios'[i].contrasena # Placeholder
             => i \in DOMAIN usuarios /\ usuarios'[i] = usuarios[i]
      BY <2>2, InsertUserEfecto
    <3>2. /\ activaciones' = activaciones /\ peticion[p].paso = "alta"
          /\ \A q \in Peticion \ {p} : peticion'[q] = peticion[q]
      BY <2>2, InsertUserEfecto
    <3>3. \A q \in Peticion : peticion[q].paso \in {"usada", "error"} => peticion'[q] = peticion[q]
      BY <3>2
    <3> QED
      BY <3>1, <3>2, <3>3
  <2>3. ASSUME NEW p \in Peticion, InsertDefaultRequest(p) \/ RegisterCreation(p)
        PROVE  ContrasenaGastaToken'
    BY <2>3, SolicitudesEfecto DEF SoloLlamada, DeAlta
  <2>4. ASSUME NEW p \in Peticion, InsertToken(p) PROVE ContrasenaGastaToken'
    BY <2>0, <2>4, InsertTokenEfecto
  <2>5. ASSUME NEW p \in Peticion, SelectToken(p) PROVE ContrasenaGastaToken'
    BY <2>5, SelectTokenEfecto DEF SoloLlamada
  <2>6. ASSUME NEW p \in Peticion, WritePassword(p) PROVE ContrasenaGastaToken'
    BY <2>0, <2>6, WritePasswordEfecto DEF MismaLlamada, Tokens, Enlazados
  <2>7. ASSUME NEW p \in Peticion, MarkTokenUsed(p) PROVE ContrasenaGastaToken'
    BY <2>0, <2>7, MarkTokenUsedEfecto DEF MismaLlamada
  <2>8. ASSUME NEW p \in Peticion, Fail(p) PROVE ContrasenaGastaToken'
    BY <2>8, FailEfecto DEF SoloLlamada, MismaLlamada
  <2>9. CASE UNCHANGED <<usuarios, activaciones, peticion>>
    BY <2>9
  <2> QED
    BY <2>1, <2>2, <2>3, <2>4, <2>5, <2>6, <2>7, <2>8, <2>9
       DEF Next, Arrive, Continue, Tick, Terminated, vars
<1> QED
  BY <1>1, <1>2, SiempreFormados, SiempreTokens, PTL DEF Spec
----------------------------------------------------------------------------
\* Who was answered ok had marked its token.
AceptadoGastado ==
  \A p \in Peticion :
    peticion[p].paso = "ok" /\ peticion[p].token # 0 => activaciones[peticion[p].token].used

\* So nobody is let through by a token somebody was answered ok for.
PreviasVacias == \A p \in Peticion : peticion[p].previas = {}

\* The password of a call stays, or another call had read its token.
Sustituida ==
  \A p \in Peticion :
    peticion[p].paso \in {"usada", "ok"} /\ peticion[p].token # 0 =>
      \/ usuarios[peticion[p].usuario].contrasena = peticion[p].clave
      \/ \E q \in Peticion \ {p} : /\ peticion[q].token = peticion[p].token
                                   /\ peticion[q].usuario = peticion[p].usuario

\* A call with a token has its user from "contrasena" on.
ConUsuario ==
  \A p \in Peticion :
    peticion[p].paso = "ok" /\ peticion[p].token # 0 => peticion[p].usuario # 0

LEMMA SiempreGastado == Spec => [](AceptadoGastado /\ PreviasVacias)
<1> DEFINE I == AceptadoGastado /\ PreviasVacias
<1>1. Init => I
  BY DEF Init, AceptadoGastado, PreviasVacias, Nueva
<1>2. Formados /\ I /\ [Next]_vars => I'
  <2> SUFFICES ASSUME Formados, I, [Next]_vars PROVE AceptadoGastado' /\ PreviasVacias'
    OBVIOUS
  <2> USE DEF Referencias, AceptadoGastado, PreviasVacias
  <2>0. Referencias
    BY HayReferencias
  <2>1. ASSUME NEW p \in Peticion, Signup(p) \/ ActivatePassword(p)
        PROVE  AceptadoGastado' /\ PreviasVacias'
    BY <2>1, SignupEfecto, ActivatePasswordEfecto DEF SoloLlamada, Vacia
  <2>2. ASSUME NEW p \in Peticion, InsertUser(p)
        PROVE  AceptadoGastado' /\ PreviasVacias'
    BY <2>2, InsertUserEfecto
  <2>3. ASSUME NEW p \in Peticion, InsertDefaultRequest(p) \/ RegisterCreation(p)
        PROVE  AceptadoGastado' /\ PreviasVacias'
    BY <2>3, SolicitudesEfecto DEF SoloLlamada, MismaLlamada, DeAlta
  <2>4. ASSUME NEW p \in Peticion, InsertToken(p)
        PROVE  AceptadoGastado' /\ PreviasVacias'
    BY <2>0, <2>4, InsertTokenEfecto DEF MismaLlamada
  <2>5. ASSUME NEW p \in Peticion, SelectToken(p)
        PROVE  AceptadoGastado' /\ PreviasVacias'
    BY <2>0, <2>5, SelectTokenEfecto DEF SoloLlamada, Vacia, Vigente
  <2>6. ASSUME NEW p \in Peticion, WritePassword(p)
        PROVE  AceptadoGastado' /\ PreviasVacias'
    BY <2>6, WritePasswordEfecto DEF MismaLlamada
  <2>7. ASSUME NEW p \in Peticion, MarkTokenUsed(p)
        PROVE  AceptadoGastado' /\ PreviasVacias'
    BY <2>0, <2>7, MarkTokenUsedEfecto DEF MismaLlamada
  <2>8. ASSUME NEW p \in Peticion, Fail(p)
        PROVE  AceptadoGastado' /\ PreviasVacias'
    BY <2>8, FailEfecto DEF SoloLlamada, MismaLlamada
  <2>9. CASE UNCHANGED <<activaciones, peticion>>
    BY <2>9
  <2> QED
    BY <2>1, <2>2, <2>3, <2>4, <2>5, <2>6, <2>7, <2>8, <2>9
       DEF Next, Arrive, Continue, Tick, Terminated, vars
<1> QED
  BY <1>1, <1>2, SiempreFormados, PTL DEF Spec

(* A password that was answered ok is lost only to a call that had got past   *)
(* the SELECT of the same token before it was marked (signin.py 293-320): one *)
(* token a user, and what was answered ok cannot be presented again.          *)
THEOREM ContrasenaAceptadaSiempreVale == Spec => []ContrasenaAceptadaVale
<1> DEFINE I == ConUsuario /\ Sustituida
<1>1. Init => I
  BY DEF Init, ConUsuario, Sustituida, Nueva
<1>2. Formados /\ Tokens /\ I /\ [Next]_vars => I'
  <2> SUFFICES ASSUME Formados, Tokens, I, [Next]_vars PROVE ConUsuario' /\ Sustituida'
    OBVIOUS
  <2> USE DEF Referencias, ConUsuario, Sustituida
  <2>0. Referencias
    BY HayReferencias
  <2>1. ASSUME NEW p \in Peticion, Signup(p) \/ ActivatePassword(p)
        PROVE  ConUsuario' /\ Sustituida'
    BY <2>0, <2>1, SignupEfecto, ActivatePasswordEfecto DEF SoloLlamada, Vacia
  <2>2. ASSUME NEW p \in Peticion, InsertUser(p) PROVE ConUsuario' /\ Sustituida'
    BY <2>0, <2>2, InsertUserEfecto
  <2>3. ASSUME NEW p \in Peticion, InsertDefaultRequest(p) \/ RegisterCreation(p)
        PROVE  ConUsuario' /\ Sustituida'
    BY <2>3, SolicitudesEfecto DEF SoloLlamada, MismaLlamada, DeAlta
  <2>4. ASSUME NEW p \in Peticion, InsertToken(p) PROVE ConUsuario' /\ Sustituida'
    BY <2>0, <2>4, InsertTokenEfecto DEF MismaLlamada
  <2>5. ASSUME NEW p \in Peticion, SelectToken(p) PROVE ConUsuario' /\ Sustituida'
    BY <2>0, <2>5, SelectTokenEfecto DEF SoloLlamada, Vacia
  <2>6. ASSUME NEW p \in Peticion, WritePassword(p) PROVE ConUsuario' /\ Sustituida'
    BY <2>0, <2>6, WritePasswordEfecto DEF MismaLlamada, Tokens, Enlazados, UnTokenCadaUno
  <2>7. ASSUME NEW p \in Peticion, MarkTokenUsed(p) PROVE ConUsuario' /\ Sustituida'
    BY <2>0, <2>7, MarkTokenUsedEfecto DEF MismaLlamada
  <2>8. ASSUME NEW p \in Peticion, Fail(p) PROVE ConUsuario' /\ Sustituida'
    BY <2>8, FailEfecto DEF SoloLlamada, MismaLlamada
  <2>9. CASE UNCHANGED <<usuarios, peticion>>
    BY <2>9
  <2> QED
    BY <2>1, <2>2, <2>3, <2>4, <2>5, <2>6, <2>7, <2>8, <2>9
       DEF Next, Arrive, Continue, Tick, Terminated, vars
<1>3. I /\ PreviasVacias => ContrasenaAceptadaVale
  BY DEF Sustituida, PreviasVacias, ContrasenaAceptadaVale
<1> QED
  BY <1>1, <1>2, <1>3, SiempreFormados, SiempreTokens, SiempreGastado, PTL DEF Spec
----------------------------------------------------------------------------
(* An account left to expire is lost: no call, however late, activates it     *)
(* (signin.py 290-312, and 150-158 for the address, which stays taken).       *)
THEOREM CuentaPerdidaParaSiempre == Spec => CuentaPerdidaNoVuelve
<1> DEFINE A == \A i \in DOMAIN usuarios : Perdida(i) => Perdida(i)'
<1>1. Formados /\ Tokens /\ [Next]_vars => A
  <2> SUFFICES ASSUME Formados, Tokens, [Next]_vars,
                      NEW i \in DOMAIN usuarios, Perdida(i)
               PROVE  Perdida(i)'
    OBVIOUS
  <2> USE DEF Referencias, Instantes, Perdida, EnCurso, EnEspera
  <2>0. Referencias /\ Instantes
    BY HayReferencias
  <2>1. ASSUME NEW p \in Peticion, Signup(p) PROVE Perdida(i)'
    BY <2>0, <2>1, SignupEfecto DEF SoloLlamada, Vacia
  <2>2. ASSUME NEW p \in Peticion, ActivatePassword(p) PROVE Perdida(i)'
    BY <2>0, <2>2, ActivatePasswordEfecto DEF SoloLlamada, Vacia
  <2>3. ASSUME NEW p \in Peticion, InsertUser(p) PROVE Perdida(i)'
    BY <2>0, <2>3, InsertUserEfecto
  <2>4. ASSUME NEW p \in Peticion, InsertDefaultRequest(p) \/ RegisterCreation(p)
        PROVE  Perdida(i)'
    BY <2>4, SolicitudesEfecto DEF SoloLlamada, MismaLlamada, DeAlta
  <2>5. ASSUME NEW p \in Peticion, InsertToken(p) PROVE Perdida(i)'
    <3> DEFINE n == Len(activaciones) + 1
    <3>1. /\ usuarios' = usuarios /\ reloj' = reloj
          /\ \A q \in Peticion \ {p} : peticion'[q] = peticion[q]
          /\ peticion'[p].paso = "ok" /\ peticion[p].paso = "enlace"
          /\ n \in Nat \ {0} /\ DOMAIN activaciones = 1..(n - 1) /\ DOMAIN activaciones' = 1..n
          /\ \A k \in DOMAIN activaciones : activaciones'[k] = activaciones[k]
          /\ activaciones'[n].usuario = peticion[p].usuario
      BY <2>5, InsertTokenEfecto, Zenon
    <3> HIDE DEF n
    <3>2. DOMAIN activaciones' = DOMAIN activaciones \cup {n}
      BY <3>1
    <3>3. \A k \in DOMAIN activaciones' :
            activaciones'[k].usuario = i => activaciones'[k].caduca < reloj'
      BY <3>1, <3>2
    <3>4. ASSUME NEW q \in Peticion, EnCurso(q)'
          PROVE  q # p /\ peticion'[q] = peticion[q]
      BY <3>1, <3>4
    <3>5. \A q \in Peticion : peticion[q].paso = "token" => peticion[q].token \in DOMAIN activaciones
      BY <2>0
    <3> QED
      BY <3>1, <3>3, <3>4, <3>5
  <2>6. ASSUME NEW p \in Peticion, SelectToken(p) PROVE Perdida(i)'
    <3>1. /\ usuarios' = usuarios /\ activaciones' = activaciones /\ reloj' = reloj
          /\ \A q \in Peticion \ {p} : peticion'[q] = peticion[q]
      BY <2>6, SelectTokenEfecto DEF SoloLlamada
    <3>2. \/ peticion'[p].paso = "negada"
          \/ /\ peticion'[p].paso = "contrasena"
             /\ peticion'[p].usuario = activaciones[peticion[p].token].usuario
             /\ activaciones[peticion[p].token].caduca >= peticion[p].ahora
      BY <2>6, SelectTokenEfecto DEF Vigente
    <3>3. /\ activaciones[peticion[p].token].caduca \in Nat /\ peticion[p].ahora \in Nat
          /\ activaciones[peticion[p].token].usuario = i =>
               activaciones[peticion[p].token].caduca < peticion[p].ahora
      BY <2>0, <2>6, SelectTokenEfecto
    <3>4. peticion'[p].paso = "contrasena" => peticion'[p].usuario # i
      BY <3>2, <3>3
    <3>5. EnCurso(p)' => peticion'[p].paso # "token" /\ peticion'[p].usuario # i
      BY <3>2, <3>4
    <3>6. ASSUME NEW q \in Peticion, EnCurso(q)'
          PROVE  /\ peticion'[q].usuario # i
                 /\ peticion'[q].paso = "token" =>
                      (activaciones'[peticion'[q].token].usuario = i =>
                         activaciones'[peticion'[q].token].caduca < peticion'[q].ahora)
      <4>1. CASE q = p
        BY <3>5, <3>6, <4>1
      <4>2. CASE q # p
        BY <3>1, <3>6, <4>2
      <4> QED
        BY <4>1, <4>2
    <3> QED
      BY <3>1, <3>6
  <2>7. ASSUME NEW p \in Peticion, WritePassword(p) PROVE Perdida(i)'
    BY <2>7, WritePasswordEfecto DEF MismaLlamada
  <2>8. ASSUME NEW p \in Peticion, MarkTokenUsed(p) PROVE Perdida(i)'
    BY <2>0, <2>8, MarkTokenUsedEfecto DEF MismaLlamada
  <2>9. ASSUME NEW p \in Peticion, Fail(p) PROVE Perdida(i)'
    BY <2>9, FailEfecto DEF SoloLlamada, MismaLlamada
  <2>10. CASE Tick
    BY <2>0, <2>10 DEF Tick
  <2>11. CASE UNCHANGED vars
    BY <2>11 DEF vars
  <2> QED
    BY <2>1, <2>2, <2>3, <2>4, <2>5, <2>6, <2>7, <2>8, <2>9, <2>10, <2>11
       DEF Next, Arrive, Continue, Terminated
<1>2. A => [A]_vars
  OBVIOUS
<1> QED
  BY <1>1, <1>2, SiempreFormados, SiempreTokens, PTL DEF Spec, CuentaPerdidaNoVuelve
----------------------------------------------------------------------------
(* The default requests, row by row.                                          *)

\* Only a signup past its first INSERT touches the requests.
MismasSolicitudes == solicitudes' = solicitudes /\ creadas' = creadas

LEMMA InsertDefaultRequestFilas ==
  ASSUME Formados, NEW p \in Peticion, InsertDefaultRequest(p)
  PROVE  LET m == Len(solicitudes) + 1
             t == peticion[p]
         IN  /\ creadas' = creadas /\ t.paso = "solicitud" /\ peticion'[p].paso = "registrar"
             /\ peticion'[p].usuario = t.usuario
             /\ peticion'[p].sol = m
             /\ m \in Nat \ {0} /\ DOMAIN solicitudes = 1..(m - 1)
             /\ DOMAIN solicitudes' = 1..m
             /\ \A s \in DOMAIN solicitudes : solicitudes'[s] = solicitudes[s]
             /\ solicitudes'[m].id_empleado = t.usuario
             /\ solicitudes'[m].orden \in t.resto
             /\ \A n \in t.resto : solicitudes'[m].orden <= n
             /\ peticion'[p].resto = t.resto \ {solicitudes'[m].orden}
<1> DEFINE t == peticion[p]
<1>1. /\ t \in Llamada /\ t.paso = "solicitud" /\ creadas' = creadas
      /\ solicitudes \in Seq(FilaDeSolicitud) /\ Len(solicitudes) \in Nat
      /\ DOMAIN solicitudes = 1..Len(solicitudes)
  BY TablasTipadas DEF InsertDefaultRequest, Formados
<1>2. PICK n \in t.resto :
        /\ \A m \in t.resto : n <= m
        /\ solicitudes' = Append(solicitudes, [id_empleado |-> t.usuario, orden |-> n])
        /\ Queda(p, [t EXCEPT !.paso = "registrar", !.sol = Len(solicitudes) + 1,
                              !.resto = @ \ {n}])
  BY DEF InsertDefaultRequest
<1>3. peticion'[p] = [t EXCEPT !.paso = "registrar", !.sol = Len(solicitudes) + 1,
                               !.resto = t.resto \ {n}]
  BY <1>2, Propia DEF Formados
<1>4. /\ peticion'[p].paso = "registrar" /\ peticion'[p].usuario = t.usuario
      /\ peticion'[p].sol = Len(solicitudes) + 1 /\ peticion'[p].resto = t.resto \ {n}
  BY <1>1, <1>3 DEF Llamada
<1> DEFINE fila == [id_empleado |-> t.usuario, orden |-> n]
<1>5. /\ DOMAIN solicitudes' = 1..(Len(solicitudes) + 1)
      /\ \A s \in 1..Len(solicitudes) : solicitudes'[s] = solicitudes[s]
      /\ solicitudes'[Len(solicitudes) + 1] = fila
  <2>1. solicitudes' = Append(solicitudes, fila)
    BY <1>2
  <2>2. solicitudes \in Seq(FilaDeSolicitud) /\ Len(solicitudes) \in Nat
    BY <1>1
  <2> HIDE DEF fila
  <2> QED
    BY <2>1, <2>2
<1> QED
  BY <1>1, <1>2, <1>4, <1>5

LEMMA RegisterCreationFilas ==
  ASSUME Formados, NEW p \in Peticion, RegisterCreation(p)
  PROVE  LET t == peticion[p]
         IN  /\ solicitudes' = solicitudes /\ creadas' = creadas \cup {t.sol}
             /\ t.paso = "registrar"
             /\ peticion'[p].paso \in {"solicitud", "enlace"}
             /\ peticion'[p].paso = "solicitud" <=> t.resto # {}
             /\ peticion'[p].usuario = t.usuario /\ peticion'[p].resto = t.resto
<1> DEFINE t == peticion[p]
<1>1. /\ t \in Llamada /\ t.paso = "registrar"
      /\ solicitudes' = solicitudes /\ creadas' = creadas \cup {t.sol}
  BY TablasTipadas DEF RegisterCreation, Formados
<1>2. CASE t.resto # {} /\ Pasa(p, "solicitud")
  <2>1. peticion'[p] = [t EXCEPT !.paso = "solicitud"]
    BY <1>2, Propia DEF Formados, Pasa
  <2> QED
    BY <1>1, <1>2, <2>1 DEF Llamada
<1>3. CASE t.resto = {} /\ Queda(p, ConCaducidad(t))
  <2>1. peticion'[p] = ConCaducidad(t)
    BY <1>3, Propia DEF Formados
  <2> QED
    BY <1>1, <1>3, <2>1 DEF Llamada, ConCaducidad
<1> QED
  BY <1>2, <1>3 DEF RegisterCreation

LEMMA InsertUserFilas ==
  ASSUME Formados, NEW p \in Peticion, InsertUser(p), peticion'[p].paso = "solicitud"
  PROVE  peticion'[p].resto = Predeterminadas
<1>1. peticion[p] \in Llamada
  BY TablasTipadas DEF Formados
<1>2. CASE Queda(p, [peticion[p] EXCEPT !.paso = "solicitud", !.usuario = Len(usuarios) + 1,
                                        !.resto = Predeterminadas])
  <2>1. peticion'[p] = [peticion[p] EXCEPT !.paso = "solicitud", !.usuario = Len(usuarios) + 1,
                                           !.resto = Predeterminadas]
    BY <1>2, Propia DEF Formados
  <2> QED
    BY <1>1, <2>1 DEF Llamada
<1>3. CASE Pasa(p, "error")
  <2>1. peticion'[p] = [peticion[p] EXCEPT !.paso = "error"]
    BY <1>3, Propia DEF Formados, Pasa
  <2> QED
    BY <1>1, <2>1 DEF Llamada
<1> QED
  BY <1>2, <1>3 DEF InsertUser

\* What a signup under way has inserted, recorded and left to insert.
AltaEnOrden(p) ==
  LET t == peticion[p]
  IN  /\ \A a, b \in Predeterminadas : a < b /\ b \notin t.resto => a \notin t.resto
      /\ \A s \in DOMAIN solicitudes :
           solicitudes[s].id_empleado = t.usuario => solicitudes[s].orden \notin t.resto
      /\ \A n \in Predeterminadas \ t.resto :
           \E s \in DOMAIN solicitudes :
             solicitudes[s].id_empleado = t.usuario /\ solicitudes[s].orden = n
      /\ t.paso \in {"solicitud", "enlace"} =>
           \A s \in DOMAIN solicitudes : solicitudes[s].id_empleado = t.usuario => s \in creadas
      /\ t.paso = "registrar" =>
           \A s \in DOMAIN solicitudes : solicitudes[s].id_empleado = t.usuario =>
             s <= t.sol /\ (s # t.sol => s \in creadas)
      /\ t.paso = "enlace" => t.resto = {}

AltasEnOrden == \A p \in Peticion : peticion[p].paso \in DeAlta => AltaEnOrden(p)

\* No user has the same default request twice.
SinRepetir ==
  \A s, r \in DOMAIN solicitudes :
    solicitudes[s].id_empleado = solicitudes[r].id_empleado
      /\ solicitudes[s].orden = solicitudes[r].orden => s = r

Ordenadas == AltasEnOrden /\ SinRepetir /\ AltaPorOrden

LEMMA FilasDeSolicitud ==
  ASSUME Formados
  PROVE  /\ \A s \in DOMAIN solicitudes : /\ solicitudes[s].id_empleado \in DOMAIN usuarios
                                          /\ solicitudes[s].orden \in Predeterminadas
         /\ \A p \in Peticion : peticion[p].resto \subseteq Predeterminadas
         /\ creadas \subseteq DOMAIN solicitudes
         /\ DOMAIN solicitudes \subseteq Nat
<1>1. \A s \in DOMAIN solicitudes : solicitudes[s] \in FilaDeSolicitud
  BY TablasTipadas DEF Formados
<1>2. \A p \in Peticion : peticion[p] \in Llamada
  BY TablasTipadas DEF Formados
<1>3. creadas \subseteq DOMAIN solicitudes /\ DOMAIN solicitudes \subseteq Nat
  BY DEF Formados, TypeOK
<1>4. \A p \in Peticion : peticion[p].resto \subseteq Predeterminadas
  BY <1>2 DEF Llamada
<1> QED
  BY <1>1, <1>3, <1>4 DEF FilaDeSolicitud

(* Every other step leaves the requests, and who is signing up, as they are.  *)
LEMMA OrdenAjeno ==
  ASSUME Formados, Ordenadas, MismasSolicitudes,
         \A q \in Peticion : peticion'[q].paso \in DeAlta => peticion'[q] = peticion[q],
         \A i \in DOMAIN usuarios' \ DOMAIN usuarios :
           \A s \in DOMAIN solicitudes : solicitudes[s].id_empleado # i
  PROVE  Ordenadas'
<1>1. AltasEnOrden'
  BY DEF Ordenadas, AltasEnOrden, AltaEnOrden, MismasSolicitudes
<1>2. SinRepetir'
  BY DEF Ordenadas, SinRepetir, MismasSolicitudes
<1>3. AltaPorOrden'
  <2>1. \A i : DeUsuario(i)' = DeUsuario(i)
    BY DEF DeUsuario, MismasSolicitudes
  <2>2. \A i \in DOMAIN usuarios' \ DOMAIN usuarios : DeUsuario(i) = {}
    BY DEF DeUsuario
  <2> QED
    BY <2>1, <2>2 DEF Ordenadas, AltaPorOrden, MismasSolicitudes
<1> QED
  BY <1>1, <1>2, <1>3 DEF Ordenadas

LEMMA OrdenDelAlta ==
  ASSUME Formados, Ordenadas, NEW p \in Peticion, InsertUser(p)
  PROVE  Ordenadas'
<1>1. MismasSolicitudes
  BY DEF InsertUser, MismasSolicitudes
<1>2. CASE usuarios' = usuarios /\ peticion'[p].paso = "error"
  BY <1>1, <1>2, InsertUserEfecto, OrdenAjeno DEF DeAlta
<1>3. CASE /\ peticion'[p].paso = "solicitud"
           /\ peticion'[p].usuario = Len(usuarios) + 1
           /\ Len(usuarios) \in Nat
           /\ DOMAIN usuarios = 1..Len(usuarios)
           /\ DOMAIN usuarios' = 1..(Len(usuarios) + 1)
  <2>1. \A s \in DOMAIN solicitudes : solicitudes[s].id_empleado # Len(usuarios) + 1
    BY <1>3, FilasDeSolicitud
  <2>2. peticion'[p].resto = Predeterminadas
    BY <1>3, InsertUserFilas
  <2>3. AltaEnOrden(p)'
    BY <1>1, <1>3, <2>1, <2>2 DEF AltaEnOrden, MismasSolicitudes
  <2>4. \A q \in Peticion \ {p} : peticion'[q] = peticion[q]
    BY InsertUserEfecto
  <2>5. AltasEnOrden'
    BY <1>1, <2>3, <2>4 DEF Ordenadas, AltasEnOrden, AltaEnOrden, MismasSolicitudes
  <2>6. SinRepetir'
    BY <1>1 DEF Ordenadas, SinRepetir, MismasSolicitudes
  <2>7. AltaPorOrden'
    <3>1. \A i : DeUsuario(i)' = DeUsuario(i)
      BY <1>1 DEF DeUsuario, MismasSolicitudes
    <3>2. DeUsuario(Len(usuarios) + 1) = {}
      BY <2>1 DEF DeUsuario
    <3>3. \A i \in DOMAIN usuarios' : i \in DOMAIN usuarios \/ i = Len(usuarios) + 1
      BY <1>3
    <3> QED
      BY <1>1, <3>1, <3>2, <3>3 DEF Ordenadas, AltaPorOrden, MismasSolicitudes
  <2> QED
    BY <2>5, <2>6, <2>7 DEF Ordenadas
<1>4. Len(usuarios) \in Nat /\ DOMAIN usuarios = 1..Len(usuarios)
  BY DEF Formados, TypeOK
<1> QED
  BY <1>2, <1>3, <1>4, InsertUserEfecto

LEMMA OrdenAlInsertar ==
  ASSUME Formados, Tokens, Ordenadas, NEW p \in Peticion, InsertDefaultRequest(p)
  PROVE  Ordenadas'
<1>0. PICK u : u = peticion[p].usuario
  OBVIOUS
<1> DEFINE m == Len(solicitudes) + 1
           n == solicitudes'[m].orden
           resto == peticion[p].resto
<1>1. /\ creadas' = creadas /\ peticion[p].paso = "solicitud"
      /\ peticion'[p].paso = "registrar"
      /\ peticion[p].usuario = u /\ peticion'[p].usuario = u /\ peticion'[p].sol = m
      /\ m \in Nat \ {0} /\ DOMAIN solicitudes = 1..(m - 1) /\ DOMAIN solicitudes' = 1..m
      /\ \A s \in DOMAIN solicitudes : solicitudes'[s] = solicitudes[s]
      /\ solicitudes'[m].id_empleado = u
      /\ n \in resto /\ \A k \in resto : n <= k
      /\ peticion'[p].resto = resto \ {n}
  BY <1>0, InsertDefaultRequestFilas
<1>2. /\ \A q \in Peticion \ {p} : peticion'[q] = peticion[q]
      /\ usuarios' = usuarios
  BY SolicitudesEfecto DEF SoloLlamada
<1>3. AltaEnOrden(p)
  BY <1>1 DEF Ordenadas, AltasEnOrden, DeAlta
<1>4. resto \subseteq Predeterminadas /\ Predeterminadas \subseteq Nat /\ n \in Predeterminadas
  BY <1>1, FilasDeSolicitud DEF Predeterminadas
<1> HIDE DEF m, n, resto
<1>5. AltaEnOrden(p)'
  <2>1. \A a, b \in Predeterminadas : a < b /\ b \notin resto \ {n} => a \notin resto \ {n}
    <3>1. \A a, b \in Predeterminadas : a < b /\ b \notin resto => a \notin resto
      BY <1>3 DEF AltaEnOrden, resto
    <3>2. \A a \in Predeterminadas : a < n => a \notin resto
      BY <1>1, <1>4
    <3> QED
      BY <3>1, <3>2
  <2>2. \A s \in DOMAIN solicitudes' :
          solicitudes'[s].id_empleado = u => solicitudes'[s].orden \notin resto \ {n}
    BY <1>1, <1>3 DEF AltaEnOrden, resto, n
  <2>3. \A k \in Predeterminadas \ (resto \ {n}) :
          \E s \in DOMAIN solicitudes' :
            solicitudes'[s].id_empleado = u /\ solicitudes'[s].orden = k
    <3> SUFFICES ASSUME NEW k \in Predeterminadas \ (resto \ {n})
                 PROVE  \E s \in DOMAIN solicitudes' :
                          solicitudes'[s].id_empleado = u /\ solicitudes'[s].orden = k
      OBVIOUS
    <3>1. CASE k = n
      BY <1>1, <3>1 DEF n
    <3>2. CASE k # n
      <4>1. PICK s \in DOMAIN solicitudes :
              solicitudes[s].id_empleado = u /\ solicitudes[s].orden = k
        BY <1>1, <1>3, <3>2 DEF AltaEnOrden, resto
      <4> QED
        BY <1>1, <4>1
    <3> QED
      BY <3>1, <3>2
  <2>4. \A s \in DOMAIN solicitudes' : solicitudes'[s].id_empleado = u =>
          s <= m /\ (s # m => s \in creadas)
    BY <1>1, <1>3 DEF AltaEnOrden
  <2> QED
    BY <1>1, <2>1, <2>2, <2>3, <2>4 DEF AltaEnOrden
<1>6. ASSUME NEW q \in Peticion \ {p}, peticion'[q].paso \in DeAlta
      PROVE  AltaEnOrden(q)'
  <2>1. peticion'[q] = peticion[q] /\ peticion[q].usuario # u /\ AltaEnOrden(q)
    BY <1>1, <1>2, <1>6 DEF Tokens, AltasAparte, DeAlta, Ordenadas, AltasEnOrden
  <2>2. \A s \in DOMAIN solicitudes' :
          solicitudes'[s].id_empleado = peticion[q].usuario =>
            s \in DOMAIN solicitudes /\ solicitudes'[s] = solicitudes[s]
    BY <1>1, <2>1
  <2>3. \A s \in DOMAIN solicitudes : s \in DOMAIN solicitudes' /\ solicitudes'[s] = solicitudes[s]
    BY <1>1
  <2> QED
    BY <1>1, <2>1, <2>2, <2>3 DEF AltaEnOrden
<1>7. SinRepetir'
  <2>1. \A s \in DOMAIN solicitudes :
          ~(solicitudes[s].id_empleado = u /\ solicitudes[s].orden = n)
    BY <1>1, <1>3 DEF AltaEnOrden, resto
  <2> QED
    BY <1>1, <2>1 DEF Ordenadas, SinRepetir, n
<1>8. AltaPorOrden'
  <2>1. /\ \A i : i # u => DeUsuario(i)' = DeUsuario(i)
        /\ DeUsuario(u)' = DeUsuario(u) \cup {m}
        /\ m \notin DOMAIN solicitudes
        /\ \A s \in DeUsuario(u) : s < m
    <3>1. \A i : i # u => DeUsuario(i)' = DeUsuario(i)
      BY <1>1 DEF DeUsuario
    <3>2. m \notin DOMAIN solicitudes /\ \A s \in DeUsuario(u) : s < m
      BY <1>1 DEF DeUsuario
    <3>3. DeUsuario(u)' = DeUsuario(u) \cup {m}
      BY <1>1 DEF DeUsuario
    <3> QED
      BY <3>1, <3>2, <3>3
  <2>2. \A s \in DeUsuario(u) : s \in creadas
    BY <1>1, <1>3 DEF AltaEnOrden, DeUsuario
  <2>3. \A k \in 1..(n - 1) :
          \E r \in DeUsuario(u) \cap creadas : r < m /\ solicitudes[r].orden = k
    <3> SUFFICES ASSUME NEW k \in 1..(n - 1)
                 PROVE  \E r \in DeUsuario(u) \cap creadas : r < m /\ solicitudes[r].orden = k
      OBVIOUS
    <3>1. k \in Predeterminadas \ resto
      BY <1>1, <1>4 DEF Predeterminadas
    <3>2. PICK r \in DOMAIN solicitudes :
            solicitudes[r].id_empleado = u /\ solicitudes[r].orden = k
      BY <1>1, <1>3, <3>1 DEF AltaEnOrden, resto
    <3> QED
      BY <2>1, <2>2, <3>2 DEF DeUsuario
  <2>4. ASSUME NEW i \in DOMAIN usuarios, NEW s \in DeUsuario(i)'
        PROVE  /\ \A k \in 1..(solicitudes'[s].orden - 1) :
                    \E r \in DeUsuario(i)' \cap creadas : r < s /\ solicitudes'[r].orden = k
               /\ s \notin creadas => \A r \in DeUsuario(i)' : r <= s
    <3>1. CASE s \in DOMAIN solicitudes
      <4>1. s \in DeUsuario(i) /\ solicitudes'[s] = solicitudes[s]
        BY <1>1, <2>4, <3>1 DEF DeUsuario
      <4>2. \A r \in DeUsuario(i) : r \in DeUsuario(i)' /\ solicitudes'[r] = solicitudes[r]
        BY <1>1, <2>1 DEF DeUsuario
      <4>3. \A k \in 1..(solicitudes[s].orden - 1) :
              \E r \in DeUsuario(i) \cap creadas : r < s /\ solicitudes[r].orden = k
        BY <4>1 DEF Ordenadas, AltaPorOrden
      <4>4. s \notin creadas => i # u /\ \A r \in DeUsuario(i) : r <= s
        BY <2>2, <4>1 DEF Ordenadas, AltaPorOrden
      <4> QED
        BY <2>1, <4>1, <4>2, <4>3, <4>4
    <3>2. CASE s \notin DOMAIN solicitudes
      <4>1. s = m /\ i = u
        BY <2>1, <2>4, <3>2 DEF DeUsuario
      <4>2. \A r \in DeUsuario(u) : solicitudes'[r] = solicitudes[r]
        BY <1>1 DEF DeUsuario
      <4>3. \A r \in DeUsuario(u)' : r <= m
        BY <1>1 DEF DeUsuario
      <4>4. \A r \in DeUsuario(u) : r \in DeUsuario(u)'
        BY <2>1
      <4>5. \A k \in 1..(n - 1) :
              \E r \in DeUsuario(u)' \cap creadas : r < m /\ solicitudes'[r].orden = k
        BY <2>3, <4>2, <4>4
      <4>6. solicitudes'[m].orden = n
        BY DEF n
      <4> QED
        BY <4>1, <4>3, <4>5, <4>6
    <3> QED
      BY <3>1, <3>2
  <2> QED
    BY <1>1, <1>2, <2>4 DEF AltaPorOrden
<1> QED
  BY <1>1, <1>2, <1>5, <1>6, <1>7, <1>8 DEF Ordenadas, AltasEnOrden

LEMMA OrdenAlRegistrar ==
  ASSUME Formados, Ordenadas, NEW p \in Peticion, RegisterCreation(p)
  PROVE  Ordenadas'
<1>1. /\ solicitudes' = solicitudes /\ creadas' = creadas \cup {peticion[p].sol}
      /\ peticion[p].paso = "registrar"
      /\ peticion'[p].paso \in {"solicitud", "enlace"}
      /\ peticion'[p].paso = "solicitud" <=> peticion[p].resto # {}
      /\ peticion'[p].usuario = peticion[p].usuario
      /\ peticion'[p].resto = peticion[p].resto
  BY RegisterCreationFilas
<1>2. /\ \A q \in Peticion \ {p} : peticion'[q] = peticion[q]
      /\ usuarios' = usuarios
  BY SolicitudesEfecto DEF SoloLlamada
<1>3. AltaEnOrden(p)'
  <2>1. AltaEnOrden(p)
    BY <1>1 DEF Ordenadas, AltasEnOrden, DeAlta
  <2> QED
    BY <1>1, <2>1 DEF AltaEnOrden
<1>4. \A q \in Peticion \ {p} : peticion'[q].paso \in DeAlta => AltaEnOrden(q)'
  BY <1>1, <1>2 DEF Ordenadas, AltasEnOrden, AltaEnOrden
<1>5. SinRepetir'
  BY <1>1 DEF Ordenadas, SinRepetir
<1>6. AltaPorOrden'
  <2>1. \A i : DeUsuario(i)' = DeUsuario(i)
    BY <1>1 DEF DeUsuario
  <2> QED
    BY <1>1, <1>2, <2>1 DEF Ordenadas, AltaPorOrden
<1> QED
  BY <1>3, <1>4, <1>5, <1>6 DEF Ordenadas, AltasEnOrden

LEMMA SiempreOrdenadas == Spec => []Ordenadas
<1>1. Init => Ordenadas
  BY DEF Init, Ordenadas, AltasEnOrden, SinRepetir, AltaPorOrden, Nueva, DeAlta
<1>2. Formados /\ Tokens /\ Ordenadas /\ [Next]_vars => Ordenadas'
  <2> SUFFICES ASSUME Formados, Tokens, Ordenadas, [Next]_vars PROVE Ordenadas'
    OBVIOUS
  <2>1. ASSUME NEW p \in Peticion, InsertUser(p) PROVE Ordenadas'
    BY <2>1, OrdenDelAlta
  <2>2. ASSUME NEW p \in Peticion, InsertDefaultRequest(p) PROVE Ordenadas'
    BY <2>2, OrdenAlInsertar
  <2>3. ASSUME NEW p \in Peticion, RegisterCreation(p) PROVE Ordenadas'
    BY <2>3, OrdenAlRegistrar
  <2>4. ASSUME MismasSolicitudes, DOMAIN usuarios' = DOMAIN usuarios,
               \A q \in Peticion : peticion'[q].paso \in DeAlta => peticion'[q] = peticion[q]
        PROVE  Ordenadas'
    BY <2>4, OrdenAjeno
  <2>5. ASSUME NEW p \in Peticion, Signup(p) \/ ActivatePassword(p) PROVE Ordenadas'
    BY <2>4, <2>5, SignupEfecto, ActivatePasswordEfecto
       DEF SoloLlamada, Signup, ActivatePassword, db, MismasSolicitudes, DeAlta
  <2>6. ASSUME NEW p \in Peticion, InsertToken(p) PROVE Ordenadas'
    BY <2>4, <2>6, InsertTokenEfecto DEF InsertToken, MismasSolicitudes, DeAlta
  <2>7. ASSUME NEW p \in Peticion, SelectToken(p) PROVE Ordenadas'
    BY <2>4, <2>7, SelectTokenEfecto DEF SoloLlamada, SelectToken, db, MismasSolicitudes, DeAlta
  <2>8. ASSUME NEW p \in Peticion, WritePassword(p) PROVE Ordenadas'
    BY <2>4, <2>8, WritePasswordEfecto DEF WritePassword, MismasSolicitudes, DeAlta
  <2>9. ASSUME NEW p \in Peticion, MarkTokenUsed(p) PROVE Ordenadas'
    BY <2>4, <2>9, MarkTokenUsedEfecto DEF MarkTokenUsed, MismasSolicitudes, DeAlta
  <2>10. ASSUME NEW p \in Peticion, Fail(p) PROVE Ordenadas'
    BY <2>4, <2>10, FailEfecto DEF SoloLlamada, Fail, db, MismasSolicitudes, DeAlta
  <2>11. CASE UNCHANGED <<usuarios, solicitudes, creadas, peticion>>
    BY <2>4, <2>11 DEF MismasSolicitudes
  <2> QED
    BY <2>1, <2>2, <2>3, <2>5, <2>6, <2>7, <2>8, <2>9, <2>10, <2>11
       DEF Next, Arrive, Continue, Tick, Terminated, vars
<1> QED
  BY <1>1, <1>2, SiempreFormados, SiempreTokens, PTL DEF Spec

(* Wherever a signup is cut short, the default requests of its user are the   *)
(* first ones of the list and only the last one may lack its CREACION row     *)
(* (signin.py 100-132).                                                       *)
THEOREM AltaSiemprePorOrden == Spec => []AltaPorOrden
<1>1. Ordenadas => AltaPorOrden
  BY DEF Ordenadas
<1> QED
  BY <1>1, SiempreOrdenadas, PTL
----------------------------------------------------------------------------
\* All the default requests of user u, and of each its CREACION row.
TodoHecho(u) ==
  /\ \A s \in DOMAIN solicitudes : solicitudes[s].id_empleado = u => s \in creadas
  /\ \A n \in Predeterminadas :
       \E s \in DOMAIN solicitudes : solicitudes[s].id_empleado = u /\ solicitudes[s].orden = n

\* A token comes after everything else, and an ok after the token.
Completas ==
  /\ \A k \in DOMAIN activaciones : TodoHecho(activaciones[k].usuario)
  /\ \A p \in Peticion : peticion[p].paso = "ok" /\ peticion[p].token = 0 =>
       \E k \in DOMAIN activaciones : activaciones[k].usuario = peticion[p].usuario

LEMMA SiempreCompletas == Spec => []Completas
<1>1. Init => Completas
  BY DEF Init, Completas, Nueva
<1>2. Formados /\ Tokens /\ Ordenadas /\ Completas /\ [Next]_vars => Completas'
  <2> SUFFICES ASSUME Formados, Tokens, Ordenadas, Completas, [Next]_vars PROVE Completas'
    OBVIOUS
  <2>0. Referencias
    BY HayReferencias
  <2>1. ASSUME MismasSolicitudes, activaciones' = activaciones, NEW p \in Peticion,
               \A q \in Peticion \ {p} : peticion'[q] = peticion[q], peticion'[p].paso # "ok"
        PROVE  Completas'
    <3>1. \A u : TodoHecho(u) => TodoHecho(u)'
      BY <2>1 DEF TodoHecho, MismasSolicitudes
    <3> QED
      BY <2>1, <3>1 DEF Completas
  <2>2. ASSUME NEW p \in Peticion, Signup(p) \/ ActivatePassword(p) PROVE Completas'
    BY <2>1, <2>2, SignupEfecto, ActivatePasswordEfecto
       DEF SoloLlamada, Signup, ActivatePassword, db, MismasSolicitudes
  <2>3. ASSUME NEW p \in Peticion, InsertUser(p) PROVE Completas'
    BY <2>1, <2>3, InsertUserEfecto DEF InsertUser, MismasSolicitudes
  <2>4. ASSUME NEW p \in Peticion, InsertDefaultRequest(p) PROVE Completas'
    <3>1. PICK u : u = peticion[p].usuario
      OBVIOUS
    <3>2. \A v : v # u /\ TodoHecho(v) => TodoHecho(v)'
      BY <2>4, <3>1, InsertDefaultRequestFilas DEF TodoHecho
    <3>3. \A k \in DOMAIN activaciones : activaciones[k].usuario # u
      BY <2>4, <3>1 DEF InsertDefaultRequest, Tokens, AltasAparte, DeAlta
    <3>4. /\ activaciones' = activaciones /\ peticion'[p].paso # "ok"
          /\ \A q \in Peticion \ {p} : peticion'[q] = peticion[q]
      BY <2>4, SolicitudesEfecto DEF SoloLlamada, DeAlta
    <3> QED
      BY <3>2, <3>3, <3>4 DEF Completas
  <2>5. ASSUME NEW p \in Peticion, RegisterCreation(p) PROVE Completas'
    <3>1. \A v : TodoHecho(v) => TodoHecho(v)'
      BY <2>5, RegisterCreationFilas DEF TodoHecho
    <3>2. /\ activaciones' = activaciones /\ peticion'[p].paso # "ok"
          /\ \A q \in Peticion \ {p} : peticion'[q] = peticion[q]
      BY <2>5, SolicitudesEfecto DEF SoloLlamada, DeAlta
    <3> QED
      BY <3>1, <3>2 DEF Completas
  <2>6. ASSUME NEW p \in Peticion, InsertToken(p) PROVE Completas'
    <3>1. PICK u : u = peticion[p].usuario
      OBVIOUS
    <3>2. TodoHecho(u)
      BY <2>6, <3>1 DEF InsertToken, Ordenadas, AltasEnOrden, AltaEnOrden, DeAlta, TodoHecho
    <3>3. \A v : TodoHecho(v) => TodoHecho(v)'
      BY <2>6 DEF InsertToken, TodoHecho
    <3>4. /\ \A k \in DOMAIN activaciones :
               k \in DOMAIN activaciones' /\ activaciones'[k] = activaciones[k]
          /\ \A k \in DOMAIN activaciones' :
               k \in DOMAIN activaciones \/ activaciones'[k].usuario = u
          /\ \E k \in DOMAIN activaciones' : activaciones'[k].usuario = u
          /\ peticion'[p].usuario = u
          /\ \A q \in Peticion \ {p} : peticion'[q] = peticion[q]
      BY <2>6, <3>1, InsertTokenEfecto DEF MismaLlamada
    <3> QED
      BY <3>2, <3>3, <3>4 DEF Completas
  <2>7. ASSUME NEW p \in Peticion, SelectToken(p) PROVE Completas'
    BY <2>1, <2>7, SelectTokenEfecto DEF SoloLlamada, SelectToken, db, MismasSolicitudes
  <2>8. ASSUME NEW p \in Peticion, WritePassword(p) PROVE Completas'
    BY <2>1, <2>8, WritePasswordEfecto DEF WritePassword, MismasSolicitudes
  <2>9. ASSUME NEW p \in Peticion, MarkTokenUsed(p) PROVE Completas'
    <3>1. \A u : TodoHecho(u) => TodoHecho(u)'
      BY <2>9 DEF MarkTokenUsed, TodoHecho
    <3>2. /\ DOMAIN activaciones' = DOMAIN activaciones
          /\ \A k \in DOMAIN activaciones : activaciones'[k].usuario = activaciones[k].usuario
          /\ peticion'[p].token # 0
          /\ \A q \in Peticion \ {p} : peticion'[q] = peticion[q]
      BY <2>0, <2>9, MarkTokenUsedEfecto DEF MismaLlamada, Referencias
    <3> QED
      BY <3>1, <3>2 DEF Completas
  <2>10. ASSUME NEW p \in Peticion, Fail(p) PROVE Completas'
    BY <2>1, <2>10, FailEfecto DEF SoloLlamada, Fail, db, MismasSolicitudes
  <2>11. CASE UNCHANGED <<solicitudes, creadas, activaciones, peticion>>
    BY <2>11 DEF Completas, TodoHecho
  <2> QED
    BY <2>2, <2>3, <2>4, <2>5, <2>6, <2>7, <2>8, <2>9, <2>10, <2>11
       DEF Next, Arrive, Continue, Tick, Terminated, vars
<1> QED
  BY <1>1, <1>2, SiempreFormados, SiempreTokens, SiempreOrdenadas, PTL DEF Spec

(* An ok of signup means that everything a new employee needs is there: each  *)
(* of the default requests, once, recorded, and the token (signin.py 211-236),*)
(* however many signups run at the same time.                                 *)
THEOREM AltaSiempreCompleta == Spec => []AltaCompleta
<1>1. Formados /\ Ordenadas /\ Completas => AltaCompleta
  <2> SUFFICES ASSUME Formados, Ordenadas, Completas, NEW p \in Peticion,
                      peticion[p].paso = "ok", peticion[p].token = 0
               PROVE  LET i == peticion[p].usuario
                      IN  /\ \A n \in Predeterminadas :
                               \E s \in DeUsuario(i) \cap creadas : solicitudes[s].orden = n
                          /\ Cardinality(DeUsuario(i)) = Cardinality(Predeterminadas)
                          /\ \E k \in DOMAIN activaciones : activaciones[k].usuario = i
    BY DEF AltaCompleta
  <2> DEFINE i == peticion[p].usuario
  <2>1. TodoHecho(i) /\ \E k \in DOMAIN activaciones : activaciones[k].usuario = i
    BY DEF Completas
  <2>2. \A n \in Predeterminadas :
          \E s \in DeUsuario(i) \cap creadas : solicitudes[s].orden = n
    BY <2>1 DEF TodoHecho, DeUsuario
  <2>3. \A s \in DeUsuario(i) : solicitudes[s].orden \in Predeterminadas
    BY FilasDeSolicitud DEF DeUsuario
  <2>4. \A s, r \in DeUsuario(i) : solicitudes[s].orden = solicitudes[r].orden => s = r
    BY DEF Ordenadas, SinRepetir, DeUsuario
  <2> HIDE DEF i
  <2> DEFINE f == [n \in Predeterminadas |->
                     CHOOSE s \in DeUsuario(i) : solicitudes[s].orden = n]
  <2>5. \A n \in Predeterminadas : f[n] \in DeUsuario(i) /\ solicitudes[f[n]].orden = n
    BY <2>2
  <2>6. \A s \in DeUsuario(i) : f[solicitudes[s].orden] = s
    BY <2>3, <2>4, <2>5
  <2>7. f \in [Predeterminadas -> DeUsuario(i)]
    BY <2>5
  <2> HIDE DEF f
  <2>8. f \in Bijection(Predeterminadas, DeUsuario(i))
    <3>1. f \in Injection(Predeterminadas, DeUsuario(i))
      BY <2>5, <2>7 DEF Injection, IsInjective
    <3>2. f \in Surjection(Predeterminadas, DeUsuario(i))
      BY <2>3, <2>6, <2>7 DEF Surjection
    <3> QED
      BY <3>1, <3>2 DEF Bijection
  <2>9. IsFiniteSet(Predeterminadas)
    <3>1. IsFiniteSet(1..3)
      BY FS_Interval, 1 \in Int, 3 \in Int
    <3> QED
      BY <3>1 DEF Predeterminadas
  <2>10. Cardinality(DeUsuario(i)) = Cardinality(Predeterminadas)
    BY <2>8, <2>9, FS_Bijection DEF ExistsBijection
  <2> QED
    BY <2>1, <2>2, <2>10 DEF i
<1> QED
  BY <1>1, SiempreFormados, SiempreOrdenadas, SiempreCompletas, PTL
=============================================================================
