----------------------------- MODULE SerieProofs -----------------------------
(****************************************************************************)
(* Proofs of what the handlers check before they write.  Most of it is for  *)
(* calls that come one at a time: what a call read is still so when it      *)
(* writes.  A failure, or the worker evicted in the middle of a call, does  *)
(* no harm to these.  The last section says what the checks are worth when  *)
(* calls overlap.                                                           *)
(****************************************************************************)
EXTENDS SolicitudesEnSerie, HistorialProofs, FiniteSetTheorems

DeUnaEnUna == IsFiniteSet(Peticion) /\ MaxSimultaneas \in {0, 1}

Sola == \A p, q \in Peticion : EnCurso(p) /\ EnCurso(q) => p = q

(* After a step of a call no other is running.                                *)
LEMMA NingunaOtra ==
  ASSUME DeUnaEnUna, TypeOK, Sola, NEW p \in Peticion, Turno(p)
  PROVE  \A q \in Peticion \ {p} : /\ peticion'[q] = peticion[q]
                                   /\ peticion[q].paso \notin EnEspera
<1>1. \A q \in Peticion \ {p} : peticion'[q] = peticion[q]
  BY SoloLaSuya DEF TypeOK
<1>2. CASE Llega(p)
  <2> DEFINE E == {q \in Peticion : EnCurso(q)}
  <2>1. IsFiniteSet(E) /\ Cardinality(E) \in Nat
    BY FS_Subset, FS_CardinalityType DEF DeUnaEnUna
  <2>2. Cardinality(E) < MaxSimultaneas
    BY <1>2 DEF Llega
  <2>3. Cardinality(E) = 0
    BY <2>1, <2>2 DEF DeUnaEnUna
  <2>4. E = {}
    BY <2>1, <2>3, FS_EmptySet
  <2> QED BY <1>1, <2>4 DEF EnCurso
<1>3. CASE EnCurso(p)
  BY <1>1, <1>3 DEF Sola, EnCurso
<1>4. Llega(p) \/ EnCurso(p)
  BY DEF Turno, Arrive, Continue, Fail, EnCurso, EnEspera, CreateOnboardingRequest,
     UpdateOnboardingRequest, AdvanceOnboardingRequestState, RejectOnboardingRequest,
     DeleteOnboardingRequest, DeleteMyOnboardingRequests, CreateDotacionTemplate,
     AdvanceUserOnboardingState, DeleteUser, SelectTemplate, InsertMissingTemplate,
     InsertRequest, WriteUpdate, WriteState, RegisterHistory, SendNotification, InsertTemplate,
     WriteUserState, SelectUserRequests, MarkUserDeleted
<1> QED BY <1>2, <1>3, <1>4

LEMMA SiempreSola ==
  ASSUME DeUnaEnUna
  PROVE  Spec => []Sola
<1>1. Init => Sola
  BY DEF Init, Sola, EnCurso, EnEspera, Nueva
<1>2. TypeOK /\ Sola /\ [Next]_vars => Sola'
  <2> SUFFICES ASSUME TypeOK, Sola, [Next]_vars PROVE Sola'
    OBVIOUS
  <2>1. CASE \E p \in Peticion : Arrive(p) \/ Continue(p) \/ Fail(p)
    BY <2>1, NingunaOtra DEF Turno, Sola, EnCurso
  <2>2. CASE UNCHANGED vars
    BY <2>2 DEF vars, Sola, EnCurso
  <2> QED BY <2>1, <2>2 DEF Next, Terminated
<1> QED BY <1>1, <1>2, TypeCorrect, PTL DEF Spec
----------------------------------------------------------------------------
(* A specification has one template.                                        *)

\* A template that is about to be inserted is not there.
Buscada(D, t) ==
  /\ t.paso = "alta_dotacion" => ~Tiene(D, t.fila.especificaciones)
  /\ t.paso = "alta_plantilla" => ~Tiene(D, t.fila.especificacion)

Buscadas == \A p \in Peticion : Buscada(Elementos(dotacion), peticion[p])

LEMMA UnaMas ==
  ASSUME PlantillaUnica, dotacion \in Seq(Plantilla), NEW d \in Plantilla,
         ~Tiene(Elementos(dotacion), d.especificacion), dotacion' = Append(dotacion, d)
  PROVE  PlantillaUnica'
<1> DEFINE n == Len(dotacion)
<1>1. n \in Nat /\ DOMAIN dotacion = 1..n
  BY LenProperties
<1>2. /\ DOMAIN dotacion' = 1..(n + 1) /\ dotacion'[n + 1] = d
      /\ \A i \in 1..n : dotacion'[i] = dotacion[i]
  BY <1>1, AppendProperties, LenProperties
<1> HIDE DEF n
<1>3. \A i \in 1..n : Clave[dotacion'[i].especificacion] # Clave[d.especificacion]
  BY <1>1, <1>2 DEF Tiene, Elementos
<1>4. \A i \in 1..(n + 1) : i \in 1..n \/ i = n + 1
  BY <1>1
<1>5. \A i, j \in 1..n :
        Clave[dotacion'[i].especificacion] = Clave[dotacion'[j].especificacion] => i = j
  BY <1>1, <1>2 DEF PlantillaUnica
<1>6. \A i, j \in 1..(n + 1) :
        Clave[dotacion'[i].especificacion] = Clave[dotacion'[j].especificacion] => i = j
  <2> SUFFICES ASSUME NEW i \in 1..(n + 1), NEW j \in 1..(n + 1), i # j
               PROVE  Clave[dotacion'[i].especificacion] # Clave[dotacion'[j].especificacion]
    OBVIOUS
  <2>1. CASE i \in 1..n /\ j \in 1..n
    BY <1>5, <2>1
  <2>2. CASE i \in 1..n /\ j = n + 1
    BY <1>2, <1>3, <2>2
  <2>3. CASE i = n + 1 /\ j \in 1..n
    BY <1>2, <1>3, <2>3
  <2> QED BY <1>4, <2>1, <2>2, <2>3
<1> QED BY <1>2, <1>6 DEF PlantillaUnica

LEMMA UnicasSeConserva ==
  ASSUME DeUnaEnUna, TypeOK, Sola, PlantillaUnica, Buscadas, NEW p \in Peticion, Turno(p)
  PROVE  PlantillaUnica' /\ Buscadas'
<1> DEFINE t == peticion[p]
<1>1. /\ peticion \in [Peticion -> Llamada] /\ t \in Llamada /\ Coherente(t, Ids)
      /\ dotacion \in Seq(Plantilla) /\ Buscada(Elementos(dotacion), t)
  BY DEF TypeOK, Buscadas
<1>2. PlantillaUnica'
  <2>1. CASE dotacion' = dotacion
    BY <2>1 DEF PlantillaUnica
  <2>2. CASE InsertMissingTemplate(p)
    <3>1. PICK d : /\ d = [encargado      |-> t.fila.destinatario,
                           especificacion |-> t.fila.especificaciones]
                   /\ dotacion' = Append(dotacion, d)
      BY <2>2 DEF InsertMissingTemplate
    <3>2. d \in Plantilla /\ d.especificacion = t.fila.especificaciones
      BY <1>1, <2>2, <3>1 DEF InsertMissingTemplate, Coherente, Plantilla, Fila
    <3>3. ~Tiene(Elementos(dotacion), d.especificacion)
      BY <1>1, <2>2, <3>2 DEF InsertMissingTemplate, Buscada
    <3> QED BY <1>1, <3>1, <3>2, <3>3, UnaMas
  <2>3. CASE InsertTemplate(p)
    <3>1. /\ t.fila \in Plantilla /\ dotacion' = Append(dotacion, t.fila)
          /\ ~Tiene(Elementos(dotacion), t.fila.especificacion)
      BY <1>1, <2>3 DEF InsertTemplate, Coherente, Buscada
    <3> QED BY <1>1, <3>1, UnaMas
  <2> QED BY <2>1, <2>2, <2>3, TablasQueTocan
<1>3. Buscada(Elementos(dotacion'), peticion'[p])
  <2>1. CASE peticion'[p].paso \notin {"alta_dotacion", "alta_plantilla"}
    BY <2>1 DEF Buscada
  <2>2. CASE SelectTemplate(p)
    <3>1. PICK r : /\ r = (IF HayPlantilla(t.fila.especificaciones) THEN "alta" ELSE "alta_dotacion")
                   /\ peticion'[p] = [t EXCEPT !.paso = r]
      BY <1>1, <2>2 DEF SelectTemplate, Queda
    <3>2. peticion'[p].paso = r /\ peticion'[p].fila = t.fila /\ dotacion' = dotacion
      BY <1>1, <2>2, <3>1 DEF Llamada, SelectTemplate, db
    <3> QED BY <3>1, <3>2 DEF HayPlantilla, Buscada, Tiene
  <2>3. CASE CreateDotacionTemplate(p) /\ peticion'[p].paso = "alta_plantilla"
    <3>1. PICK u \in Usuario, m \in Moldes :
            \/ /\ MoldeAdmitido(u, m)
               /\ peticion'[p] = [Nueva EXCEPT !.paso = "alta_plantilla", !.fila = PlantillaDe(m)]
            \/ peticion'[p] = [Nueva EXCEPT !.paso = "negada"]
      BY <1>1, <2>3 DEF CreateDotacionTemplate, Queda, Responde
    <3>2. MoldeAdmitido(u, m) /\ peticion'[p].fila = PlantillaDe(m)
      BY <2>3, <3>1 DEF Nueva
    <3>3. dotacion' = dotacion
      BY <2>3 DEF CreateDotacionTemplate, db
    <3> QED BY <2>3, <3>2, <3>3 DEF MoldeAdmitido, HayPlantilla, Buscada, Tiene
  <2>4. ASSUME NEW r \in {"plantilla", "editar", "alta", "negada", "ok", "error"},
               peticion'[p].paso = r
        PROVE  Buscada(Elementos(dotacion'), peticion'[p])
    BY <2>4 DEF Buscada
  <2>5. CASE CreateOnboardingRequest(p)
    <3>1. PICK f : \/ peticion'[p] = [Nueva EXCEPT !.paso = "plantilla", !.fila = f]
                   \/ peticion'[p] = [Nueva EXCEPT !.paso = "negada"]
      BY <1>1, <2>5 DEF CreateOnboardingRequest, Queda, Responde
    <3>2. peticion'[p].paso \in {"plantilla", "negada"}
      BY <3>1 DEF Nueva
    <3> QED BY <2>4, <3>2
  <2>6. CASE UpdateOnboardingRequest(p)
    <3>1. peticion'[p].paso \in {"editar", "negada", "ok", "error"}
      BY <2>6, EdicionAlLlegar DEF Respuesta
    <3> QED BY <2>4, <3>1
  <2>7. CASE InsertMissingTemplate(p)
    <3>1. peticion'[p] = [t EXCEPT !.paso = "alta"]
      BY <1>1, <2>7 DEF InsertMissingTemplate, Queda
    <3>2. peticion'[p].paso = "alta"
      BY <1>1, <3>1 DEF Llamada
    <3> QED BY <2>4, <3>2
  <2> QED BY <2>1, <2>2, <2>3, <2>5, <2>6, <2>7, PasoSiguiente
<1>4. Buscadas'
  <2> SUFFICES ASSUME NEW q \in Peticion PROVE Buscada(Elementos(dotacion'), peticion'[q])
    BY DEF Buscadas
  <2>1. CASE q = p
    BY <1>3, <2>1
  <2>2. CASE q # p
    BY <2>2, NingunaOtra DEF Buscada, EnEspera
  <2> QED BY <2>1, <2>2
<1> QED BY <1>2, <1>4

(* With the calls one at a time a specification never has two templates,       *)
(* whether it comes with a request or by itself.                               *)
THEOREM PlantillaSiempreUnica ==
  ASSUME DeUnaEnUna,
         \A i, j \in DOMAIN PlantillasIniciales :
           Clave[PlantillasIniciales[i].especificacion]
             = Clave[PlantillasIniciales[j].especificacion] => i = j
  PROVE  Spec => []PlantillaUnica
<1>1. Init => PlantillaUnica /\ Buscadas
  <2> SUFFICES ASSUME Init PROVE PlantillaUnica /\ Buscadas
    OBVIOUS
  <2>1. \A p \in Peticion : peticion[p].paso = "nueva"
    BY DEF Init, Nueva
  <2>2. PlantillaUnica
    BY DEF Init, PlantillaUnica
  <2> QED BY <2>1, <2>2 DEF Buscadas, Buscada
<1>2. /\ TypeOK /\ Sola /\ PlantillaUnica /\ Buscadas /\ [Next]_vars
      => PlantillaUnica' /\ Buscadas'
  <2> SUFFICES ASSUME TypeOK, Sola, PlantillaUnica, Buscadas, [Next]_vars
               PROVE  PlantillaUnica' /\ Buscadas'
    OBVIOUS
  <2>1. CASE \E p \in Peticion : Arrive(p) \/ Continue(p) \/ Fail(p)
    BY <2>1, UnicasSeConserva DEF Turno
  <2>2. CASE UNCHANGED vars
    BY <2>2 DEF vars, PlantillaUnica, Buscadas
  <2> QED BY <2>1, <2>2 DEF Next, Terminated
<1> QED BY <1>1, <1>2, TypeCorrect, SiempreSola, PTL DEF Spec
----------------------------------------------------------------------------
(* What a call read of SOLICITUDES is still so.                             *)

\* As Duplicada, of any rows.
Repetida(filas, e, spec) ==
  \E f \in filas : /\ f.id_empleado = e
                   /\ f.especificaciones # Nulo
                   /\ Clave[f.especificaciones] = Clave[spec]

Fresca(t) ==
  /\ t.paso = "editar" => t.leida = solicitudes[t.sol]
  /\ t.paso \in {"plantilla", "alta_dotacion", "alta"} =>
       ~Repetida(Elementos(solicitudes), t.fila.id_empleado, t.fila.especificaciones)

Frescas == \A p \in Peticion : Fresca(peticion[p])

LEMMA FrescasSeConserva ==
  ASSUME DeUnaEnUna, TypeOK, Sola, Frescas, NEW p \in Peticion, Turno(p)
  PROVE  Frescas'
<1> DEFINE t == peticion[p]
<1>1. /\ peticion \in [Peticion -> Llamada] /\ t \in Llamada /\ Fresca(t)
  BY DEF TypeOK, Frescas
<1>2. Fresca(peticion[p])'
  <2>1. CASE peticion'[p].paso \notin {"plantilla", "alta_dotacion", "alta", "editar"}
    BY <2>1 DEF Fresca
  <2>2. CASE CreateOnboardingRequest(p)
    <3>1. PICK u \in Usuario, a \in Altas :
            \/ /\ AltaAdmitida(u, a)
               /\ peticion'[p] = [Nueva EXCEPT !.paso = "plantilla", !.fila = FilaDeAlta(a)]
            \/ peticion'[p] = [Nueva EXCEPT !.paso = "negada"]
      BY <1>1, <2>2 DEF CreateOnboardingRequest, Queda, Responde
    <3>2. solicitudes' = solicitudes
      BY <2>2 DEF CreateOnboardingRequest, db
    <3>3. CASE peticion'[p] = [Nueva EXCEPT !.paso = "negada"]
      BY <3>3 DEF Nueva, Fresca
    <3>4. CASE /\ AltaAdmitida(u, a)
               /\ peticion'[p] = [Nueva EXCEPT !.paso = "plantilla", !.fila = FilaDeAlta(a)]
      <4>1. peticion'[p].paso = "plantilla" /\ peticion'[p].fila = FilaDeAlta(a)
        BY <3>4 DEF Nueva
      <4>2. FilaDeAlta(a).id_empleado = a.id_empleado
        <5>1. a \in OnboardingRequest
          BY SolicitudesAssumption
        <5> QED BY <5>1 DEF FilaDeAlta, OnboardingRequest
      <4>3. ~Repetida(Elementos(solicitudes), FilaDeAlta(a).id_empleado,
                      FilaDeAlta(a).especificaciones)
        BY <3>4, <4>2 DEF AltaAdmitida, Duplicada, Repetida
      <4> QED BY <3>2, <4>1, <4>3 DEF Fresca
    <3> QED BY <3>1, <3>3, <3>4
  <2>3. CASE UpdateOnboardingRequest(p)
    <3>1. \/ peticion'[p].paso \in Respuesta
          \/ \E i : /\ peticion'[p].paso = "editar" /\ peticion'[p].sol = i
                    /\ peticion'[p].leida = solicitudes[i]
      BY <2>3, EdicionAlLlegar
    <3>2. solicitudes' = solicitudes
      BY <2>3 DEF UpdateOnboardingRequest, db
    <3> QED BY <3>1, <3>2 DEF Fresca, Respuesta
  <2>4. CASE SelectTemplate(p) \/ InsertMissingTemplate(p)
    <3>1. PICK r \in {"alta", "alta_dotacion"} : peticion'[p] = [t EXCEPT !.paso = r]
      BY <1>1, <2>4 DEF SelectTemplate, InsertMissingTemplate, Queda
    <3>2. peticion'[p].paso = r /\ peticion'[p].fila = t.fila
      BY <1>1, <3>1 DEF Llamada
    <3>3. t.paso \in {"plantilla", "alta_dotacion"} /\ solicitudes' = solicitudes
      BY <2>4 DEF SelectTemplate, InsertMissingTemplate, db
    <3> QED BY <1>1, <3>2, <3>3 DEF Fresca
  <2> QED BY <2>1, <2>2, <2>3, <2>4, PasoSiguiente
<1>3. ASSUME NEW q \in Peticion, q # p PROVE Fresca(peticion[q])'
  BY <1>3, NingunaOtra DEF Fresca, EnEspera
<1> QED BY <1>2, <1>3 DEF Frescas

LEMMA SiempreFrescas ==
  ASSUME DeUnaEnUna
  PROVE  Spec => []Frescas
<1>1. Init => Frescas
  <2> SUFFICES ASSUME Init PROVE Frescas
    OBVIOUS
  <2>1. \A p \in Peticion : peticion[p].paso = "nueva"
    BY DEF Init, Nueva
  <2> QED BY <2>1 DEF Frescas, Fresca
<1>2. TypeOK /\ Sola /\ Frescas /\ [Next]_vars => Frescas'
  <2> SUFFICES ASSUME TypeOK, Sola, Frescas, [Next]_vars PROVE Frescas'
    OBVIOUS
  <2>1. CASE \E p \in Peticion : Arrive(p) \/ Continue(p) \/ Fail(p)
    BY <2>1, FrescasSeConserva DEF Turno
  <2>2. CASE UNCHANGED vars
    BY <2>2 DEF vars, Frescas, Fresca
  <2> QED BY <2>1, <2>2 DEF Next, Terminated
<1> QED BY <1>1, <1>2, TypeCorrect, SiempreSola, PTL DEF Spec

(* PATCH changes only the columns the client sent: the others are written as   *)
(* they were read, and so they still are.                                      *)
THEOREM EdicionSiempreParcial ==
  ASSUME DeUnaEnUna
  PROVE  Spec => EdicionParcial
<1> DEFINE Parcial(p) ==
      peticion[p].paso = "editar" /\ peticion'[p].paso # "editar" =>
        \A campo \in DOMAIN peticion[p].fila :
          peticion[p].fila[campo] = peticion[p].leida[campo] =>
            solicitudes'[peticion[p].sol][campo] = solicitudes[peticion[p].sol][campo]
<1>1. TypeOK /\ Sola /\ Frescas /\ [Next]_vars => [\A p \in Peticion : Parcial(p)]_vars
  <2> SUFFICES ASSUME TypeOK, Sola, Frescas, NEW p \in Peticion, NEW q \in Peticion, Turno(q),
                      peticion[p].paso = "editar", peticion'[p].paso # "editar",
                      NEW campo \in DOMAIN peticion[p].fila,
                      peticion[p].fila[campo] = peticion[p].leida[campo]
               PROVE  solicitudes'[peticion[p].sol][campo] = solicitudes[peticion[p].sol][campo]
    <3>1. CASE UNCHANGED vars
      BY <3>1
    <3>2. CASE \E q \in Peticion : Arrive(q) \/ Continue(q) \/ Fail(q)
      BY <3>2 DEF Turno
    <3> QED BY <3>1, <3>2 DEF Next, Terminated
  <2>1. q = p
    BY SoloLaSuya DEF TypeOK
  <2>2. solicitudes' = solicitudes \/ WriteUpdate(p)
    BY <2>1, TablasQueTocan DEF InsertRequest, WriteState
  <2>3. CASE WriteUpdate(p)
    <3>1. /\ peticion[p].sol \in Ids /\ peticion[p].fila \in Fila
          /\ peticion[p].leida = solicitudes[peticion[p].sol]
      BY DEF TypeOK, Coherente, Frescas, Fresca
    <3>2. solicitudes'[peticion[p].sol]
            = FilaEscrita(solicitudes[peticion[p].sol], peticion[p].fila)
      BY <2>3, <3>1 DEF WriteUpdate, Ids
    <3> QED BY <3>1, <3>2 DEF FilaEscrita, Fila
  <2> QED BY <2>2, <2>3
<1>2. Spec => [][\A p \in Peticion : Parcial(p)]_vars
  BY <1>1, TypeCorrect, SiempreSola, SiempreFrescas, PTL DEF Spec
<1> QED BY <1>2 DEF EdicionParcial
----------------------------------------------------------------------------
(* Two requests of one kind are the doing of a PATCH.                       *)

\* Rows f and g are of one employee and one kind, as in MismoTipo.
Iguales(f, g) ==
  /\ f.id_empleado = g.id_empleado
  /\ Nulo \notin {f.especificaciones, g.especificaciones}
  /\ Clave[f.especificaciones] = Clave[g.especificaciones]

Rastro(A, i, j, spec) ==
  \E h \in A : /\ h.sol \in {i, j}
               /\ h.tipo = "CAMBIO_ESPECIFICACIONES"
               /\ Clave[h.nuevo] = Clave[spec]

LEMMA RastroSeConserva ==
  ASSUME TypeOK, TypeOK', Frescas, DuplicadaConRastro, NEW p \in Peticion, Turno(p)
  PROVE  DuplicadaConRastro'
<1> DEFINE t == peticion[p]
<1>1. /\ peticion \in [Peticion -> Llamada] /\ t \in Llamada /\ Coherente(t, Ids) /\ Fresca(t)
      /\ Asientos \subseteq Asientos' /\ solicitudes \in Seq(Fila)
  BY NadaSePierde DEF TypeOK, Frescas
<1>2. ASSUME NEW i \in Ids, NEW j \in Ids, i # j, Iguales(solicitudes[i], solicitudes[j])
      PROVE  Rastro(Asientos', i, j, solicitudes[i].especificaciones)
  <2>1. Rastro(Asientos, i, j, solicitudes[i].especificaciones)
    BY <1>2 DEF DuplicadaConRastro, MismoTipo, Iguales, Rastro
  <2> QED BY <1>1, <2>1 DEF Rastro
<1> SUFFICES ASSUME NEW i \in Ids', NEW j \in Ids', i # j,
                    Iguales(solicitudes'[i], solicitudes'[j])
             PROVE  Rastro(Asientos', i, j, solicitudes'[i].especificaciones)
  BY DEF DuplicadaConRastro, MismoTipo, Iguales, Rastro
<1>3. CASE solicitudes' = solicitudes
  BY <1>2, <1>3 DEF Ids
<1>4. CASE InsertRequest(p)
  <2>1. /\ solicitudes' = Append(solicitudes, t.fila) /\ t.fila \in Fila
        /\ ~Repetida(Elementos(solicitudes), t.fila.id_empleado, t.fila.especificaciones)
    BY <1>1, <1>4 DEF InsertRequest, Coherente, Fresca
  <2>2. \A k \in Ids' : \/ k \in Ids /\ solicitudes'[k] = solicitudes[k]
                        \/ k = Len(solicitudes) + 1 /\ solicitudes'[k] = t.fila
    BY <1>1, <2>1, AppendProperties, LenProperties DEF Ids
  <2>3. \A k \in Ids : /\ ~Iguales(solicitudes[k], t.fila)
                       /\ ~Iguales(t.fila, solicitudes[k])
    BY <2>1 DEF Iguales, Repetida, Elementos, Ids
  <2> QED BY <1>2, <2>2, <2>3
<1>5. CASE WriteUpdate(p)
  <2>1. /\ t.paso = "editar" /\ t.fila \in Fila /\ t.sol \in Ids /\ t.leida = solicitudes[t.sol]
        /\ solicitudes' = [solicitudes EXCEPT ![t.sol] = FilaEscrita(@, t.fila)]
    BY <1>1, <1>5 DEF WriteUpdate, Coherente, Fresca
  <2>2. /\ Ids' = Ids /\ \A k \in Ids \ {t.sol} : solicitudes'[k] = solicitudes[k]
        /\ solicitudes'[t.sol] = FilaEscrita(solicitudes[t.sol], t.fila)
    BY <2>1 DEF Ids
  <2>3. /\ solicitudes'[t.sol].especificaciones = t.fila.especificaciones
        /\ solicitudes'[t.sol].id_empleado = solicitudes[t.sol].id_empleado
    BY <2>1, <2>2 DEF FilaEscrita, Fila
  <2>4. CASE t.sol \notin {i, j} \/ t.leida.especificaciones = t.fila.especificaciones
    <3>1. /\ solicitudes'[i].especificaciones = solicitudes[i].especificaciones
          /\ solicitudes'[j].especificaciones = solicitudes[j].especificaciones
          /\ solicitudes'[i].id_empleado = solicitudes[i].id_empleado
          /\ solicitudes'[j].id_empleado = solicitudes[j].id_empleado
      BY <2>1, <2>2, <2>3, <2>4
    <3> QED BY <1>2, <2>2, <3>1 DEF Iguales
  <2>5. CASE t.sol \in {i, j} /\ t.leida.especificaciones # t.fila.especificaciones
    <3>1. PICK l, f : l = t.leida.especificaciones /\ f = t.fila.especificaciones /\ l # f
      BY <2>5
    <3>2. PICK h \in Asientos' : h = Cambio(t.sol, "CAMBIO_ESPECIFICACIONES", l, f)
      BY <1>5, <3>1, EdicionDeTipoConsta
    <3>3. f # Nulo /\ Clave[f] = Clave[solicitudes'[i].especificaciones]
      BY <2>3, <2>5, <3>1 DEF Iguales
    <3>4. h.sol = t.sol /\ h.tipo = "CAMBIO_ESPECIFICACIONES" /\ h.nuevo = f
      BY <3>2, <3>3 DEF Cambio, ComoTexto
    <3> QED BY <2>5, <3>2, <3>3, <3>4 DEF Rastro
  <2> QED BY <2>4, <2>5
<1>6. CASE WriteState(p)
  <2>1. PICK c \in t.resto : solicitudes' = [solicitudes EXCEPT ![c.sol].estado = c.nuevo]
    BY <1>6 DEF WriteState
  <2>2. Ids' = Ids /\ \A k \in Ids : solicitudes[k] \in Fila
    BY <2>1, FilaDeId DEF Ids
  <2>3. \A k \in Ids : /\ solicitudes'[k].especificaciones = solicitudes[k].especificaciones
                       /\ solicitudes'[k].id_empleado = solicitudes[k].id_empleado
    BY <2>1, <2>2 DEF Ids, Fila
  <2> QED BY <1>2, <2>2, <2>3 DEF Iguales
<1> QED BY <1>3, <1>4, <1>5, <1>6, TablasQueTocan

(* With the calls one at a time, and no two requests of one kind at the start, *)
(* POST / makes no second one: it takes a PATCH, which leaves a row.           *)
THEOREM DuplicadaSiempreConRastro ==
  ASSUME DeUnaEnUna,
         \A i, j \in DOMAIN Iniciales : Iguales(Iniciales[i], Iniciales[j]) => i = j
  PROVE  Spec => []DuplicadaConRastro
<1>1. Init => DuplicadaConRastro
  BY DEF Init, DuplicadaConRastro, MismoTipo, Iguales, Ids
<1>2. TypeOK /\ TypeOK' /\ Frescas /\ DuplicadaConRastro /\ [Next]_vars => DuplicadaConRastro'
  <2> SUFFICES ASSUME TypeOK, TypeOK', Frescas, DuplicadaConRastro, [Next]_vars
               PROVE  DuplicadaConRastro'
    OBVIOUS
  <2>1. CASE \E p \in Peticion : Arrive(p) \/ Continue(p) \/ Fail(p)
    BY <2>1, RastroSeConserva DEF Turno
  <2>2. CASE UNCHANGED vars
    BY <2>2 DEF vars, DuplicadaConRastro, MismoTipo, Ids, Asientos, Escritos
  <2> QED BY <2>1, <2>2 DEF Next, Terminated
<1> QED BY <1>1, <1>2, TypeCorrect, SiempreFrescas, PTL DEF Spec
----------------------------------------------------------------------------
(* Where no PATCH sends another especificaciones, what POST / checks is     *)
(* enough.                                                                  *)

\* A PATCH leaves especificaciones as it is, or sends a null.
EdicionesSinTipo == \A e \in Ediciones : e.especificaciones \in {Ausente, Nulo}

ConservaTipo(t) ==
  t.paso = "editar" => t.fila.especificaciones \in {t.leida.especificaciones, Nulo}

ConservanTipo == \A p \in Peticion : ConservaTipo(peticion[p])

LEMMA ConservanTipoSiempre ==
  ASSUME EdicionesSinTipo
  PROVE  Spec => []ConservanTipo
<1>1. Init => ConservanTipo
  <2> SUFFICES ASSUME Init PROVE ConservanTipo
    OBVIOUS
  <2>1. \A p \in Peticion : peticion[p].paso = "nueva"
    BY DEF Init, Nueva
  <2> QED BY <2>1 DEF ConservanTipo, ConservaTipo
<1>2. ASSUME TypeOK, ConservanTipo, NEW p \in Peticion, Turno(p) PROVE ConservanTipo'
  <2>1. peticion \in [Peticion -> Llamada] /\ ConservaTipo(peticion[p])
    BY <1>2 DEF TypeOK, ConservanTipo
  <2>2. ConservaTipo(peticion'[p])
    <3>1. CASE peticion'[p].paso # "editar"
      BY <3>1 DEF ConservaTipo
    <3>2. CASE UpdateOnboardingRequest(p) /\ peticion'[p].paso = "editar"
      <4>1. PICK i \in Ids, e \in Ediciones :
              /\ peticion'[p].leida = solicitudes[i]
              /\ peticion'[p].fila = FilaEditada(solicitudes[i], e)
        BY <1>2, <3>2, EdicionAlLlegar DEF Respuesta
      <4>2. solicitudes[i] \in Fila /\ e.especificaciones \in {Ausente, Nulo}
        BY <1>2, FilaDeId DEF EdicionesSinTipo
      <4>3. FilaEditada(solicitudes[i], e).especificaciones
              \in {solicitudes[i].especificaciones, Nulo}
        BY <4>2 DEF FilaEditada, Nuevo, Fila
      <4> QED BY <4>1, <4>3 DEF ConservaTipo
    <3>3. CASE CreateOnboardingRequest(p) /\ peticion'[p].paso = "editar"
      <4>1. PICK f : \/ peticion'[p] = [Nueva EXCEPT !.paso = "plantilla", !.fila = f]
                     \/ peticion'[p] = [Nueva EXCEPT !.paso = "negada"]
        BY <2>1, <3>3 DEF CreateOnboardingRequest, Queda, Responde
      <4>2. peticion'[p].paso \in {"plantilla", "negada"}
        BY <4>1 DEF Nueva
      <4> QED BY <3>3, <4>2
    <3>4. CASE (SelectTemplate(p) \/ InsertMissingTemplate(p)) /\ peticion'[p].paso = "editar"
      <4>1. PICK r \in {"alta", "alta_dotacion"} : peticion'[p] = [peticion[p] EXCEPT !.paso = r]
        BY <2>1, <3>4 DEF SelectTemplate, InsertMissingTemplate, Queda
      <4>2. peticion'[p].paso = r
        BY <2>1, <4>1 DEF Llamada
      <4> QED BY <3>4, <4>2
    <3> QED BY <1>2, <3>1, <3>2, <3>3, <3>4, PasoSiguiente
  <2>3. ASSUME NEW q \in Peticion, q # p PROVE peticion'[q] = peticion[q]
    BY <1>2, <2>3, SoloLaSuya DEF TypeOK
  <2> QED BY <1>2, <2>2, <2>3 DEF ConservanTipo
<1>3. TypeOK /\ ConservanTipo /\ [Next]_vars => ConservanTipo'
  <2> SUFFICES ASSUME TypeOK, ConservanTipo, [Next]_vars PROVE ConservanTipo'
    OBVIOUS
  <2>1. CASE \E p \in Peticion : Arrive(p) \/ Continue(p) \/ Fail(p)
    BY <1>2, <2>1 DEF Turno
  <2>2. CASE UNCHANGED vars
    BY <2>2 DEF vars, ConservanTipo
  <2> QED BY <2>1, <2>2 DEF Next, Terminated
<1> QED BY <1>1, <1>3, TypeCorrect, PTL DEF Spec

LEMMA SinDuplicadasSeConserva ==
  ASSUME TypeOK, Frescas, ConservanTipo, SinDuplicadas, NEW p \in Peticion, Turno(p)
  PROVE  SinDuplicadas'
<1> DEFINE t == peticion[p]
<1>1. /\ t \in Llamada /\ Coherente(t, Ids) /\ Fresca(t) /\ ConservaTipo(t)
      /\ solicitudes \in Seq(Fila)
  BY DEF TypeOK, Frescas, ConservanTipo
<1>2. \A i, j \in Ids : Iguales(solicitudes[i], solicitudes[j]) => i = j
  BY DEF SinDuplicadas, MismoTipo, Iguales
<1> SUFFICES ASSUME NEW i \in Ids', NEW j \in Ids', Iguales(solicitudes'[i], solicitudes'[j])
             PROVE  i = j
  BY DEF SinDuplicadas, MismoTipo, Iguales
<1>3. CASE solicitudes' = solicitudes
  BY <1>2, <1>3 DEF Ids
<1>4. CASE InsertRequest(p)
  <2>1. /\ solicitudes' = Append(solicitudes, t.fila) /\ t.fila \in Fila
        /\ ~Repetida(Elementos(solicitudes), t.fila.id_empleado, t.fila.especificaciones)
    BY <1>1, <1>4 DEF InsertRequest, Coherente, Fresca
  <2>2. \A k \in Ids' : \/ k \in Ids /\ solicitudes'[k] = solicitudes[k]
                        \/ k = Len(solicitudes) + 1 /\ solicitudes'[k] = t.fila
    BY <1>1, <2>1, AppendProperties, LenProperties DEF Ids
  <2>3. \A k \in Ids : /\ ~Iguales(solicitudes[k], t.fila)
                       /\ ~Iguales(t.fila, solicitudes[k])
    BY <2>1 DEF Iguales, Repetida, Elementos, Ids
  <2> QED BY <1>2, <2>2, <2>3
<1>5. CASE WriteUpdate(p)
  <2>1. /\ t.fila \in Fila /\ t.sol \in Ids /\ t.leida = solicitudes[t.sol]
        /\ t.fila.especificaciones \in {t.leida.especificaciones, Nulo}
        /\ solicitudes' = [solicitudes EXCEPT ![t.sol] = FilaEscrita(@, t.fila)]
    BY <1>1, <1>5 DEF WriteUpdate, Coherente, Fresca, ConservaTipo
  <2>2. /\ Ids' = Ids /\ \A k \in Ids \ {t.sol} : solicitudes'[k] = solicitudes[k]
        /\ solicitudes'[t.sol] = FilaEscrita(solicitudes[t.sol], t.fila)
    BY <2>1 DEF Ids
  <2>3. /\ solicitudes'[t.sol].especificaciones \in {solicitudes[t.sol].especificaciones, Nulo}
        /\ solicitudes'[t.sol].id_empleado = solicitudes[t.sol].id_empleado
    BY <2>1, <2>2 DEF FilaEscrita, Fila
  <2>4. \A k \in Ids : /\ solicitudes'[k].id_empleado = solicitudes[k].id_empleado
                       /\ solicitudes'[k].especificaciones # Nulo =>
                            solicitudes'[k].especificaciones = solicitudes[k].especificaciones
    BY <2>2, <2>3
  <2>5. Iguales(solicitudes[i], solicitudes[j])
    BY <2>2, <2>4 DEF Iguales
  <2> QED BY <1>2, <2>2, <2>5
<1>6. CASE WriteState(p)
  <2>1. PICK c \in t.resto : solicitudes' = [solicitudes EXCEPT ![c.sol].estado = c.nuevo]
    BY <1>6 DEF WriteState
  <2>2. Ids' = Ids /\ \A k \in Ids : solicitudes[k] \in Fila
    BY <2>1, FilaDeId DEF Ids
  <2>3. \A k \in Ids : /\ solicitudes'[k].especificaciones = solicitudes[k].especificaciones
                       /\ solicitudes'[k].id_empleado = solicitudes[k].id_empleado
    BY <2>1, <2>2 DEF Ids, Fila
  <2> QED BY <1>2, <2>2, <2>3 DEF Iguales
<1> QED BY <1>3, <1>4, <1>5, <1>6, TablasQueTocan

(* An employee has one request of each kind, as create.py 72-86 means it, if   *)
(* the calls come one at a time and PATCH sends no other especificaciones.     *)
(* Neither can be spared: two POST / at once make a duplicate, and so does one *)
(* PATCH.  A failure, or the worker evicted in the middle, does no harm.       *)
THEOREM UnaDeCadaTipo ==
  ASSUME DeUnaEnUna, EdicionesSinTipo,
         \A i, j \in DOMAIN Iniciales : Iguales(Iniciales[i], Iniciales[j]) => i = j
  PROVE  Spec => []SinDuplicadas
<1>1. Init => SinDuplicadas
  BY DEF Init, SinDuplicadas, MismoTipo, Iguales, Ids
<1>2. TypeOK /\ Frescas /\ ConservanTipo /\ SinDuplicadas /\ [Next]_vars => SinDuplicadas'
  <2> SUFFICES ASSUME TypeOK, Frescas, ConservanTipo, SinDuplicadas, [Next]_vars
               PROVE  SinDuplicadas'
    OBVIOUS
  <2>1. CASE \E p \in Peticion : Arrive(p) \/ Continue(p) \/ Fail(p)
    BY <2>1, SinDuplicadasSeConserva DEF Turno
  <2>2. CASE UNCHANGED vars
    BY <2>2 DEF vars, SinDuplicadas, MismoTipo, Ids
  <2> QED BY <2>1, <2>2 DEF Next, Terminated
<1> QED BY <1>1, <1>2, TypeCorrect, SiempreFrescas, ConservanTipoSiempre, PTL DEF Spec
----------------------------------------------------------------------------
(* What the calls that mark requests still have to mark.                    *)

\* A call of a request deletes none that is 'En proceso'; one of a user deletes
\* every request of the user that is not deleted yet.
Limpia(S, t) ==
  /\ \A c, d \in t.resto : c.nuevo = d.nuevo
  /\ t.usuario = Nulo =>
       \A c \in t.resto : c.nuevo = "Eliminada" => S[c.sol].estado # "En proceso"
  /\ t.usuario # Nulo =>
       /\ \A c \in t.resto : c.nuevo = "Eliminada"
       /\ \A i \in DOMAIN S : S[i].id_empleado = t.usuario =>
            S[i].estado = "Eliminada" \/ \E c \in t.resto : c.sol = i

Marcando == {"marcar", "registrar", "avisar", "baja_usuario"}

Tarea(S, t) ==
  /\ t.paso \in Marcando => Limpia(S, t)
  /\ t.paso = "baja_usuario" => t.resto = {}

Tareas == \A p \in Peticion : Tarea(solicitudes, peticion[p])

LEMMA TareaDeProsigue ==
  ASSUME NEW p \in Peticion, NEW S, NEW t, Prosigue(p, t), Limpia(S, t), t.fin \in Respuesta,
         {"paso", "resto", "usuario"} \subseteq DOMAIN t,
         peticion \in [Peticion -> Llamada]
  PROVE  Tarea(S, peticion'[p])
<1>1. CASE Siguiente(t) \in Respuesta
  <2>1. peticion'[p] = [Nueva EXCEPT !.paso = Siguiente(t)]
    BY <1>1 DEF Prosigue, Responde, Queda
  <2>2. peticion'[p].paso \in Respuesta
    BY <1>1, <2>1 DEF Nueva
  <2> QED BY <2>2 DEF Respuesta, Tarea, Marcando
<1>2. CASE Siguiente(t) \notin Respuesta
  <2>1. peticion'[p] = [t EXCEPT !.paso = Siguiente(t)]
    BY <1>2 DEF Prosigue, Queda
  <2>2. /\ peticion'[p].paso = Siguiente(t) /\ peticion'[p].resto = t.resto
        /\ peticion'[p].usuario = t.usuario
    BY <2>1
  <2>3. Siguiente(t) = "baja_usuario" => t.resto = {}
    BY <1>2 DEF Siguiente, Respuesta
  <2> QED BY <2>2, <2>3 DEF Tarea, Limpia
<1> QED BY <1>1, <1>2

LEMMA TareasAlLlegar ==
  ASSUME TypeOK, NEW p \in Peticion, Arrive(p)
  PROVE  Tarea(solicitudes', peticion'[p])
<1>1. peticion \in [Peticion -> Llamada]
  BY DEF TypeOK
<1>2. solicitudes' = solicitudes
  BY DEF Arrive, db, CreateOnboardingRequest, UpdateOnboardingRequest,
     AdvanceOnboardingRequestState, RejectOnboardingRequest, DeleteOnboardingRequest,
     DeleteMyOnboardingRequests, CreateDotacionTemplate, AdvanceUserOnboardingState, DeleteUser
<1>n. ASSUME peticion'[p].paso \in {"plantilla", "editar", "alta_plantilla", "finalizar_usuario",
                                   "listar_usuario", "ok", "negada", "error"}
      PROVE  Tarea(solicitudes', peticion'[p])
  BY <1>n DEF Tarea, Marcando
<1>r. ASSUME NEW r \in Respuesta, Responde(p, r) PROVE Tarea(solicitudes', peticion'[p])
  <2>1. peticion'[p] = [Nueva EXCEPT !.paso = r]
    BY <1>1, <1>r DEF Responde, Queda
  <2>2. peticion'[p].paso = r
    BY <2>1 DEF Nueva
  <2> QED BY <1>n, <2>2 DEF Respuesta
<1>m. ASSUME NEW resto, Marca(p, resto),
             \A c, d \in resto : c.nuevo = d.nuevo,
             \A c \in resto : c.nuevo = "Eliminada" => solicitudes[c.sol].estado # "En proceso"
      PROVE  Tarea(solicitudes', peticion'[p])
  <2> DEFINE t == [Nueva EXCEPT !.resto = resto]
  <2>1. /\ Prosigue(p, t) /\ t.fin \in Respuesta /\ t.resto = resto /\ t.usuario = Nulo
        /\ {"paso", "resto", "usuario"} \subseteq DOMAIN t
    BY <1>m DEF Marca, Nueva, Respuesta
  <2> HIDE DEF t
  <2>2. Limpia(solicitudes, t)
    BY <1>m, <2>1 DEF Limpia
  <2> QED BY <1>1, <1>2, <2>1, <2>2, TareaDeProsigue
<1>3. /\ \A i, tipo, a, b : Cambio(i, tipo, a, b).sol = i
      /\ \A i, tipo, a : Cambio(i, tipo, a, "Eliminada").nuevo # "En proceso"
      /\ \A i, tipo, a : Cambio(i, tipo, a, "Rechazado").nuevo # "Eliminada"
  BY DEF Cambio, ComoTexto
<1>4. CASE AdvanceOnboardingRequestState(p)
  <2>1. CASE Responde(p, "negada")
    BY <1>r, <2>1 DEF Respuesta
  <2>2. CASE ~Responde(p, "negada")
    <3>1. PICK i, r, c, a :
            /\ i \in Ids
            /\ next_state(solicitudes[i].estado) # Nulo
            /\ c = Cambio(i, "CAMBIO_ESTADO", solicitudes[i].estado, next_state(solicitudes[i].estado))
            /\ r = {c}
            /\ Prosigue(p, [Nueva EXCEPT !.sol = i, !.resto = r, !.avisar = a])
      BY <1>4, <2>2 DEF AdvanceOnboardingRequestState, PuedeAvanzar
    <3> DEFINE t == [Nueva EXCEPT !.sol = i, !.resto = r, !.avisar = a]
    <3>2. /\ Prosigue(p, t) /\ t.fin \in Respuesta /\ t.resto = r /\ t.usuario = Nulo
          /\ {"paso", "resto", "usuario"} \subseteq DOMAIN t
      BY <3>1 DEF Nueva, Respuesta
    <3> HIDE DEF t
    <3>3. c.nuevo # "Eliminada"
      <4>1. next_state(solicitudes[i].estado) \in {"En proceso", "Finalizado"}
        BY <3>1, EstadosQueSiguen
      <4>2. c.nuevo = next_state(solicitudes[i].estado)
        BY <3>1 DEF Cambio, ComoTexto
      <4> QED BY <4>1, <4>2
    <3>4. Limpia(solicitudes, t)
      <4>1. \A d \in r : d = c
        BY <3>1
      <4>2. /\ \A d, g \in t.resto : d.nuevo = g.nuevo
            /\ \A d \in t.resto : d.nuevo # "Eliminada"
        BY <3>2, <3>3, <4>1
      <4>3. t.usuario = Nulo
        BY <3>2
      <4> QED BY <4>2, <4>3 DEF Limpia
    <3> QED BY <1>1, <1>2, <3>2, <3>4, TareaDeProsigue
  <2> QED BY <2>1, <2>2
<1>5. CASE RejectOnboardingRequest(p)
  <2>1. CASE Responde(p, "negada")
    BY <1>r, <2>1 DEF Respuesta
  <2>2. CASE ~Responde(p, "negada")
    <3>1. PICK i, a, r, c : /\ c = Cambio(i, "CAMBIO_ESTADO", a, "Rechazado")
                            /\ r = {c} /\ Marca(p, r)
      BY <1>5, <2>2 DEF RejectOnboardingRequest
    <3>2. c.nuevo # "Eliminada" /\ \A d \in r : d = c
      BY <1>3, <3>1
    <3>3. /\ \A d, g \in r : d.nuevo = g.nuevo
          /\ \A d \in r : d.nuevo = "Eliminada" => solicitudes[d.sol].estado # "En proceso"
      BY <3>2
    <3> QED BY <1>m, <3>1, <3>3
  <2> QED BY <2>1, <2>2
<1>6. CASE DeleteOnboardingRequest(p)
  <2>1. CASE Responde(p, "negada")
    BY <1>r, <2>1 DEF Respuesta
  <2>2. CASE ~Responde(p, "negada")
    <3>1. PICK i, r, c :
            /\ i \in Ids
            /\ solicitudes[i].estado # "En proceso"
            /\ c = Cambio(i, "ELIMINACION", solicitudes[i].estado, "Eliminada")
            /\ r = {c} /\ Marca(p, r)
      BY <1>6, <2>2 DEF DeleteOnboardingRequest, PuedeEliminar
    <3>2. c.sol = i /\ \A d \in r : d = c
      BY <1>3, <3>1
    <3>3. /\ \A d, g \in r : d.nuevo = g.nuevo
          /\ \A d \in r : d.nuevo = "Eliminada" => solicitudes[d.sol].estado # "En proceso"
      BY <3>1, <3>2
    <3> QED BY <1>m, <3>1, <3>3
  <2> QED BY <2>1, <2>2
<1>7. CASE DeleteMyOnboardingRequests(p)
  <2>1. PICK u, r :
          /\ r = {Cambio(i, "ELIMINACION", "Pendiente", "Eliminada") : i \in PendientesDe(u)}
          /\ Marca(p, r)
    BY <1>7 DEF DeleteMyOnboardingRequests
  <2>2. \A c \in r : c.nuevo = ComoTexto("Eliminada") /\ solicitudes[c.sol].estado = "Pendiente"
    BY <2>1 DEF Cambio, PendientesDe
  <2> QED BY <1>m, <2>1, <2>2
<1>8. CASE CreateOnboardingRequest(p)
  <2>1. PICK f : \/ peticion'[p] = [Nueva EXCEPT !.paso = "plantilla", !.fila = f]
                 \/ peticion'[p] = [Nueva EXCEPT !.paso = "negada"]
    BY <1>1, <1>8 DEF CreateOnboardingRequest, Queda, Responde
  <2>2. peticion'[p].paso \in {"plantilla", "negada"}
    BY <2>1 DEF Nueva
  <2> QED BY <1>n, <2>2
<1>9. CASE UpdateOnboardingRequest(p)
  <2>1. peticion'[p].paso \in {"editar", "negada", "ok", "error"}
    BY <1>9, EdicionAlLlegar DEF Respuesta
  <2> QED BY <1>n, <2>1
<1>10. CASE CreateDotacionTemplate(p)
  <2>1. PICK f : \/ peticion'[p] = [Nueva EXCEPT !.paso = "alta_plantilla", !.fila = f]
                 \/ peticion'[p] = [Nueva EXCEPT !.paso = "negada"]
    BY <1>1, <1>10 DEF CreateDotacionTemplate, Queda, Responde
  <2>2. peticion'[p].paso \in {"alta_plantilla", "negada"}
    BY <2>1 DEF Nueva
  <2> QED BY <1>n, <2>2
<1>11. CASE AdvanceUserOnboardingState(p)
  <2>1. PICK v : \/ peticion'[p] = [Nueva EXCEPT !.paso = "finalizar_usuario", !.usuario = v]
                 \/ peticion'[p] = [Nueva EXCEPT !.paso = "negada"]
    BY <1>1, <1>11 DEF AdvanceUserOnboardingState, Queda, Responde
  <2>2. peticion'[p].paso \in {"finalizar_usuario", "negada"}
    BY <2>1 DEF Nueva
  <2> QED BY <1>n, <2>2
<1>12. CASE DeleteUser(p)
  <2>1. PICK v : \/ peticion'[p] = [Nueva EXCEPT !.paso = "listar_usuario", !.usuario = v]
                 \/ peticion'[p] = [Nueva EXCEPT !.paso = "negada"]
    BY <1>1, <1>12 DEF DeleteUser, Queda, Responde
  <2>2. peticion'[p].paso \in {"listar_usuario", "negada"}
    BY <2>1 DEF Nueva
  <2> QED BY <1>n, <2>2
<1> QED
  BY <1>4, <1>5, <1>6, <1>7, <1>8, <1>9, <1>10, <1>11, <1>12 DEF Arrive

(* What a call is after a statement of its own that leaves resto and usuario. *)
LEMMA LimpiaIgual ==
  ASSUME NEW S, NEW t, NEW u, Limpia(S, t), u.resto = t.resto, u.usuario = t.usuario
  PROVE  Limpia(S, u)
  BY DEF Limpia

LEMMA TareasAlSeguir ==
  ASSUME TypeOK, Tareas, NEW p \in Peticion, Continue(p) \/ Fail(p)
  PROVE  Tarea(solicitudes', peticion'[p])
<1> DEFINE t == peticion[p]
<1>1. /\ peticion \in [Peticion -> Llamada] /\ t \in Llamada /\ Coherente(t, Ids)
      /\ solicitudes \in Seq(Fila) /\ Tarea(solicitudes, t)
  BY DEF TypeOK, Tareas
<1>2. /\ t.resto \in SUBSET Asiento /\ t.fin \in Respuesta
      /\ {"paso", "resto", "usuario"} \subseteq DOMAIN t
  BY <1>1 DEF Llamada
<1>n. ASSUME peticion'[p].paso \in {"alta", "alta_dotacion", "ok", "negada", "error"}
      PROVE  Tarea(solicitudes', peticion'[p])
  BY <1>n DEF Tarea, Marcando
<1>v. ASSUME NEW s, Prosigue(p, s), s.fin \in Respuesta, s.resto = {}, s.usuario = Nulo,
             {"paso", "resto", "usuario"} \subseteq DOMAIN s
      PROVE  Tarea(solicitudes', peticion'[p])
  <2>1. Limpia(solicitudes', s)
    BY <1>v DEF Limpia
  <2> QED BY <1>1, <1>v, <2>1, TareaDeProsigue
<1>3. CASE SelectTemplate(p) \/ InsertMissingTemplate(p) \/ Fail(p)
  <2>1. PICK r \in {"alta", "alta_dotacion", "error"} :
          peticion'[p] = [t EXCEPT !.paso = r] \/
          peticion'[p] = [Nueva EXCEPT !.paso = r, !.cambios = t.cambios]
    <3>1. CASE SelectTemplate(p)
      BY <1>1, <3>1 DEF SelectTemplate, Queda
    <3>2. CASE InsertMissingTemplate(p)
      BY <1>1, <3>2 DEF InsertMissingTemplate, Queda
    <3>3. CASE Fail(p)
      BY <1>1, <3>3 DEF Fail, Queda
    <3> QED BY <1>3, <3>1, <3>2, <3>3
  <2>2. peticion'[p].paso = r
    BY <1>2, <2>1 DEF Nueva
  <2> QED BY <1>n, <2>2
<1>4. CASE InsertRequest(p)
  <2>1. PICK s : /\ s = [Nueva EXCEPT !.sol = Len(solicitudes) + 1,
                           !.cambios = <<Cambio(Len(solicitudes) + 1, "CREACION", Nulo, t.fila.estado)>>]
                 /\ Prosigue(p, s)
    BY <1>4 DEF InsertRequest
  <2>2. /\ s.fin \in Respuesta /\ s.resto = {} /\ s.usuario = Nulo
        /\ {"paso", "resto", "usuario"} \subseteq DOMAIN s
    BY <2>1 DEF Nueva, Respuesta
  <2> QED BY <1>v, <2>1, <2>2
<1>5. CASE WriteUpdate(p)
  <2>1. PICK s : /\ s = [Nueva EXCEPT
                           !.sol     = t.sol,
                           !.cambios = Cambios(t.sol, t.leida, t.fila),
                           !.avisar  = t.leida.estado # "En proceso" /\ t.fila.estado = "En proceso",
                           !.fin     = RespuestaDe(t.fila)]
                 /\ Prosigue(p, s)
    BY <1>5 DEF WriteUpdate
  <2>2. RespuestaDe(t.fila) \in Respuesta
    BY DEF RespuestaDe, Respuesta
  <2>3. /\ s.fin \in Respuesta /\ s.resto = {} /\ s.usuario = Nulo
        /\ {"paso", "resto", "usuario"} \subseteq DOMAIN s
    BY <2>1, <2>2 DEF Nueva
  <2> QED BY <1>v, <2>1, <2>3
<1>6. CASE WriteState(p)
  <2>1. PICK c, s :
          /\ c \in t.resto
          /\ solicitudes' = [solicitudes EXCEPT ![c.sol].estado = c.nuevo]
          /\ s = [t EXCEPT !.resto = @ \ {c}, !.cambios = <<c>>]
          /\ Prosigue(p, s)
    BY <1>6 DEF WriteState
  <2>2. /\ s.fin \in Respuesta /\ s.resto = t.resto \ {c} /\ s.usuario = t.usuario
        /\ {"paso", "resto", "usuario"} \subseteq DOMAIN s
    BY <1>1, <1>2, <2>1 DEF Llamada
  <2>3. Limpia(solicitudes, t)
    BY <1>1, <1>6 DEF WriteState, Tarea, Marcando
  <2>4. c.sol \in Ids
    BY <1>1, <2>1 DEF Coherente
  <2>5. /\ DOMAIN solicitudes' = DOMAIN solicitudes
        /\ solicitudes'[c.sol].estado = c.nuevo
        /\ \A i \in Ids : solicitudes'[i].id_empleado = solicitudes[i].id_empleado
        /\ \A i \in Ids : i # c.sol => solicitudes'[i] = solicitudes[i]
    <3>1. PICK k, e, f : /\ k = c.sol /\ e = c.nuevo
                        /\ f = [solicitudes[k] EXCEPT !.estado = e]
                        /\ solicitudes' = [solicitudes EXCEPT ![k] = f]
                        /\ k \in DOMAIN solicitudes
      BY <2>1, <2>4 DEF Ids
    <3>2. solicitudes[k] \in Fila
      BY <1>1, <3>1, ElementOfSeq
    <3>3. f.estado = e /\ f.id_empleado = solicitudes[k].id_empleado
      BY <3>1, <3>2 DEF Fila
    <3>4. /\ DOMAIN solicitudes' = DOMAIN solicitudes /\ solicitudes'[k] = f
          /\ \A j \in DOMAIN solicitudes : j # k => solicitudes'[j] = solicitudes[j]
      BY <3>1
    <3> QED BY <3>1, <3>3, <3>4 DEF Ids
  <2>6. \A d \in s.resto : d \in t.resto /\ d.sol \in Ids /\ d.nuevo = c.nuevo
    BY <1>1, <2>1, <2>2, <2>3 DEF Coherente, Limpia
  <2>7. s.usuario = Nulo =>
          \A d \in s.resto : d.nuevo = "Eliminada" => solicitudes'[d.sol].estado # "En proceso"
    <3> SUFFICES ASSUME s.usuario = Nulo, NEW d \in s.resto, d.nuevo = "Eliminada"
                 PROVE  solicitudes'[d.sol].estado # "En proceso"
      OBVIOUS
    <3>1. solicitudes[d.sol].estado # "En proceso"
      BY <2>2, <2>3, <2>6 DEF Limpia
    <3> QED BY <2>5, <2>6, <3>1
  <2>8. s.usuario # Nulo =>
          /\ \A d \in s.resto : d.nuevo = "Eliminada"
          /\ \A i \in DOMAIN solicitudes' : solicitudes'[i].id_empleado = s.usuario =>
               solicitudes'[i].estado = "Eliminada" \/ \E d \in s.resto : d.sol = i
    <3> SUFFICES ASSUME s.usuario # Nulo
                 PROVE  /\ \A d \in s.resto : d.nuevo = "Eliminada"
                        /\ \A i \in DOMAIN solicitudes' : solicitudes'[i].id_empleado = s.usuario =>
                             solicitudes'[i].estado = "Eliminada" \/ \E d \in s.resto : d.sol = i
      OBVIOUS
    <3>1. /\ \A d \in t.resto : d.nuevo = "Eliminada"
          /\ \A i \in DOMAIN solicitudes : solicitudes[i].id_empleado = t.usuario =>
               solicitudes[i].estado = "Eliminada" \/ \E d \in t.resto : d.sol = i
      BY <2>2, <2>3 DEF Limpia
    <3>2. ASSUME NEW i \in DOMAIN solicitudes', solicitudes'[i].id_empleado = s.usuario
          PROVE  solicitudes'[i].estado = "Eliminada" \/ \E d \in s.resto : d.sol = i
      <4>1. CASE i = c.sol
        BY <2>1, <2>5, <3>1, <4>1
      <4>2. CASE i # c.sol
        <5>0. i \in DOMAIN solicitudes
          BY <2>5, <3>2
        <5>1. /\ i \in DOMAIN solicitudes /\ solicitudes'[i] = solicitudes[i]
              /\ solicitudes[i].id_empleado = t.usuario
          BY <2>2, <2>5, <3>2, <4>2, <5>0 DEF Ids
        <5>2. CASE solicitudes[i].estado = "Eliminada"
          BY <5>1, <5>2
        <5>3. CASE \E d \in t.resto : d.sol = i
          <6>1. PICK d \in t.resto : d.sol = i
            BY <5>3
          <6>2. d # c
            BY <4>2, <6>1
          <6> QED BY <2>2, <6>1, <6>2
        <5> QED BY <3>1, <5>1, <5>2, <5>3
      <4> QED BY <4>1, <4>2
    <3> QED BY <2>6, <3>1, <3>2
  <2>9. Limpia(solicitudes', s)
    BY <2>6, <2>7, <2>8 DEF Limpia
  <2> QED BY <1>1, <2>1, <2>2, <2>9, TareaDeProsigue
<1>7. CASE RegisterHistory(p) \/ SendNotification(p)
  <2>1. PICK s : /\ \/ s = [t EXCEPT !.cambios = Tail(@)]
                    \/ s = [t EXCEPT !.avisar = FALSE]
                 /\ Prosigue(p, s) /\ solicitudes' = solicitudes
                 /\ t.paso \in {"registrar", "avisar"}
    BY <1>7 DEF RegisterHistory, SendNotification
  <2>2. /\ s.fin \in Respuesta /\ s.resto = t.resto /\ s.usuario = t.usuario
        /\ {"paso", "resto", "usuario"} \subseteq DOMAIN s
    BY <1>1, <1>2, <2>1 DEF Llamada
  <2>3. Limpia(solicitudes, t)
    BY <1>1, <2>1 DEF Tarea, Marcando
  <2>4. Limpia(solicitudes', s)
    BY <2>1, <2>2, <2>3, LimpiaIgual
  <2> QED BY <1>1, <2>1, <2>2, <2>4, TareaDeProsigue
<1>8. CASE SelectUserRequests(p)
  <2>1. PICK r, s :
          /\ r = {Cambio(i, "ELIMINACION", solicitudes[i].estado, "Eliminada") :
                    i \in {j \in Ids : solicitudes[j].id_empleado = t.usuario}}
          /\ s = [t EXCEPT !.resto = r]
          /\ Prosigue(p, s) /\ solicitudes' = solicitudes
          /\ t.paso = "listar_usuario"
    BY <1>8 DEF SelectUserRequests, db
  <2>2. /\ s.fin \in Respuesta /\ s.resto = r /\ s.usuario = t.usuario
        /\ {"paso", "resto", "usuario"} \subseteq DOMAIN s
    BY <1>1, <1>2, <2>1 DEF Llamada
  <2>3. s.usuario # Nulo
    BY <1>1, <2>1, <2>2, SolicitudesAssumption DEF Coherente
  <2>4. \A i, a : /\ Cambio(i, "ELIMINACION", a, "Eliminada").sol = i
                  /\ Cambio(i, "ELIMINACION", a, "Eliminada").nuevo = ComoTexto("Eliminada")
    BY DEF Cambio
  <2>5. ComoTexto("Eliminada") = "Eliminada"
    BY SolicitudesAssumption DEF ComoTexto, EstadoFila
  <2>6. \A c \in r : c.nuevo = "Eliminada"
    BY <2>1, <2>4, <2>5
  <2>7. \A i \in Ids : solicitudes[i].id_empleado = t.usuario => \E c \in r : c.sol = i
    BY <2>1, <2>4
  <2>8. Limpia(solicitudes', s)
    <3>1. /\ \A c, d \in s.resto : c.nuevo = d.nuevo
          /\ \A c \in s.resto : c.nuevo = "Eliminada"
      BY <2>2, <2>6
    <3>2. \A i \in DOMAIN solicitudes' : solicitudes'[i].id_empleado = s.usuario =>
            \E c \in s.resto : c.sol = i
      BY <2>1, <2>2, <2>7 DEF Ids
    <3> QED BY <2>3, <3>1, <3>2 DEF Limpia
  <2> QED BY <1>1, <2>1, <2>2, <2>8, TareaDeProsigue
<1>9. CASE InsertTemplate(p) \/ WriteUserState(p) \/ MarkUserDeleted(p)
  <2>1. PICK r \in {"ok", "error"} : peticion'[p] = [Nueva EXCEPT !.paso = r]
    BY <1>1, <1>9 DEF InsertTemplate, WriteUserState, MarkUserDeleted, Responde, Queda
  <2>2. peticion'[p].paso = r
    BY <2>1 DEF Nueva
  <2> QED BY <1>n, <2>2
<1> QED
  BY <1>3, <1>4, <1>5, <1>6, <1>7, <1>8, <1>9 DEF Continue

LEMMA SiempreTareas ==
  ASSUME DeUnaEnUna
  PROVE  Spec => []Tareas
<1>1. Init => Tareas
  BY DEF Init, Tareas, Tarea, Marcando, Nueva
<1>2. TypeOK /\ Sola /\ Tareas /\ [Next]_vars => Tareas'
  <2> SUFFICES ASSUME TypeOK, Sola, Tareas, [Next]_vars PROVE Tareas'
    OBVIOUS
  <2>1. ASSUME NEW p \in Peticion, Turno(p) PROVE Tareas'
    <3>1. Tarea(solicitudes', peticion'[p])
      BY <2>1, TareasAlLlegar, TareasAlSeguir DEF Turno
    <3>2. ASSUME NEW q \in Peticion, q # p PROVE Tarea(solicitudes', peticion'[q])
      <4>1. peticion'[q] = peticion[q] /\ peticion[q].paso \notin EnEspera
        BY <2>1, <3>2, NingunaOtra
      <4> QED BY <4>1 DEF Tarea, Marcando, EnEspera
    <3> QED BY <3>1, <3>2 DEF Tareas
  <2>2. CASE UNCHANGED vars
    BY <2>2 DEF vars, Tareas
  <2> QED BY <2>1, <2>2 DEF Next, Terminated, Turno
<1> QED BY <1>1, <1>2, TypeCorrect, SiempreSola, PTL DEF Spec

(* One call at a time, no request that is 'En proceso' is deleted by a call   *)
(* about requests (onboarding/delete.py 63-69).                               *)
THEOREM EnProcesoNuncaSeElimina ==
  ASSUME DeUnaEnUna
  PROVE  Spec => EnProcesoNoSeElimina
<1> DEFINE A == \A i \in Ids, p \in Peticion :
                  /\ solicitudes[i].estado = "En proceso"
                  /\ peticion[p].paso = "marcar" /\ peticion'[p].paso # "marcar"
                  /\ peticion[p].usuario = Nulo
                  => solicitudes'[i].estado # "Eliminada"
<1>1. TypeOK /\ Tareas /\ [Next]_vars => [A]_vars
  <2> SUFFICES ASSUME TypeOK, Tareas, Next,
                      NEW i \in Ids, NEW p \in Peticion,
                      solicitudes[i].estado = "En proceso",
                      peticion[p].paso = "marcar", peticion'[p].paso # "marcar",
                      peticion[p].usuario = Nulo
               PROVE  solicitudes'[i].estado # "Eliminada"
    OBVIOUS
  <2> DEFINE t == peticion[p]
  <2>1. /\ peticion \in [Peticion -> Llamada] /\ Coherente(t, Ids) /\ solicitudes \in Seq(Fila)
        /\ Tarea(solicitudes, t)
    BY DEF TypeOK, Tareas
  <2>2. Turno(p)
    <3>1. PICK q \in Peticion : Turno(q)
      BY DEF Next, Terminated, Turno, vars
    <3>2. CASE q # p
      BY <2>1, <3>1, <3>2, SoloLaSuya
    <3> QED BY <3>1, <3>2
  <2>3. CASE solicitudes' = solicitudes
    BY <2>3
  <2>4. CASE InsertRequest(p) \/ WriteUpdate(p)
    BY <2>4 DEF InsertRequest, WriteUpdate
  <2>5. CASE WriteState(p)
    <3>1. PICK c \in t.resto : solicitudes' = [solicitudes EXCEPT ![c.sol].estado = c.nuevo]
      BY <2>5 DEF WriteState
    <3>2. c.sol \in Ids /\ (c.nuevo = "Eliminada" => solicitudes[c.sol].estado # "En proceso")
      BY <2>1 DEF Coherente, Tarea, Marcando, Limpia
    <3>3. /\ solicitudes'[c.sol].estado = c.nuevo
          /\ \A j \in Ids : j # c.sol => solicitudes'[j] = solicitudes[j]
      <4>1. PICK k, e, f : /\ k = c.sol /\ e = c.nuevo
                          /\ f = [solicitudes[k] EXCEPT !.estado = e]
                          /\ solicitudes' = [solicitudes EXCEPT ![k] = f]
                          /\ k \in DOMAIN solicitudes
        BY <3>1, <3>2 DEF Ids
      <4>2. solicitudes[k] \in Fila
        BY <2>1, <4>1, LenProperties, ElementOfSeq DEF TypeOK
      <4>3. f.estado = e /\ f.id_empleado = solicitudes[k].id_empleado
        BY <4>1, <4>2 DEF Fila
      <4>4. /\ DOMAIN solicitudes' = DOMAIN solicitudes /\ solicitudes'[k] = f
            /\ \A j \in DOMAIN solicitudes : j # k => solicitudes'[j] = solicitudes[j]
        BY <4>1
      <4> QED BY <4>1, <4>3, <4>4 DEF Ids
    <3>4. CASE c.sol = i
      BY <3>2, <3>3, <3>4
    <3>5. CASE c.sol # i
      BY <3>3, <3>5
    <3> QED BY <3>4, <3>5
  <2> QED BY <2>2, <2>3, <2>4, <2>5, TablasQueTocan
<1> QED BY <1>1, TypeCorrect, SiempreTareas, PTL DEF Spec, EnProcesoNoSeElimina

(* One call at a time, a user becomes 'Eliminada' with every request marked,  *)
(* although delete_user may fail half way (auth/delete.py 63-92).             *)
THEOREM BajaSiempreArrastra ==
  ASSUME DeUnaEnUna
  PROVE  Spec => BajaArrastraSolicitudes
<1> DEFINE A == \A u \in Usuario :
                  estadoUsuario[u] # "Eliminada" /\ estadoUsuario'[u] = "Eliminada" =>
                    \A i \in Ids : solicitudes[i].id_empleado = u =>
                                   solicitudes[i].estado = "Eliminada"
<1>1. TypeOK /\ Tareas /\ [Next]_vars => [A]_vars
  <2> SUFFICES ASSUME TypeOK, Tareas, Next,
                      NEW u \in Usuario, estadoUsuario[u] # "Eliminada",
                      estadoUsuario'[u] = "Eliminada",
                      NEW i \in Ids, solicitudes[i].id_empleado = u
               PROVE  solicitudes[i].estado = "Eliminada"
    OBVIOUS
  <2>1. PICK p \in Peticion : Turno(p)
    BY DEF Next, Terminated, Turno, vars
  <2>2. estadoUsuario \in [Usuario -> EstadosUsuario]
    BY DEF TypeOK
  <2>3. /\ MarkUserDeleted(p)
        /\ estadoUsuario' = [estadoUsuario EXCEPT ![peticion[p].usuario] = "Eliminada"]
    BY <2>1, <2>2 DEF Turno, Arrive, Continue, Fail, db, CreateOnboardingRequest,
       UpdateOnboardingRequest, AdvanceOnboardingRequestState, RejectOnboardingRequest,
       DeleteOnboardingRequest, DeleteMyOnboardingRequests, CreateDotacionTemplate,
       AdvanceUserOnboardingState, DeleteUser, SelectTemplate, InsertMissingTemplate,
       InsertRequest, WriteUpdate, WriteState, RegisterHistory, SendNotification,
       InsertTemplate, WriteUserState, SelectUserRequests, MarkUserDeleted
  <2>4. peticion[p].usuario = u
    BY <2>2, <2>3
  <2>5. /\ Tarea(solicitudes, peticion[p]) /\ peticion[p].paso = "baja_usuario" /\ u # Nulo
    BY <2>3, SolicitudesAssumption DEF Tareas, MarkUserDeleted
  <2>6. peticion[p].resto = {} /\ Limpia(solicitudes, peticion[p])
    BY <2>5 DEF Tarea, Marcando
  <2>7. \A j \in DOMAIN solicitudes : solicitudes[j].id_empleado = u =>
          solicitudes[j].estado = "Eliminada"
    <3>1. /\ peticion[p].usuario # Nulo
          /\ \A c \in peticion[p].resto : FALSE
      BY <2>4, <2>5, <2>6
    <3>2. \A j \in DOMAIN solicitudes : solicitudes[j].id_empleado = peticion[p].usuario =>
            solicitudes[j].estado = "Eliminada" \/ \E c \in peticion[p].resto : c.sol = j
      BY <2>6, <3>1 DEF Limpia
    <3>3. ASSUME NEW j \in DOMAIN solicitudes, solicitudes[j].id_empleado = u
          PROVE  solicitudes[j].estado = "Eliminada"
      <4>1. solicitudes[j].id_empleado = peticion[p].usuario
        BY <2>4, <3>3
      <4>2. ~ \E c \in peticion[p].resto : c.sol = j
        BY <3>1
      <4> QED BY <3>2, <4>1, <4>2
    <3> QED BY <3>3
  <2> QED BY <2>7 DEF Ids
<1> QED BY <1>1, TypeCorrect, SiempreTareas, PTL DEF Spec, BajaArrastraSolicitudes

(* No handler gives a request to another employee.                             *)
LEMMA NadieCambiaDeEmpleado ==
  ASSUME TypeOK, NEW p \in Peticion, Turno(p), NEW i \in Ids
  PROVE  solicitudes'[i].id_empleado = solicitudes[i].id_empleado
<1> DEFINE t == peticion[p]
<1>1. /\ solicitudes \in Seq(Fila) /\ solicitudes[i] \in Fila /\ Coherente(t, Ids)
      /\ i \in 1..Len(solicitudes)
  BY FilaDeId, LenProperties DEF TypeOK, Ids
<1>2. CASE InsertRequest(p)
  <2>1. solicitudes' = Append(solicitudes, t.fila) /\ t.fila \in Fila
    BY <1>1, <1>2 DEF InsertRequest, Coherente
  <2> QED BY <1>1, <2>1, AppendProperties
<1>3. CASE WriteUpdate(p)
  <2>1. /\ t.fila \in Fila
        /\ solicitudes' = [solicitudes EXCEPT ![t.sol] = FilaEscrita(@, t.fila)]
    BY <1>1, <1>3 DEF WriteUpdate, Coherente
  <2> QED BY <1>1, <2>1 DEF FilaEscrita, Fila, Ids
<1>4. CASE WriteState(p)
  <2>1. PICK c \in t.resto : solicitudes' = [solicitudes EXCEPT ![c.sol].estado = c.nuevo]
    BY <1>4 DEF WriteState
  <2> QED BY <1>1, <2>1 DEF Fila, Ids
<1> QED BY <1>2, <1>3, <1>4, TablasQueTocan

\* What a delete_user has still to mark are requests of its user.
Suya(t) ==
  t.usuario # Nulo => \A c \in t.resto : solicitudes[c.sol].id_empleado = t.usuario

Suyas == \A p \in Peticion : Suya(peticion[p])

LEMMA SiempreSuyas == Spec => []Suyas
<1>1. Init => Suyas
  <2>1. Init => \A p \in Peticion : peticion[p].usuario = Nulo
    BY DEF Init, Nueva
  <2> QED BY <2>1 DEF Suyas, Suya
<1>2. TypeOK /\ Suyas /\ [Next]_vars => Suyas'
  <2> SUFFICES ASSUME TypeOK, Suyas, [Next]_vars PROVE Suyas'
    OBVIOUS
  <2>1. ASSUME NEW p \in Peticion, Turno(p) PROVE Suyas'
    <3>1. ASSUME NEW q \in Peticion, NEW c \in peticion[q].resto, peticion[q].usuario # Nulo
          PROVE  solicitudes'[c.sol].id_empleado = peticion[q].usuario
      <4>1. c.sol \in Ids
        BY <3>1 DEF TypeOK, Coherente
      <4> QED BY <2>1, <3>1, <4>1, NadieCambiaDeEmpleado DEF Suyas, Suya
    <3>2. ASSUME NEW q \in Peticion, q # p PROVE Suya(peticion[q])'
      <4>1. peticion'[q] = peticion[q]
        BY <2>1, <3>2, SoloLaSuya DEF TypeOK
      <4> QED BY <3>1, <4>1 DEF Suya
    <3>3. ASSUME NEW c \in peticion'[p].resto, peticion'[p].usuario # Nulo
          PROVE  solicitudes'[c.sol].id_empleado = peticion'[p].usuario
      <4>1. CASE c \in peticion[p].resto /\ peticion'[p].usuario = peticion[p].usuario
        BY <3>1, <3>3, <4>1
      <4>2. CASE Decidida(c, peticion'[p].usuario)
        <5>1. PICK i, tipo, a, e : /\ i \in Ids /\ c = Cambio(i, tipo, a, e)
                                   /\ solicitudes[i].id_empleado = peticion'[p].usuario
          BY <3>3, <4>2 DEF Decidida
        <5>2. c.sol = i
          BY <5>1 DEF Cambio
        <5> QED BY <2>1, <5>1, <5>2, NadieCambiaDeEmpleado
      <4> QED BY <2>1, <4>1, <4>2, RestoQueQueda
    <3> QED BY <3>2, <3>3 DEF Suyas, Suya
  <2>2. CASE UNCHANGED vars
    BY <2>2 DEF vars, Suyas, Suya
  <2> QED BY <2>1, <2>2 DEF Next, Terminated, Turno
<1> QED BY <1>1, <1>2, TypeCorrect, PTL DEF Spec

(* The two statements that write USUARIO.estado_onboarding.                    *)
LEMMA QuienTocaUsuarios ==
  ASSUME NEW p \in Peticion, Turno(p), ~WriteUserState(p), ~MarkUserDeleted(p)
  PROVE  estadoUsuario' = estadoUsuario
  BY DEF Turno, Arrive, Continue, Fail, db, CreateOnboardingRequest, UpdateOnboardingRequest,
     AdvanceOnboardingRequestState, RejectOnboardingRequest, DeleteOnboardingRequest,
     DeleteMyOnboardingRequests, CreateDotacionTemplate, AdvanceUserOnboardingState, DeleteUser,
     SelectTemplate, InsertMissingTemplate, InsertRequest, WriteUpdate, WriteState,
     RegisterHistory, SendNotification, InsertTemplate, SelectUserRequests

(* delete_user holds a user who was not 'Finalizado', and while it is the only *)
(* call nobody else finishes him.                                              *)
Vigilada(t) ==
  t.paso \in Marcando \cup {"listar_usuario"} /\ t.usuario # Nulo =>
    estadoUsuario[t.usuario] # "Finalizado"

Vigiladas == \A p \in Peticion : Vigilada(peticion[p])

LEMMA VigiladaAlResponder ==
  ASSUME TypeOK, NEW p \in Peticion, NEW r, Responde(p, r)
  PROVE  Vigilada(peticion[p])'
<1>1. peticion'[p] = [Nueva EXCEPT !.paso = r]
  BY DEF TypeOK, Responde, Queda
<1>2. peticion'[p].usuario = Nulo
  BY <1>1 DEF Nueva
<1> QED BY <1>2 DEF Vigilada

LEMMA VigiladaAlProseguir ==
  ASSUME TypeOK, NEW p \in Peticion, NEW s, Prosigue(p, s), Vigilada(peticion[p]),
         {"paso", "usuario"} \subseteq DOMAIN s,
         s.usuario = Nulo \/ /\ s.usuario = peticion[p].usuario
                             /\ peticion[p].paso \in Marcando \cup {"listar_usuario"},
         estadoUsuario' = estadoUsuario
  PROVE  Vigilada(peticion[p])'
<1>1. CASE Siguiente(s) \in Respuesta
  BY <1>1, VigiladaAlResponder DEF Prosigue
<1>2. CASE Siguiente(s) \notin Respuesta
  <2>1. peticion'[p] = [s EXCEPT !.paso = Siguiente(s)]
    BY <1>2 DEF TypeOK, Prosigue, Queda
  <2>2. peticion'[p].usuario = s.usuario
    BY <2>1
  <2> QED BY <2>2 DEF Vigilada
<1> QED BY <1>1, <1>2

LEMMA VigiladaAlLlegar ==
  ASSUME TypeOK, NEW p \in Peticion, Arrive(p), Vigilada(peticion[p])
  PROVE  Vigilada(peticion[p])'
<1>1. peticion \in [Peticion -> Llamada] /\ estadoUsuario' = estadoUsuario
  BY DEF TypeOK, Arrive, db, CreateOnboardingRequest, UpdateOnboardingRequest,
     AdvanceOnboardingRequestState, RejectOnboardingRequest, DeleteOnboardingRequest,
     DeleteMyOnboardingRequests, CreateDotacionTemplate, AdvanceUserOnboardingState, DeleteUser
<1>2. ASSUME NEW r, Marca(p, r) PROVE Vigilada(peticion[p])'
  <2> DEFINE s == [Nueva EXCEPT !.resto = r]
  <2>1. Prosigue(p, s) /\ {"paso", "usuario"} \subseteq DOMAIN s /\ s.usuario = Nulo
    BY <1>2 DEF Marca, Nueva
  <2> HIDE DEF s
  <2> QED BY <1>1, <2>1, VigiladaAlProseguir
<1>3. CASE CreateOnboardingRequest(p) \/ CreateDotacionTemplate(p)
  <2>1. CASE Responde(p, "negada")
    BY <2>1, VigiladaAlResponder
  <2>2. CASE ~Responde(p, "negada")
    <3>1. PICK x, f : Queda(p, [Nueva EXCEPT !.paso = x, !.fila = f])
      BY <1>3, <2>2 DEF CreateOnboardingRequest, CreateDotacionTemplate
    <3>2. peticion'[p].usuario = Nulo
      BY <1>1, <3>1 DEF Queda, Nueva
    <3> QED BY <3>2 DEF Vigilada
  <2> QED BY <2>1, <2>2
<1>4. CASE UpdateOnboardingRequest(p)
  <2>1. CASE \E r : Responde(p, r)
    BY <2>1, VigiladaAlResponder
  <2>2. CASE ~\E r : Responde(p, r)
    <3>1. PICK i, l, f :
            Queda(p, [Nueva EXCEPT !.paso = "editar", !.sol = i, !.leida = l, !.fila = f])
      BY <1>4, <2>2 DEF UpdateOnboardingRequest
    <3>2. peticion'[p].usuario = Nulo
      BY <1>1, <3>1 DEF Queda, Nueva
    <3> QED BY <3>2 DEF Vigilada
  <2> QED BY <2>1, <2>2
<1>5. CASE AdvanceOnboardingRequestState(p)
  <2>1. CASE Responde(p, "negada")
    BY <2>1, VigiladaAlResponder
  <2>2. CASE ~Responde(p, "negada")
    <3>1. PICK i, r, a : Prosigue(p, [Nueva EXCEPT !.sol = i, !.resto = r, !.avisar = a])
      BY <1>5, <2>2 DEF AdvanceOnboardingRequestState
    <3> DEFINE s == [Nueva EXCEPT !.sol = i, !.resto = r, !.avisar = a]
    <3>2. Prosigue(p, s) /\ {"paso", "usuario"} \subseteq DOMAIN s /\ s.usuario = Nulo
      BY <3>1 DEF Nueva
    <3> HIDE DEF s
    <3> QED BY <1>1, <3>2, VigiladaAlProseguir
  <2> QED BY <2>1, <2>2
<1>6. CASE \/ RejectOnboardingRequest(p) \/ DeleteOnboardingRequest(p)
           \/ DeleteMyOnboardingRequests(p)
  BY <1>2, <1>6, VigiladaAlResponder DEF RejectOnboardingRequest, DeleteOnboardingRequest,
     DeleteMyOnboardingRequests
<1>7. CASE AdvanceUserOnboardingState(p) \/ DeleteUser(p)
  <2>1. CASE Responde(p, "negada")
    BY <2>1, VigiladaAlResponder
  <2>2. CASE ~Responde(p, "negada")
    <3>1. PICK v, x : /\ Queda(p, [Nueva EXCEPT !.paso = x, !.usuario = v])
                      /\ x = "finalizar_usuario" \/ estadoUsuario[v] # "Finalizado"
      BY <1>7, <2>2 DEF AdvanceUserOnboardingState, DeleteUser, BajaAdmitida
    <3>2. peticion'[p].usuario = v /\ peticion'[p].paso = x
      BY <1>1, <3>1 DEF Queda, Nueva
    <3> QED BY <1>1, <3>1, <3>2 DEF Vigilada, Marcando
  <2> QED BY <2>1, <2>2
<1> QED BY <1>3, <1>4, <1>5, <1>6, <1>7 DEF Arrive

LEMMA VigiladaAlSeguir ==
  ASSUME TypeOK, NEW p \in Peticion, Continue(p) \/ Fail(p), Vigilada(peticion[p])
  PROVE  Vigilada(peticion[p])'
<1> DEFINE t == peticion[p]
<1>1. peticion \in [Peticion -> Llamada] /\ t \in Llamada
  BY DEF TypeOK
<1>2. CASE InsertTemplate(p) \/ WriteUserState(p) \/ MarkUserDeleted(p)
  BY <1>2, VigiladaAlResponder DEF InsertTemplate, WriteUserState, MarkUserDeleted
<1>3. CASE SelectTemplate(p) \/ InsertMissingTemplate(p)
  <2>1. PICK r \in {"alta", "alta_dotacion"} : peticion'[p] = [t EXCEPT !.paso = r]
    BY <1>1, <1>3 DEF SelectTemplate, InsertMissingTemplate, Queda
  <2>2. peticion'[p].paso = r
    BY <1>1, <2>1 DEF Llamada
  <2> QED BY <2>2 DEF Vigilada, Marcando
<1>4. CASE InsertRequest(p)
  <2>1. PICK i, cs : Prosigue(p, [Nueva EXCEPT !.sol = i, !.cambios = cs])
    BY <1>4 DEF InsertRequest
  <2> DEFINE s == [Nueva EXCEPT !.sol = i, !.cambios = cs]
  <2>2. Prosigue(p, s) /\ {"paso", "usuario"} \subseteq DOMAIN s /\ s.usuario = Nulo
    BY <2>1 DEF Nueva
  <2> HIDE DEF s
  <2>3. estadoUsuario' = estadoUsuario
    BY <1>4 DEF InsertRequest
  <2> QED BY <2>2, <2>3, VigiladaAlProseguir
<1>5. CASE WriteUpdate(p)
  <2>1. PICK i, cs, a, r :
          Prosigue(p, [Nueva EXCEPT !.sol = i, !.cambios = cs, !.avisar = a, !.fin = r])
    BY <1>5 DEF WriteUpdate
  <2> DEFINE s == [Nueva EXCEPT !.sol = i, !.cambios = cs, !.avisar = a, !.fin = r]
  <2>2. Prosigue(p, s) /\ {"paso", "usuario"} \subseteq DOMAIN s /\ s.usuario = Nulo
    BY <2>1 DEF Nueva
  <2> HIDE DEF s
  <2>3. estadoUsuario' = estadoUsuario
    BY <1>5 DEF WriteUpdate
  <2> QED BY <2>2, <2>3, VigiladaAlProseguir
<1>6. ASSUME NEW s, Prosigue(p, s), {"paso", "usuario"} \subseteq DOMAIN s, s.usuario = t.usuario,
             \/ WriteState(p) \/ RegisterHistory(p) \/ SendNotification(p)
             \/ SelectUserRequests(p)
      PROVE  Vigilada(peticion[p])'
  <2>1. estadoUsuario' = estadoUsuario /\ t.paso \in Marcando \cup {"listar_usuario"}
    BY <1>6 DEF WriteState, RegisterHistory, SendNotification, SelectUserRequests, db, Marcando
  <2> QED BY <1>6, <2>1, VigiladaAlProseguir
<1>7. CASE WriteState(p)
  <2>1. PICK d, cs : Prosigue(p, [t EXCEPT !.resto = @ \ {d}, !.cambios = cs])
    BY <1>7 DEF WriteState
  <2> DEFINE s == [t EXCEPT !.resto = @ \ {d}, !.cambios = cs]
  <2>2. Prosigue(p, s) /\ {"paso", "usuario"} \subseteq DOMAIN s /\ s.usuario = t.usuario
    BY <1>1, <2>1 DEF Llamada
  <2> HIDE DEF s
  <2> QED BY <1>6, <1>7, <2>2
<1>8. CASE RegisterHistory(p) \/ SendNotification(p) \/ SelectUserRequests(p)
  <2>1. PICK cs, r : \/ Prosigue(p, [t EXCEPT !.cambios = cs])
                     \/ Prosigue(p, [t EXCEPT !.avisar = FALSE])
                     \/ Prosigue(p, [t EXCEPT !.resto = r])
    BY <1>8 DEF RegisterHistory, SendNotification, SelectUserRequests
  <2>2. CASE Prosigue(p, [t EXCEPT !.cambios = cs])
    <3> DEFINE s == [t EXCEPT !.cambios = cs]
    <3>1. Prosigue(p, s) /\ {"paso", "usuario"} \subseteq DOMAIN s /\ s.usuario = t.usuario
      BY <1>1, <2>2 DEF Llamada
    <3> HIDE DEF s
    <3> QED BY <1>6, <1>8, <3>1
  <2>3. CASE Prosigue(p, [t EXCEPT !.avisar = FALSE])
    <3> DEFINE s == [t EXCEPT !.avisar = FALSE]
    <3>1. Prosigue(p, s) /\ {"paso", "usuario"} \subseteq DOMAIN s /\ s.usuario = t.usuario
      BY <1>1, <2>3 DEF Llamada
    <3> HIDE DEF s
    <3> QED BY <1>6, <1>8, <3>1
  <2>4. CASE Prosigue(p, [t EXCEPT !.resto = r])
    <3> DEFINE s == [t EXCEPT !.resto = r]
    <3>1. Prosigue(p, s) /\ {"paso", "usuario"} \subseteq DOMAIN s /\ s.usuario = t.usuario
      BY <1>1, <2>4 DEF Llamada
    <3> HIDE DEF s
    <3> QED BY <1>6, <1>8, <3>1
  <2> QED BY <2>1, <2>2, <2>3, <2>4
<1>9. CASE Fail(p)
  <2>1. peticion'[p].usuario = Nulo
    BY <1>1, <1>9 DEF Fail, Queda, Nueva
  <2> QED BY <2>1 DEF Vigilada
<1> QED BY <1>2, <1>3, <1>4, <1>5, <1>7, <1>8, <1>9 DEF Continue

LEMMA SiempreVigiladas ==
  ASSUME DeUnaEnUna
  PROVE  Spec => []Vigiladas
<1>1. Init => Vigiladas
  <2>1. Init => \A p \in Peticion : peticion[p].usuario = Nulo
    BY DEF Init, Nueva
  <2> QED BY <2>1 DEF Vigiladas, Vigilada
<1>2. TypeOK /\ Sola /\ Vigiladas /\ [Next]_vars => Vigiladas'
  <2> SUFFICES ASSUME TypeOK, Sola, Vigiladas, [Next]_vars PROVE Vigiladas'
    OBVIOUS
  <2>1. ASSUME NEW p \in Peticion, Turno(p) PROVE Vigiladas'
    <3>1. Vigilada(peticion[p])'
      BY <2>1, VigiladaAlLlegar, VigiladaAlSeguir DEF Turno, Vigiladas
    <3>2. ASSUME NEW q \in Peticion, q # p PROVE Vigilada(peticion[q])'
      <4>1. peticion'[q] = peticion[q] /\ peticion[q].paso \notin EnEspera
        BY <2>1, <3>2, NingunaOtra
      <4> QED BY <4>1 DEF Vigilada, Marcando, EnEspera
    <3> QED BY <3>1, <3>2 DEF Vigiladas
  <2>2. CASE UNCHANGED vars
    BY <2>2 DEF vars, Vigiladas, Vigilada
  <2> QED BY <2>1, <2>2 DEF Next, Terminated, Turno
<1> QED BY <1>1, <1>2, TypeCorrect, SiempreSola, PTL DEF Spec

(* One call at a time, a user who has finished his onboarding stays so and no  *)
(* delete_user marks a request of his (auth/delete.py 55-59).                  *)
THEOREM FinalizadoSiempreIntacto ==
  ASSUME DeUnaEnUna
  PROVE  Spec => FinalizadoIntacto
<1> DEFINE A == \A u \in Usuario :
       estadoUsuario[u] = "Finalizado" =>
         /\ estadoUsuario'[u] = "Finalizado"
         /\ \A i \in Ids, p \in Peticion :
              /\ solicitudes[i].id_empleado = u
              /\ peticion[p].paso = "marcar" /\ peticion'[p].paso # "marcar"
              /\ peticion[p].usuario # Nulo
              => solicitudes'[i] = solicitudes[i]
<1>1. TypeOK /\ Suyas /\ Vigiladas /\ [Next]_vars => [A]_vars
  <2> SUFFICES ASSUME TypeOK, Suyas, Vigiladas, Next,
                      NEW u \in Usuario, estadoUsuario[u] = "Finalizado"
               PROVE  /\ estadoUsuario'[u] = "Finalizado"
                      /\ \A i \in Ids, p \in Peticion :
                           /\ solicitudes[i].id_empleado = u
                           /\ peticion[p].paso = "marcar" /\ peticion'[p].paso # "marcar"
                           /\ peticion[p].usuario # Nulo
                           => solicitudes'[i] = solicitudes[i]
    OBVIOUS
  <2>1. CASE UNCHANGED vars
    BY <2>1 DEF vars
  <2>2. CASE \E q \in Peticion : Turno(q)
    <3>1. PICK q \in Peticion : Turno(q)
      BY <2>2
    <3>2. estadoUsuario'[u] = "Finalizado"
      <4>1. /\ estadoUsuario \in [Usuario -> EstadosUsuario] /\ Vigilada(peticion[q])
            /\ Coherente(peticion[q], Ids)
        BY DEF TypeOK, Vigiladas
      <4>2. CASE MarkUserDeleted(q)
        <5>1. peticion[q].usuario # u
          BY <4>1, <4>2, SolicitudesAssumption DEF MarkUserDeleted, Vigilada, Marcando
        <5> QED BY <4>1, <4>2, <5>1 DEF MarkUserDeleted
      <4>3. CASE WriteUserState(q)
        BY <4>1, <4>3 DEF WriteUserState
      <4>4. CASE ~MarkUserDeleted(q) /\ ~WriteUserState(q)
        BY <3>1, <4>4, QuienTocaUsuarios
      <4> QED BY <4>2, <4>3, <4>4
    <3>3. ASSUME NEW i \in Ids, NEW p \in Peticion, solicitudes[i].id_empleado = u,
                 peticion[p].paso = "marcar", peticion'[p].paso # "marcar",
                 peticion[p].usuario # Nulo
          PROVE  solicitudes'[i] = solicitudes[i]
      <4>1. q = p
        BY <3>1, <3>3, SoloLaSuya DEF TypeOK
      <4>2. /\ Vigilada(peticion[p]) /\ Suya(peticion[p]) /\ Coherente(peticion[p], Ids)
        BY DEF TypeOK, Vigiladas, Suyas
      <4>3. peticion[p].usuario # u
        BY <3>3, <4>2 DEF Vigilada, Marcando
      <4>4. CASE WriteState(p)
        <5>1. PICK c \in peticion[p].resto :
                solicitudes' = [solicitudes EXCEPT ![c.sol].estado = c.nuevo]
          BY <4>4 DEF WriteState
        <5>2. c.sol # i
          BY <3>3, <4>2, <4>3, <5>1 DEF Suya
        <5> QED BY <5>1, <5>2 DEF Ids
      <4>5. ~InsertRequest(p) /\ ~WriteUpdate(p)
        BY <3>3 DEF InsertRequest, WriteUpdate
      <4> QED BY <3>1, <4>1, <4>4, <4>5, TablasQueTocan
    <3> QED BY <3>2, <3>3
  <2> QED BY <2>1, <2>2 DEF Next, Terminated, Turno
<1> QED BY <1>1, TypeCorrect, SiempreSuyas, SiempreVigiladas, PTL
        DEF Spec, FinalizadoIntacto

(* It is the CHECK of the schema that breaks BajaSeCompleta, and nothing else: *)
(* on a schema that allows 'Eliminada' (sql/schema.sql 20 does not) no overlap *)
(* of calls stops delete_user from marking the user, only a failure does.      *)
THEOREM BajaConEsquemaSeCompleta ==
  ASSUME "Eliminada" \in EstadosUsuario, ~ConFallos
  PROVE  Spec => BajaSeCompleta
<1> DEFINE A == \A p \in Peticion :
      peticion[p].paso = "baja_usuario" /\ peticion'[p].paso # "baja_usuario" =>
        estadoUsuario'[peticion[p].usuario] = "Eliminada"
<1>1. TypeOK /\ [Next]_vars => [A]_vars
  <2> SUFFICES ASSUME TypeOK, Next, NEW p \in Peticion,
                      peticion[p].paso = "baja_usuario", peticion'[p].paso # "baja_usuario"
               PROVE  estadoUsuario'[peticion[p].usuario] = "Eliminada"
    OBVIOUS
  <2>1. PICK q \in Peticion : Turno(q)
    BY DEF Next, Terminated, Turno, vars
  <2>2. q = p
    BY <2>1, SoloLaSuya DEF TypeOK
  <2>3. MarkUserDeleted(p)
    BY <2>1, <2>2 DEF Turno, Arrive, Llega, Continue, Fail, CreateOnboardingRequest,
       UpdateOnboardingRequest, AdvanceOnboardingRequestState, RejectOnboardingRequest,
       DeleteOnboardingRequest, DeleteMyOnboardingRequests, CreateDotacionTemplate,
       AdvanceUserOnboardingState, DeleteUser, SelectTemplate, InsertMissingTemplate,
       InsertRequest, WriteUpdate, WriteState, RegisterHistory, SendNotification,
       InsertTemplate, WriteUserState, SelectUserRequests
  <2>4. /\ estadoUsuario \in [Usuario -> EstadosUsuario]
        /\ peticion[p].usuario \in Usuario
    BY DEF TypeOK, Coherente
  <2> QED BY <2>3, <2>4 DEF MarkUserDeleted
<1> QED BY <1>1, TypeCorrect, PTL DEF Spec, BajaSeCompleta
----------------------------------------------------------------------------
(* The record that HISTORIAL keeps of the estados, as Expediente has it.    *)

\* Rows that are not about estado leave the record as it is.
LEMMA ActaIgual ==
  ASSUME NEW h, h \in Seq(Asiento), NEW cs, cs \in Seq(Asiento),
         \A k \in DOMAIN cs : cs[k].tipo \notin TipoDeEstado
  PROVE  Acta(h \o cs) = Acta(h)
<1> DEFINE g == h \o cs
           n == Len(h)
<1>1. /\ n \in Nat /\ Len(cs) \in Nat /\ DOMAIN h = 1..n /\ DOMAIN cs = 1..Len(cs)
      /\ DOMAIN g = 1..(n + Len(cs))
      /\ \A k \in 1..(n + Len(cs)) : g[k] = IF k <= n THEN h[k] ELSE cs[k - n]
  BY ConcatProperties, LenProperties
<1> HIDE DEF g, n
<1>2. \A k \in DOMAIN h : k \in DOMAIN g /\ g[k] = h[k]
  BY <1>1
<1>3. ASSUME NEW k \in DOMAIN g, g[k].tipo \in TipoDeEstado PROVE k \in DOMAIN h
  <2>1. CASE k <= n
    BY <1>1, <2>1
  <2>2. CASE ~(k <= n)
    <3>1. k - n \in DOMAIN cs /\ g[k] = cs[k - n]
      BY <1>1, <2>2
    <3> QED BY <1>3, <3>1
  <2> QED BY <2>1, <2>2
<1>4. {k \in DOMAIN g : g[k].tipo \in TipoDeEstado} = {k \in DOMAIN h : h[k].tipo \in TipoDeEstado}
  BY <1>2, <1>3
<1>5. Acta(g) = Acta(h)
  BY <1>2, <1>4 DEF Acta
<1> QED BY <1>5 DEF g

\* Record B has entry x more than A, with the number n.
MasUna(A, B, n, x) ==
  /\ n \in DOMAIN B \cap Nat
  /\ \A k \in DOMAIN A : k < n
  /\ B = [k \in DOMAIN A \cup {n} |-> IF k = n THEN x ELSE A[k]]

\* Rows of which the first and no other is about estado add that one.
LEMMA ActaCrece ==
  ASSUME NEW h, h \in Seq(Asiento), NEW cs, cs \in Seq(Asiento), cs # <<>>,
         cs[1].tipo \in TipoDeEstado,
         \A k \in DOMAIN cs : k # 1 => cs[k].tipo \notin TipoDeEstado
  PROVE  \E n : MasUna(Acta(h), Acta(h \o cs), n, Asentado(cs[1]))
<1> DEFINE g == h \o cs
           n == Len(h)
           D == {k \in DOMAIN h : h[k].tipo \in TipoDeEstado}
<1>1. /\ n \in Nat /\ Len(cs) \in Nat /\ DOMAIN h = 1..n /\ DOMAIN cs = 1..Len(cs)
      /\ DOMAIN g = 1..(n + Len(cs)) /\ Len(cs) >= 1
      /\ \A k \in 1..(n + Len(cs)) : g[k] = IF k <= n THEN h[k] ELSE cs[k - n]
  BY ConcatProperties, LenProperties, EmptySeq
<1> HIDE DEF g, n
<1>2. /\ \A k \in DOMAIN h : k \in DOMAIN g /\ g[k] = h[k] /\ k < n + 1
      /\ n + 1 \in DOMAIN g /\ g[n + 1] = cs[1] /\ n + 1 \notin DOMAIN h
  BY <1>1
<1>3. ASSUME NEW k \in DOMAIN g, g[k].tipo \in TipoDeEstado PROVE k \in DOMAIN h \cup {n + 1}
  <2>1. CASE k <= n
    BY <1>1, <2>1
  <2>2. CASE ~(k <= n)
    <3>1. k - n \in DOMAIN cs /\ g[k] = cs[k - n]
      BY <1>1, <2>2
    <3>2. k - n = 1
      BY <1>3, <3>1
    <3> QED BY <1>1, <3>2
  <2> QED BY <2>1, <2>2
<1>4. {k \in DOMAIN g : g[k].tipo \in TipoDeEstado} = D \cup {n + 1}
  BY <1>2, <1>3
<1>5. /\ DOMAIN Acta(h) = D /\ Acta(g) = [k \in D \cup {n + 1} |-> Asentado(g[k])]
      /\ \A k \in D : Acta(h)[k] = Asentado(h[k]) /\ h[k] = g[k] /\ k # n + 1
  BY <1>2, <1>4 DEF Acta
<1>6. Acta(g) = [k \in D \cup {n + 1} |-> IF k = n + 1 THEN Asentado(cs[1]) ELSE Acta(h)[k]]
  <2> DEFINE f == [k \in D \cup {n + 1} |-> IF k = n + 1 THEN Asentado(cs[1]) ELSE Acta(h)[k]]
  <2>1. \A k \in D \cup {n + 1} :
          Asentado(g[k]) = IF k = n + 1 THEN Asentado(cs[1]) ELSE Acta(h)[k]
    BY <1>2, <1>5
  <2> QED BY <1>5, <2>1
<1>7. /\ n + 1 \in Nat /\ n + 1 \in DOMAIN Acta(g)
      /\ \A k \in DOMAIN Acta(h) : k < n + 1
  BY <1>1, <1>2, <1>5
<1>8. Acta(g) = [k \in DOMAIN Acta(h) \cup {n + 1} |->
                   IF k = n + 1 THEN Asentado(cs[1]) ELSE Acta(h)[k]]
  BY <1>5, <1>6
<1>9. MasUna(Acta(h), Acta(g), n + 1, Asentado(cs[1]))
  BY <1>7, <1>8 DEF MasUna
<1> QED BY <1>9 DEF g

\* The rows that PATCH owes: the one about estado, if it changes, comes first.
LEMMA CambiosEnOrden ==
  ASSUME NEW i \in Nat \ {0}, NEW l \in Fila, NEW f \in Fila
  PROVE  /\ Cambios(i, l, f) \in Seq(Asiento)
         /\ l.estado = f.estado =>
              \A k \in DOMAIN Cambios(i, l, f) : Cambios(i, l, f)[k].tipo \notin TipoDeEstado
         /\ l.estado # f.estado =>
              /\ Cambios(i, l, f) # <<>>
              /\ Cambios(i, l, f)[1] = Cambio(i, "CAMBIO_ESTADO", l.estado, f.estado)
              /\ \A k \in DOMAIN Cambios(i, l, f) :
                   k # 1 => Cambios(i, l, f)[k].tipo \notin TipoDeEstado
<1> DEFINE A == SiCambia(i, "CAMBIO_ESTADO", l.estado, f.estado)
           B == SiCambia(i, "CAMBIO_FECHA_FIN", l.fecha_fin, f.fecha_fin)
           C == SiCambia(i, "CAMBIO_ESPECIFICACIONES", l.especificaciones, f.especificaciones)
           D == SiCambia(i, "CAMBIO_DESTINATARIO", l.destinatario, f.destinatario)
           Otras(s) == s \in Seq(Asiento) /\ \A k \in DOMAIN s : s[k].tipo \notin TipoDeEstado
           x == Cambio(i, "CAMBIO_ESTADO", l.estado, f.estado)
           Bien(s) == /\ s \in Seq(Asiento)
                      /\ l.estado = f.estado => \A k \in DOMAIN s : s[k].tipo \notin TipoDeEstado
                      /\ l.estado # f.estado =>
                           /\ s # <<>> /\ s[1] = x
                           /\ \A k \in DOMAIN s : k # 1 => s[k].tipo \notin TipoDeEstado
<1>1. Cambios(i, l, f) = ((A \o B) \o C) \o D
  BY DEF Cambios
<1>2. /\ TipoDeCampo \cap TipoDeEstado = {} /\ TipoDeCampo \subseteq TipoDeCambio
      /\ "CAMBIO_ESTADO" \in TipoDeCambio
      /\ {"CAMBIO_FECHA_FIN", "CAMBIO_ESPECIFICACIONES", "CAMBIO_DESTINATARIO"} = TipoDeCampo
  BY DEF TipoDeCampo, TipoDeEstado, TipoDeCambio
<1>3. /\ {l.estado, l.fecha_fin, l.especificaciones, l.destinatario} \subseteq Valor
      /\ {f.estado, f.fecha_fin, f.especificaciones, f.destinatario} \subseteq Valor
  BY DEF Fila, Valor
<1>4. Otras(B) /\ Otras(C) /\ Otras(D)
  <2>1. ASSUME NEW tipo \in TipoDeCampo, NEW a \in Valor, NEW b \in Valor
        PROVE  Otras(SiCambia(i, tipo, a, b))
    <3> DEFINE s == SiCambia(i, tipo, a, b)
    <3>1. tipo \in TipoDeCambio /\ tipo \notin TipoDeEstado
      BY <1>2
    <3>2. s \in Seq(Asiento) /\ \A k \in DOMAIN s : s[k].tipo = tipo
      BY <3>1, SiCambiaTipo
    <3> QED BY <3>1, <3>2
  <2> QED BY <1>2, <1>3, <2>1
<1>5. Bien(A)
  <2>1. A \in Seq(Asiento)
    BY <1>2, <1>3, SiCambiaTipo
  <2>2. CASE l.estado = f.estado
    BY <2>1, <2>2 DEF SiCambia
  <2>3. CASE l.estado # f.estado
    <3>1. A = <<x>>
      BY <2>3 DEF SiCambia
    <3>2. A # <<>> /\ A[1] = x /\ DOMAIN A = {1}
      BY <3>1
    <3> QED BY <2>1, <2>3, <3>2
  <2> QED BY <2>2, <2>3
<1> HIDE DEF A, B, C, D, x
<1>6. ASSUME NEW s, NEW t, Bien(s), Otras(t)
      PROVE  Bien(s \o t)
  <2> DEFINE g == s \o t
  <2>1. /\ s \in Seq(Asiento) /\ t \in Seq(Asiento)
        /\ Len(s) \in Nat /\ Len(t) \in Nat /\ DOMAIN s = 1..Len(s) /\ DOMAIN t = 1..Len(t)
    BY <1>6, LenProperties
  <2>2. /\ g \in Seq(Asiento) /\ DOMAIN g = 1..(Len(s) + Len(t)) /\ Len(g) = Len(s) + Len(t)
        /\ \A k \in 1..(Len(s) + Len(t)) : g[k] = IF k <= Len(s) THEN s[k] ELSE t[k - Len(s)]
    BY <2>1, ConcatProperties, LenProperties
  <2> HIDE DEF g
  <2>3. ASSUME NEW k \in DOMAIN g PROVE (k \in DOMAIN s /\ g[k] = s[k]) \/ g[k].tipo \notin TipoDeEstado
    <3>1. CASE k <= Len(s)
      BY <2>1, <2>2, <3>1
    <3>2. CASE ~(k <= Len(s))
      <4>1. k - Len(s) \in DOMAIN t /\ g[k] = t[k - Len(s)]
        BY <2>1, <2>2, <3>2
      <4> QED BY <1>6, <4>1
    <3> QED BY <3>1, <3>2
  <2>4. CASE l.estado = f.estado
    BY <1>6, <2>2, <2>3, <2>4 DEF g
  <2>5. CASE l.estado # f.estado
    <3>1. s # <<>> /\ s[1] = x /\ \A k \in DOMAIN s : k # 1 => s[k].tipo \notin TipoDeEstado
      BY <1>6, <2>5
    <3>2. Len(s) >= 1
      BY <2>1, <3>1, EmptySeq
    <3>3. g # <<>> /\ g[1] = x
      <4>1. Len(g) # 0 /\ g[1] = s[1]
        BY <2>1, <2>2, <3>2
      <4> QED BY <3>1, <4>1, EmptySeq
    <3>4. \A k \in DOMAIN g : k # 1 => g[k].tipo \notin TipoDeEstado
      BY <2>3, <3>1
    <3> QED BY <2>2, <2>5, <3>3, <3>4 DEF g
  <2> QED BY <2>4, <2>5
<1>7. Bien(A \o B)
  BY <1>4, <1>5, <1>6
<1>8. Bien((A \o B) \o C)
  BY <1>4, <1>6, <1>7
<1>9. Bien(((A \o B) \o C) \o D)
  BY <1>4, <1>6, <1>8
<1> QED BY <1>1, <1>9 DEF x
----------------------------------------------------------------------------
(* What the calls hold, one at a time and none failing.                     *)

\* The rows of R, one of each request, start where their requests are, and the
\* handlers have a rule for the change.
Vigente(S, R) ==
  /\ \A c \in R : c.antiguo = S[c.sol].estado /\ <<c.antiguo, c.nuevo>> \in FlujoDeTramite
  /\ \A c, d \in R : c.sol = d.sol => c = d

\* A call owes rows only on its way to write them, and what it is about to write
\* is a step of Expediente.
Diligente(S, t) ==
  /\ t.cambios # <<>> => t.paso = "registrar"
  /\ FilaDecidida(t)
  /\ t.paso \in EnEspera => Vigente(S, t.resto)

Diligentes == \A p \in Peticion : Diligente(solicitudes, peticion[p])

LEMMA DeProsigue ==
  ASSUME NEW p \in Peticion, NEW t, Prosigue(p, t), t.fin \in Respuesta,
         {"paso", "resto", "cambios"} \subseteq DOMAIN t,
         peticion \in [Peticion -> Llamada]
  PROVE  /\ peticion'[p].resto \subseteq t.resto
         /\ peticion'[p].cambios = t.cambios
         /\ t.cambios # <<>> => peticion'[p].paso = "registrar"
<1>1. CASE Siguiente(t) \in Respuesta
  <2>1. peticion'[p] = [Nueva EXCEPT !.paso = Siguiente(t)]
    BY <1>1 DEF Prosigue, Responde, Queda
  <2>2. peticion'[p].cambios = <<>> /\ peticion'[p].resto = {}
    BY <2>1 DEF Nueva
  <2>3. t.cambios = <<>>
    BY <1>1 DEF Siguiente, Respuesta
  <2> QED BY <2>2, <2>3
<1>2. CASE Siguiente(t) \notin Respuesta
  <2>1. peticion'[p] = [t EXCEPT !.paso = Siguiente(t)]
    BY <1>2 DEF Prosigue, Queda
  <2>2. /\ peticion'[p].paso = Siguiente(t) /\ peticion'[p].resto = t.resto
        /\ peticion'[p].cambios = t.cambios
    BY <2>1
  <2>3. t.cambios # <<>> => Siguiente(t) = "registrar"
    BY DEF Siguiente
  <2> QED BY <2>2, <2>3
<1> QED BY <1>1, <1>2

\* The rows that a handler composes from the requests it has just read.
Reciente(S, R) ==
  \E tipo, e : \A c \in R : /\ c = Cambio(c.sol, tipo, S[c.sol].estado, e)
                            /\ c.sol \in DOMAIN S
                            /\ <<S[c.sol].estado, e>> \in FlujoDeTramite

LEMMA RecienteVale ==
  ASSUME TypeOK, NEW R, Reciente(solicitudes, R)
  PROVE  Vigente(solicitudes, R)
<1>1. PICK tipo, e : \A c \in R : /\ c = Cambio(c.sol, tipo, solicitudes[c.sol].estado, e)
                                  /\ c.sol \in DOMAIN solicitudes
                                  /\ <<solicitudes[c.sol].estado, e>> \in FlujoDeTramite
  BY DEF Reciente
<1>2. ASSUME NEW c \in R
      PROVE  c.antiguo = solicitudes[c.sol].estado /\ <<c.antiguo, c.nuevo>> \in FlujoDeTramite
  <2>1. /\ c = Cambio(c.sol, tipo, solicitudes[c.sol].estado, e)
        /\ <<solicitudes[c.sol].estado, e>> \in FlujoDeTramite
        /\ solicitudes[c.sol].estado # Nulo
    BY <1>1, FilaDeId, EstadosSonValores DEF Ids
  <2>2. e # Nulo
    BY <2>1, EstadosSonValores DEF FlujoDeTramite
  <2>3. c.antiguo = solicitudes[c.sol].estado /\ c.nuevo = e
    BY <2>1, <2>2 DEF Cambio, ComoTexto
  <2> QED BY <2>1, <2>3
<1> QED BY <1>1, <1>2 DEF Vigente

LEMMA VigenteMenos ==
  ASSUME NEW S, NEW R, Vigente(S, R), NEW Q, Q \subseteq R
  PROVE  Vigente(S, Q)
  BY DEF Vigente

LEMMA TramiteAlLlegar ==
  ASSUME TypeOK, NEW p \in Peticion, Arrive(p)
  PROVE  peticion'[p].cambios = <<>> /\ Vigente(solicitudes, peticion'[p].resto)
<1> DEFINE Bien == peticion'[p].cambios = <<>> /\ Vigente(solicitudes, peticion'[p].resto)
<1>1. peticion \in [Peticion -> Llamada]
  BY DEF TypeOK
<1>2. ASSUME NEW t, Queda(p, t), t.cambios = <<>>, t.resto = {} PROVE Bien
  <2>1. peticion'[p] = t
    BY <1>1, <1>2 DEF Queda
  <2> QED BY <1>2, <2>1 DEF Vigente
<1>3. ASSUME NEW r, Responde(p, r) PROVE Bien
  BY <1>2, <1>3 DEF Responde, Nueva
<1>4. ASSUME NEW t, Prosigue(p, t), t.fin \in Respuesta, t.cambios = <<>>,
             {"paso", "resto", "cambios"} \subseteq DOMAIN t, Reciente(solicitudes, t.resto)
      PROVE  Bien
  BY <1>1, <1>4, DeProsigue, RecienteVale, VigenteMenos
<1>5. ASSUME NEW r, Marca(p, r), Reciente(solicitudes, r) PROVE Bien
  <2> DEFINE t == [Nueva EXCEPT !.resto = r]
  <2>1. /\ Prosigue(p, t) /\ t.fin \in Respuesta /\ t.cambios = <<>> /\ t.resto = r
        /\ {"paso", "resto", "cambios"} \subseteq DOMAIN t
    BY <1>5 DEF Marca, Nueva, Respuesta
  <2> HIDE DEF t
  <2> QED BY <1>4, <1>5, <2>1
<1>6. /\ \A i, tipo, a, b : Cambio(i, tipo, a, b).sol = i
      /\ \A i \in Ids : solicitudes[i].estado \in EstadoFila
  BY FilaDeId DEF Cambio
<1>7. CASE AdvanceOnboardingRequestState(p)
  <2>1. CASE Responde(p, "negada")
    BY <1>3, <2>1
  <2>2. CASE ~Responde(p, "negada")
    <3>1. PICK i, r, e, a :
            /\ i \in Ids /\ e = next_state(solicitudes[i].estado) /\ e # Nulo
            /\ r = {Cambio(i, "CAMBIO_ESTADO", solicitudes[i].estado, e)}
            /\ Prosigue(p, [Nueva EXCEPT !.sol = i, !.resto = r, !.avisar = a])
      BY <1>7, <2>2 DEF AdvanceOnboardingRequestState, PuedeAvanzar
    <3> DEFINE t == [Nueva EXCEPT !.sol = i, !.resto = r, !.avisar = a]
    <3>2. /\ Prosigue(p, t) /\ t.fin \in Respuesta /\ t.cambios = <<>> /\ t.resto = r
          /\ {"paso", "resto", "cambios"} \subseteq DOMAIN t
      BY <3>1 DEF Nueva, Respuesta
    <3> HIDE DEF t
    <3>3. <<solicitudes[i].estado, e>> \in FlujoDeTramite
      <4>1. PICK k \in 1..2 : STATE_FLOW[k] = solicitudes[i].estado /\ STATE_FLOW[1 + k] = e
        BY <3>1 DEF next_state
      <4>2. /\ STATE_FLOW[1] = "Pendiente" /\ STATE_FLOW[2] = "En proceso"
            /\ STATE_FLOW[3] = "Finalizado"
        BY DEF STATE_FLOW
      <4>3. (k = 1 /\ 1 + k = 2) \/ (k = 2 /\ 1 + k = 3)
        OBVIOUS
      <4>4. \/ solicitudes[i].estado = "Pendiente" /\ e = "En proceso"
            \/ solicitudes[i].estado = "En proceso" /\ e = "Finalizado"
        BY <4>1, <4>2, <4>3
      <4> QED BY <4>4 DEF FlujoDeTramite
    <3>4. Reciente(solicitudes, r)
      BY <1>6, <3>1, <3>3 DEF Reciente, Ids
    <3> QED BY <1>4, <3>2, <3>4
  <2> QED BY <2>1, <2>2
<1>8. CASE RejectOnboardingRequest(p)
  <2>1. CASE Responde(p, "negada")
    BY <1>3, <2>1
  <2>2. CASE ~Responde(p, "negada")
    <3>1. PICK i, r :
            /\ i \in Ids /\ solicitudes[i].estado \notin {"Rechazado", "Finalizado"}
            /\ r = {Cambio(i, "CAMBIO_ESTADO", solicitudes[i].estado, "Rechazado")}
            /\ Marca(p, r)
      BY <1>8, <2>2 DEF RejectOnboardingRequest, PuedeRechazar
    <3>2. <<solicitudes[i].estado, "Rechazado">> \in FlujoDeTramite
      BY <1>6, <3>1 DEF FlujoDeTramite, EstadoFila, EstadoSolicitud
    <3>3. Reciente(solicitudes, r)
      BY <1>6, <3>1, <3>2 DEF Reciente, Ids
    <3> QED BY <1>5, <3>1, <3>3
  <2> QED BY <2>1, <2>2
<1>9. \A i \in Ids : <<solicitudes[i].estado, "Eliminada">> \in FlujoDeTramite
  BY <1>6 DEF FlujoDeTramite
<1>10. CASE DeleteOnboardingRequest(p)
  <2>1. CASE Responde(p, "negada")
    BY <1>3, <2>1
  <2>2. CASE ~Responde(p, "negada")
    <3>1. PICK i, r :
            /\ i \in Ids
            /\ r = {Cambio(i, "ELIMINACION", solicitudes[i].estado, "Eliminada")}
            /\ Marca(p, r)
      BY <1>10, <2>2 DEF DeleteOnboardingRequest
    <3>2. Reciente(solicitudes, r)
      BY <1>6, <1>9, <3>1 DEF Reciente, Ids
    <3> QED BY <1>5, <3>1, <3>2
  <2> QED BY <2>1, <2>2
<1>11. CASE DeleteMyOnboardingRequests(p)
  <2>1. PICK u, r :
          /\ r = {Cambio(i, "ELIMINACION", "Pendiente", "Eliminada") : i \in PendientesDe(u)}
          /\ Marca(p, r)
    BY <1>11 DEF DeleteMyOnboardingRequests
  <2>2. \A i \in PendientesDe(u) : i \in Ids /\ solicitudes[i].estado = "Pendiente"
    BY DEF PendientesDe
  <2>3. \A c \in r : /\ c.sol \in Ids /\ solicitudes[c.sol].estado = "Pendiente"
                     /\ c = Cambio(c.sol, "ELIMINACION", "Pendiente", "Eliminada")
    BY <1>6, <2>1, <2>2
  <2>4. Reciente(solicitudes, r)
    BY <1>9, <2>3 DEF Reciente, Ids
  <2> QED BY <1>5, <2>1, <2>4
<1>12. CASE \/ CreateOnboardingRequest(p) \/ UpdateOnboardingRequest(p)
            \/ CreateDotacionTemplate(p) \/ AdvanceUserOnboardingState(p) \/ DeleteUser(p)
  <2>1. /\ \A x, y : /\ [Nueva EXCEPT !.paso = x, !.fila = y].resto = {}
                     /\ [Nueva EXCEPT !.paso = x, !.fila = y].cambios = <<>>
        /\ \A x, y : /\ [Nueva EXCEPT !.paso = x, !.usuario = y].resto = {}
                     /\ [Nueva EXCEPT !.paso = x, !.usuario = y].cambios = <<>>
    BY DEF Nueva
  <2>2. ASSUME NEW x, NEW y, Queda(p, [Nueva EXCEPT !.paso = x, !.fila = y]) PROVE Bien
    BY <1>2, <2>1, <2>2
  <2>3. ASSUME NEW x, NEW y, Queda(p, [Nueva EXCEPT !.paso = x, !.usuario = y]) PROVE Bien
    BY <1>2, <2>1, <2>3
  <2>4. ASSUME NEW i, NEW l, NEW f,
               Queda(p, [Nueva EXCEPT !.paso = "editar", !.sol = i, !.leida = l, !.fila = f])
        PROVE  Bien
    <3> DEFINE t == [Nueva EXCEPT !.paso = "editar", !.sol = i, !.leida = l, !.fila = f]
    <3>1. t.resto = {} /\ t.cambios = <<>> /\ Queda(p, t)
      BY <2>4 DEF Nueva
    <3> HIDE DEF t
    <3> QED BY <1>2, <3>1
  <2>5. CASE CreateOnboardingRequest(p)
    BY <1>3, <2>2, <2>5 DEF CreateOnboardingRequest
  <2>6. CASE UpdateOnboardingRequest(p)
    BY <1>3, <2>4, <2>6 DEF UpdateOnboardingRequest
  <2>7. CASE CreateDotacionTemplate(p)
    BY <1>3, <2>2, <2>7 DEF CreateDotacionTemplate
  <2>8. CASE AdvanceUserOnboardingState(p)
    BY <1>3, <2>3, <2>8 DEF AdvanceUserOnboardingState
  <2>9. CASE DeleteUser(p)
    BY <1>3, <2>3, <2>9 DEF DeleteUser
  <2> QED BY <1>12, <2>5, <2>6, <2>7, <2>8, <2>9
<1> QED BY <1>7, <1>8, <1>10, <1>11, <1>12 DEF Arrive
----------------------------------------------------------------------------
\* To write the first row owed leaves the same rows written and owed.
LEMMA UnoMasLaCola ==
  ASSUME NEW S, NEW h \in Seq(S), NEW cs \in Seq(S), cs # <<>>
  PROVE  Append(h, Head(cs)) \o Tail(cs) = h \o cs
<1> DEFINE g == Append(h, Head(cs))
           n == Len(h)
           m == Len(cs)
<1>1. /\ Head(cs) = cs[1] /\ cs[1] \in S /\ m \in Nat /\ m >= 1 /\ n \in Nat
      /\ Tail(cs) \in Seq(S) /\ Len(Tail(cs)) = m - 1
      /\ \A k \in 1..(m - 1) : Tail(cs)[k] = cs[k + 1]
  BY HeadTailProperties, LenProperties, EmptySeq, ElementOfSeq
<1>2. /\ g \in Seq(S) /\ Len(g) = n + 1 /\ g[n + 1] = cs[1]
      /\ \A k \in 1..n : g[k] = h[k]
  BY <1>1, AppendProperties
<1> HIDE DEF g, n, m
<1>3. /\ g \o Tail(cs) \in Seq(S) /\ Len(g \o Tail(cs)) = n + m
      /\ \A k \in 1..(n + m) :
           (g \o Tail(cs))[k] = IF k <= n + 1 THEN g[k] ELSE Tail(cs)[k - (n + 1)]
  <2> DEFINE c == Tail(cs)
  <2>1. c \in Seq(S) /\ Len(c) = m - 1
    BY <1>1
  <2> HIDE DEF c
  <2>2. /\ g \o c \in Seq(S) /\ Len(g \o c) = Len(g) + Len(c)
        /\ \A k \in 1..(Len(g) + Len(c)) :
             (g \o c)[k] = IF k <= Len(g) THEN g[k] ELSE c[k - Len(g)]
    BY <1>2, <2>1, ConcatProperties
  <2>3. Len(g) + Len(c) = n + m
    BY <1>1, <1>2, <2>1
  <2> QED BY <1>2, <2>2, <2>3 DEF c
<1>4. /\ h \o cs \in Seq(S) /\ Len(h \o cs) = n + m
      /\ \A k \in 1..(n + m) : (h \o cs)[k] = IF k <= n THEN h[k] ELSE cs[k - n]
  BY <1>1, ConcatProperties DEF n, m
<1>5. ASSUME NEW k \in 1..(n + m) PROVE (g \o Tail(cs))[k] = (h \o cs)[k]
  <2>1. CASE k <= n
    BY <1>1, <1>2, <1>3, <1>4, <2>1
  <2>2. CASE k = n + 1
    BY <1>1, <1>2, <1>3, <1>4, <2>2
  <2>3. CASE k > n + 1
    <3>1. (g \o Tail(cs))[k] = Tail(cs)[k - (n + 1)] /\ (h \o cs)[k] = cs[k - n]
      BY <1>1, <1>3, <1>4, <2>3
    <3>2. PICK j : j = k - (n + 1) /\ j \in 1..(m - 1) /\ j + 1 = k - n
      BY <1>1, <2>3
    <3>3. Tail(cs)[j] = cs[j + 1]
      BY <1>1, <3>2
    <3> QED BY <3>1, <3>2, <3>3
  <2>4. k \in Nat /\ (k <= n \/ k = n + 1 \/ k > n + 1)
    BY <1>1
  <2> QED BY <2>1, <2>2, <2>3, <2>4
<1>6. g \o Tail(cs) = h \o cs
  BY <1>3, <1>4, <1>5, SeqEqual
<1> QED BY <1>6 DEF g

\* A statement of a call: the rows it owes then are on their way, those of resto
\* are still as the requests are, and unless it wrote SOLICITUDES, what HISTORIAL
\* has and the call owes is together what it was.
LEMMA TramiteAlSeguir ==
  ASSUME TypeOK, NEW p \in Peticion, Continue(p), Diligente(solicitudes, peticion[p])
  PROVE  /\ peticion'[p].cambios # <<>> => peticion'[p].paso = "registrar"
         /\ Vigente(solicitudes', peticion'[p].resto)
         /\ \/ InsertRequest(p) \/ WriteUpdate(p) \/ WriteState(p)
            \/ /\ solicitudes' = solicitudes
               /\ historial' \o peticion'[p].cambios = historial \o peticion[p].cambios
<1> DEFINE t == peticion[p]
           Debe == peticion'[p].cambios # <<>> => peticion'[p].paso = "registrar"
           Escribe == InsertRequest(p) \/ WriteUpdate(p) \/ WriteState(p)
           Igual == /\ solicitudes' = solicitudes
                    /\ historial' \o peticion'[p].cambios = historial \o peticion[p].cambios
<1>1. /\ peticion \in [Peticion -> Llamada] /\ t \in Llamada /\ Coherente(t, Ids)
      /\ solicitudes \in Seq(Fila) /\ historial \in Seq(Asiento) /\ t.cambios \in Seq(Asiento)
  BY DEF TypeOK, Llamada
<1>2. /\ t.fin \in Respuesta
      /\ {"paso", "resto", "cambios", "avisar"} \subseteq DOMAIN t
      /\ t.paso # "registrar" => t.cambios = <<>>
      /\ Vigente(solicitudes, t.resto)
  <2>1. t.paso \in EnEspera
    BY DEF Continue, EnEspera, SelectTemplate, InsertMissingTemplate, InsertRequest, WriteUpdate,
       WriteState, RegisterHistory, SendNotification, InsertTemplate, WriteUserState,
       SelectUserRequests, MarkUserDeleted
  <2> QED BY <1>1, <2>1 DEF Llamada, Diligente
<1>v. ASSUME NEW R, R \subseteq {} PROVE Vigente(solicitudes', R)
  BY <1>v DEF Vigente
<1>3. CASE SelectTemplate(p) \/ InsertMissingTemplate(p)
  <2>1. PICK r : /\ peticion'[p] = [t EXCEPT !.paso = r] /\ t.cambios = <<>>
                 /\ solicitudes' = solicitudes /\ historial' = historial
    <3>1. CASE SelectTemplate(p)
      BY <1>1, <1>2, <3>1 DEF SelectTemplate, Queda, db
    <3>2. CASE InsertMissingTemplate(p)
      BY <1>1, <1>2, <3>2 DEF InsertMissingTemplate, Queda
    <3> QED BY <1>3, <3>1, <3>2
  <2>2. peticion'[p].cambios = t.cambios /\ peticion'[p].resto = t.resto
    BY <1>2, <2>1
  <2> QED BY <1>2, <2>1, <2>2
<1>4. CASE InsertRequest(p)
  <2>1. PICK s, i, cs : /\ s = [Nueva EXCEPT !.sol = i, !.cambios = cs]
                        /\ Prosigue(p, s)
    BY <1>4 DEF InsertRequest
  <2>2. /\ s.fin \in Respuesta /\ s.resto = {} /\ {"paso", "resto", "cambios"} \subseteq DOMAIN s
    BY <2>1 DEF Nueva, Respuesta
  <2>3. Debe /\ peticion'[p].resto \subseteq {}
    BY <1>1, <2>1, <2>2, DeProsigue
  <2> QED BY <1>4, <1>v, <2>3
<1>5. CASE WriteUpdate(p)
  <2>1. PICK s, i, cs, a, f : /\ s = [Nueva EXCEPT !.sol = i, !.cambios = cs, !.avisar = a,
                                                   !.fin = f]
                              /\ f = RespuestaDe(t.fila)
                              /\ Prosigue(p, s)
    BY <1>5 DEF WriteUpdate
  <2>2. f \in Respuesta
    BY <2>1 DEF RespuestaDe, Respuesta
  <2>3. /\ s.fin \in Respuesta /\ s.resto = {} /\ {"paso", "resto", "cambios"} \subseteq DOMAIN s
    BY <2>1, <2>2 DEF Nueva
  <2>4. Debe /\ peticion'[p].resto \subseteq {}
    BY <1>1, <2>1, <2>3, DeProsigue
  <2> QED BY <1>5, <1>v, <2>4
<1>6. CASE WriteState(p)
  <2>1. PICK c, s : /\ c \in t.resto
                    /\ solicitudes' = [solicitudes EXCEPT ![c.sol].estado = c.nuevo]
                    /\ s = [t EXCEPT !.resto = @ \ {c}, !.cambios = <<c>>]
                    /\ Prosigue(p, s)
    BY <1>6 DEF WriteState
  <2>2. /\ s.fin \in Respuesta /\ s.resto = t.resto \ {c}
        /\ {"paso", "resto", "cambios"} \subseteq DOMAIN s
    BY <1>2, <2>1
  <2>3. Debe /\ peticion'[p].resto \subseteq t.resto \ {c}
    BY <1>1, <2>1, <2>2, DeProsigue
  <2>4. \A d \in peticion'[p].resto : d.sol \in Ids /\ solicitudes'[d.sol] = solicitudes[d.sol]
    <3>1. ASSUME NEW d \in peticion'[p].resto
          PROVE  d.sol \in Ids /\ d.sol # c.sol
      BY <1>1, <1>2, <2>1, <2>3 DEF Vigente, Coherente
    <3> QED BY <2>1, <3>1 DEF Ids
  <2>5. Vigente(solicitudes', peticion'[p].resto)
    BY <1>2, <2>3, <2>4 DEF Vigente
  <2> QED BY <1>6, <2>3, <2>5
<1>7. CASE RegisterHistory(p)
  <2> DEFINE h == Head(t.cambios)
             cola == Tail(t.cambios)
  <2>1. PICK s : /\ s = [t EXCEPT !.cambios = cola]
                 /\ Prosigue(p, s) /\ solicitudes' = solicitudes
                 /\ historial' = Append(historial, h)
    BY <1>7 DEF RegisterHistory
  <2> HIDE DEF h, cola
  <2>2. /\ s.fin \in Respuesta /\ s.resto = t.resto /\ s.cambios = cola
        /\ {"paso", "resto", "cambios"} \subseteq DOMAIN s
    BY <1>2, <2>1
  <2>3. Debe /\ peticion'[p].resto \subseteq t.resto /\ peticion'[p].cambios = cola
    BY <1>1, <2>1, <2>2, DeProsigue
  <2>4. Vigente(solicitudes', peticion'[p].resto)
    BY <1>2, <2>1, <2>3, VigenteMenos
  <2>5. t.cambios # <<>>
    BY <1>1, <1>7 DEF RegisterHistory, Coherente
  <2>6. Append(historial, h) \o cola = historial \o t.cambios
    BY <1>1, <2>5, UnoMasLaCola DEF h, cola
  <2> QED BY <2>1, <2>3, <2>4, <2>6
<1>8. CASE SendNotification(p)
  <2>1. PICK s : /\ s = [t EXCEPT !.avisar = FALSE] /\ Prosigue(p, s)
                 /\ solicitudes' = solicitudes /\ historial' = historial /\ t.paso = "avisar"
    BY <1>8 DEF SendNotification
  <2>2. /\ s.fin \in Respuesta /\ s.resto = t.resto /\ s.cambios = t.cambios
        /\ {"paso", "resto", "cambios"} \subseteq DOMAIN s
    BY <1>2, <2>1
  <2>3. Debe /\ peticion'[p].resto \subseteq t.resto /\ peticion'[p].cambios = t.cambios
    BY <1>1, <2>1, <2>2, DeProsigue
  <2>4. Vigente(solicitudes', peticion'[p].resto)
    BY <1>2, <2>1, <2>3, VigenteMenos
  <2> QED BY <2>1, <2>3, <2>4
<1>9. CASE SelectUserRequests(p)
  <2>1. PICK r, s :
          /\ r = {Cambio(i, "ELIMINACION", solicitudes[i].estado, "Eliminada") :
                    i \in {j \in Ids : solicitudes[j].id_empleado = t.usuario}}
          /\ s = [t EXCEPT !.resto = r]
          /\ Prosigue(p, s) /\ solicitudes' = solicitudes /\ historial' = historial
          /\ t.paso = "listar_usuario"
    BY <1>9 DEF SelectUserRequests, db
  <2>2. /\ s.fin \in Respuesta /\ s.resto = r /\ s.cambios = t.cambios
        /\ {"paso", "resto", "cambios"} \subseteq DOMAIN s
    BY <1>2, <2>1
  <2>3. Debe /\ peticion'[p].resto \subseteq r /\ peticion'[p].cambios = t.cambios
    BY <1>1, <2>1, <2>2, DeProsigue
  <2>4. Reciente(solicitudes, r)
    <3>1. \A i, tipo, a, b : Cambio(i, tipo, a, b).sol = i
      BY DEF Cambio
    <3>2. \A i \in Ids : <<solicitudes[i].estado, "Eliminada">> \in FlujoDeTramite
      BY FilaDeId DEF FlujoDeTramite
    <3>3. \A c \in r : /\ c.sol \in Ids
                       /\ c = Cambio(c.sol, "ELIMINACION", solicitudes[c.sol].estado, "Eliminada")
      BY <2>1, <3>1
    <3> QED BY <3>2, <3>3 DEF Reciente, Ids
  <2>5. Vigente(solicitudes', peticion'[p].resto)
    BY <2>1, <2>3, <2>4, RecienteVale, VigenteMenos
  <2> QED BY <2>1, <2>3, <2>5
<1>10. CASE InsertTemplate(p) \/ WriteUserState(p) \/ MarkUserDeleted(p)
  <2>1. PICK r : peticion'[p] = [Nueva EXCEPT !.paso = r]
    BY <1>1, <1>10 DEF InsertTemplate, WriteUserState, MarkUserDeleted, Responde, Queda
  <2>2. peticion'[p].resto = {} /\ peticion'[p].cambios = <<>>
    BY <2>1 DEF Nueva
  <2>3. /\ solicitudes' = solicitudes /\ historial' = historial /\ t.cambios = <<>>
    BY <1>2, <1>10 DEF InsertTemplate, WriteUserState, MarkUserDeleted
  <2> QED BY <1>v, <2>2, <2>3
<1> QED
  BY <1>3, <1>4, <1>5, <1>6, <1>7, <1>8, <1>9, <1>10 DEF Continue
----------------------------------------------------------------------------
LEMMA DiligentesSeConserva ==
  ASSUME DeUnaEnUna, ~ConFallos, TypeOK, TypeOK', Sola, Diligentes, NEW p \in Peticion, Turno(p)
  PROVE  Diligentes'
<1> DEFINE t == peticion[p]
           u == peticion'[p]
<1>1. /\ peticion \in [Peticion -> Llamada] /\ t \in Llamada /\ Diligente(solicitudes, t)
      /\ Arrive(p) \/ Continue(p)
  BY DEF TypeOK, Diligentes, Turno, Fail
<1>2. /\ u.cambios # <<>> => u.paso = "registrar"
      /\ Vigente(solicitudes', u.resto)
  <2>1. CASE Arrive(p)
    <3>1. solicitudes' = solicitudes
      BY <2>1 DEF Arrive, db, CreateOnboardingRequest, UpdateOnboardingRequest,
         AdvanceOnboardingRequestState, RejectOnboardingRequest, DeleteOnboardingRequest,
         DeleteMyOnboardingRequests, CreateDotacionTemplate, AdvanceUserOnboardingState,
         DeleteUser
    <3> QED BY <2>1, <3>1, TramiteAlLlegar
  <2>2. CASE Continue(p)
    BY <1>1, <2>2, TramiteAlSeguir
  <2> QED BY <1>1, <2>1, <2>2
<1>3. FilaDecidida(u)
  BY <1>1, FilaQueQueda DEF Diligente
<1>4. Diligente(solicitudes', u)
  BY <1>2, <1>3 DEF Diligente
<1>5. ASSUME NEW q \in Peticion, q # p PROVE Diligente(solicitudes', peticion'[q])
  <2>1. peticion'[q] = peticion[q] /\ peticion[q].paso \notin EnEspera
    BY <1>5, NingunaOtra
  <2>2. Diligente(solicitudes, peticion[q])
    BY DEF Diligentes
  <2> QED BY <2>1, <2>2 DEF Diligente, EnEspera
<1> QED BY <1>4, <1>5 DEF Diligentes

LEMMA SiempreDiligentes ==
  ASSUME DeUnaEnUna, ~ConFallos
  PROVE  Spec => []Diligentes
<1>1. Init => Diligentes
  <2> SUFFICES ASSUME Init, NEW p \in Peticion PROVE Diligente(solicitudes, peticion[p])
    BY DEF Diligentes
  <2>1. /\ peticion[p].paso = "nueva" /\ peticion[p].cambios = <<>>
    BY DEF Init, Nueva
  <2> QED BY <2>1 DEF Diligente, FilaDecidida, EnEspera
<1>2. TypeOK /\ TypeOK' /\ Sola /\ Diligentes /\ [Next]_vars => Diligentes'
  <2> SUFFICES ASSUME TypeOK, TypeOK', Sola, Diligentes, [Next]_vars PROVE Diligentes'
    OBVIOUS
  <2>1. CASE \E p \in Peticion : Arrive(p) \/ Continue(p) \/ Fail(p)
    BY <2>1, DiligentesSeConserva DEF Turno
  <2>2. CASE UNCHANGED vars
    BY <2>2 DEF vars, Diligentes
  <2> QED BY <2>1, <2>2 DEF Next, Terminated
<1> QED BY <1>1, <1>2, TypeCorrect, SiempreSola, PTL DEF Spec
----------------------------------------------------------------------------
\* With one call running, the rows owed are the ones it owes.
LEMMA DebidosDe ==
  ASSUME NEW p \in Peticion, \A q \in Peticion \ {p} : peticion[q].cambios = <<>>
  PROVE  Debidos = peticion[p].cambios
<1>1. CASE peticion[p].cambios = <<>>
  BY <1>1 DEF Debidos
<1>2. CASE peticion[p].cambios # <<>>
  <2>1. \A q \in Peticion : peticion[q].cambios # <<>> <=> q = p
    BY <1>2
  <2>2. (CHOOSE q \in Peticion : peticion[q].cambios # <<>>) = p
    BY <2>1
  <2> QED BY <2>1, <2>2 DEF Debidos
<1> QED BY <1>1, <1>2

LEMMA DebidosDespues ==
  ASSUME NEW p \in Peticion, \A q \in Peticion \ {p} : peticion'[q].cambios = <<>>
  PROVE  Debidos' = peticion'[p].cambios
<1>1. CASE peticion'[p].cambios = <<>>
  BY <1>1 DEF Debidos
<1>2. CASE peticion'[p].cambios # <<>>
  <2>1. \A q \in Peticion : peticion'[q].cambios # <<>> <=> q = p
    BY <1>2
  <2>2. (CHOOSE q \in Peticion : peticion'[q].cambios # <<>>) = p
    BY <2>1
  <2> QED BY <2>1, <2>2 DEF Debidos
<1> QED BY <1>1, <1>2
----------------------------------------------------------------------------
\* The variables of Expediente.
Estados == [i \in Ids |-> solicitudes[i].estado]
Actas   == Acta(historial \o Debidos)

\* A step that writes SOLICITUDES, and owes cs for it, adds to the record what the
\* first row of cs says.
LEMMA AnotaUna ==
  ASSUME historial \in Seq(Asiento), historial' = historial, Debidos = <<>>,
         NEW cs, cs \in Seq(Asiento), Debidos' = cs, cs # <<>>,
         cs[1].tipo \in TipoDeEstado,
         \A k \in DOMAIN cs : k # 1 => cs[k].tipo \notin TipoDeEstado
  PROVE  Registro!Anotar(Asentado(cs[1]))
<1>1. historial \o Debidos = historial
  BY ConcatEmptySeq
<1>2. Acta(historial \o Debidos) = Acta(historial) /\ (Acta(historial \o Debidos))' = Acta(historial \o cs)
  BY <1>1
<1>3. PICK n : MasUna(Acta(historial), Acta(historial \o cs), n, Asentado(cs[1]))
  BY ActaCrece
<1> QED BY <1>2, <1>3 DEF Registro!Anotar, MasUna

\* A row inserted, or one row updated, is one estado more, or another estado.
LEMMA EstadosAlInsertar ==
  ASSUME solicitudes \in Seq(Fila), NEW f \in Fila, solicitudes' = Append(solicitudes, f)
  PROVE  Estados' = Append(Estados, f.estado) /\ Len(Estados) = Len(solicitudes)
<1> DEFINE n == Len(solicitudes)
<1>1. n \in Nat /\ Ids = 1..n /\ \A k \in 1..n : solicitudes[k] \in Fila
  BY LenProperties, ElementOfSeq DEF Ids
<1>2. /\ DOMAIN solicitudes' = 1..(n + 1) /\ solicitudes'[n + 1] = f
      /\ \A k \in 1..n : solicitudes'[k] = solicitudes[k]
  BY <1>1, AppendProperties, LenProperties
<1> HIDE DEF n
<1>3. Estados \in [1..n -> EstadoFila] /\ f.estado \in EstadoFila
  BY <1>1 DEF Estados, Fila
<1>4. Estados \in Seq(EstadoFila) /\ Len(Estados) = n
  <2>1. Estados \in Seq(EstadoFila)
    BY <1>1, <1>3, SeqDef
  <2> QED BY <1>1, <1>3, <2>1, LenProperties
<1> DEFINE g == Append(Estados, f.estado)
<1>5. /\ g \in Seq(EstadoFila) /\ Len(g) = n + 1 /\ g[n + 1] = f.estado
      /\ \A k \in 1..n : g[k] = Estados[k]
  BY <1>3, <1>4, AppendProperties
<1> HIDE DEF g
<1>6. g = [k \in 1..(n + 1) |-> g[k]]
  BY <1>5, LenProperties
<1>7. Estados' = [k \in 1..(n + 1) |-> solicitudes'[k].estado]
  BY <1>2 DEF Estados, Ids
<1>8. ASSUME NEW k \in 1..(n + 1) PROVE solicitudes'[k].estado = g[k]
  <2>1. CASE k = n + 1
    BY <1>2, <1>5, <2>1
  <2>2. CASE k # n + 1
    <3>1. k \in 1..n
      BY <1>1, <2>2
    <3> QED BY <1>1, <1>2, <1>5, <3>1 DEF Estados
  <2> QED BY <2>1, <2>2
<1>9. Estados' = g
  BY <1>6, <1>7, <1>8
<1> QED BY <1>4, <1>9 DEF g, n

LEMMA EstadosAlEscribir ==
  ASSUME NEW i \in Ids, Ids' = Ids, NEW e, solicitudes'[i].estado = e,
         \A k \in Ids : k # i => solicitudes'[k] = solicitudes[k]
  PROVE  Estados' = [Estados EXCEPT ![i] = e]
<1>1. Estados' = [k \in Ids |-> solicitudes'[k].estado]
  BY DEF Estados
<1>2. [Estados EXCEPT ![i] = e] = [k \in Ids |-> IF k = i THEN e ELSE solicitudes[k].estado]
  BY DEF Estados
<1> QED BY <1>1, <1>2

\* A request whose estado goes where the flow lets it, with its entry.
LEMMA PasaDeEstado ==
  ASSUME NEW i \in Ids, Ids' = Ids, NEW e \in EstadoFila, solicitudes'[i].estado = e,
         \A k \in Ids : k # i => solicitudes'[k] = solicitudes[k],
         <<solicitudes[i].estado, e>> \in FlujoDeTramite \cup FlujoDeEdicion,
         Registro!Anotar(Registro!Entrada(i, solicitudes[i].estado, e))
  PROVE  Registro!Next
<1>1. Estados' = [Estados EXCEPT ![i] = e] /\ Estados[i] = solicitudes[i].estado
      /\ i \in DOMAIN Estados
  BY EstadosAlEscribir DEF Estados
<1>2. Registro!Pasar(i, e)
  BY <1>1 DEF Registro!Pasar, Estados
<1>3. \E j \in DOMAIN Estados, x \in EstadoFila : Registro!Pasar(j, x)
  BY <1>1, <1>2
<1> QED BY <1>3 DEF Registro!Next, Estados

LEMMA PasoDelExpediente ==
  ASSUME DeUnaEnUna, ~ConFallos, TypeOK, TypeOK', Sola, Frescas, Diligentes, Diligentes',
         NEW p \in Peticion, Turno(p)
  PROVE  \/ Estados' = Estados /\ Actas' = Actas
         \/ Registro!Next
<1> DEFINE t == peticion[p]
           u == peticion'[p]
<1>1. /\ peticion \in [Peticion -> Llamada] /\ t \in Llamada /\ Diligente(solicitudes, t)
      /\ Coherente(t, Ids) /\ Fresca(t) /\ u \in Llamada
      /\ solicitudes \in Seq(Fila) /\ historial \in Seq(Asiento)
  BY DEF TypeOK, Diligentes, Frescas
<1>2. /\ Debidos = t.cambios /\ Debidos' = u.cambios
      /\ t.paso # "registrar" => t.cambios = <<>>
  <2>1. ASSUME NEW q \in Peticion \ {p}
        PROVE  peticion[q].cambios = <<>> /\ peticion'[q].cambios = <<>>
    <3>1. peticion'[q] = peticion[q] /\ peticion[q].paso \notin EnEspera
      BY NingunaOtra
    <3> QED BY <3>1 DEF Diligentes, Diligente, EnEspera
  <2> QED BY <1>1, <2>1, DebidosDe, DebidosDespues DEF Diligente
<1>3. Len(solicitudes) \in Nat /\ Ids = 1..Len(solicitudes)
  BY <1>1, LenProperties DEF Ids
<1>4. CASE InsertRequest(p)
  <2>1. PICK i, e, c, cs, s :
          /\ i = Len(solicitudes) + 1 /\ e = t.fila.estado
          /\ c = Cambio(i, "CREACION", Nulo, e)
          /\ cs = <<c>>
          /\ s = [Nueva EXCEPT !.sol = i, !.cambios = cs]
          /\ Prosigue(p, s)
    BY <1>4 DEF InsertRequest
  <2>2. /\ t.paso = "alta" /\ historial' = historial /\ Debidos = <<>>
        /\ solicitudes' = Append(solicitudes, t.fila) /\ t.fila \in Fila
        /\ e \in EstadoSolicitud
    BY <1>1, <1>2, <1>4, <2>1 DEF InsertRequest, Coherente, Diligente,
       FilaDecidida
  <2>3. Debidos' = cs
    <3>1. /\ s.fin \in Respuesta /\ s.cambios = cs
          /\ {"paso", "resto", "cambios"} \subseteq DOMAIN s
      BY <2>1 DEF Nueva, Respuesta
    <3> QED BY <1>1, <1>2, <2>1, <3>1, DeProsigue
  <2>4. e \in EstadoFila /\ e # Nulo
    BY <2>2, EstadosSonValores
  <2>5. /\ c.tipo \in TipoDeEstado
        /\ Asentado(c) = Registro!Entrada(i, "", e)
    BY <2>1, <2>4 DEF Cambio, ComoTexto, TipoDeEstado, Asentado, Registro!Entrada
  <2>6. cs \in Seq(Asiento) /\ cs # <<>> /\ cs[1] = c /\ DOMAIN cs = {1}
    <3>1. u.cambios \in Seq(Asiento)
      BY <1>1 DEF Llamada
    <3> QED BY <1>2, <2>1, <2>3, <3>1
  <2>7. Registro!Anotar(Registro!Entrada(i, "", e))
    BY <1>1, <2>2, <2>3, <2>5, <2>6, AnotaUna
  <2>8. Estados' = Append(Estados, e) /\ Len(Estados) + 1 = i
    BY <1>1, <2>1, <2>2, EstadosAlInsertar
  <2>9. Registro!Abrir(e)
    BY <2>7, <2>8 DEF Registro!Abrir, Estados
  <2> HIDE DEF t, u
  <2>10. \E x \in EstadoSolicitud : Registro!Abrir(x)
    BY <2>2, <2>9
  <2> QED BY <2>10 DEF Registro!Next
<1>5. CASE WriteUpdate(p)
  <2>1. PICK i, l, f, e, cs, s, a, r :
          /\ i = t.sol /\ l = t.leida /\ f = t.fila /\ e = f.estado /\ cs = Cambios(i, l, f)
          /\ s = [Nueva EXCEPT !.sol = i, !.cambios = cs, !.avisar = a, !.fin = r]
          /\ r = RespuestaDe(f)
          /\ Prosigue(p, s)
    BY <1>5 DEF WriteUpdate
  <2>2. /\ t.paso = "editar" /\ historial' = historial /\ Debidos = <<>>
        /\ i \in Ids /\ l \in Fila /\ f \in Fila /\ l = solicitudes[i]
        /\ solicitudes' = [solicitudes EXCEPT ![i] = FilaEscrita(@, f)]
        /\ e = l.estado \/ e \in Enviados
    BY <1>1, <1>2, <1>5, <2>1 DEF WriteUpdate, Coherente, Diligente,
       FilaDecidida, Fresca
  <2>3. Debidos' = cs
    <3>1. r \in Respuesta
      BY <2>1 DEF RespuestaDe, Respuesta
    <3>2. /\ s.fin \in Respuesta /\ s.cambios = cs
          /\ {"paso", "resto", "cambios"} \subseteq DOMAIN s
      BY <2>1, <3>1 DEF Nueva
    <3> QED BY <1>1, <1>2, <2>1, <3>2, DeProsigue
  <2>4. /\ Ids' = Ids /\ solicitudes'[i].estado = e /\ e \in EstadoFila
        /\ l.estado \in EstadoFila
        /\ \A k \in Ids : k # i => solicitudes'[k] = solicitudes[k]
    <3>1. solicitudes'[i] = FilaEscrita(solicitudes[i], f)
          /\ Ids' = Ids /\ \A k \in Ids : k # i => solicitudes'[k] = solicitudes[k]
      BY <2>2 DEF Ids
    <3> QED BY <2>1, <2>2, <3>1 DEF FilaEscrita, Fila
  <2>5. i \in Nat \ {0} /\ cs \in Seq(Asiento)
    BY <2>1, <2>2, FilaDeId, CambiosEnOrden
  <2> HIDE DEF t, u
  <2>6. CASE e = l.estado
    <3>1. Estados' = Estados
      BY <2>2, <2>4, <2>6 DEF Estados
    <3>2. Acta(historial \o cs) = Acta(historial)
      <4>1. \A k \in DOMAIN cs : cs[k].tipo \notin TipoDeEstado
        <5>1. l.estado = f.estado
          BY <2>1, <2>6
        <5>2. \A k \in DOMAIN Cambios(i, l, f) : Cambios(i, l, f)[k].tipo \notin TipoDeEstado
          BY <2>2, <2>5, <5>1, CambiosEnOrden
        <5> QED BY <2>1, <5>2
      <4> QED BY <1>1, <2>5, <4>1, ActaIgual
    <3>3. historial \o Debidos = historial
      BY <1>1, <2>2, ConcatEmptySeq
    <3> QED BY <2>2, <2>3, <3>1, <3>2, <3>3 DEF Actas
  <2>7. CASE e # l.estado
    <3>1. /\ cs # <<>> /\ cs[1] = Cambio(i, "CAMBIO_ESTADO", l.estado, e)
          /\ \A k \in DOMAIN cs : k # 1 => cs[k].tipo \notin TipoDeEstado
      BY <2>1, <2>2, <2>5, <2>7, CambiosEnOrden
    <3>2. /\ cs[1].tipo \in TipoDeEstado
          /\ Asentado(cs[1]) = Registro!Entrada(i, l.estado, e)
      <4>1. l.estado # Nulo /\ e # Nulo
        BY <2>4, EstadosSonValores
      <4>2. PICK b, c : b = l.estado /\ c = Cambio(i, "CAMBIO_ESTADO", b, e)
        OBVIOUS
      <4>3. c.tipo \in TipoDeEstado /\ Asentado(c) = Registro!Entrada(i, b, e)
        BY <4>1, <4>2 DEF Cambio, ComoTexto, TipoDeEstado, Asentado, Registro!Entrada
      <4> QED BY <3>1, <4>2, <4>3
    <3>3. Registro!Anotar(Registro!Entrada(i, l.estado, e))
      BY <1>1, <2>2, <2>3, <2>5, <3>1, <3>2, AnotaUna
    <3>4. <<l.estado, e>> \in FlujoDeEdicion
      BY <2>2, <2>4, <2>7 DEF FlujoDeEdicion, Enviados
    <3> QED BY <2>2, <2>4, <3>3, <3>4, PasaDeEstado
  <2> QED BY <2>6, <2>7
<1>6. CASE WriteState(p)
  <2>1. PICK i, e, c, cs, s :
          /\ c \in t.resto /\ i = c.sol /\ e = c.nuevo /\ cs = <<c>>
          /\ solicitudes' = [solicitudes EXCEPT ![i].estado = e]
          /\ s = [t EXCEPT !.resto = @ \ {c}, !.cambios = cs]
          /\ Prosigue(p, s)
    BY <1>6 DEF WriteState
  <2>2. /\ t.paso = "marcar" /\ historial' = historial /\ Debidos = <<>>
        /\ c \in Asiento /\ i \in Ids /\ e \in EstadoFila /\ c.tipo \in TipoDeEstado
        /\ c.antiguo = solicitudes[i].estado /\ <<c.antiguo, e>> \in FlujoDeTramite
    BY <1>1, <1>2, <1>6, <2>1
    DEF WriteState, Coherente, Diligente, Vigente, Llamada, EnEspera, TipoDeEstado
  <2>3. Debidos' = cs
    <3>1. /\ s.fin \in Respuesta /\ s.cambios = cs
          /\ {"paso", "resto", "cambios"} \subseteq DOMAIN s
      BY <1>1, <2>1 DEF Llamada
    <3> QED BY <1>1, <1>2, <2>1, <3>1, DeProsigue
  <2>4. /\ Ids' = Ids /\ solicitudes'[i].estado = e
        /\ \A k \in Ids : k # i => solicitudes'[k] = solicitudes[k]
    <3>1. solicitudes[i] \in Fila
      BY <2>2, FilaDeId
    <3> QED BY <2>1, <2>2, <3>1 DEF Ids, Fila
  <2>5. cs \in Seq(Asiento) /\ cs # <<>> /\ cs[1] = c /\ DOMAIN cs = {1}
    BY <2>1, <2>2
  <2>6. Asentado(c) = Registro!Entrada(i, solicitudes[i].estado, e)
    BY <2>1, <2>2 DEF Asentado, Registro!Entrada
  <2>7. Registro!Anotar(Registro!Entrada(i, solicitudes[i].estado, e))
    BY <1>1, <2>2, <2>3, <2>5, <2>6, AnotaUna
  <2> QED BY <2>2, <2>4, <2>7, PasaDeEstado
<1>7. CASE Arrive(p)
  <2>1. /\ solicitudes' = solicitudes /\ historial' = historial
        /\ t.paso = "nueva"
    BY <1>7 DEF Arrive, db, Llega, CreateOnboardingRequest, UpdateOnboardingRequest,
       AdvanceOnboardingRequestState, RejectOnboardingRequest, DeleteOnboardingRequest,
       DeleteMyOnboardingRequests, CreateDotacionTemplate, AdvanceUserOnboardingState,
       DeleteUser
  <2>2. Debidos' = Debidos
    BY <1>2, <1>7, <2>1, TramiteAlLlegar
  <2> QED BY <2>1, <2>2 DEF Estados, Actas, Ids
<1>8. CASE Continue(p) /\ ~(InsertRequest(p) \/ WriteUpdate(p) \/ WriteState(p))
  <2>1. solicitudes' = solicitudes /\ historial' \o u.cambios = historial \o t.cambios
    BY <1>1, <1>8, TramiteAlSeguir
  <2> QED BY <1>2, <2>1 DEF Estados, Actas, Ids
<1> QED BY <1>4, <1>5, <1>6, <1>7, <1>8 DEF Turno, Fail

LEMMA ExpedienteInicial == Init => Registro!Init
<1> SUFFICES ASSUME Init PROVE Registro!Init
  OBVIOUS
<1>1. /\ solicitudes = Iniciales /\ Iniciales \in Seq(OnboardingRequest)
      /\ historial = [i \in Ids |-> Cambio(i, "CREACION", Nulo, solicitudes[i].estado)]
      /\ \A p \in Peticion : peticion[p].cambios = <<>>
  BY SolicitudesAssumption DEF Init, Nueva, Ids
<1>2. /\ Len(solicitudes) \in Nat /\ Ids = 1..Len(solicitudes)
      /\ \A i \in Ids : solicitudes[i].estado \in EstadoSolicitud
  <2>1. /\ Len(Iniciales) \in Nat /\ DOMAIN Iniciales = 1..Len(Iniciales)
        /\ \A i \in 1..Len(Iniciales) : Iniciales[i] \in OnboardingRequest
    BY <1>1, LenProperties, ElementOfSeq
  <2> QED BY <1>1, <2>1 DEF Ids, OnboardingRequest
<1>3. Estados \in Seq(EstadoSolicitud) /\ DOMAIN Estados = Ids
  <2>1. Estados \in [1..Len(solicitudes) -> EstadoSolicitud]
    BY <1>2 DEF Estados
  <2> QED BY <1>2, <2>1, SeqDef DEF Estados
<1>4. historial \o Debidos = historial
  <2>1. historial \in Seq(Asiento)
    BY TipoInicial DEF TypeOK
  <2>2. Debidos = <<>>
    BY <1>1 DEF Debidos
  <2> QED BY <2>1, <2>2, ConcatEmptySeq
<1>5. Actas = [i \in Ids |-> Registro!Entrada(i, "", Estados[i])]
  <2>1. ASSUME NEW i \in Ids
        PROVE  /\ historial[i].tipo \in TipoDeEstado
               /\ Asentado(historial[i]) = Registro!Entrada(i, "", Estados[i])
    <3>1. PICK e : e = solicitudes[i].estado /\ e # Nulo
      BY <1>2, EstadosSonValores
    <3>2. PICK c : c = Cambio(i, "CREACION", Nulo, e)
      OBVIOUS
    <3>3. c.tipo \in TipoDeEstado /\ Asentado(c) = Registro!Entrada(i, "", e)
      BY <3>1, <3>2 DEF Cambio, ComoTexto, TipoDeEstado, Asentado, Registro!Entrada
    <3>4. historial[i] = c /\ Estados[i] = e
      BY <1>1, <3>1, <3>2 DEF Estados
    <3> QED BY <3>3, <3>4
  <2>2. DOMAIN historial = Ids
    BY <1>1
  <2>3. {k \in DOMAIN historial : historial[k].tipo \in TipoDeEstado} = Ids
    BY <2>1, <2>2
  <2>4. Acta(historial) = [i \in Ids |-> Asentado(historial[i])]
    BY <2>3 DEF Acta
  <2> QED BY <1>4, <2>1, <2>4 DEF Actas
<1> QED BY <1>3, <1>5 DEF Registro!Init, Estados, Actas

(* With one call at a time and no statement that fails, the handlers are what *)
(* Expediente promises: each UPDATE of an estado, with the rows its call then *)
(* owes HISTORIAL, is one step along the flow of the handlers, and every      *)
(* other statement leaves the estados and their record as they were.          *)
THEOREM ExpedienteSeCumple ==
  ASSUME DeUnaEnUna, ~ConFallos
  PROVE  Spec => CumpleExpediente
<1>1. TypeOK /\ TypeOK' /\ Sola /\ Frescas /\ Diligentes /\ Diligentes' /\ [Next]_vars
        => [Registro!Next]_<<Estados, Actas>>
  <2> SUFFICES ASSUME TypeOK, TypeOK', Sola, Frescas, Diligentes, Diligentes', [Next]_vars
               PROVE  \/ Estados' = Estados /\ Actas' = Actas
                      \/ Registro!Next
    OBVIOUS
  <2>1. CASE \E p \in Peticion : Arrive(p) \/ Continue(p) \/ Fail(p)
    BY <2>1, PasoDelExpediente DEF Turno
  <2>2. CASE UNCHANGED vars
    BY <2>2 DEF vars, Estados, Actas, Debidos, Ids
  <2> QED BY <2>1, <2>2 DEF Next, Terminated
<1> QED
  BY <1>1, ExpedienteInicial, TypeCorrect, SiempreSola, SiempreFrescas, SiempreDiligentes, PTL
  DEF Spec, CumpleExpediente, Registro!Spec, Estados, Actas
----------------------------------------------------------------------------
(* HISTORIAL, to somebody who reads no other table.                         *)

\* The record, with what ExpedienteProofs proves of it.
Libro == INSTANCE ExpedienteProofs WITH
  Estado   <- EstadoFila,
  Apertura <- EstadoSolicitud,
  Nada     <- "",
  Flujo    <- FlujoDeTramite \cup FlujoDeEdicion,
  estados  <- [i \in Ids |-> solicitudes[i].estado],
  acta     <- Acta(historial \o Debidos)

SinDeudas == \A p \in Peticion : peticion[p].cambios = <<>>

\* Row k of HISTORIAL tells an estado of request i.
DaEstado(k, i) == historial[k].sol = i /\ historial[k].tipo \in TipoDeEstado

\* While no call owes a row, the last one about the estado of a request tells it.
UltimaFilaAlDia ==
  SinDeudas =>
    \A i \in Ids :
      \E k \in DOMAIN historial :
        /\ DaEstado(k, i) /\ historial[k].nuevo = solicitudes[i].estado
        /\ \A l \in DOMAIN historial : l > k => ~DaEstado(l, i)

\* Whatever is owed, a row about estado starts where the one before it ended.
FilasEncadenadas ==
  \A i \in Nat : \A k, l \in DOMAIN historial :
    /\ k < l /\ DaEstado(k, i) /\ DaEstado(l, i)
    /\ \A m \in DOMAIN historial : k < m /\ m < l => ~DaEstado(m, i)
    => historial[l].antiguo = historial[k].nuevo

LEMMA AlDiaEnLaTabla ==
  ASSUME TypeOK, Registro!ActaAlDia
  PROVE  UltimaFilaAlDia
<1> SUFFICES ASSUME SinDeudas, NEW i \in Ids
             PROVE  \E k \in DOMAIN historial :
                      /\ DaEstado(k, i) /\ historial[k].nuevo = solicitudes[i].estado
                      /\ \A l \in DOMAIN historial : l > k => ~DaEstado(l, i)
  BY DEF UltimaFilaAlDia
<1>1. historial \o Debidos = historial
  <2>1. Debidos = <<>>
    BY DEF SinDeudas, Debidos
  <2> QED BY <2>1, ConcatEmptySeq DEF TypeOK
<1>2. PICK k \in DOMAIN Acta(historial) :
        /\ Acta(historial)[k].sol = i /\ Acta(historial)[k].nuevo = solicitudes[i].estado
        /\ \A l \in DOMAIN Acta(historial) :
             l > k => Acta(historial)[l].sol # Acta(historial)[k].sol
  BY <1>1 DEF Registro!ActaAlDia, Registro!EsUltima
<1>3. \A l : l \in DOMAIN Acta(historial)
             <=> l \in DOMAIN historial /\ historial[l].tipo \in TipoDeEstado
  BY DEF Acta
<1>4. \A l \in DOMAIN Acta(historial) :
        /\ Acta(historial)[l].sol = historial[l].sol
        /\ Acta(historial)[l].nuevo = historial[l].nuevo
  BY DEF Acta, Asentado
<1> QED BY <1>2, <1>3, <1>4 DEF DaEstado

LEMMA EncadenadasEnLaTabla ==
  ASSUME TypeOK, Debidos \in Seq(Asiento), Registro!ActaEncadenada
  PROVE  FilasEncadenadas
<1> DEFINE g == historial \o Debidos
           A == Acta(g)
<1>1. /\ Len(historial) \in Nat /\ DOMAIN historial = 1..Len(historial)
      /\ \A k \in DOMAIN historial : k \in DOMAIN g /\ g[k] = historial[k]
      /\ DOMAIN g \subseteq Nat
      /\ \A k \in DOMAIN g : k <= Len(historial) => k \in DOMAIN historial
  BY ConcatProperties, LenProperties DEF TypeOK
<1> HIDE DEF g
<1>2. /\ \A k : k \in DOMAIN A <=> k \in DOMAIN g /\ g[k].tipo \in TipoDeEstado
      /\ \A k \in DOMAIN A : /\ A[k].sol = g[k].sol /\ A[k].nuevo = g[k].nuevo
                              /\ A[k].antiguo = g[k].antiguo
  BY DEF Acta, Asentado
<1>3. \A k, l \in DOMAIN A :
        /\ k < l /\ A[k].sol = A[l].sol
        /\ \A m \in DOMAIN A : k < m /\ m < l => A[m].sol # A[k].sol
        => A[l].antiguo = A[k].nuevo
  BY DEF Registro!ActaEncadenada, g
<1> HIDE DEF A
<1> SUFFICES ASSUME NEW i \in Nat, NEW k \in DOMAIN historial, NEW l \in DOMAIN historial,
                    k < l, DaEstado(k, i), DaEstado(l, i),
                    \A m \in DOMAIN historial : k < m /\ m < l => ~DaEstado(m, i)
             PROVE  historial[l].antiguo = historial[k].nuevo
  BY DEF FilasEncadenadas
<1>4. k \in DOMAIN A /\ l \in DOMAIN A /\ A[k].sol = i /\ A[l].sol = i
  BY <1>1, <1>2 DEF DaEstado
<1>5. ASSUME NEW m \in DOMAIN A, k < m, m < l PROVE A[m].sol # A[k].sol
  <2>1. m \in DOMAIN historial
    BY <1>1, <1>2, <1>5
  <2> QED BY <1>1, <1>2, <1>4, <1>5, <2>1 DEF DaEstado
<1> QED BY <1>1, <1>2, <1>3, <1>4, <1>5

(* HISTORIAL alone tells the life of a request: where the calls come one at a *)
(* time and none fails, its rows about estado begin each where the one before *)
(* ended, and between calls the last of them is the estado in SOLICITUDES.    *)
THEOREM HistorialSiempreLoCuenta ==
  ASSUME DeUnaEnUna, ~ConFallos
  PROVE  Spec => [](UltimaFilaAlDia /\ FilasEncadenadas)
<1>1. TypeOK => Debidos \in Seq(Asiento)
  <2> SUFFICES ASSUME TypeOK PROVE Debidos \in Seq(Asiento)
    OBVIOUS
  <2>1. \A p \in Peticion : peticion[p].cambios \in Seq(Asiento)
    BY DEF TypeOK, Llamada
  <2> QED BY <2>1 DEF Debidos
<1>2. TypeOK /\ Registro!ActaAlDia /\ Registro!ActaEncadenada => UltimaFilaAlDia /\ FilasEncadenadas
  BY <1>1, AlDiaEnLaTabla, EncadenadasEnLaTabla
<1>3. /\ Registro!Init <=> Libro!Init
      /\ Registro!Next <=> Libro!Next
  BY DEF Registro!Init, Libro!Init, Registro!Next, Libro!Next, Registro!Abrir, Libro!Abrir,
     Registro!Pasar, Libro!Pasar, Registro!Anotar, Libro!Anotar, Registro!Entrada, Libro!Entrada
<1>4. /\ Registro!ActaAlDia <=> Libro!ActaAlDia
      /\ Registro!ActaEncadenada <=> Libro!ActaEncadenada
  BY DEF Registro!ActaAlDia, Libro!ActaAlDia, Registro!EsUltima, Libro!EsUltima,
     Registro!ActaEncadenada, Libro!ActaEncadenada
<1>5. Registro!Spec => []Registro!ActaAlDia /\ []Registro!ActaEncadenada
  BY <1>3, <1>4, Libro!ActaSiempreAlDia, Libro!ActaSiempreEncadenada, PTL
  DEF Registro!Spec, Libro!Spec
<1> QED BY <1>2, <1>5, ExpedienteSeCumple, TypeCorrect, PTL DEF CumpleExpediente
----------------------------------------------------------------------------
(* What the checks of the handlers are still worth when calls overlap.      *)

\* A change of estado that HISTORIAL tells, or is to tell, is one that the handlers
\* have a rule for, or one that a PATCH may ask for.
FilasDelFlujo ==
  \A h \in Asientos :
    h.tipo \in {"CAMBIO_ESTADO", "ELIMINACION"} =>
      <<h.antiguo, h.nuevo>> \in FlujoDeTramite \cup FlujoDeEdicion

\* The UPDATEs of estado a call of user u has to do follow a rule, and delete no
\* request it read 'En proceso', but for those of delete_user.
Reglada(c, u) ==
  /\ <<c.antiguo, c.nuevo>> \in FlujoDeTramite
  /\ u = Nulo /\ c.nuevo = "Eliminada" => c.antiguo # "En proceso"

DelFlujo ==
  /\ FilasDelFlujo
  /\ \A p \in Peticion : /\ FilaDecidida(peticion[p])
                         /\ \A c \in peticion[p].resto : Reglada(c, peticion[p].usuario)

LEMMA DecididaReglada ==
  ASSUME TypeOK, NEW c, NEW u, Decidida(c, u)
  PROVE  Reglada(c, u)
<1>1. PICK i, a :
        /\ i \in Ids /\ a = solicitudes[i].estado
        /\ \/ /\ c = Cambio(i, "ELIMINACION", a, "Eliminada")
              /\ u = Nulo => a # "En proceso"
           \/ /\ c = Cambio(i, "CAMBIO_ESTADO", a, "Rechazado")
              /\ a \notin {"Rechazado", "Finalizado"}
           \/ /\ c = Cambio(i, "CAMBIO_ESTADO", a, next_state(a))
              /\ next_state(a) # Nulo
  BY DEF Decidida
<1>2. a \in EstadoFila /\ a # Nulo /\ Nulo \notin EstadoFila
  BY <1>1, FilaDeId, SolicitudesAssumption
<1>3. {"Eliminada", "Rechazado", "En proceso", "Finalizado"} \subseteq EstadoFila
  BY DEF EstadoFila, EstadoSolicitud
<1>4. PICK tipo, e : /\ c = Cambio(i, tipo, a, e) /\ e \in EstadoFila
                     /\ \/ e = "Eliminada" /\ (u = Nulo => a # "En proceso")
                        \/ e = "Rechazado" /\ a \notin {"Rechazado", "Finalizado"}
                        \/ e = next_state(a) /\ e # Nulo
  <2>1. next_state(a) # Nulo => next_state(a) \in EstadoFila
    BY <1>3, EstadosQueSiguen
  <2>2. CASE c = Cambio(i, "ELIMINACION", a, "Eliminada") /\ (u = Nulo => a # "En proceso")
    BY <1>3, <2>2
  <2>3. CASE c = Cambio(i, "CAMBIO_ESTADO", a, "Rechazado") /\ a \notin {"Rechazado", "Finalizado"}
    BY <1>3, <2>3
  <2>4. CASE c = Cambio(i, "CAMBIO_ESTADO", a, next_state(a)) /\ next_state(a) # Nulo
    <3>1. PICK tipo, n : c = Cambio(i, tipo, a, n) /\ n = next_state(a)
      BY <2>4
    <3>2. n \in EstadoFila /\ n = next_state(a) /\ n # Nulo
      BY <2>1, <2>4, <3>1
    <3> QED BY <3>1, <3>2
  <2> QED BY <1>1, <2>2, <2>3, <2>4
<1>5. c.antiguo = a /\ c.nuevo = e
  BY <1>2, <1>4 DEF Cambio, ComoTexto
<1>6. <<a, e>> \in FlujoDeTramite
  <2>1. CASE e = "Eliminada"
    BY <1>2, <2>1 DEF FlujoDeTramite
  <2>2. CASE e = "Rechazado" /\ a \notin {"Rechazado", "Finalizado"}
    BY <1>2, <2>2 DEF FlujoDeTramite, EstadoFila, EstadoSolicitud
  <2>3. CASE e = next_state(a) /\ e # Nulo
    <3>1. PICK k \in 1..2 : STATE_FLOW[k] = a /\ STATE_FLOW[1 + k] = e
      BY <2>3 DEF next_state
    <3>2. /\ STATE_FLOW[1] = "Pendiente" /\ STATE_FLOW[2] = "En proceso"
          /\ STATE_FLOW[3] = "Finalizado"
      BY DEF STATE_FLOW
    <3>3. (k = 1 /\ 1 + k = 2) \/ (k = 2 /\ 1 + k = 3)
      OBVIOUS
    <3>4. CASE k = 1 /\ 1 + k = 2
      BY <3>1, <3>2, <3>4 DEF FlujoDeTramite
    <3>5. CASE k = 2 /\ 1 + k = 3
      BY <3>1, <3>2, <3>5 DEF FlujoDeTramite
    <3> QED BY <3>3, <3>4, <3>5
  <2> QED BY <1>4, <2>1, <2>2, <2>3
<1>7. u = Nulo /\ e = "Eliminada" => a # "En proceso"
  <2>1. next_state(a) # Nulo => next_state(a) # "Eliminada"
    BY EstadosQueSiguen
  <2> QED BY <1>4, <2>1
<1> QED BY <1>5, <1>6, <1>7 DEF Reglada

LEMMA DelFlujoSeConserva ==
  ASSUME TypeOK, DelFlujo, NEW p \in Peticion, Turno(p)
  PROVE  DelFlujo'
<1> DEFINE t == peticion[p]
<1>1. /\ peticion \in [Peticion -> Llamada]
      /\ t \in Llamada /\ Coherente(t, Ids)
      /\ \A q \in Peticion \ {p} : peticion'[q] = peticion[q]
  BY SoloLaSuya DEF TypeOK
<1>2. ASSUME NEW h \in Elementos(peticion'[p].cambios),
             h.tipo \in {"CAMBIO_ESTADO", "ELIMINACION"}, h \notin Asientos
      PROVE  <<h.antiguo, h.nuevo>> \in FlujoDeTramite \cup FlujoDeEdicion
  <2>1. h \notin Elementos(t.cambios)
    BY <1>2 DEF Asientos
  <2>2. CASE h \in t.resto
    BY <2>2 DEF DelFlujo, Reglada
  <2>3. CASE /\ InsertRequest(p)
             /\ h = Cambio(Len(solicitudes) + 1, "CREACION", Nulo, t.fila.estado)
    <3>1. h.tipo = "CREACION"
      BY <2>3 DEF Cambio
    <3> QED BY <1>2, <3>1
  <2>4. CASE /\ WriteUpdate(p)
             /\ h.tipo \notin {"CREACION", "ELIMINACION"}
             /\ h.tipo = "CAMBIO_ESTADO" =>
                  /\ h.antiguo = t.leida.estado
                  /\ h.nuevo = t.fila.estado
                  /\ t.leida.estado # t.fila.estado
    <3>1. h.antiguo = t.leida.estado /\ h.nuevo = t.fila.estado /\ t.leida.estado # t.fila.estado
      BY <1>2, <2>4
    <3>2. t.leida \in Fila /\ t.fila.estado \in Enviados
      BY <1>1, <2>4, <3>1 DEF WriteUpdate, Coherente, DelFlujo, FilaDecidida
    <3>3. t.leida.estado \in EstadoFila
      BY <3>2 DEF Fila
    <3> QED BY <3>1, <3>2, <3>3 DEF FlujoDeEdicion, Enviados
  <2> QED BY <2>1, <2>2, <2>3, <2>4, CambiosQueQuedan
<1>3. FilasDelFlujo'
  <2>1. Escritos' \subseteq Asientos
    BY NadaSePierde DEF Asientos
  <2>2. ASSUME NEW h \in Asientos'
        PROVE  h \in Asientos \/ h \in Elementos(peticion'[p].cambios)
    <3>1. ASSUME NEW q \in Peticion, h \in Elementos(peticion'[q].cambios), q # p
          PROVE  h \in Asientos
      BY <1>1, <3>1 DEF Asientos
    <3>2. h \in Escritos' \/ \E q \in Peticion : h \in Elementos(peticion'[q].cambios)
      BY DEF Asientos
    <3> QED BY <2>1, <3>1, <3>2
  <2> QED BY <1>2, <2>2 DEF DelFlujo, FilasDelFlujo
<1>4. ASSUME NEW q \in Peticion PROVE FilaDecidida(peticion'[q])
  <2>1. FilaDecidida(peticion[q])
    BY DEF DelFlujo
  <2> QED BY <1>1, <2>1, FilaQueQueda
<1>5. ASSUME NEW q \in Peticion, NEW c \in peticion'[q].resto
      PROVE  Reglada(c, peticion'[q].usuario)
  <2>1. CASE c \in peticion[q].resto /\ peticion'[q].usuario = peticion[q].usuario
    BY <2>1 DEF DelFlujo
  <2>2. CASE Decidida(c, peticion'[q].usuario)
    BY <2>2, DecididaReglada
  <2> QED BY <1>1, <2>1, <2>2, RestoQueQueda
<1> QED BY <1>3, <1>4, <1>5 DEF DelFlujo

LEMMA DelFlujoAlPrincipio == Init => DelFlujo
<1> SUFFICES ASSUME Init PROVE DelFlujo
  OBVIOUS
<1>1. \A p \in Peticion : /\ peticion[p].resto = {} /\ peticion[p].cambios = <<>>
                          /\ FilaDecidida(peticion[p])
  BY DEF Init, Nueva, FilaDecidida
<1>2. Asientos = Escritos
  BY <1>1, SinCambios DEF Asientos
<1>3. ASSUME NEW h \in Escritos PROVE h.tipo = "CREACION"
  <2>1. PICK k, e : h = Cambio(k, "CREACION", Nulo, e)
    BY DEF Init, Escritos, Elementos
  <2> QED BY <2>1 DEF Cambio
<1> QED BY <1>1, <1>2, <1>3 DEF DelFlujo, FilasDelFlujo

LEMMA SiempreDelFlujo == Spec => []DelFlujo
<1>1. TypeOK /\ DelFlujo /\ [Next]_vars => DelFlujo'
  <2> SUFFICES ASSUME TypeOK, DelFlujo, [Next]_vars PROVE DelFlujo'
    OBVIOUS
  <2>1. CASE \E p \in Peticion : Turno(p)
    BY <2>1, DelFlujoSeConserva
  <2>2. CASE UNCHANGED vars
    BY <2>2 DEF vars, DelFlujo, FilasDelFlujo, Asientos, Escritos
  <2> QED BY <2>1, <2>2 DEF Next, Terminated, Turno
<1> QED BY <1>1, DelFlujoAlPrincipio, TypeCorrect, PTL DEF Spec

(* However the calls overlap and whatever fails, HISTORIAL never tells a      *)
(* change of estado that the handlers have no rule for (update.py 148-157,    *)
(* 332, 469-473; delete.py 63-69): a race breaks the order of the rows of    *)
(* a request, and what the table says, but no row of its own.                 *)
THEOREM FilasSiempreDelFlujo == Spec => []FilasDelFlujo
<1>1. DelFlujo => FilasDelFlujo
  BY DEF DelFlujo
<1> QED BY <1>1, SiempreDelFlujo, PTL

\* A request that is 'En proceso' when a call about requests deletes it was in
\* another estado when the call read it: the row that call owes says which, and
\* there are rows that say it had both.
EliminadaConRastro ==
  [][\A i \in Ids, p \in Peticion :
       /\ solicitudes[i].estado = "En proceso"
       /\ peticion[p].paso = "marcar" /\ peticion'[p].paso # "marcar"
       /\ peticion[p].usuario = Nulo
       /\ solicitudes'[i].estado = "Eliminada"
       => \E c \in Elementos(peticion'[p].cambios) :
            /\ c.sol = i /\ c.nuevo = "Eliminada" /\ c.antiguo # "En proceso"
            /\ Acreditado(i, c.antiguo) /\ Acreditado(i, "En proceso")]_vars

(* What is left of EnProcesoNoSeElimina when calls overlap: a request that is *)
(* 'En proceso' is deleted only by a call that read another estado before the *)
(* race, and HISTORIAL gives it away, if no statement fails: it tells both    *)
(* estados, and a deletion from the one the request no longer had             *)
(* (onboarding/delete.py 63-69, 95-107).                                      *)
THEOREM EliminadaSiempreConRastro == Spec => EliminadaConRastro
<1> DEFINE SuRastro(i, p) ==
             \E c \in Elementos(peticion'[p].cambios) :
               /\ c.sol = i /\ c.nuevo = "Eliminada" /\ c.antiguo # "En proceso"
               /\ Acreditado(i, c.antiguo) /\ Acreditado(i, "En proceso")
           A == \A i \in Ids, p \in Peticion :
                  /\ solicitudes[i].estado = "En proceso"
                  /\ peticion[p].paso = "marcar" /\ peticion'[p].paso # "marcar"
                  /\ peticion[p].usuario = Nulo
                  /\ solicitudes'[i].estado = "Eliminada"
                  => SuRastro(i, p)
<1>1. Inductiva /\ DelFlujo /\ [Next]_vars => [A]_vars
  <2> SUFFICES ASSUME Inductiva, DelFlujo, Next,
                      NEW i \in Ids, NEW p \in Peticion,
                      solicitudes[i].estado = "En proceso",
                      peticion[p].paso = "marcar", peticion'[p].paso # "marcar",
                      peticion[p].usuario = Nulo, solicitudes'[i].estado = "Eliminada"
               PROVE  SuRastro(i, p)
    OBVIOUS
  <2> DEFINE t == peticion[p]
  <2>1. /\ TypeOK /\ peticion \in [Peticion -> Llamada] /\ solicitudes \in Seq(Fila)
        /\ t \in Llamada /\ t.fin \in Respuesta /\ Coherente(t, Ids)
        /\ Fundada(t, Escritos, Asientos)
    BY DEF Inductiva, TypeOK, Llamada, LlamadasFundadas
  <2>2. Turno(p)
    <3>1. PICK q \in Peticion : Turno(q)
      BY DEF Next, Terminated, Turno, vars
    <3> QED BY <2>1, <3>1, SoloLaSuya
  <2>3. WriteState(p)
    <3>1. ~InsertRequest(p) /\ ~WriteUpdate(p)
      BY DEF InsertRequest, WriteUpdate
    <3>2. solicitudes' # solicitudes
      OBVIOUS
    <3> QED BY <2>1, <2>2, <3>1, <3>2, TablasQueTocan
  <2>4. PICK c \in t.resto : /\ solicitudes' = [solicitudes EXCEPT ![c.sol].estado = c.nuevo]
                             /\ Prosigue(p, [t EXCEPT !.resto = @ \ {c}, !.cambios = <<c>>])
    BY <2>3 DEF WriteState
  <2>5. c \in Elementos(peticion'[p].cambios)
    <3> DEFINE s == [t EXCEPT !.resto = @ \ {c}, !.cambios = <<c>>]
    <3>1. /\ Prosigue(p, s) /\ s.fin \in Respuesta /\ s.cambios = <<c>>
          /\ {"paso", "resto", "cambios"} \subseteq DOMAIN s
      BY <2>1, <2>4 DEF Llamada
    <3> HIDE DEF s
    <3>2. peticion'[p].cambios = <<c>>
      BY <2>1, <3>1, DeProsigue
    <3> QED BY <3>2, UnCambio
  <2>6. c.sol = i /\ c.nuevo = "Eliminada"
    <3>1. PICK k, e, f : /\ k = c.sol /\ e = c.nuevo
                         /\ f = [solicitudes[k] EXCEPT !.estado = e]
                         /\ solicitudes' = [solicitudes EXCEPT ![k] = f]
                         /\ k \in DOMAIN solicitudes
      BY <2>1, <2>4 DEF Ids, Coherente
    <3>2. solicitudes[k] \in Fila
      BY <2>1, <3>1, LenProperties, ElementOfSeq
    <3>3. f.estado = e
      BY <3>1, <3>2 DEF Fila
    <3>4. /\ solicitudes'[k] = f
          /\ \A j \in DOMAIN solicitudes : j # k => solicitudes'[j] = solicitudes[j]
      BY <3>1
    <3> QED BY <3>1, <3>3, <3>4 DEF Ids
  <2>7. c.antiguo # "En proceso"
    BY <2>6 DEF DelFlujo, Reglada
  <2>8. Acreditado(i, c.antiguo) /\ Acreditado(i, "En proceso")
    BY <2>1, <2>6 DEF Inductiva, Fundada, Coherente, EstadoAcreditado, Acreditado
  <2> QED BY <2>5, <2>6, <2>7, <2>8
<1> QED BY <1>1, InductivaSeConserva, SiempreDelFlujo, PTL DEF Spec, EliminadaConRastro
=============================================================================
