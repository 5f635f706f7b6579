-------------------------- MODULE SolicitudesProofs --------------------------
(****************************************************************************)
(* Proofs about Solicitudes, for every organisation, every set of calls and *)
(* bodies, with and without failures.                                       *)
(****************************************************************************)
EXTENDS Solicitudes, SequenceTheorems, TLAPS

(* A call that has done nothing is a call.                                  *)
LEMMA NuevaTipo == Nueva \in Llamada /\ \A ids : Coherente(Nueva, ids)
<1>1. Nueva \in Llamada
  BY EmptySeq DEF Nueva, Llamada, Paso, Respuesta
<1>2. ASSUME NEW ids PROVE Coherente(Nueva, ids)
  <2>1. DOMAIN Nueva.cambios = {}
    BY DEF Nueva
  <2> QED BY <2>1 DEF Nueva, Coherente
<1> QED BY <1>1, <1>2

\* What a column of SOLICITUDES that HISTORIAL tells about may hold.
Valor == EstadoFila \cup Fecha \cup TextoONulo
TipoDeCambio == TipoDeEstado \cup TipoDeCampo

(* A value of a column becomes text, the same unless it is None.            *)
LEMMA CambioTipo ==
  ASSUME NEW i \in Nat \ {0}, NEW tipo \in TipoDeCambio,
         NEW a \in Valor,
         NEW b \in Valor
  PROVE  /\ Cambio(i, tipo, a, b) \in Asiento
         /\ Cambio(i, tipo, a, b).sol = i
         /\ Cambio(i, tipo, a, b).tipo = tipo
         /\ a \in EstadoFila => Cambio(i, tipo, a, b).antiguo = a
         /\ b \in EstadoFila => Cambio(i, tipo, a, b).nuevo = b
  BY TextoAssumption, SolicitudesAssumption DEF Cambio, ComoTexto, Asiento, TextoONulo, Valor, TipoDeCambio

(* What a call may go on with: a call but for its paso.                     *)
Continuable(t, ids) ==
  /\ t \in Llamada
  /\ t.avisar => t.sol \in ids
  /\ \A c \in t.resto :
       c.sol \in ids /\ c.tipo \in {"CAMBIO_ESTADO", "ELIMINACION"} /\ c.nuevo \in EstadoFila
  /\ \A k \in DOMAIN t.cambios : t.cambios[k].sol \in ids

(* Prosigue leaves a coherent call that owes what it owed.                  *)
LEMMA ProsigueTipo ==
  ASSUME NEW p \in Peticion, NEW t, NEW ids, Continuable(t, ids),
         peticion \in [Peticion -> Llamada], Prosigue(p, t)
  PROVE  /\ peticion' \in [Peticion -> Llamada]
         /\ Coherente(peticion'[p], ids)
         /\ peticion'[p].cambios = t.cambios
         /\ peticion'[p].resto \subseteq t.resto
         /\ peticion'[p].paso # "editar"
         /\ \A q \in Peticion \ {p} : peticion'[q] = peticion[q]
<1>1. CASE Siguiente(t) \in Respuesta
  <2>1. t.cambios = <<>>
    BY <1>1 DEF Siguiente, Respuesta, Continuable
  <2>2. peticion' = [peticion EXCEPT ![p] = [Nueva EXCEPT !.paso = Siguiente(t)]]
    BY <1>1 DEF Prosigue, Responde, Queda
  <2>3. [Nueva EXCEPT !.paso = Siguiente(t)] \in Llamada
    BY <1>1, NuevaTipo DEF Llamada, Paso, Respuesta
  <2>4. Coherente([Nueva EXCEPT !.paso = Siguiente(t)], ids)
    BY <1>1 DEF Nueva, Coherente, Respuesta
  <2> QED BY <1>1, <2>1, <2>2, <2>3, <2>4 DEF Nueva, Respuesta
<1>2. CASE Siguiente(t) \notin Respuesta
  <2>1. peticion' = [peticion EXCEPT ![p] = [t EXCEPT !.paso = Siguiente(t)]]
    BY <1>2 DEF Prosigue, Queda
  <2>2. Siguiente(t) \in {"registrar", "marcar", "avisar", "baja_usuario"}
    <3>1. t.fin \in Respuesta
      BY DEF Continuable, Llamada
    <3> QED BY <1>2, <3>1 DEF Siguiente, Respuesta
  <2>3. [t EXCEPT !.paso = Siguiente(t)] \in Llamada
    BY <2>2 DEF Llamada, Paso, EnEspera, Continuable
  <2>4. Coherente([t EXCEPT !.paso = Siguiente(t)], ids)
    BY <2>2 DEF Coherente, Continuable, Siguiente, Llamada, Respuesta
  <2> QED BY <2>1, <2>2, <2>3, <2>4 DEF Continuable, Llamada
<1> QED BY <1>1, <1>2
----------------------------------------------------------------------------
(* The rows the handlers compute.                                           *)

LEMMA FilaDeAltaTipo ==
  ASSUME NEW a \in Altas
  PROVE  FilaDeAlta(a) \in OnboardingRequest /\ FilaDeAlta(a).especificaciones \in Texto
<1>1. a \in OnboardingRequest
  BY SolicitudesAssumption
<1>2. \A x \in TextoONulo : Limpio(x) \in Texto
  BY TextoAssumption DEF Limpio, TextoONulo
<1> QED BY <1>1, <1>2 DEF FilaDeAlta, OnboardingRequest, TextoONulo

LEMMA FilaEditadaTipo ==
  ASSUME NEW f \in Fila, NEW e \in Ediciones
  PROVE  FilaEditada(f, e) \in Fila
<1>1. e \in OnboardingUpdateRequest
  BY SolicitudesAssumption
<1>2. /\ Nuevo(f.fecha_fin, e.fecha_fin, {Nulo, Ausente}) \in Fecha
      /\ Nuevo(f.estado, e.estado, {Nulo, Ausente}) \in EstadoFila
      /\ Nuevo(f.especificaciones, e.especificaciones, {Ausente}) \in TextoONulo
      /\ Nuevo(f.destinatario, e.destinatario, {Ausente}) \in TextoONulo
  BY <1>1 DEF Nuevo, Fila, OnboardingUpdateRequest, EstadoFila
<1> QED BY <1>2 DEF FilaEditada, Fila

LEMMA SiCambiaTipo ==
  ASSUME NEW i \in Nat \ {0}, NEW tipo \in TipoDeCambio,
         NEW a \in Valor,
         NEW b \in Valor
  PROVE  /\ SiCambia(i, tipo, a, b) \in Seq(Asiento)
         /\ \A k \in DOMAIN SiCambia(i, tipo, a, b) :
              LET c == SiCambia(i, tipo, a, b)[k]
              IN  /\ c.sol = i
                  /\ c.tipo = tipo
                  /\ a # b
                  /\ a \in EstadoFila => c.antiguo = a
                  /\ b \in EstadoFila => c.nuevo = b
<1>1. CASE a = b
  BY <1>1, EmptySeq DEF SiCambia
<1>2. CASE a # b
  <2>1. /\ SiCambia(i, tipo, a, b) \in Seq(Asiento)
        /\ \A k \in DOMAIN SiCambia(i, tipo, a, b) :
             SiCambia(i, tipo, a, b)[k] = Cambio(i, tipo, a, b)
    BY <1>2, CambioTipo DEF SiCambia
  <2> QED BY <1>2, <2>1, CambioTipo
<1> QED BY <1>1, <1>2

(* An element of a concatenation is an element of one of its parts.         *)
LEMMA ElementoDeConcat ==
  ASSUME NEW S, NEW s \in Seq(S), NEW t \in Seq(S), NEW k \in DOMAIN (s \o t)
  PROVE  \/ \E j \in DOMAIN s : (s \o t)[k] = s[j]
         \/ \E j \in DOMAIN t : (s \o t)[k] = t[j]
<1>1. /\ k \in 1..(Len(s) + Len(t))
      /\ (s \o t)[k] = IF k <= Len(s) THEN s[k] ELSE t[k - Len(s)]
  BY ConcatProperties, LenProperties
<1>2. Len(s) \in Nat /\ Len(t) \in Nat /\ DOMAIN s = 1..Len(s) /\ DOMAIN t = 1..Len(t)
  BY LenProperties
<1>3. CASE k <= Len(s)
  BY <1>1, <1>2, <1>3
<1>4. CASE ~(k <= Len(s))
  BY <1>1, <1>2, <1>4
<1> QED BY <1>3, <1>4

(* What PATCH owes HISTORIAL: rows about its request, no opening and no        *)
(* deletion, of which the one about estado, first if there is one, has the     *)
(* estado read and the estado written.                                         *)
LEMMA CambiosTipo ==
  ASSUME NEW i \in Nat \ {0}, NEW l \in Fila, NEW f \in Fila
  PROVE  /\ Cambios(i, l, f) \in Seq(Asiento)
         /\ \A k \in DOMAIN Cambios(i, l, f) :
              /\ Cambios(i, l, f)[k].sol = i
              /\ Cambios(i, l, f)[k].tipo \notin {"CREACION", "ELIMINACION"}
              /\ Cambios(i, l, f)[k].tipo \in TipoDeEstado =>
                   /\ Cambios(i, l, f)[k].antiguo = l.estado
                   /\ Cambios(i, l, f)[k].nuevo = f.estado
         /\ l.estado # f.estado =>
              \E k \in DOMAIN Cambios(i, l, f) : Dice(Cambios(i, l, f)[k], i, f.estado)
         /\ l.estado = f.estado =>
              \A k \in DOMAIN Cambios(i, l, f) : Cambios(i, l, f)[k].tipo \notin TipoDeEstado
<1> DEFINE A == SiCambia(i, "CAMBIO_ESTADO", l.estado, f.estado)
           B == SiCambia(i, "CAMBIO_FECHA_FIN", l.fecha_fin, f.fecha_fin)
           C == SiCambia(i, "CAMBIO_ESPECIFICACIONES", l.especificaciones, f.especificaciones)
           D == SiCambia(i, "CAMBIO_DESTINATARIO", l.destinatario, f.destinatario)
           Bien(c) == /\ c.sol = i
                      /\ c.tipo \notin {"CREACION", "ELIMINACION"}
                      /\ c.tipo \in TipoDeEstado =>
                           c.antiguo = l.estado /\ c.nuevo = f.estado /\ l.estado # f.estado
<1>1. Cambios(i, l, f) = ((A \o B) \o C) \o D
  BY DEF Cambios
<1>2. A \in Seq(Asiento) /\ \A k \in DOMAIN A : Bien(A[k])
  <2>1. /\ "CAMBIO_ESTADO" \in TipoDeCambio
        /\ "CAMBIO_ESTADO" \in TipoDeEstado
    BY DEF TipoDeEstado, TipoDeCampo, TipoDeCambio
  <2>2. /\ l.estado \in Valor
        /\ f.estado \in Valor
        /\ l.estado \in EstadoFila /\ f.estado \in EstadoFila
    BY DEF Fila, Valor
  <2> QED BY <2>1, <2>2, SiCambiaTipo
<1>3. B \in Seq(Asiento) /\ \A k \in DOMAIN B : Bien(B[k])
  <2>1. /\ "CAMBIO_FECHA_FIN" \in TipoDeCambio
        /\ "CAMBIO_FECHA_FIN" \notin TipoDeEstado
    BY DEF TipoDeEstado, TipoDeCampo, TipoDeCambio
  <2>2. /\ l.fecha_fin \in Valor
        /\ f.fecha_fin \in Valor
        /\ l.estado \in EstadoFila /\ f.estado \in EstadoFila
    BY DEF Fila, Valor
  <2>3. /\ B \in Seq(Asiento)
        /\ \A k \in DOMAIN B : B[k].sol = i /\ B[k].tipo = "CAMBIO_FECHA_FIN"
    BY <2>1, <2>2, SiCambiaTipo
  <2> QED BY <2>1, <2>3
<1>4. C \in Seq(Asiento) /\ \A k \in DOMAIN C : Bien(C[k])
  <2>1. /\ "CAMBIO_ESPECIFICACIONES" \in TipoDeCambio
        /\ "CAMBIO_ESPECIFICACIONES" \notin TipoDeEstado
    BY DEF TipoDeEstado, TipoDeCampo, TipoDeCambio
  <2>2. /\ l.especificaciones \in Valor
        /\ f.especificaciones \in Valor
        /\ l.estado \in EstadoFila /\ f.estado \in EstadoFila
    BY DEF Fila, Valor
  <2>3. /\ C \in Seq(Asiento)
        /\ \A k \in DOMAIN C : C[k].sol = i /\ C[k].tipo = "CAMBIO_ESPECIFICACIONES"
    BY <2>1, <2>2, SiCambiaTipo
  <2> QED BY <2>1, <2>3
<1>5. D \in Seq(Asiento) /\ \A k \in DOMAIN D : Bien(D[k])
  <2>1. /\ "CAMBIO_DESTINATARIO" \in TipoDeCambio
        /\ "CAMBIO_DESTINATARIO" \notin TipoDeEstado
    BY DEF TipoDeEstado, TipoDeCampo, TipoDeCambio
  <2>2. /\ l.destinatario \in Valor
        /\ f.destinatario \in Valor
        /\ l.estado \in EstadoFila /\ f.estado \in EstadoFila
    BY DEF Fila, Valor
  <2>3. /\ D \in Seq(Asiento)
        /\ \A k \in DOMAIN D : D[k].sol = i /\ D[k].tipo = "CAMBIO_DESTINATARIO"
    BY <2>1, <2>2, SiCambiaTipo
  <2> QED BY <2>1, <2>3
<1> HIDE DEF A, B, C, D, Bien
<1>6. A \o B \in Seq(Asiento) /\ \A k \in DOMAIN (A \o B) : Bien((A \o B)[k])
  BY <1>2, <1>3, ElementoDeConcat, ConcatProperties
<1>7. /\ (A \o B) \o C \in Seq(Asiento)
      /\ \A k \in DOMAIN ((A \o B) \o C) : Bien(((A \o B) \o C)[k])
  BY <1>4, <1>6, ElementoDeConcat, ConcatProperties
<1>8. /\ ((A \o B) \o C) \o D \in Seq(Asiento)
      /\ \A k \in DOMAIN (((A \o B) \o C) \o D) : Bien((((A \o B) \o C) \o D)[k])
  BY <1>5, <1>7, ElementoDeConcat, ConcatProperties
<1>9. ASSUME l.estado # f.estado
      PROVE  \E k \in DOMAIN Cambios(i, l, f) : Dice(Cambios(i, l, f)[k], i, f.estado)
  <2>1. A = <<Cambio(i, "CAMBIO_ESTADO", l.estado, f.estado)>>
    BY <1>9 DEF A, SiCambia
  <2>2. Len(A) = 1 /\ A[1] = Cambio(i, "CAMBIO_ESTADO", l.estado, f.estado)
    BY <2>1
  <2>3. Len(A \o B) >= 1 /\ (A \o B)[1] = A[1]
    BY <1>2, <1>3, <2>2, ConcatProperties, LenProperties
  <2>4. Len((A \o B) \o C) >= 1 /\ ((A \o B) \o C)[1] = A[1]
    BY <1>4, <1>6, <2>3, ConcatProperties, LenProperties
  <2>5. /\ 1 \in DOMAIN (((A \o B) \o C) \o D)
        /\ (((A \o B) \o C) \o D)[1] = A[1]
    BY <1>5, <1>7, <1>8, <2>4, ConcatProperties, LenProperties
  <2>6. Dice(A[1], i, f.estado)
    <3>1. /\ l.estado \in EstadoFila /\ f.estado \in EstadoFila
          /\ l.estado \in Valor /\ f.estado \in Valor
          /\ "CAMBIO_ESTADO" \in TipoDeEstado /\ "CAMBIO_ESTADO" \in TipoDeCambio
      BY DEF Fila, TipoDeEstado, TipoDeCambio, Valor
    <3> QED BY <2>2, <3>1, CambioTipo DEF Dice
  <2> QED BY <1>1, <2>5, <2>6
<1> QED BY <1>1, <1>8, <1>9 DEF Bien
----------------------------------------------------------------------------
(* Type correctness.                                                        *)

LEMMA QuedaTipo ==
  ASSUME NEW p \in Peticion, NEW t \in Llamada,
         peticion \in [Peticion -> Llamada], Queda(p, t)
  PROVE  /\ peticion' \in [Peticion -> Llamada]
         /\ peticion'[p] = t
         /\ \A q \in Peticion \ {p} : peticion'[q] = peticion[q]
  BY DEF Queda

LEMMA RespondeTipo ==
  ASSUME NEW p \in Peticion, NEW r \in Respuesta, NEW ids,
         peticion \in [Peticion -> Llamada], Responde(p, r)
  PROVE  /\ peticion' \in [Peticion -> Llamada]
         /\ peticion'[p] = [Nueva EXCEPT !.paso = r]
         /\ Coherente(peticion'[p], ids)
         /\ \A q \in Peticion \ {p} : peticion'[q] = peticion[q]
<1> DEFINE t == [Nueva EXCEPT !.paso = r]
<1>1. t \in Llamada
  BY NuevaTipo DEF Llamada, Paso
<1>2. Coherente(t, ids)
  <2>1. DOMAIN t.cambios = {} /\ t.cambios = <<>>
    BY DEF Nueva
  <2> QED BY <2>1 DEF Nueva, Coherente, Respuesta
<1> QED BY <1>1, <1>2, QuedaTipo DEF Responde

\* A step of call p that keeps the tables well typed and loses no request.
EnSuSitio(p) ==
  /\ solicitudes' \in Seq(Fila) /\ Ids \subseteq Ids'
  /\ historial' \in Seq(Asiento)
  /\ dotacion' \in Seq(Plantilla)
  /\ estadoUsuario' \in [Usuario -> EstadosUsuario]
  /\ correos' \subseteq Ids'
  /\ peticion' \in [Peticion -> Llamada]
  /\ Coherente(peticion'[p], Ids')
  /\ \A q \in Peticion \ {p} : peticion'[q] = peticion[q]

LEMMA EnSuSitioBasta ==
  ASSUME TypeOK, NEW p \in Peticion, EnSuSitio(p)
  PROVE  TypeOK'
<1>1. ASSUME NEW t, NEW ids, NEW mas, Coherente(t, ids), ids \subseteq mas
      PROVE  Coherente(t, mas)
  BY <1>1 DEF Coherente
<1>2. ASSUME NEW q \in Peticion PROVE Coherente(peticion'[q], Ids')
  BY <1>1 DEF TypeOK, EnSuSitio
<1> QED BY <1>2 DEF TypeOK, EnSuSitio

\* A step that changes nothing but what call p holds.
LEMMA SinTocarTablas ==
  ASSUME TypeOK, NEW p \in Peticion, UNCHANGED db,
         peticion' \in [Peticion -> Llamada], Coherente(peticion'[p], Ids),
         \A q \in Peticion \ {p} : peticion'[q] = peticion[q]
  PROVE  TypeOK'
<1>1. Ids' = Ids
  BY DEF db, Ids
<1> QED BY <1>1, EnSuSitioBasta DEF EnSuSitio, TypeOK, db

LEMMA FilaDeId ==
  ASSUME TypeOK, NEW i \in Ids
  PROVE  /\ solicitudes[i] \in Fila
         /\ i \in Nat \ {0}
         /\ solicitudes[i].estado \in EstadoFila \cap Valor
<1>1. solicitudes \in Seq(Fila) /\ i \in DOMAIN solicitudes
  BY DEF TypeOK, Ids
<1>2. i \in 1..Len(solicitudes) /\ Len(solicitudes) \in Nat
  BY <1>1, LenProperties
<1>3. solicitudes[i] \in Fila
  BY <1>1, <1>2, ElementOfSeq
<1>4. solicitudes[i].estado \in EstadoFila
  BY <1>3 DEF Fila
<1> QED BY <1>2, <1>3, <1>4 DEF Valor

LEMMA EstadosSonValores ==
  /\ EstadoFila \subseteq Valor /\ EstadoSolicitud \subseteq EstadoFila
  /\ {"Pendiente", "En proceso", "Finalizado", "Rechazado", "Eliminada"} \subseteq EstadoFila
  /\ Nulo \in Valor /\ Nulo \notin EstadoFila
  /\ {"CREACION", "CAMBIO_ESTADO", "ELIMINACION"} \subseteq TipoDeEstado
  /\ TipoDeEstado \subseteq TipoDeCambio
  BY SolicitudesAssumption
  DEF Valor, EstadoFila, EstadoSolicitud, TextoONulo, TipoDeEstado, TipoDeCambio

\* A row of resto: an UPDATE of estado to do, with the row of HISTORIAL it calls for.
EsMarca(c) ==
  /\ c \in Asiento
  /\ c.sol \in Ids
  /\ c.tipo \in {"CAMBIO_ESTADO", "ELIMINACION"}
  /\ c.nuevo \in EstadoFila

LEMMA CambioEsMarca ==
  ASSUME TypeOK, NEW i \in Ids, NEW tipo \in {"CAMBIO_ESTADO", "ELIMINACION"},
         NEW a \in EstadoFila, NEW b \in EstadoFila
  PROVE  EsMarca(Cambio(i, tipo, a, b))
<1>1. i \in Nat \ {0} /\ tipo \in TipoDeCambio /\ a \in Valor /\ b \in Valor
  BY FilaDeId, EstadosSonValores
<1> QED BY <1>1, CambioTipo DEF EsMarca

LEMMA MarcaContinuable ==
  ASSUME NEW t, t \in Llamada, t.cambios = <<>>,
         t.avisar => t.sol \in Ids, \A c \in t.resto : EsMarca(c)
  PROVE  Continuable(t, Ids)
<1>1. DOMAIN t.cambios = {}
  OBVIOUS
<1> QED BY <1>1 DEF Continuable, EsMarca

(* The initial state is well typed.                                         *)
LEMMA TipoInicial == Init => TypeOK
<1> SUFFICES ASSUME Init PROVE TypeOK
  OBVIOUS
<1>1. Iniciales \in Seq(Fila)
  <2>1. OnboardingRequest \subseteq Fila
    BY DEF OnboardingRequest, Fila, EstadoFila
  <2> QED BY <2>1, SeqMonotonic, SolicitudesAssumption
<1>2. historial \in Seq(Asiento)
  <2>1. Len(Iniciales) \in Nat /\ DOMAIN Iniciales = 1..Len(Iniciales)
    BY <1>1, LenProperties
  <2>2. ASSUME NEW i \in 1..Len(Iniciales)
        PROVE  Cambio(i, "CREACION", Nulo, Iniciales[i].estado) \in Asiento
    <3>1. Iniciales[i] \in Fila
      BY <1>1, ElementOfSeq
    <3>2. Iniciales[i].estado \in EstadoFila /\ i \in Nat \ {0}
      BY <2>1, <3>1 DEF Fila
    <3> QED BY <3>2, CambioTipo, EstadosSonValores
  <2>3. historial = [i \in 1..Len(Iniciales) |-> Cambio(i, "CREACION", Nulo, Iniciales[i].estado)]
    BY <2>1 DEF Init
  <2>4. historial \in [1..Len(Iniciales) -> Asiento]
    BY <2>2, <2>3
  <2> QED BY <2>1, <2>4
<1>3. ASSUME NEW p \in Peticion
      PROVE  peticion[p] \in Llamada /\ Coherente(peticion[p], Ids)
  BY NuevaTipo DEF Init
<1> QED BY <1>1, <1>2, <1>3, SolicitudesAssumption DEF Init, TypeOK
(* The calls that arrive: each is refused, answered, or awaits its first       *)
(* write.                                                                      *)
LEMMA TipoDeLlegada ==
  ASSUME TypeOK, NEW p \in Peticion, Arrive(p)
  PROVE  TypeOK'
<1>0. peticion \in [Peticion -> Llamada] /\ {"ok", "error", "negada"} \subseteq Respuesta
  BY DEF TypeOK, Respuesta
<1>r. ASSUME UNCHANGED db, NEW r \in Respuesta, Responde(p, r) PROVE TypeOK'
  BY <1>0, <1>r, RespondeTipo, SinTocarTablas
<1>q. ASSUME UNCHANGED db, NEW t \in Llamada, Coherente(t, Ids), Queda(p, t) PROVE TypeOK'
  BY <1>0, <1>q, QuedaTipo, SinTocarTablas
<1>p. ASSUME UNCHANGED db, NEW t, Continuable(t, Ids), Prosigue(p, t) PROVE TypeOK'
  BY <1>0, <1>p, ProsigueTipo, SinTocarTablas
<1>1. CASE CreateOnboardingRequest(p)
  <2>1. UNCHANGED db
    BY <1>1 DEF CreateOnboardingRequest
  <2>2. PICK u \in Usuario, a \in Altas :
          \/ Queda(p, [Nueva EXCEPT !.paso = "plantilla", !.fila = FilaDeAlta(a)])
          \/ Responde(p, "negada")
    BY <1>1 DEF CreateOnboardingRequest
  <2> DEFINE t == [Nueva EXCEPT !.paso = "plantilla", !.fila = FilaDeAlta(a)]
  <2>3. FilaDeAlta(a) \in Fila /\ FilaDeAlta(a).especificaciones \in Texto
    BY FilaDeAltaTipo DEF OnboardingRequest, Fila, EstadoFila
  <2>4. t \in Llamada
    BY <2>3, NuevaTipo DEF Llamada, Paso, EnEspera
  <2>5. Coherente(t, Ids)
    <3>1. DOMAIN t.cambios = {}
      BY DEF Nueva
    <3> QED BY <2>3, <3>1 DEF Coherente, Nueva
  <2> QED BY <1>0, <1>r, <1>q, <2>1, <2>2, <2>4, <2>5
<1>2. CASE UpdateOnboardingRequest(p)
  <2>1. UNCHANGED db
    BY <1>2 DEF UpdateOnboardingRequest
  <2>2. PICK u \in Usuario, i \in IdPedido, e \in Ediciones :
          \/ Responde(p, "negada")
          \/ Responde(p, RespuestaDe(solicitudes[i]))
          \/ /\ i \in Ids
             /\ Queda(p, [Nueva EXCEPT !.paso = "editar", !.sol = i,
                                       !.leida = solicitudes[i],
                                       !.fila = FilaEditada(solicitudes[i], e)])
    BY <1>2 DEF UpdateOnboardingRequest, EdicionAdmitida
  <2> DEFINE t == [Nueva EXCEPT !.paso = "editar", !.sol = i, !.leida = solicitudes[i],
                                !.fila = FilaEditada(solicitudes[i], e)]
  <2>3. RespuestaDe(solicitudes[i]) \in Respuesta
    BY DEF RespuestaDe, Respuesta
  <2>4. ASSUME i \in Ids PROVE t \in Llamada /\ Coherente(t, Ids)
    <3>1. solicitudes[i] \in Fila /\ FilaEditada(solicitudes[i], e) \in Fila /\ i \in Nat
      BY <2>4, FilaDeId, FilaEditadaTipo
    <3>2. t \in Llamada
      BY <3>1, NuevaTipo DEF Llamada, Paso, EnEspera
    <3>3. DOMAIN t.cambios = {}
      BY DEF Nueva
    <3> QED BY <2>4, <3>1, <3>2, <3>3 DEF Coherente, Nueva
  <2> QED BY <1>0, <1>r, <1>q, <2>1, <2>2, <2>3, <2>4
<1>3. CASE AdvanceOnboardingRequestState(p)
  <2>1. UNCHANGED db
    BY <1>3 DEF AdvanceOnboardingRequestState
  <2>2. CASE Responde(p, "negada")
    BY <1>0, <1>r, <2>1, <2>2
  <2>3. CASE ~Responde(p, "negada")
    <3>1. PICK i \in Ids :
            /\ next_state(solicitudes[i].estado) # Nulo
            /\ Prosigue(p, [Nueva EXCEPT
                 !.sol    = i,
                 !.resto  = {Cambio(i, "CAMBIO_ESTADO", solicitudes[i].estado,
                                    next_state(solicitudes[i].estado))},
                 !.avisar = next_state(solicitudes[i].estado) = "En proceso"])
      BY <1>3, <2>3 DEF AdvanceOnboardingRequestState, PuedeAvanzar
    <3> DEFINE antes   == solicitudes[i].estado
               despues == next_state(antes)
               t == [Nueva EXCEPT !.sol = i,
                                  !.resto = {Cambio(i, "CAMBIO_ESTADO", antes, despues)},
                                  !.avisar = despues = "En proceso"]
    <3>2. antes \in EstadoFila /\ despues \in EstadoFila /\ i \in Nat
      <4>1. PICK k \in 1..2 : despues = STATE_FLOW[1 + k]
        BY <3>1 DEF next_state
      <4>2. STATE_FLOW[2] = "En proceso" /\ STATE_FLOW[3] = "Finalizado"
        BY DEF STATE_FLOW
      <4>3. 1 + k = 2 \/ 1 + k = 3
        OBVIOUS
      <4>4. despues \in {"En proceso", "Finalizado"}
        BY <4>1, <4>2, <4>3
      <4> QED BY <4>4, FilaDeId, EstadosSonValores
    <3>3. t \in Llamada
      <4>1. Cambio(i, "CAMBIO_ESTADO", antes, despues) \in Asiento
        BY <3>2, CambioEsMarca DEF EsMarca
      <4> QED BY <3>2, <4>1, NuevaTipo DEF Llamada
    <3>4. Continuable(t, Ids)
      <4>1. t.cambios = <<>> /\ t.fin = "ok" /\ t.sol = i
            /\ t.resto = {Cambio(i, "CAMBIO_ESTADO", antes, despues)}
        BY DEF Nueva
      <4>2. \A c \in t.resto : EsMarca(c)
        BY <3>2, <4>1, CambioEsMarca
      <4> QED BY <3>3, <4>1, <4>2, MarcaContinuable
    <3> QED BY <1>p, <2>1, <3>1, <3>4
  <2> QED BY <2>2, <2>3
<1>4. ASSUME UNCHANGED db, NEW resto, Marca(p, resto),
             \A c \in resto : EsMarca(c)
      PROVE  TypeOK'
  <2> DEFINE t == [Nueva EXCEPT !.resto = resto]
  <2>1. resto \subseteq Asiento
    BY <1>4 DEF EsMarca
  <2>2. t \in Llamada
    BY <2>1, NuevaTipo DEF Llamada
  <2>3. t.cambios = <<>> /\ t.fin = "ok" /\ ~t.avisar /\ t.resto = resto
    BY DEF Nueva
  <2>4. Continuable(t, Ids)
    BY <1>4, <2>2, <2>3, MarcaContinuable
  <2> QED BY <1>4, <1>p, <2>4 DEF Marca
<1>5. CASE RejectOnboardingRequest(p)
  <2>1. UNCHANGED db
    BY <1>5 DEF RejectOnboardingRequest
  <2>2. PICK i \in IdPedido :
          \/ /\ i \in Ids
             /\ Marca(p, {Cambio(i, "CAMBIO_ESTADO", solicitudes[i].estado, "Rechazado")})
          \/ Responde(p, "negada")
    BY <1>5 DEF RejectOnboardingRequest
  <2> DEFINE c == Cambio(i, "CAMBIO_ESTADO", solicitudes[i].estado, "Rechazado")
  <2>3. ASSUME i \in Ids PROVE EsMarca(c)
    BY <2>3, FilaDeId, EstadosSonValores, CambioEsMarca
  <2>4. ASSUME i \in Ids PROVE \A d \in {c} : EsMarca(d)
    BY <2>3, <2>4
  <2> HIDE DEF c
  <2> QED BY <1>0, <1>4, <1>r, <2>1, <2>2, <2>4 DEF c
<1>6. CASE DeleteOnboardingRequest(p)
  <2>1. UNCHANGED db
    BY <1>6 DEF DeleteOnboardingRequest
  <2>2. PICK i \in IdPedido :
          \/ /\ i \in Ids
             /\ Marca(p, {Cambio(i, "ELIMINACION", solicitudes[i].estado, "Eliminada")})
          \/ Responde(p, "negada")
    BY <1>6 DEF DeleteOnboardingRequest
  <2> DEFINE c == Cambio(i, "ELIMINACION", solicitudes[i].estado, "Eliminada")
  <2>3. ASSUME i \in Ids PROVE EsMarca(c)
    BY <2>3, FilaDeId, EstadosSonValores, CambioEsMarca
  <2>4. ASSUME i \in Ids PROVE \A d \in {c} : EsMarca(d)
    BY <2>3, <2>4
  <2> HIDE DEF c
  <2> QED BY <1>0, <1>4, <1>r, <2>1, <2>2, <2>4 DEF c
<1>7. CASE DeleteMyOnboardingRequests(p)
  <2>1. UNCHANGED db
    BY <1>7 DEF DeleteMyOnboardingRequests
  <2>2. PICK u \in Usuario :
          Marca(p, {Cambio(i, "ELIMINACION", "Pendiente", "Eliminada") : i \in PendientesDe(u)})
    BY <1>7 DEF DeleteMyOnboardingRequests
  <2>3. PendientesDe(u) \subseteq Ids
    BY DEF PendientesDe
  <2>4. \A i \in PendientesDe(u) : EsMarca(Cambio(i, "ELIMINACION", "Pendiente", "Eliminada"))
    BY <2>3, EstadosSonValores, CambioEsMarca
  <2> QED BY <1>4, <2>1, <2>2, <2>4
<1>8. CASE CreateDotacionTemplate(p)
  <2>1. UNCHANGED db
    BY <1>8 DEF CreateDotacionTemplate
  <2>2. PICK m \in Moldes :
          \/ Queda(p, [Nueva EXCEPT !.paso = "alta_plantilla", !.fila = PlantillaDe(m)])
          \/ Responde(p, "negada")
    BY <1>8 DEF CreateDotacionTemplate
  <2> DEFINE t == [Nueva EXCEPT !.paso = "alta_plantilla", !.fila = PlantillaDe(m)]
  <2>3. PlantillaDe(m) \in Plantilla
    <3>1. m.encargado \in TextoONulo /\ m.especificacion \in TextoONulo
      BY SolicitudesAssumption DEF TextoONulo
    <3>2. \A x \in TextoONulo : Limpio(x) \in Texto
      BY TextoAssumption DEF Limpio, TextoONulo
    <3> QED BY <3>1, <3>2 DEF PlantillaDe, Plantilla, TextoONulo
  <2>4. t \in Llamada
    BY <2>3, NuevaTipo DEF Llamada, Paso, EnEspera
  <2>5. Coherente(t, Ids)
    <3>1. DOMAIN t.cambios = {}
      BY DEF Nueva
    <3> QED BY <2>3, <3>1 DEF Coherente, Nueva
  <2> QED BY <1>0, <1>r, <1>q, <2>1, <2>2, <2>4, <2>5
<1>9. ASSUME UNCHANGED db, NEW v \in Usuario,
             NEW paso \in {"finalizar_usuario", "listar_usuario"},
             Queda(p, [Nueva EXCEPT !.paso = paso, !.usuario = v])
      PROVE  TypeOK'
  <2> DEFINE t == [Nueva EXCEPT !.paso = paso, !.usuario = v]
  <2>1. t \in Llamada
    BY <1>9, NuevaTipo DEF Llamada, Paso, EnEspera
  <2>2. Coherente(t, Ids)
    <3>1. DOMAIN t.cambios = {}
      BY DEF Nueva
    <3> QED BY <1>9, <3>1 DEF Coherente, Nueva
  <2> QED BY <1>9, <1>q, <2>1, <2>2
<1>10. CASE AdvanceUserOnboardingState(p)
  <2>1. UNCHANGED db
    BY <1>10 DEF AdvanceUserOnboardingState
  <2>2. PICK v \in Usuario :
          \/ Queda(p, [Nueva EXCEPT !.paso = "finalizar_usuario", !.usuario = v])
          \/ Responde(p, "negada")
    BY <1>10 DEF AdvanceUserOnboardingState
  <2> QED BY <1>0, <1>9, <1>r, <2>1, <2>2
<1>11. CASE DeleteUser(p)
  <2>1. UNCHANGED db
    BY <1>11 DEF DeleteUser
  <2>2. PICK v \in Bajas :
          \/ Queda(p, [Nueva EXCEPT !.paso = "listar_usuario", !.usuario = v])
          \/ Responde(p, "negada")
    BY <1>11 DEF DeleteUser
  <2>3. v \in Usuario
    BY SolicitudesAssumption
  <2> QED BY <1>0, <1>9, <1>r, <2>1, <2>2, <2>3
<1> QED
  BY <1>1, <1>2, <1>3, <1>5, <1>6, <1>7, <1>8, <1>10, <1>11 DEF Arrive

(* The calls that go on.                                                      *)
LEMMA TipoDeContinuacion ==
  ASSUME TypeOK, NEW p \in Peticion, Continue(p) \/ Fail(p)
  PROVE  TypeOK'
<1> DEFINE t == peticion[p]
<1>1. /\ peticion \in [Peticion -> Llamada]
      /\ t \in Llamada /\ Coherente(t, Ids)
      /\ Ids = 1..Len(solicitudes) /\ Len(solicitudes) \in Nat
  BY LenProperties DEF TypeOK, Ids
<1>2. t.paso \notin {"registrar", "error"} => t.cambios = <<>> /\ DOMAIN t.cambios = {}
  BY <1>1 DEF Coherente
<1>3. CASE SelectTemplate(p)
  <2>1. PICK paso \in {"alta", "alta_dotacion"} : Queda(p, [t EXCEPT !.paso = paso])
    BY <1>3 DEF SelectTemplate
  <2>2. [t EXCEPT !.paso = paso] \in Llamada
    BY <1>1 DEF Llamada, Paso, EnEspera
  <2>3. Coherente([t EXCEPT !.paso = paso], Ids)
    BY <1>1, <1>2, <1>3 DEF SelectTemplate, Coherente, Llamada
  <2> QED BY <1>1, <1>3, <2>1, <2>2, <2>3, QuedaTipo, SinTocarTablas DEF SelectTemplate
<1>4. CASE InsertMissingTemplate(p)
  <2> DEFINE d == [encargado |-> t.fila.destinatario, especificacion |-> t.fila.especificaciones]
             s == [t EXCEPT !.paso = "alta"]
  <2>1. t.fila \in Fila /\ d \in Plantilla
    BY <1>1, <1>4 DEF InsertMissingTemplate, Coherente, Fila, Plantilla
  <2>2. dotacion' \in Seq(Plantilla)
    BY <1>4, <2>1, AppendProperties DEF InsertMissingTemplate, TypeOK
  <2>3. s \in Llamada
    BY <1>1 DEF Llamada, Paso, EnEspera
  <2>4. Coherente(s, Ids)
    BY <1>1, <1>2, <1>4 DEF InsertMissingTemplate, Coherente, Llamada
  <2>5. UNCHANGED <<solicitudes, historial, estadoUsuario, correos>> /\ Queda(p, s)
    BY <1>4 DEF InsertMissingTemplate
  <2>6. EnSuSitio(p)
    BY <1>1, <2>2, <2>3, <2>4, <2>5, QuedaTipo DEF EnSuSitio, TypeOK, Ids
  <2> QED BY <2>6, EnSuSitioBasta
<1>5. CASE InsertRequest(p)
  <2> DEFINE id == Len(solicitudes) + 1
             c  == Cambio(id, "CREACION", Nulo, t.fila.estado)
             s  == [Nueva EXCEPT !.sol = id, !.cambios = <<c>>]
  <2>1. t.fila \in Fila
    BY <1>1, <1>5 DEF InsertRequest, Coherente
  <2>2. /\ solicitudes' \in Seq(Fila)
        /\ Ids' = Ids \cup {id}
    BY <1>1, <1>5, <2>1, AppendProperties DEF InsertRequest, TypeOK, Ids
  <2>3. c \in Asiento /\ c.sol = id
    <3>1. id \in Nat \ {0} /\ t.fila.estado \in EstadoFila
      BY <1>1, <2>1 DEF Fila
    <3>2. "CREACION" \in TipoDeCambio /\ Nulo \in Valor /\ t.fila.estado \in Valor
      BY <3>1, EstadosSonValores
    <3> HIDE DEF id
    <3> QED BY <3>1, <3>2, CambioTipo
  <2>4. s \in Llamada
    <3>1. id \in Nat /\ <<c>> \in Seq(Asiento)
      BY <1>1, <2>3
    <3> HIDE DEF id, c
    <3> QED BY <3>1, NuevaTipo DEF Llamada
  <2>5. Continuable(s, Ids')
    <3> HIDE DEF c
    <3>1. s.resto = {} /\ s.cambios = <<c>> /\ s.avisar = FALSE
      BY DEF Nueva
    <3> QED BY <2>2, <2>3, <2>4, <3>1 DEF Continuable
  <2>6. UNCHANGED <<historial, dotacion, estadoUsuario, correos>> /\ Prosigue(p, s)
    BY <1>5 DEF InsertRequest
  <2>7. EnSuSitio(p)
    <3> HIDE DEF s
    <3> QED BY <1>1, <2>2, <2>5, <2>6, ProsigueTipo DEF EnSuSitio, TypeOK
  <2> QED BY <2>7, EnSuSitioBasta
<1>6. CASE WriteUpdate(p)
  <2> DEFINE cs == Cambios(t.sol, t.leida, t.fila)
             av == t.leida.estado # "En proceso" /\ t.fila.estado = "En proceso"
             s  == [Nueva EXCEPT !.sol = t.sol, !.cambios = cs, !.avisar = av,
                                 !.fin = RespuestaDe(t.fila)]
  <2>1. t.fila \in Fila /\ t.leida \in Fila /\ t.sol \in Ids
    BY <1>1, <1>6 DEF WriteUpdate, Coherente
  <2>2. solicitudes[t.sol] \in Fila /\ t.sol \in Nat \ {0}
    BY <2>1, FilaDeId
  <2>3. FilaEscrita(solicitudes[t.sol], t.fila) \in Fila
    BY <2>1, <2>2 DEF FilaEscrita, Fila
  <2>4. solicitudes' \in Seq(Fila) /\ Ids' = Ids
    <3> DEFINE g == FilaEscrita(solicitudes[t.sol], t.fila)
    <3>1. solicitudes' = [solicitudes EXCEPT ![t.sol] = g]
      BY <1>6 DEF WriteUpdate
    <3> HIDE DEF g
    <3>2. solicitudes \in Seq(Fila) /\ t.sol \in 1..Len(solicitudes) /\ g \in Fila
      BY <1>1, <2>1, <2>3 DEF TypeOK, g
    <3>3. solicitudes' \in Seq(Fila) /\ Len(solicitudes') = Len(solicitudes)
      BY <3>1, <3>2, ExceptSeq
    <3> QED BY <1>1, <3>3, LenProperties DEF Ids
  <2>5. cs \in Seq(Asiento) /\ \A k \in DOMAIN cs : cs[k].sol = t.sol
    <3>1. ASSUME NEW i \in Nat \ {0}, NEW l \in Fila, NEW f \in Fila
          PROVE  /\ Cambios(i, l, f) \in Seq(Asiento)
                 /\ \A k \in DOMAIN Cambios(i, l, f) : Cambios(i, l, f)[k].sol = i
      BY CambiosTipo
    <3>2. t.sol \in Nat \ {0}
      BY <2>2
    <3> HIDE DEF t
    <3> QED BY <2>1, <3>1, <3>2
  <2> HIDE DEF cs, av
  <2>6. s \in Llamada
    <3>1. av \in BOOLEAN /\ RespuestaDe(t.fila) \in Respuesta
      BY DEF av, RespuestaDe, Respuesta
    <3> QED BY <2>2, <2>5, <3>1, NuevaTipo DEF Llamada
  <2>7. Continuable(s, Ids')
    <3>1. s.resto = {} /\ s.cambios = cs /\ s.sol = t.sol
      BY DEF Nueva
    <3> QED BY <2>1, <2>4, <2>5, <2>6, <3>1 DEF Continuable
  <2>8. UNCHANGED <<historial, dotacion, estadoUsuario, correos>> /\ Prosigue(p, s)
    BY <1>6 DEF WriteUpdate, cs, av
  <2>9. EnSuSitio(p)
    <3> HIDE DEF s
    <3> QED BY <1>1, <2>4, <2>7, <2>8, ProsigueTipo DEF EnSuSitio, TypeOK
  <2> QED BY <2>9, EnSuSitioBasta
<1>7. CASE WriteState(p)
  <2>1. PICK c \in t.resto :
          /\ solicitudes' = [solicitudes EXCEPT ![c.sol].estado = c.nuevo]
          /\ Prosigue(p, [t EXCEPT !.resto = @ \ {c}, !.cambios = <<c>>])
    BY <1>7 DEF WriteState
  <2> DEFINE s == [t EXCEPT !.resto = @ \ {c}, !.cambios = <<c>>]
  <2>2. c \in Asiento /\ c.sol \in Ids /\ c.nuevo \in EstadoFila
    BY <1>1 DEF Coherente, Llamada
  <2>3. [solicitudes[c.sol] EXCEPT !.estado = c.nuevo] \in Fila
    BY <2>2, FilaDeId DEF Fila
  <2>4. solicitudes' \in Seq(Fila) /\ Ids' = Ids
    <3> DEFINE g == [solicitudes[c.sol] EXCEPT !.estado = c.nuevo]
    <3>1. solicitudes' = [solicitudes EXCEPT ![c.sol] = g]
      BY <2>1
    <3> HIDE DEF g
    <3>2. solicitudes \in Seq(Fila) /\ c.sol \in 1..Len(solicitudes) /\ g \in Fila
      BY <1>1, <2>2, <2>3 DEF TypeOK, g
    <3>3. solicitudes' \in Seq(Fila) /\ Len(solicitudes') = Len(solicitudes)
      BY <3>1, <3>2, ExceptSeq
    <3> QED BY <1>1, <3>3, LenProperties DEF Ids
  <2>5. s \in Llamada
    <3>1. <<c>> \in Seq(Asiento) /\ t.resto \ {c} \in SUBSET Asiento
      BY <1>1, <2>2 DEF Llamada
    <3> QED BY <1>1, <3>1 DEF Llamada
  <2>6. Continuable(s, Ids')
    <3>1. s.resto \subseteq t.resto /\ s.cambios = <<c>> /\ s.sol = t.sol /\ s.avisar = t.avisar
      BY <1>1 DEF Llamada
    <3> QED BY <1>1, <2>2, <2>4, <2>5, <3>1 DEF Continuable, Coherente
  <2>7. UNCHANGED <<historial, dotacion, estadoUsuario, correos>>
    BY <1>7 DEF WriteState
  <2>8. EnSuSitio(p)
    <3> HIDE DEF s
    <3> QED BY <1>1, <2>1, <2>4, <2>6, <2>7, ProsigueTipo DEF EnSuSitio, TypeOK, s
  <2> QED BY <2>8, EnSuSitioBasta
<1>8. CASE RegisterHistory(p)
  <2> DEFINE s == [t EXCEPT !.cambios = Tail(@)]
  <2>1. /\ t.cambios \in Seq(Asiento) /\ t.cambios # <<>>
        /\ \A k \in DOMAIN t.cambios : t.cambios[k].sol \in Ids
    BY <1>1, <1>8 DEF RegisterHistory, Coherente, Llamada
  <2>2. /\ Head(t.cambios) \in Asiento /\ Tail(t.cambios) \in Seq(Asiento)
        /\ \A k \in DOMAIN Tail(t.cambios) :
             k + 1 \in DOMAIN t.cambios /\ Tail(t.cambios)[k] = t.cambios[k + 1]
    BY <2>1, HeadTailProperties, LenProperties
  <2>3. historial' \in Seq(Asiento)
    BY <1>8, <2>2, AppendProperties DEF RegisterHistory, TypeOK
  <2>4. s \in Llamada
    BY <1>1, <2>2 DEF Llamada
  <2>5. Continuable(s, Ids)
    <3>1. s.resto = t.resto /\ s.cambios = Tail(t.cambios) /\ s.sol = t.sol /\ s.avisar = t.avisar
      BY <1>1 DEF Llamada
    <3> QED BY <1>1, <2>1, <2>2, <2>4, <3>1 DEF Continuable, Coherente
  <2>6. UNCHANGED <<solicitudes, dotacion, estadoUsuario, correos>> /\ Prosigue(p, s)
    BY <1>8 DEF RegisterHistory
  <2>7. EnSuSitio(p)
    <3> HIDE DEF s
    <3> QED BY <1>1, <2>3, <2>5, <2>6, ProsigueTipo DEF EnSuSitio, TypeOK, Ids
  <2> QED BY <2>7, EnSuSitioBasta
<1>9. CASE SendNotification(p)
  <2> DEFINE s == [t EXCEPT !.avisar = FALSE]
  <2>1. t.sol \in Ids /\ t.cambios = <<>> /\ DOMAIN t.cambios = {}
    BY <1>1, <1>2, <1>9 DEF SendNotification, Coherente
  <2>2. correos' \subseteq Ids
    BY <1>9, <2>1 DEF SendNotification, TypeOK
  <2>3. s \in Llamada
    BY <1>1 DEF Llamada
  <2>4. Continuable(s, Ids)
    <3>1. s.resto = t.resto /\ s.cambios = t.cambios /\ s.avisar = FALSE
      BY <1>1 DEF Llamada
    <3> QED BY <1>1, <2>1, <2>3, <3>1 DEF Continuable, Coherente
  <2>5. UNCHANGED <<solicitudes, historial, dotacion, estadoUsuario>> /\ Prosigue(p, s)
    BY <1>9 DEF SendNotification
  <2>6. EnSuSitio(p)
    <3> HIDE DEF s
    <3> QED BY <1>1, <2>2, <2>4, <2>5, ProsigueTipo DEF EnSuSitio, TypeOK, Ids
  <2> QED BY <2>6, EnSuSitioBasta
<1>10. CASE InsertTemplate(p)
  <2>1. t.fila \in Plantilla
    BY <1>1, <1>10 DEF InsertTemplate, Coherente
  <2>2. dotacion' \in Seq(Plantilla)
    BY <1>10, <2>1, AppendProperties DEF InsertTemplate, TypeOK
  <2>3. UNCHANGED <<solicitudes, historial, estadoUsuario, correos>> /\ Responde(p, "ok")
    BY <1>10 DEF InsertTemplate
  <2>4. EnSuSitio(p)
    BY <1>1, <2>2, <2>3, RespondeTipo DEF EnSuSitio, TypeOK, Ids, Respuesta
  <2> QED BY <2>4, EnSuSitioBasta
<1>11. CASE WriteUserState(p)
  <2>1. estadoUsuario' \in [Usuario -> EstadosUsuario]
    BY <1>11, SolicitudesAssumption DEF WriteUserState, TypeOK
  <2>2. UNCHANGED <<solicitudes, historial, dotacion, correos>> /\ Responde(p, "ok")
    BY <1>11 DEF WriteUserState
  <2>3. EnSuSitio(p)
    BY <1>1, <2>1, <2>2, RespondeTipo DEF EnSuSitio, TypeOK, Ids, Respuesta
  <2> QED BY <2>3, EnSuSitioBasta
<1>12. CASE SelectUserRequests(p)
  <2> DEFINE suyas == {i \in Ids : solicitudes[i].id_empleado = t.usuario}
             resto == {Cambio(i, "ELIMINACION", solicitudes[i].estado, "Eliminada") : i \in suyas}
             s     == [t EXCEPT !.resto = resto]
  <2>1. UNCHANGED db /\ Prosigue(p, s)
    BY <1>12 DEF SelectUserRequests
  <2>2. \A c \in resto : EsMarca(c)
    <3>1. \A i \in suyas : EsMarca(Cambio(i, "ELIMINACION", solicitudes[i].estado, "Eliminada"))
      BY FilaDeId, EstadosSonValores, CambioEsMarca
    <3> QED BY <3>1
  <2> HIDE DEF resto
  <2>3. s \in Llamada
    BY <1>1, <2>2 DEF Llamada, EsMarca
  <2>4. Continuable(s, Ids)
    <3>1. s.resto = resto /\ s.cambios = <<>> /\ s.sol = t.sol /\ s.avisar = t.avisar
      BY <1>1, <1>2, <1>12 DEF Llamada, SelectUserRequests
    <3>2. s.avisar => s.sol \in Ids
      BY <1>1, <3>1 DEF Coherente
    <3> QED BY <2>2, <2>3, <3>1, <3>2, MarcaContinuable
  <2> HIDE DEF s
  <2> QED BY <1>1, <2>1, <2>4, ProsigueTipo, SinTocarTablas
<1>13. CASE MarkUserDeleted(p)
  <2>1. estadoUsuario' \in [Usuario -> EstadosUsuario]
    BY <1>13 DEF MarkUserDeleted, TypeOK
  <2>2. PICK r \in Respuesta :
          UNCHANGED <<solicitudes, historial, dotacion, correos>> /\ Responde(p, r)
    BY <1>13 DEF MarkUserDeleted, Respuesta
  <2>3. EnSuSitio(p)
    BY <1>1, <2>1, <2>2, RespondeTipo DEF EnSuSitio, TypeOK, Ids
  <2> QED BY <2>3, EnSuSitioBasta
<1>14. CASE Fail(p)
  <2> DEFINE s == [Nueva EXCEPT !.paso = "error", !.cambios = t.cambios]
  <2>1. UNCHANGED db /\ Queda(p, s)
    BY <1>14 DEF Fail
  <2>2. s \in Llamada
    BY <1>1, NuevaTipo DEF Llamada, Paso, Respuesta
  <2>3. Coherente(s, Ids)
    <3>1. s.resto = {} /\ s.cambios = t.cambios /\ s.avisar = FALSE /\ s.paso = "error"
      BY DEF Nueva
    <3> QED BY <1>1, <3>1 DEF Coherente
  <2> HIDE DEF s
  <2> QED BY <1>1, <2>1, <2>2, <2>3, QuedaTipo, SinTocarTablas
<1> QED
  BY <1>3, <1>4, <1>5, <1>6, <1>7, <1>8, <1>9, <1>10, <1>11, <1>12, <1>13, <1>14 DEF Continue

(* The tables and what every call holds are well typed, and the requests and   *)
(* users a call is about exist, through every interleaving and failure of the  *)
(* handlers.                                                                   *)
THEOREM TypeCorrect == Spec => []TypeOK
<1>1. TypeOK /\ [Next]_vars => TypeOK'
  <2> SUFFICES ASSUME TypeOK, [Next]_vars PROVE TypeOK'
    OBVIOUS
  <2>1. CASE \E p \in Peticion : Arrive(p) \/ Continue(p) \/ Fail(p)
    BY <2>1, TipoDeLlegada, TipoDeContinuacion
  <2>2. CASE UNCHANGED vars
    BY <2>2 DEF vars, TypeOK, Ids
  <2> QED BY <2>1, <2>2 DEF Next, Terminated
<1> QED BY <1>1, TipoInicial, PTL DEF Spec
=============================================================================
