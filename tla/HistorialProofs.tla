--------------------------- MODULE HistorialProofs ---------------------------
(****************************************************************************)
(* Proofs that HISTORIAL accounts for the estado of every request: no step  *)
(* loses a row that is written or owed, and what a call read before an      *)
(* await stays accounted for while the call holds it.  Then, of two rules   *)
(* of the onboarding that no handler checks as such: every request has its  *)
(* template, and only a PATCH, by a row of its own, finishes one that was   *)
(* never in progress.                                                       *)
(****************************************************************************)
EXTENDS SolicitudesProofs

(* The elements of sequences.                                               *)
LEMMA SinCambios == Elementos(<<>>) = {}
  BY DEF Elementos

LEMMA UnCambio == ASSUME NEW c PROVE Elementos(<<c>>) = {c}
<1>1. DOMAIN <<c>> = {1} /\ <<c>>[1] = c
  OBVIOUS
<1> QED BY <1>1 DEF Elementos

LEMMA ElementosDeAppend ==
  ASSUME NEW S, NEW s \in Seq(S), NEW c \in S
  PROVE  Elementos(Append(s, c)) = Elementos(s) \cup {c}
<1> DEFINE u == Append(s, c)
           n == Len(s)
<1>1. n \in Nat /\ DOMAIN s = 1..n
  BY LenProperties
<1>2. /\ DOMAIN u = 1..(n + 1)
      /\ \A k \in 1..n : u[k] = s[k]
      /\ u[n + 1] = c
  BY <1>1, AppendProperties, LenProperties
<1> HIDE DEF u, n
<1>3. 1..(n + 1) = 1..n \cup {n + 1}
  BY <1>1
<1>4. Elementos(u) = Elementos(s) \cup {c}
  <2>1. Elementos(u) = {u[k] : k \in 1..n \cup {n + 1}} /\ Elementos(s) = {s[k] : k \in 1..n}
    BY <1>1, <1>2, <1>3 DEF Elementos
  <2> QED BY <1>2, <2>1
<1> QED BY <1>4 DEF u

LEMMA CabezaYCola ==
  ASSUME NEW S, NEW s \in Seq(S), s # <<>>
  PROVE  Head(s) \in S /\ Elementos(s) = {Head(s)} \cup Elementos(Tail(s))
<1> DEFINE u == Tail(s)
           n == Len(u)
<1>1. /\ Head(s) \in S /\ Head(s) = s[1]
      /\ u \in Seq(S) /\ \A k \in 1..n : u[k] = s[k + 1]
      /\ Len(s) = n + 1
  BY HeadTailProperties, LenProperties
<1>2. n \in Nat /\ DOMAIN u = 1..n /\ DOMAIN s = 1..(n + 1)
  BY <1>1, LenProperties
<1> HIDE DEF u, n
<1>3. Elementos(s) \subseteq {Head(s)} \cup Elementos(u)
  <2> SUFFICES ASSUME NEW k \in DOMAIN s, k # 1 PROVE s[k] \in Elementos(u)
    BY <1>1 DEF Elementos
  <2>1. k - 1 \in DOMAIN u /\ u[k - 1] = s[k]
    BY <1>1, <1>2
  <2> QED BY <2>1 DEF Elementos
<1>4. Elementos(u) \subseteq Elementos(s)
  <2> SUFFICES ASSUME NEW k \in DOMAIN u PROVE u[k] \in Elementos(s)
    BY DEF Elementos
  <2>1. k + 1 \in DOMAIN s /\ u[k] = s[k + 1]
    BY <1>1, <1>2
  <2> QED BY <2>1 DEF Elementos
<1>5. Head(s) \in Elementos(s)
  <2>1. 1 \in DOMAIN s
    BY <1>2
  <2> QED BY <1>1, <2>1 DEF Elementos
<1> QED BY <1>1, <1>3, <1>4, <1>5 DEF u
----------------------------------------------------------------------------
\* A step of call p.
Turno(p) == Arrive(p) \/ Continue(p) \/ Fail(p)

(* A step of one call leaves what the others hold.                          *)
LEMMA SoloLaSuya ==
  ASSUME TypeOK, NEW p \in Peticion, Turno(p)
  PROVE  \E x : peticion' = [peticion EXCEPT ![p] = x]
<1>1. ASSUME NEW t, Prosigue(p, t) PROVE \E x : peticion' = [peticion EXCEPT ![p] = x]
  <2>1. \/ peticion' = [peticion EXCEPT ![p] = [Nueva EXCEPT !.paso = Siguiente(t)]]
        \/ peticion' = [peticion EXCEPT ![p] = [t EXCEPT !.paso = Siguiente(t)]]
    BY <1>1 DEF Prosigue, Responde, Queda
  <2> QED BY <2>1
<1>2. ASSUME NEW r, Responde(p, r) PROVE \E x : peticion' = [peticion EXCEPT ![p] = x]
  BY <1>2 DEF Responde, Queda
<1>3. ASSUME NEW t, Queda(p, t) PROVE \E x : peticion' = [peticion EXCEPT ![p] = x]
  BY <1>3 DEF Queda
<1>4. CASE CreateOnboardingRequest(p)
  BY <1>2, <1>3, <1>4 DEF CreateOnboardingRequest
<1>5. CASE UpdateOnboardingRequest(p)
  BY <1>2, <1>3, <1>5 DEF UpdateOnboardingRequest
<1>6. CASE AdvanceOnboardingRequestState(p)
  BY <1>1, <1>2, <1>6 DEF AdvanceOnboardingRequestState
<1>7. CASE RejectOnboardingRequest(p)
  BY <1>1, <1>2, <1>7 DEF RejectOnboardingRequest, Marca
<1>8. CASE DeleteOnboardingRequest(p)
  BY <1>1, <1>2, <1>8 DEF DeleteOnboardingRequest, Marca
<1>9. CASE DeleteMyOnboardingRequests(p)
  BY <1>1, <1>9 DEF DeleteMyOnboardingRequests, Marca
<1>10. CASE CreateDotacionTemplate(p)
  BY <1>2, <1>3, <1>10 DEF CreateDotacionTemplate
<1>11. CASE AdvanceUserOnboardingState(p)
  BY <1>2, <1>3, <1>11 DEF AdvanceUserOnboardingState
<1>12. CASE DeleteUser(p)
  BY <1>2, <1>3, <1>12 DEF DeleteUser
<1>13. CASE SelectTemplate(p)
  BY <1>3, <1>13 DEF SelectTemplate
<1>14. CASE InsertMissingTemplate(p)
  BY <1>3, <1>14 DEF InsertMissingTemplate
<1>15. CASE InsertRequest(p)
  BY <1>1, <1>15 DEF InsertRequest
<1>16. CASE WriteUpdate(p)
  BY <1>1, <1>16 DEF WriteUpdate
<1>17. CASE WriteState(p)
  BY <1>1, <1>17 DEF WriteState
<1>18. CASE RegisterHistory(p)
  BY <1>1, <1>18 DEF RegisterHistory
<1>19. CASE SendNotification(p)
  BY <1>1, <1>19 DEF SendNotification
<1>20. CASE InsertTemplate(p)
  BY <1>2, <1>20 DEF InsertTemplate
<1>21. CASE WriteUserState(p)
  BY <1>2, <1>21 DEF WriteUserState
<1>22. CASE SelectUserRequests(p)
  BY <1>1, <1>22 DEF SelectUserRequests
<1>23. CASE MarkUserDeleted(p)
  BY <1>2, <1>23 DEF MarkUserDeleted
<1>24. CASE Fail(p)
  BY <1>3, <1>24 DEF Fail
<1> QED
  BY <1>4, <1>5, <1>6, <1>7, <1>8, <1>9, <1>10, <1>11, <1>12, <1>13, <1>14, <1>15, <1>16,
     <1>17, <1>18, <1>19, <1>20, <1>21, <1>22, <1>23, <1>24 DEF Turno, Arrive, Continue

(* A step writes no row of HISTORIAL, and then its call owed none or owes them *)
(* still, or it writes the first of the rows its call owes.                    *)
LEMMA EfectoEnHistorial ==
  ASSUME TypeOK, NEW p \in Peticion, Turno(p)
  PROVE  \/ historial' = historial /\ peticion[p].cambios = <<>>
         \/ historial' = historial /\ peticion'[p].cambios = peticion[p].cambios
         \/ /\ historial' = Append(historial, Head(peticion[p].cambios))
            /\ peticion[p].cambios # <<>>
            /\ peticion'[p].cambios = Tail(peticion[p].cambios)
<1>1. /\ peticion \in [Peticion -> Llamada]
      /\ peticion[p].paso \notin {"registrar", "error"} => peticion[p].cambios = <<>>
  BY DEF TypeOK, Coherente
<1>2. CASE peticion[p].paso \notin {"registrar", "error"} /\ ~Fail(p)
  <2>1. historial' = historial
    BY <1>2 DEF Turno, Arrive, Continue, db, CreateOnboardingRequest, UpdateOnboardingRequest,
       AdvanceOnboardingRequestState, RejectOnboardingRequest, DeleteOnboardingRequest,
       DeleteMyOnboardingRequests, CreateDotacionTemplate, AdvanceUserOnboardingState, DeleteUser,
       SelectTemplate, InsertMissingTemplate, InsertRequest, WriteUpdate, WriteState,
       RegisterHistory, SendNotification, InsertTemplate, WriteUserState, SelectUserRequests,
       MarkUserDeleted
  <2> QED BY <1>1, <1>2, <2>1
<1>3. CASE RegisterHistory(p)
  <2> DEFINE s == [peticion[p] EXCEPT !.cambios = Tail(@)]
  <2>1. /\ peticion[p] \in Llamada /\ Coherente(peticion[p], Ids)
        /\ peticion[p].cambios \in Seq(Asiento) /\ peticion[p].cambios # <<>>
    BY <1>3 DEF RegisterHistory, TypeOK, Coherente, Llamada
  <2>2. s.cambios = Tail(peticion[p].cambios) /\ Prosigue(p, s)
    BY <1>3, <2>1 DEF RegisterHistory, Llamada
  <2> HIDE DEF s
  <2>3. CASE Siguiente(s) \in Respuesta
    <3>1. s.cambios = <<>>
      BY <2>3 DEF Siguiente, Respuesta
    <3>2. peticion' = [peticion EXCEPT ![p] = [Nueva EXCEPT !.paso = Siguiente(s)]]
      BY <2>2, <2>3 DEF Prosigue, Responde, Queda
    <3>3. peticion'[p].cambios = <<>>
      BY <1>1, <3>2 DEF Nueva
    <3> QED BY <1>3, <2>1, <2>2, <3>1, <3>3 DEF RegisterHistory
  <2>4. CASE Siguiente(s) \notin Respuesta
    <3>1. peticion' = [peticion EXCEPT ![p] = [s EXCEPT !.paso = Siguiente(s)]]
      BY <2>2, <2>4 DEF Prosigue, Queda
    <3>2. peticion'[p].cambios = Tail(peticion[p].cambios)
      BY <1>1, <2>1, <2>2, <3>1 DEF Llamada, s
    <3> QED BY <1>3, <2>1, <3>2 DEF RegisterHistory
  <2> QED BY <2>3, <2>4
<1>4. CASE Fail(p)
  BY <1>1, <1>4 DEF Fail, Queda, Nueva, db
<1>5. peticion[p].paso \in {"registrar", "error"} => RegisterHistory(p) \/ Fail(p)
  BY DEF Turno, Arrive, Continue, Llega, CreateOnboardingRequest, UpdateOnboardingRequest,
     AdvanceOnboardingRequestState, RejectOnboardingRequest, DeleteOnboardingRequest,
     DeleteMyOnboardingRequests, CreateDotacionTemplate, AdvanceUserOnboardingState, DeleteUser,
     SelectTemplate, InsertMissingTemplate, InsertRequest, WriteUpdate, WriteState,
     SendNotification, InsertTemplate, WriteUserState, SelectUserRequests, MarkUserDeleted
<1> QED BY <1>2, <1>3, <1>4, <1>5

(* No row that is written or owed is lost.                                    *)
LEMMA NadaSePierde ==
  ASSUME TypeOK, NEW p \in Peticion, Turno(p)
  PROVE  /\ Escritos \subseteq Escritos' /\ Asientos \subseteq Asientos'
         /\ Elementos(peticion[p].cambios)
              \subseteq Escritos' \cup Elementos(peticion'[p].cambios)
         /\ Escritos' \subseteq Escritos \cup Elementos(peticion[p].cambios)
<1> DEFINE cs == peticion[p].cambios
<1>1. /\ peticion \in [Peticion -> Llamada] /\ historial \in Seq(Asiento)
      /\ cs \in Seq(Asiento)
  BY DEF TypeOK, Llamada
<1>2. \A q \in Peticion \ {p} : peticion'[q] = peticion[q]
  BY <1>1, SoloLaSuya
<1>3. /\ Escritos \subseteq Escritos' /\ Escritos' \subseteq Escritos \cup Elementos(cs)
      /\ Elementos(cs) \subseteq Escritos' \cup Elementos(peticion'[p].cambios)
  <2>1. CASE historial' = historial /\ cs = <<>>
    <3>1. DOMAIN cs = {}
      BY <2>1
    <3> QED BY <2>1, <3>1 DEF Escritos, Elementos
  <2>2. CASE historial' = historial /\ peticion'[p].cambios = cs
    BY <2>2 DEF Escritos, Elementos
  <2>3. CASE /\ historial' = Append(historial, Head(cs))
             /\ cs # <<>>
             /\ peticion'[p].cambios = Tail(cs)
    <3> DEFINE h == Head(cs)
    <3>1. h \in Asiento /\ Elementos(cs) = {h} \cup Elementos(Tail(cs))
      BY <1>1, <2>3, CabezaYCola
    <3> HIDE DEF h
    <3>2. historial' = Append(historial, h)
      BY <2>3 DEF h
    <3>3. Escritos' = Escritos \cup {h}
      BY <1>1, <3>1, <3>2, ElementosDeAppend DEF Escritos
    <3> QED BY <2>3, <3>1, <3>3
  <2> QED BY <2>1, <2>2, <2>3, EfectoEnHistorial
<1>4. ASSUME NEW q \in Peticion
      PROVE  Elementos(peticion[q].cambios) \subseteq Asientos'
  <2>1. Elementos(peticion'[q].cambios) \subseteq Asientos' /\ Escritos' \subseteq Asientos'
    BY DEF Asientos
  <2> QED BY <1>2, <1>3, <2>1
<1>5. Escritos' \subseteq Asientos'
  BY DEF Asientos
<1> QED BY <1>3, <1>4, <1>5 DEF Asientos
----------------------------------------------------------------------------
(* The inductive invariant.                                                   *)

Inductiva ==
  TypeOK /\ EstadoAcreditado /\ HistorialVeraz /\ LlamadasFundadas /\ AvisoFundado

LEMMA ConstaMonotona ==
  ASSUME NEW A, NEW B, A \subseteq B, NEW i, NEW e, Consta(A, i, e)
  PROVE  Consta(B, i, e)
  BY DEF Consta

LEMMA FundadaMonotona ==
  ASSUME NEW t, NEW H, NEW A, NEW I, NEW B, H \subseteq I, A \subseteq B, Fundada(t, H, A)
  PROVE  Fundada(t, I, B)
<1>1. H \cup Elementos(t.cambios) \cup t.resto \subseteq I \cup Elementos(t.cambios) \cup t.resto
  OBVIOUS
<1>2. /\ t.paso = "editar" => Consta(B, t.sol, t.leida.estado)
      /\ \A c \in t.resto \cup Elementos(t.cambios) :
           c.tipo \in {"CAMBIO_ESTADO", "ELIMINACION"} => Consta(B, c.sol, c.antiguo)
  BY ConstaMonotona DEF Fundada
<1>3. t.avisar => Consta(I \cup Elementos(t.cambios) \cup t.resto, t.sol, "En proceso")
  <2> DEFINE C == H \cup Elementos(t.cambios) \cup t.resto
             D == I \cup Elementos(t.cambios) \cup t.resto
  <2>1. C \subseteq D /\ (t.avisar => Consta(C, t.sol, "En proceso"))
    BY <1>1 DEF Fundada
  <2> HIDE DEF C, D
  <2>2. t.avisar => Consta(D, t.sol, "En proceso")
    BY <2>1, ConstaMonotona
  <2> QED BY <2>2 DEF D
<1> QED BY <1>2, <1>3 DEF Fundada

\* What a call may go on with.
Fundable(s, H, A) ==
  /\ s \in Llamada
  /\ \A c \in s.resto \cup Elementos(s.cambios) :
       c.tipo \in {"CAMBIO_ESTADO", "ELIMINACION"} => Consta(A, c.sol, c.antiguo)
  /\ s.avisar => Consta(H \cup Elementos(s.cambios) \cup s.resto, s.sol, "En proceso")

LEMMA NuevaFundada ==
  ASSUME NEW r, r # "editar", NEW H, NEW A
  PROVE  Fundada([Nueva EXCEPT !.paso = r], H, A)
<1>1. /\ Elementos(Nueva.cambios) = {} /\ Nueva.resto = {} /\ Nueva.avisar = FALSE
  BY SinCambios DEF Nueva
<1> QED BY <1>1 DEF Fundada, Nueva

LEMMA ProsigueFundada ==
  ASSUME NEW p \in Peticion, NEW s, NEW H, NEW A, Fundable(s, H, A),
         peticion \in [Peticion -> Llamada], Prosigue(p, s)
  PROVE  Fundada(peticion'[p], H, A) /\ peticion'[p].cambios = s.cambios
<1>1. CASE Siguiente(s) \in Respuesta
  <2>1. s.cambios = <<>> /\ Siguiente(s) # "editar"
    BY <1>1 DEF Siguiente, Respuesta
  <2>2. peticion'[p] = [Nueva EXCEPT !.paso = Siguiente(s)]
    BY <1>1 DEF Prosigue, Responde, Queda
  <2>3. peticion'[p].cambios = <<>>
    BY <2>2 DEF Nueva
  <2> DEFINE r == Siguiente(s)
  <2> HIDE DEF r
  <2>4. Fundada([Nueva EXCEPT !.paso = r], H, A)
    BY <2>1, NuevaFundada DEF r
  <2> QED BY <2>1, <2>2, <2>3, <2>4 DEF r
<1>2. CASE Siguiente(s) \notin Respuesta
  <2>1. peticion'[p] = [s EXCEPT !.paso = Siguiente(s)]
    BY <1>2 DEF Prosigue, Queda
  <2>2. /\ Siguiente(s) \notin {"editar", "listar_usuario"}
        /\ Siguiente(s) = "avisar" => s.resto = {}
    <3>1. s.fin \in Respuesta
      BY DEF Fundable, Llamada
    <3> QED BY <1>2, <3>1 DEF Siguiente, Respuesta
  <2>3. /\ peticion'[p].paso = Siguiente(s) /\ peticion'[p].cambios = s.cambios
        /\ peticion'[p].resto = s.resto /\ peticion'[p].sol = s.sol
        /\ peticion'[p].avisar = s.avisar
    BY <2>1 DEF Fundable, Llamada
  <2> QED BY <2>2, <2>3 DEF Fundada, Fundable
<1> QED BY <1>1, <1>2

\* The step preserves the invariant if it does for what its call holds and for
\* what it writes in SOLICITUDES and mails.
LEMMA TurnoBasta ==
  ASSUME Inductiva, TypeOK', NEW p \in Peticion, Turno(p),
         Fundada(peticion'[p], Escritos', Asientos'),
         \/ solicitudes' = solicitudes
         \/ \A i \in Ids' : Consta(Asientos', i, solicitudes'[i].estado),
         \A i \in correos' : i \in correos \/ Consta(Escritos', i, "En proceso")
  PROVE  Inductiva'
<1>1. Escritos \subseteq Escritos' /\ Asientos \subseteq Asientos'
  BY NadaSePierde DEF Inductiva
<1>2. EstadoAcreditado'
  <2>1. \A i \in Ids : Consta(Asientos, i, solicitudes[i].estado)
    BY DEF Inductiva, EstadoAcreditado, Acreditado
  <2>2. \A i \in Ids : Consta(Asientos', i, solicitudes[i].estado)
    BY <1>1, <2>1, ConstaMonotona
  <2>3. solicitudes' = solicitudes => Ids' = Ids
    BY DEF Ids
  <2>4. \A i \in Ids' : Consta(Asientos', i, solicitudes'[i].estado)
    BY <2>2, <2>3
  <2> QED BY <2>4 DEF EstadoAcreditado, Acreditado
<1>3. HistorialVeraz'
  <2> SUFFICES ASSUME NEW h \in Escritos', h.tipo \in {"CAMBIO_ESTADO", "ELIMINACION"}
               PROVE  Consta(Asientos', h.sol, h.antiguo)
    BY DEF HistorialVeraz, Acreditado
  <2>1. CASE h \in Escritos
    BY <1>1, <2>1, ConstaMonotona DEF Inductiva, HistorialVeraz, Acreditado
  <2>2. CASE h \notin Escritos
    <3>1. h \in Elementos(peticion[p].cambios)
      BY <2>2, NadaSePierde DEF Inductiva
    <3>2. Consta(Asientos, h.sol, h.antiguo)
      BY <3>1 DEF Inductiva, LlamadasFundadas, Fundada
    <3> QED BY <1>1, <3>2, ConstaMonotona
  <2> QED BY <2>1, <2>2
<1>4. LlamadasFundadas'
  <2>1. ASSUME NEW q \in Peticion, q # p
        PROVE  Fundada(peticion'[q], Escritos', Asientos')
    <3>1. peticion'[q] = peticion[q]
      BY <2>1, SoloLaSuya DEF Inductiva, TypeOK
    <3>2. Fundada(peticion[q], Escritos, Asientos)
      BY DEF Inductiva, LlamadasFundadas
    <3> QED BY <1>1, <3>1, <3>2, FundadaMonotona
  <2> QED BY <2>1 DEF LlamadasFundadas
<1>5. AvisoFundado'
  BY <1>1, ConstaMonotona DEF Inductiva, AvisoFundado, Registrado
<1> QED BY <1>2, <1>3, <1>4, <1>5 DEF Inductiva

(* A change of estado prepared for a request that was just read tells the      *)
(* estado it has.                                                             *)
LEMMA CambioFundado ==
  ASSUME Inductiva, NEW i \in Ids, NEW tipo \in {"CAMBIO_ESTADO", "ELIMINACION"},
         NEW b \in EstadoFila, NEW c, c = Cambio(i, tipo, solicitudes[i].estado, b)
  PROVE  /\ c \in Asiento /\ c.sol = i /\ c.tipo = tipo /\ c.nuevo = b
         /\ Consta(Asientos, c.sol, c.antiguo)
<1>1. /\ i \in Nat \ {0} /\ tipo \in TipoDeCambio /\ b \in Valor
      /\ solicitudes[i].estado \in Valor /\ solicitudes[i].estado \in EstadoFila
  BY FilaDeId, EstadosSonValores DEF Inductiva
<1>2. c \in Asiento /\ c.sol = i /\ c.tipo = tipo /\ c.nuevo = b /\ c.antiguo = solicitudes[i].estado
  BY <1>1, CambioTipo
<1>3. Consta(Asientos, i, solicitudes[i].estado)
  BY DEF Inductiva, EstadoAcreditado, Acreditado
<1> QED BY <1>2, <1>3

(* The calls that arrive.                                                     *)
LEMMA InductivaAlLlegar ==
  ASSUME Inductiva, TypeOK', NEW p \in Peticion, Arrive(p)
  PROVE  Inductiva'
<1>1. /\ peticion \in [Peticion -> Llamada] /\ TypeOK
      /\ Escritos \subseteq Escritos' /\ Asientos \subseteq Asientos'
  BY NadaSePierde DEF Inductiva, TypeOK, Turno
<1>2. UNCHANGED db /\ solicitudes' = solicitudes /\ correos' = correos
  BY DEF Arrive, db, CreateOnboardingRequest, UpdateOnboardingRequest,
     AdvanceOnboardingRequestState, RejectOnboardingRequest, DeleteOnboardingRequest,
     DeleteMyOnboardingRequests, CreateDotacionTemplate, AdvanceUserOnboardingState, DeleteUser
<1>f. ASSUME Fundada(peticion'[p], Escritos', Asientos') PROVE Inductiva'
  BY <1>2, <1>f, TurnoBasta DEF Turno
<1>r. ASSUME NEW r \in Respuesta, Responde(p, r) PROVE Inductiva'
  <2>1. peticion'[p] = [Nueva EXCEPT !.paso = r] /\ r # "editar"
    BY <1>1, <1>r DEF Responde, Queda, Respuesta
  <2> QED BY <1>f, <2>1, NuevaFundada
<1>q. ASSUME NEW t, Queda(p, t), t.resto = {}, t.cambios = <<>>, t.avisar = FALSE,
             t.paso = "editar" => Consta(Asientos, t.sol, t.leida.estado)
      PROVE  Inductiva'
  <2>1. peticion'[p] = t
    BY <1>1, <1>q DEF Queda
  <2>2. Fundada(t, Escritos, Asientos)
    BY <1>q, SinCambios DEF Fundada
  <2> QED BY <1>1, <1>f, <2>1, <2>2, FundadaMonotona
<1>p. ASSUME NEW t, Prosigue(p, t), t \in Llamada, t.cambios = <<>>,
             \A c \in t.resto : Consta(Asientos, c.sol, c.antiguo),
             t.avisar => \E c \in t.resto : Dice(c, t.sol, "En proceso")
      PROVE  Inductiva'
  <2>1. Fundable(t, Escritos, Asientos)
    BY <1>p, SinCambios DEF Fundable, Consta
  <2>2. Fundada(peticion'[p], Escritos, Asientos)
    BY <1>1, <1>p, <2>1, ProsigueFundada
  <2> QED BY <1>1, <1>f, <2>2, FundadaMonotona
<1>m. ASSUME NEW resto, Marca(p, resto),
             \A c \in resto : c \in Asiento /\ Consta(Asientos, c.sol, c.antiguo)
      PROVE  Inductiva'
  <2> DEFINE t == [Nueva EXCEPT !.resto = resto]
  <2>1. t.cambios = <<>> /\ t.resto = resto /\ t.avisar = FALSE /\ Prosigue(p, t)
    BY <1>m DEF Nueva, Marca
  <2>2. t \in Llamada
    BY <1>m, NuevaTipo DEF Llamada
  <2> HIDE DEF t
  <2> QED BY <1>m, <1>p, <2>1, <2>2
<1>3. CASE CreateOnboardingRequest(p)
  <2>1. PICK a \in Altas :
          \/ Queda(p, [Nueva EXCEPT !.paso = "plantilla", !.fila = FilaDeAlta(a)])
          \/ Responde(p, "negada")
    BY <1>3 DEF CreateOnboardingRequest
  <2> DEFINE t == [Nueva EXCEPT !.paso = "plantilla", !.fila = FilaDeAlta(a)]
  <2>2. t.resto = {} /\ t.cambios = <<>> /\ t.avisar = FALSE /\ t.paso # "editar"
    BY DEF Nueva
  <2> HIDE DEF t
  <2>3. CASE Queda(p, t)
    BY <1>q, <2>2, <2>3
  <2> QED BY <1>r, <2>1, <2>3 DEF t, Respuesta
<1>4. CASE UpdateOnboardingRequest(p)
  <2>1. PICK i \in IdPedido, e \in Ediciones :
          \/ Responde(p, "negada")
          \/ Responde(p, RespuestaDe(solicitudes[i]))
          \/ /\ i \in Ids
             /\ Queda(p, [Nueva EXCEPT !.paso = "editar", !.sol = i,
                                       !.leida = solicitudes[i],
                                       !.fila = FilaEditada(solicitudes[i], e)])
    BY <1>4 DEF UpdateOnboardingRequest, EdicionAdmitida
  <2> DEFINE t == [Nueva EXCEPT !.paso = "editar", !.sol = i, !.leida = solicitudes[i],
                                !.fila = FilaEditada(solicitudes[i], e)]
  <2>2. /\ t.resto = {} /\ t.cambios = <<>> /\ t.avisar = FALSE
        /\ t.sol = i /\ t.leida.estado = solicitudes[i].estado
    BY DEF Nueva
  <2> HIDE DEF t
  <2>3. CASE i \in Ids /\ Queda(p, t)
    <3>1. Consta(Asientos, t.sol, t.leida.estado)
      BY <2>2, <2>3 DEF Inductiva, EstadoAcreditado, Acreditado
    <3> QED BY <1>q, <2>2, <2>3, <3>1
  <2>4. {"negada", RespuestaDe(solicitudes[i])} \subseteq Respuesta
    BY DEF RespuestaDe, Respuesta
  <2> QED BY <1>r, <2>1, <2>3, <2>4 DEF t
<1>5. CASE AdvanceOnboardingRequestState(p)
  <2>1. CASE Responde(p, "negada")
    BY <1>r, <2>1 DEF Respuesta
  <2>2. CASE ~Responde(p, "negada")
    <3>1. PICK i \in Ids :
            /\ next_state(solicitudes[i].estado) # Nulo
            /\ Prosigue(p, [Nueva EXCEPT
                 !.sol    = i,
                 !.resto  = {Cambio(i, "CAMBIO_ESTADO", solicitudes[i].estado,
                                    next_state(solicitudes[i].estado))},
                 !.avisar = next_state(solicitudes[i].estado) = "En proceso"])
      BY <1>5, <2>2 DEF AdvanceOnboardingRequestState, PuedeAvanzar
    <3>2. PICK c, despues :
            /\ despues = next_state(solicitudes[i].estado)
            /\ c = Cambio(i, "CAMBIO_ESTADO", solicitudes[i].estado, despues)
      OBVIOUS
    <3> DEFINE t == [Nueva EXCEPT !.sol = i, !.resto = {c}, !.avisar = despues = "En proceso"]
    <3>3. despues \in EstadoFila
      <4>1. PICK k \in 1..2 : despues = STATE_FLOW[1 + k]
        BY <3>1, <3>2 DEF next_state
      <4>2. STATE_FLOW[2] = "En proceso" /\ STATE_FLOW[3] = "Finalizado"
        BY DEF STATE_FLOW
      <4>3. 1 + k = 2 \/ 1 + k = 3
        OBVIOUS
      <4> QED BY <4>1, <4>2, <4>3, EstadosSonValores
    <3>4. /\ c \in Asiento /\ c.sol = i /\ c.tipo = "CAMBIO_ESTADO" /\ c.nuevo = despues
          /\ Consta(Asientos, c.sol, c.antiguo)
      BY <3>2, <3>3, CambioFundado
    <3>5. /\ t.cambios = <<>> /\ t.resto = {c} /\ t.sol = i
          /\ t.avisar = (despues = "En proceso")
      BY DEF Nueva
    <3>6. t \in Llamada
      <4>1. i \in Nat
        BY <1>1, FilaDeId
      <4> QED BY <3>4, <4>1, NuevaTipo DEF Llamada
    <3>7. Prosigue(p, t)
      BY <3>1, <3>2
    <3> HIDE DEF t
    <3>8. t.avisar => Dice(c, t.sol, "En proceso")
      BY <3>4, <3>5 DEF Dice, TipoDeEstado
    <3> QED BY <1>p, <3>4, <3>5, <3>6, <3>7, <3>8
  <2> QED BY <2>1, <2>2
<1>6. CASE RejectOnboardingRequest(p)
  <2>1. PICK i \in IdPedido :
          \/ /\ i \in Ids
             /\ Marca(p, {Cambio(i, "CAMBIO_ESTADO", solicitudes[i].estado, "Rechazado")})
          \/ Responde(p, "negada")
    BY <1>6 DEF RejectOnboardingRequest
  <2>2. PICK c : c = Cambio(i, "CAMBIO_ESTADO", solicitudes[i].estado, "Rechazado")
    OBVIOUS
  <2>3. CASE i \in Ids /\ Marca(p, {c})
    <3>1. c \in Asiento /\ Consta(Asientos, c.sol, c.antiguo)
      <4>1. i \in Ids /\ {"Rechazado", "Eliminada"} \subseteq EstadoFila
        BY <2>3, EstadosSonValores
      <4> QED BY <2>2, <4>1, CambioFundado
    <3>2. \A d \in {c} : d \in Asiento /\ Consta(Asientos, d.sol, d.antiguo)
      BY <3>1
    <3> QED BY <1>m, <2>3, <3>2
  <2> QED BY <1>r, <2>1, <2>2, <2>3 DEF Respuesta
<1>7. CASE DeleteOnboardingRequest(p)
  <2>1. PICK i \in IdPedido :
          \/ /\ i \in Ids
             /\ Marca(p, {Cambio(i, "ELIMINACION", solicitudes[i].estado, "Eliminada")})
          \/ Responde(p, "negada")
    BY <1>7 DEF DeleteOnboardingRequest
  <2>2. PICK c : c = Cambio(i, "ELIMINACION", solicitudes[i].estado, "Eliminada")
    OBVIOUS
  <2>3. CASE i \in Ids /\ Marca(p, {c})
    <3>1. c \in Asiento /\ Consta(Asientos, c.sol, c.antiguo)
      <4>1. i \in Ids /\ {"Rechazado", "Eliminada"} \subseteq EstadoFila
        BY <2>3, EstadosSonValores
      <4> QED BY <2>2, <4>1, CambioFundado
    <3>2. \A d \in {c} : d \in Asiento /\ Consta(Asientos, d.sol, d.antiguo)
      BY <3>1
    <3> QED BY <1>m, <2>3, <3>2
  <2> QED BY <1>r, <2>1, <2>2, <2>3 DEF Respuesta
<1>8. CASE DeleteMyOnboardingRequests(p)
  <2>1. PICK u \in Usuario :
          Marca(p, {Cambio(i, "ELIMINACION", "Pendiente", "Eliminada") : i \in PendientesDe(u)})
    BY <1>8 DEF DeleteMyOnboardingRequests
  <2>2. PICK resto :
          resto = {Cambio(i, "ELIMINACION", "Pendiente", "Eliminada") : i \in PendientesDe(u)}
    OBVIOUS
  <2>3. ASSUME NEW c \in resto PROVE c \in Asiento /\ Consta(Asientos, c.sol, c.antiguo)
    <3>1. PICK i \in PendientesDe(u) : c = Cambio(i, "ELIMINACION", "Pendiente", "Eliminada")
      BY <2>2
    <3>2. i \in Ids /\ solicitudes[i].estado = "Pendiente"
      BY DEF PendientesDe
    <3>3. "Eliminada" \in EstadoFila /\ c = Cambio(i, "ELIMINACION", solicitudes[i].estado, "Eliminada")
      BY <3>1, <3>2, EstadosSonValores
    <3> QED BY <3>2, <3>3, CambioFundado
  <2>4. Marca(p, resto)
    BY <2>1, <2>2
  <2> QED BY <1>m, <2>3, <2>4
<1>9. CASE CreateDotacionTemplate(p)
  <2>1. PICK m \in Moldes :
          \/ Queda(p, [Nueva EXCEPT !.paso = "alta_plantilla", !.fila = PlantillaDe(m)])
          \/ Responde(p, "negada")
    BY <1>9 DEF CreateDotacionTemplate
  <2> DEFINE t == [Nueva EXCEPT !.paso = "alta_plantilla", !.fila = PlantillaDe(m)]
  <2>2. t.resto = {} /\ t.cambios = <<>> /\ t.avisar = FALSE /\ t.paso # "editar"
    BY DEF Nueva
  <2> HIDE DEF t
  <2>3. CASE Queda(p, t)
    BY <1>q, <2>2, <2>3
  <2> QED BY <1>r, <2>1, <2>3 DEF t, Respuesta
<1>10. ASSUME NEW paso \in {"finalizar_usuario", "listar_usuario"}, NEW v \in Usuario,
              Queda(p, [Nueva EXCEPT !.paso = paso, !.usuario = v])
       PROVE  Inductiva'
  <2> DEFINE t == [Nueva EXCEPT !.paso = paso, !.usuario = v]
  <2>1. t.resto = {} /\ t.cambios = <<>> /\ t.avisar = FALSE /\ t.paso # "editar"
    BY DEF Nueva
  <2> HIDE DEF t
  <2>2. Queda(p, t)
    BY <1>10 DEF t
  <2> QED BY <1>q, <2>1, <2>2
<1>11. CASE AdvanceUserOnboardingState(p)
  BY <1>10, <1>11, <1>r DEF AdvanceUserOnboardingState, Respuesta
<1>12. CASE DeleteUser(p)
  BY <1>10, <1>12, <1>r, SolicitudesAssumption DEF DeleteUser, Respuesta
<1> QED
  BY <1>3, <1>4, <1>5, <1>6, <1>7, <1>8, <1>9, <1>11, <1>12 DEF Arrive

\* The rows cs tell of the change of request i from row l to row f.
Cuentan(cs, i, l, f) ==
  /\ cs \in Seq(Asiento)
  /\ \A k \in DOMAIN cs :
       cs[k].sol = i /\ (cs[k].tipo \in TipoDeEstado => cs[k].antiguo = l.estado)
  /\ l.estado # f.estado => \E k \in DOMAIN cs : Dice(cs[k], i, f.estado)

LEMMA CambiosCuentan ==
  ASSUME NEW i \in Nat \ {0}, NEW l \in Fila, NEW f \in Fila
  PROVE  Cuentan(Cambios(i, l, f), i, l, f)
<1>1. PICK cs : cs = Cambios(i, l, f)
  OBVIOUS
<1>2. /\ cs \in Seq(Asiento)
      /\ \A k \in DOMAIN cs :
           cs[k].sol = i /\ (cs[k].tipo \in TipoDeEstado => cs[k].antiguo = l.estado)
  BY <1>1, CambiosTipo
<1>3. l.estado # f.estado => \E k \in DOMAIN cs : Dice(cs[k], i, f.estado)
  BY <1>1, CambiosTipo
<1>4. Cuentan(cs, i, l, f)
  BY <1>1, <1>2, <1>3 DEF Cuentan
<1> QED BY <1>1, <1>4

(* The calls that go on.                                                      *)
LEMMA InductivaAlSeguir ==
  ASSUME Inductiva, TypeOK', NEW p \in Peticion, Continue(p) \/ Fail(p)
  PROVE  Inductiva'
<1>0. PICK t : t = peticion[p]
  OBVIOUS
<1>1. /\ peticion \in [Peticion -> Llamada] /\ TypeOK
      /\ t \in Llamada /\ Coherente(t, Ids) /\ Fundada(t, Escritos, Asientos)
      /\ Ids = 1..Len(solicitudes) /\ Len(solicitudes) \in Nat /\ solicitudes \in Seq(Fila)
  BY <1>0, LenProperties DEF Inductiva, TypeOK, Ids, LlamadasFundadas
<1>2. /\ Escritos \subseteq Escritos' /\ Asientos \subseteq Asientos'
      /\ Elementos(t.cambios) \subseteq Escritos' \cup Elementos(peticion'[p].cambios)
      /\ Elementos(peticion'[p].cambios) \subseteq Asientos'
  BY <1>0, <1>1, NadaSePierde DEF Turno, Asientos
<1>3. t.paso \notin {"registrar", "error"} => t.cambios = <<>> /\ Elementos(t.cambios) = {}
  BY <1>1, SinCambios DEF Coherente
<1>4. \A i \in Ids : Consta(Asientos', i, solicitudes[i].estado)
  BY <1>2, ConstaMonotona DEF Inductiva, EstadoAcreditado, Acreditado
<1>f. ASSUME Fundada(peticion'[p], Escritos', Asientos'), correos' = correos,
             \/ solicitudes' = solicitudes
             \/ \A i \in Ids' : Consta(Asientos', i, solicitudes'[i].estado)
      PROVE  Inductiva'
  BY <1>f, TurnoBasta DEF Turno
<1>r. ASSUME NEW r \in Respuesta, Responde(p, r), solicitudes' = solicitudes, correos' = correos
      PROVE  Inductiva'
  <2>1. peticion'[p] = [Nueva EXCEPT !.paso = r] /\ r # "editar"
    BY <1>1, <1>r DEF Responde, Queda, Respuesta
  <2> QED BY <1>f, <1>r, <2>1, NuevaFundada
<1>q. ASSUME NEW x \in {"alta", "alta_dotacion"}, t.paso \in {"plantilla", "alta_dotacion"},
             Queda(p, [t EXCEPT !.paso = x]), solicitudes' = solicitudes, correos' = correos
      PROVE  Inductiva'
  <2>1. PICK s : s = [t EXCEPT !.paso = x]
    OBVIOUS
  <2>2. peticion'[p] = s
    BY <1>1, <1>q, <2>1 DEF Queda
  <2>3. /\ s.paso = x /\ s.resto = t.resto /\ s.cambios = t.cambios /\ s.sol = t.sol
        /\ s.avisar = t.avisar
    BY <1>1, <2>1 DEF Llamada
  <2>4. Fundada(s, Escritos, Asientos)
    BY <1>1, <2>3 DEF Fundada
  <2>5. Fundada(s, Escritos', Asientos')
    BY <1>2, <2>4, FundadaMonotona
  <2> QED BY <1>f, <1>q, <2>2, <2>5
<1>5. CASE SelectTemplate(p)
  <2>1. t.paso = "plantilla" /\ solicitudes' = solicitudes /\ correos' = correos
    BY <1>0, <1>5 DEF SelectTemplate, db
  <2>2. PICK x \in {"alta", "alta_dotacion"} : Queda(p, [t EXCEPT !.paso = x])
    BY <1>0, <1>5 DEF SelectTemplate
  <2> QED BY <1>q, <2>1, <2>2
<1>6. CASE InsertMissingTemplate(p)
  <2>1. /\ t.paso = "alta_dotacion" /\ solicitudes' = solicitudes /\ correos' = correos
        /\ Queda(p, [t EXCEPT !.paso = "alta"])
    BY <1>0, <1>6 DEF InsertMissingTemplate
  <2> QED BY <1>q, <2>1
<1>7. CASE InsertRequest(p)
  <2>1. PICK id, c, s :
          /\ id = Len(solicitudes) + 1
          /\ c = Cambio(id, "CREACION", Nulo, t.fila.estado)
          /\ s = [Nueva EXCEPT !.sol = id, !.cambios = <<c>>]
    OBVIOUS
  <2>2. t.fila \in Fila /\ t.fila.estado \in EstadoFila /\ id \in Nat \ {0}
    BY <1>0, <1>1, <1>7, <2>1 DEF InsertRequest, Coherente, Fila
  <2>3. c \in Asiento /\ c.sol = id /\ c.tipo = "CREACION" /\ c.nuevo = t.fila.estado
    <3>1. "CREACION" \in TipoDeCambio /\ Nulo \in Valor /\ t.fila.estado \in Valor
      BY <2>2, EstadosSonValores
    <3> QED BY <2>1, <2>2, <3>1, CambioTipo
  <2>4. s.cambios = <<c>> /\ s.resto = {} /\ s.avisar = FALSE
    BY <2>1 DEF Nueva
  <2>5. s \in Llamada
    <3>1. id \in Nat /\ <<c>> \in Seq(Asiento)
      BY <2>2, <2>3
    <3> QED BY <2>1, <3>1, NuevaTipo DEF Llamada
  <2>6. Fundable(s, Escritos', Asientos')
    <3>1. s.resto \cup Elementos(s.cambios) = {c}
      BY <2>4, UnCambio
    <3> QED BY <2>3, <2>4, <2>5, <3>1 DEF Fundable
  <2>7. Prosigue(p, s) /\ solicitudes' = Append(solicitudes, t.fila) /\ correos' = correos
    BY <1>0, <1>7, <2>1 DEF InsertRequest
  <2>8. Fundada(peticion'[p], Escritos', Asientos') /\ peticion'[p].cambios = <<c>>
    BY <1>1, <2>4, <2>6, <2>7, ProsigueFundada
  <2>9. ASSUME NEW i \in Ids' PROVE Consta(Asientos', i, solicitudes'[i].estado)
    <3>1. /\ Ids' = 1..id /\ solicitudes'[id] = t.fila
          /\ \A j \in Ids : solicitudes'[j] = solicitudes[j]
      BY <1>1, <2>1, <2>2, <2>7, AppendProperties, LenProperties DEF Ids
    <3>2. CASE i = id
      <4>1. c \in Asientos' /\ Dice(c, id, t.fila.estado)
        BY <1>2, <2>3, <2>8, UnCambio DEF Dice, TipoDeEstado
      <4> QED BY <3>1, <3>2, <4>1 DEF Consta
    <3>3. CASE i # id
      <4>1. i \in Ids
        BY <1>1, <2>1, <3>1, <3>3
      <4> QED BY <1>4, <3>1, <4>1
    <3> QED BY <3>2, <3>3
  <2> QED BY <1>f, <2>7, <2>8, <2>9
<1>8. CASE WriteUpdate(p)
  <2>1. /\ t.paso = "editar" /\ t.fila \in Fila /\ t.leida \in Fila /\ t.sol \in Ids
        /\ t.fila.estado \in EstadoFila /\ t.sol \in Nat \ {0}
        /\ Consta(Asientos, t.sol, t.leida.estado)
    BY <1>0, <1>1, <1>8, FilaDeId DEF WriteUpdate, Coherente, Fila, Fundada
  <2>2. PICK cs, av, s :
          /\ cs = Cambios(t.sol, t.leida, t.fila)
          /\ av = (t.leida.estado # "En proceso" /\ t.fila.estado = "En proceso")
          /\ s = [Nueva EXCEPT !.sol = t.sol, !.cambios = cs, !.avisar = av,
                               !.fin = RespuestaDe(t.fila)]
    OBVIOUS
  <2>3. /\ cs \in Seq(Asiento)
        /\ \A k \in DOMAIN cs :
             /\ cs[k].sol = t.sol
             /\ cs[k].tipo \in TipoDeEstado => cs[k].antiguo = t.leida.estado
        /\ t.leida.estado # t.fila.estado =>
             \E k \in DOMAIN cs : Dice(cs[k], t.sol, t.fila.estado)
    <3>1. Cuentan(cs, t.sol, t.leida, t.fila)
      BY <2>1, <2>2, CambiosCuentan
    <3> QED BY <3>1 DEF Cuentan
  <2>4. /\ \A c \in Elementos(cs) :
             c.sol = t.sol /\ (c.tipo \in TipoDeEstado => c.antiguo = t.leida.estado)
        /\ t.leida.estado # t.fila.estado => Consta(Elementos(cs), t.sol, t.fila.estado)
    BY <2>3 DEF Elementos, Consta
  <2>5. s.cambios = cs /\ s.resto = {} /\ s.avisar = av /\ s.sol = t.sol
    BY <2>2 DEF Nueva
  <2>6. s \in Llamada
    <3>1. av \in BOOLEAN /\ RespuestaDe(t.fila) \in Respuesta
      BY <2>2 DEF RespuestaDe, Respuesta
    <3> QED BY <2>1, <2>2, <2>3, <3>1, NuevaTipo DEF Llamada
  <2>7. Fundable(s, Escritos', Asientos')
    <3>1. Consta(Asientos', t.sol, t.leida.estado)
      BY <1>2, <2>1, ConstaMonotona
    <3>2. \A c \in s.resto \cup Elementos(s.cambios) :
            c.tipo \in {"CAMBIO_ESTADO", "ELIMINACION"} => Consta(Asientos', c.sol, c.antiguo)
      BY <2>4, <2>5, <3>1 DEF TipoDeEstado
    <3>3. s.avisar => Consta(Elementos(s.cambios), s.sol, "En proceso")
      BY <2>2, <2>4, <2>5
    <3>4. s.avisar => Consta(Escritos' \cup Elementos(s.cambios) \cup s.resto, s.sol, "En proceso")
      BY <3>3 DEF Consta
    <3> QED BY <2>6, <3>2, <3>4 DEF Fundable
  <2>8. /\ Prosigue(p, s) /\ correos' = correos
        /\ solicitudes' = [solicitudes EXCEPT ![t.sol] = FilaEscrita(@, t.fila)]
    BY <1>0, <1>8, <2>2 DEF WriteUpdate
  <2>9. Fundada(peticion'[p], Escritos', Asientos') /\ peticion'[p].cambios = cs
    BY <1>1, <2>5, <2>7, <2>8, ProsigueFundada
  <2>10. ASSUME NEW i \in Ids' PROVE Consta(Asientos', i, solicitudes'[i].estado)
    <3>1. Ids' = Ids /\ \A j \in Ids \ {t.sol} : solicitudes'[j] = solicitudes[j]
      BY <2>1, <2>8 DEF Ids
    <3>2. solicitudes'[t.sol].estado = t.fila.estado
      BY <2>1, <2>8 DEF Ids, FilaEscrita, Fila
    <3>3. Consta(Asientos', t.sol, t.fila.estado)
      <4>1. CASE t.leida.estado = t.fila.estado
        BY <1>2, <2>1, <4>1, ConstaMonotona
      <4>2. CASE t.leida.estado # t.fila.estado
        BY <1>2, <2>4, <2>9, <4>2, ConstaMonotona
      <4> QED BY <4>1, <4>2
    <3> QED BY <1>4, <3>1, <3>2, <3>3
  <2> QED BY <1>f, <2>8, <2>9, <2>10
<1>9. CASE WriteState(p)
  <2>1. PICK c \in t.resto :
          /\ solicitudes' = [solicitudes EXCEPT ![c.sol].estado = c.nuevo]
          /\ Prosigue(p, [t EXCEPT !.resto = @ \ {c}, !.cambios = <<c>>])
    BY <1>0, <1>9 DEF WriteState
  <2>2. PICK s : s = [t EXCEPT !.resto = @ \ {c}, !.cambios = <<c>>]
    OBVIOUS
  <2>3. /\ c \in Asiento /\ c.sol \in Ids /\ c.tipo \in {"CAMBIO_ESTADO", "ELIMINACION"}
        /\ correos' = correos /\ t.paso = "marcar"
    BY <1>0, <1>1, <1>9 DEF Coherente, Llamada, WriteState
  <2>4. /\ s.cambios = <<c>> /\ s.resto = t.resto \ {c} /\ s.sol = t.sol
        /\ s.avisar = t.avisar
    BY <1>1, <2>2 DEF Llamada
  <2>5. s \in Llamada
    <3>1. <<c>> \in Seq(Asiento) /\ t.resto \ {c} \in SUBSET Asiento
      BY <1>1, <2>3 DEF Llamada
    <3> QED BY <1>1, <2>2, <3>1 DEF Llamada
  <2>6. s.resto \cup Elementos(s.cambios) = t.resto
    BY <2>4, UnCambio
  <2>7. Fundable(s, Escritos', Asientos')
    <3>1. \A d \in t.resto :
            d.tipo \in {"CAMBIO_ESTADO", "ELIMINACION"} => Consta(Asientos', d.sol, d.antiguo)
      BY <1>1, <1>2, ConstaMonotona DEF Fundada
    <3>2. t.avisar => Consta(Escritos \cup {} \cup t.resto, t.sol, "En proceso")
      BY <1>1, <1>3, <2>3 DEF Fundada
    <3>3. t.avisar => Consta(Escritos' \cup Elementos(s.cambios) \cup s.resto, t.sol, "En proceso")
      BY <1>2, <2>6, <3>2 DEF Consta
    <3> QED BY <2>4, <2>5, <2>6, <3>1, <3>3 DEF Fundable
  <2>8. Fundada(peticion'[p], Escritos', Asientos') /\ peticion'[p].cambios = <<c>>
    BY <1>1, <2>1, <2>2, <2>4, <2>7, ProsigueFundada
  <2>9. ASSUME NEW i \in Ids' PROVE Consta(Asientos', i, solicitudes'[i].estado)
    <3>1. Ids' = Ids /\ \A j \in Ids \ {c.sol} : solicitudes'[j] = solicitudes[j]
      BY <2>1, <2>3 DEF Ids
    <3>2. solicitudes[c.sol] \in Fila
      BY <1>1, <2>3, FilaDeId
    <3>3. solicitudes'[c.sol].estado = c.nuevo
      BY <2>1, <2>3, <3>2 DEF Ids, Fila
    <3>4. c \in Asientos' /\ Dice(c, c.sol, c.nuevo)
      BY <1>2, <2>3, <2>8, UnCambio DEF Dice, TipoDeEstado
    <3> QED BY <1>4, <3>1, <3>3, <3>4 DEF Consta
  <2> QED BY <1>f, <2>3, <2>8, <2>9
<1>10. CASE RegisterHistory(p)
  <2>1. /\ t.cambios \in Seq(Asiento) /\ t.cambios # <<>>
        /\ solicitudes' = solicitudes /\ correos' = correos
    BY <1>0, <1>1, <1>10 DEF RegisterHistory, Coherente, Llamada
  <2>2. PICK s : s = [t EXCEPT !.cambios = Tail(@)]
    OBVIOUS
  <2>3. /\ Elementos(Tail(t.cambios)) \subseteq Elementos(t.cambios)
        /\ Tail(t.cambios) \in Seq(Asiento)
    BY <2>1, CabezaYCola, HeadTailProperties
  <2>4. /\ s.cambios = Tail(t.cambios) /\ s.resto = t.resto /\ s.sol = t.sol
        /\ s.avisar = t.avisar /\ s \in Llamada
    BY <1>1, <2>2, <2>3 DEF Llamada
  <2>5. Prosigue(p, s)
    BY <1>0, <1>10, <2>2 DEF RegisterHistory
  <2>6. peticion'[p].cambios = s.cambios
    <3>1. Fundable(s, Escritos \cup Elementos(t.cambios) \cup t.resto, Asientos)
      <4>1. \A d \in s.resto \cup Elementos(s.cambios) :
              d.tipo \in {"CAMBIO_ESTADO", "ELIMINACION"} => Consta(Asientos, d.sol, d.antiguo)
        BY <1>1, <2>3, <2>4 DEF Fundada
      <4>2. s.avisar => Consta(Escritos \cup Elementos(t.cambios) \cup t.resto, s.sol, "En proceso")
        BY <1>1, <2>4 DEF Fundada
      <4> QED BY <2>4, <4>1, <4>2 DEF Fundable, Consta
    <3> QED BY <1>1, <2>5, <3>1, ProsigueFundada
  <2>7. Fundable(s, Escritos', Asientos')
    <3>1. \A d \in s.resto \cup Elementos(s.cambios) :
            d.tipo \in {"CAMBIO_ESTADO", "ELIMINACION"} => Consta(Asientos', d.sol, d.antiguo)
      BY <1>1, <1>2, <2>3, <2>4, ConstaMonotona DEF Fundada
    <3>2. Escritos \cup Elementos(t.cambios) \cup t.resto
            \subseteq Escritos' \cup Elementos(s.cambios) \cup s.resto
      BY <1>2, <2>4, <2>6
    <3>3. s.avisar => Consta(Escritos' \cup Elementos(s.cambios) \cup s.resto, s.sol, "En proceso")
      BY <1>1, <2>4, <3>2 DEF Fundada, Consta
    <3> QED BY <2>4, <3>1, <3>3 DEF Fundable
  <2>8. Fundada(peticion'[p], Escritos', Asientos')
    BY <1>1, <2>5, <2>7, ProsigueFundada
  <2> QED BY <1>f, <2>1, <2>8
<1>11. CASE SendNotification(p)
  <2>1. /\ t.paso = "avisar" /\ t.avisar /\ t.resto = {} /\ t.cambios = <<>>
        /\ Elementos(t.cambios) = {} /\ solicitudes' = solicitudes
        /\ correos' \in {correos, correos \cup {t.sol}}
    BY <1>0, <1>1, <1>3, <1>11 DEF SendNotification, Coherente, Fundada
  <2>2. PICK s : s = [t EXCEPT !.avisar = FALSE]
    OBVIOUS
  <2>3. s.cambios = <<>> /\ s.resto = {} /\ s.avisar = FALSE /\ s \in Llamada
    BY <1>1, <2>1, <2>2 DEF Llamada
  <2>4. Prosigue(p, s)
    BY <1>0, <1>11, <2>2 DEF SendNotification
  <2>5. Fundable(s, Escritos', Asientos')
    BY <2>3, SinCambios DEF Fundable
  <2>6. Fundada(peticion'[p], Escritos', Asientos')
    BY <1>1, <2>4, <2>5, ProsigueFundada
  <2>7. Consta(Escritos', t.sol, "En proceso")
    BY <1>1, <1>2, <2>1 DEF Fundada, Consta
  <2> QED BY <2>1, <2>6, <2>7, TurnoBasta DEF Turno
<1>12. CASE InsertTemplate(p)
  BY <1>r, <1>12 DEF InsertTemplate, Respuesta
<1>13. CASE WriteUserState(p)
  BY <1>r, <1>13 DEF WriteUserState, Respuesta
<1>14. CASE SelectUserRequests(p)
  <2>1. /\ t.paso = "listar_usuario" /\ t.resto = {} /\ t.cambios = <<>>
        /\ Elementos(t.cambios) = {} /\ solicitudes' = solicitudes /\ correos' = correos
    BY <1>0, <1>1, <1>3, <1>14 DEF SelectUserRequests, db, Fundada
  <2>2. PICK resto, s :
          /\ resto = {Cambio(i, "ELIMINACION", solicitudes[i].estado, "Eliminada") :
                        i \in {j \in Ids : solicitudes[j].id_empleado = t.usuario}}
          /\ s = [t EXCEPT !.resto = resto]
    OBVIOUS
  <2>3. ASSUME NEW c \in resto PROVE c \in Asiento /\ Consta(Asientos, c.sol, c.antiguo)
    <3>1. PICK i \in Ids : c = Cambio(i, "ELIMINACION", solicitudes[i].estado, "Eliminada")
      BY <2>2
    <3>2. "Eliminada" \in EstadoFila
      BY EstadosSonValores
    <3> QED BY <3>1, <3>2, CambioFundado
  <2>4. /\ s.cambios = <<>> /\ s.resto = resto /\ s.sol = t.sol /\ s.avisar = t.avisar
        /\ s \in Llamada
    BY <1>1, <2>1, <2>2, <2>3 DEF Llamada
  <2>5. Prosigue(p, s)
    BY <1>0, <1>14, <2>2 DEF SelectUserRequests
  <2>6. Fundable(s, Escritos, Asientos)
    <3>1. t.avisar => Consta(Escritos, t.sol, "En proceso")
      BY <1>1, <2>1 DEF Fundada, Consta
    <3> QED BY <2>3, <2>4, <3>1, SinCambios DEF Fundable, Consta
  <2>7. Fundada(peticion'[p], Escritos, Asientos)
    BY <1>1, <2>5, <2>6, ProsigueFundada
  <2>8. Fundada(peticion'[p], Escritos', Asientos')
    BY <1>2, <2>7, FundadaMonotona
  <2> QED BY <1>f, <2>1, <2>8
<1>15. CASE MarkUserDeleted(p)
  BY <1>r, <1>15 DEF MarkUserDeleted, Respuesta
<1>16. CASE Fail(p)
  <2>1. PICK s : s = [Nueva EXCEPT !.paso = "error", !.cambios = t.cambios]
    OBVIOUS
  <2>2. peticion'[p] = s /\ solicitudes' = solicitudes /\ correos' = correos
    BY <1>0, <1>1, <1>16, <2>1 DEF Fail, Queda, db
  <2>3. s.paso = "error" /\ s.cambios = t.cambios /\ s.resto = {} /\ s.avisar = FALSE
    BY <2>1 DEF Nueva
  <2>4. Fundada(s, Escritos, Asientos)
    BY <1>1, <2>3 DEF Fundada
  <2>5. Fundada(s, Escritos', Asientos')
    BY <1>2, <2>4, FundadaMonotona
  <2> QED BY <1>f, <2>2, <2>5
<1> QED
  BY <1>5, <1>6, <1>7, <1>8, <1>9, <1>10, <1>11, <1>12, <1>13, <1>14, <1>15, <1>16 DEF Continue

LEMMA InductivaAlPrincipio == Init => Inductiva
<1> SUFFICES ASSUME Init PROVE Inductiva
  OBVIOUS
<1>1. TypeOK
  BY TipoInicial
<1>2. ASSUME NEW i \in Ids
      PROVE  /\ i \in DOMAIN historial /\ historial[i].tipo = "CREACION"
             /\ Dice(historial[i], i, solicitudes[i].estado)
  <2>1. historial[i] = Cambio(i, "CREACION", Nulo, solicitudes[i].estado) /\ i \in DOMAIN historial
    BY DEF Init, Ids
  <2>2. /\ i \in Nat \ {0} /\ solicitudes[i].estado \in EstadoFila
        /\ "CREACION" \in TipoDeCambio /\ Nulo \in Valor /\ solicitudes[i].estado \in Valor
    BY <1>1, FilaDeId, EstadosSonValores
  <2> QED BY <2>1, <2>2, CambioTipo DEF Dice, TipoDeEstado
<1>3. EstadoAcreditado
  BY <1>2 DEF EstadoAcreditado, Acreditado, Consta, Asientos, Escritos, Elementos
<1>4. HistorialVeraz
  <2>1. \A h \in Escritos : h.tipo = "CREACION"
    BY <1>2 DEF Escritos, Elementos, Init, Ids
  <2> QED BY <2>1 DEF HistorialVeraz
<1>5. LlamadasFundadas
  <2>1. \A p \in Peticion : peticion[p] = Nueva
    BY DEF Init
  <2>2. /\ Elementos(Nueva.cambios) = {} /\ Nueva.resto = {} /\ Nueva.avisar = FALSE
        /\ Nueva.paso = "nueva"
    BY SinCambios DEF Nueva
  <2> QED BY <2>1, <2>2 DEF LlamadasFundadas, Fundada
<1>6. AvisoFundado
  BY DEF Init, AvisoFundado
<1> QED BY <1>1, <1>3, <1>4, <1>5, <1>6 DEF Inductiva

LEMMA InductivaSeConserva == Spec => []Inductiva
<1>1. Inductiva /\ TypeOK' /\ [Next]_vars => Inductiva'
  <2> SUFFICES ASSUME Inductiva, TypeOK', [Next]_vars PROVE Inductiva'
    OBVIOUS
  <2>1. CASE \E p \in Peticion : Arrive(p) \/ Continue(p) \/ Fail(p)
    BY <2>1, InductivaAlLlegar, InductivaAlSeguir
  <2>2. CASE UNCHANGED vars
    BY <2>2 DEF vars, Inductiva, TypeOK, Ids, EstadoAcreditado, Acreditado, Asientos, Escritos,
       HistorialVeraz, LlamadasFundadas, AvisoFundado, Registrado
  <2> QED BY <2>1, <2>2 DEF Next, Terminated
<1> QED BY <1>1, TypeCorrect, InductivaAlPrincipio, PTL DEF Spec
----------------------------------------------------------------------------
(* The estado of a request is always accounted for: HISTORIAL says it, or a    *)
(* call that wrote it still owes the row or failed owing it.                   *)
THEOREM EstadoSiempreAcreditado == Spec => []EstadoAcreditado
<1>1. Inductiva => EstadoAcreditado
  BY DEF Inductiva
<1> QED BY <1>1, InductivaSeConserva, PTL

(* HISTORIAL says only that requests left estados they had.                   *)
THEOREM HistorialSiempreVeraz == Spec => []HistorialVeraz
<1>1. Inductiva => HistorialVeraz
  BY DEF Inductiva
<1> QED BY <1>1, InductivaSeConserva, PTL

(* What a pending call read and still holds was true of its request.          *)
THEOREM LlamadasSiempreFundadas == Spec => []LlamadasFundadas
<1>1. Inductiva => LlamadasFundadas
  BY DEF Inductiva
<1> QED BY <1>1, InductivaSeConserva, PTL

(* Nobody is mailed what HISTORIAL does not say yet.                          *)
THEOREM AvisoSiempreFundado == Spec => []AvisoFundado
<1>1. Inductiva => AvisoFundado
  BY DEF Inductiva
<1> QED BY <1>1, InductivaSeConserva, PTL

(* With every call answered and none in error, HISTORIAL has the estado of     *)
(* every request: nobody owes a row any more.                                  *)
THEOREM HistorialSiempreCompleto == Spec => []HistorialCompleto
<1>1. Inductiva => HistorialCompleto
  <2> SUFFICES ASSUME Inductiva, NEW i \in Ids,
                      \A p \in Peticion : peticion[p].paso \in {"nueva", "ok", "negada"}
               PROVE  Registrado(i, solicitudes[i].estado)
    BY DEF HistorialCompleto
  <2>1. ASSUME NEW p \in Peticion PROVE Elementos(peticion[p].cambios) = {}
    <3>1. peticion[p].cambios = <<>>
      BY DEF Inductiva, TypeOK, Coherente
    <3> QED BY <3>1, SinCambios
  <2>2. Asientos = Escritos
    BY <2>1 DEF Asientos
  <2> QED BY <2>2 DEF Inductiva, EstadoAcreditado, Acreditado, Registrado
<1> QED BY <1>1, InductivaSeConserva, PTL

----------------------------------------------------------------------------
(* A call goes from one statement to the next only after a write.             *)
LEMMA PasoDeProsigue ==
  ASSUME NEW p \in Peticion, NEW t, Prosigue(p, t), t.fin \in Respuesta,
         {"paso", "resto"} \subseteq DOMAIN t,
         peticion \in [Peticion -> Llamada]
  PROVE  /\ peticion'[p].paso
              \notin {"plantilla", "alta_dotacion", "alta", "editar", "alta_plantilla"}
         /\ peticion'[p].resto \subseteq t.resto
         /\ "usuario" \in DOMAIN t /\ peticion'[p].resto # {} => peticion'[p].usuario = t.usuario
<1>1. CASE Siguiente(t) \in Respuesta
  <2>1. peticion'[p] = [Nueva EXCEPT !.paso = Siguiente(t)]
    BY <1>1 DEF Prosigue, Responde, Queda
  <2>2. peticion'[p].paso = Siguiente(t) /\ peticion'[p].resto = {}
    BY <2>1 DEF Nueva
  <2> QED BY <1>1, <2>2 DEF Respuesta
<1>2. CASE Siguiente(t) \notin Respuesta
  <2>1. peticion'[p] = [t EXCEPT !.paso = Siguiente(t)]
    BY <1>2 DEF Prosigue, Queda
  <2>2. /\ peticion'[p].paso = Siguiente(t) /\ peticion'[p].resto = t.resto
        /\ "usuario" \in DOMAIN t => peticion'[p].usuario = t.usuario
    BY <2>1
  <2>3. Siguiente(t) \in {"registrar", "marcar", "avisar", "baja_usuario"}
    BY <1>2 DEF Siguiente, Respuesta
  <2> QED BY <2>2, <2>3
<1> QED BY <1>1, <1>2

(* A call is left on its way to write a row it has composed by five actions.   *)
LEMMA PasoSiguiente ==
  ASSUME TypeOK, NEW p \in Peticion, Turno(p),
         peticion'[p].paso \in {"plantilla", "alta_dotacion", "alta", "editar", "alta_plantilla"}
  PROVE  \/ CreateOnboardingRequest(p)
         \/ UpdateOnboardingRequest(p)
         \/ SelectTemplate(p)
         \/ InsertMissingTemplate(p)
         \/ CreateDotacionTemplate(p) /\ peticion'[p].paso = "alta_plantilla"
<1> DEFINE Camino == {"plantilla", "alta_dotacion", "alta", "editar", "alta_plantilla"}
<1>1. /\ peticion \in [Peticion -> Llamada]
      /\ peticion[p].fin \in Respuesta
      /\ {"paso", "resto", "cambios", "avisar"} \subseteq DOMAIN peticion[p]
  BY DEF TypeOK, Llamada
<1>2. ASSUME NEW t, Prosigue(p, t), t.fin \in Respuesta, {"paso", "resto"} \subseteq DOMAIN t
      PROVE  peticion'[p].paso \notin Camino
  BY <1>1, <1>2, PasoDeProsigue
<1>3. ASSUME NEW t, Queda(p, t) PROVE peticion'[p] = t
  BY <1>1, <1>3 DEF Queda
<1>4. ASSUME NEW r \in Respuesta, Responde(p, r) PROVE peticion'[p].paso \notin Camino
  <2>1. peticion'[p] = [Nueva EXCEPT !.paso = r]
    BY <1>3, <1>4 DEF Responde
  <2> QED BY <2>1 DEF Nueva, Respuesta
<1>5. ASSUME NEW resto, Marca(p, resto) PROVE peticion'[p].paso \notin Camino
  <2> DEFINE t == [Nueva EXCEPT !.resto = resto]
  <2>1. Prosigue(p, t) /\ t.fin \in Respuesta /\ {"paso", "resto"} \subseteq DOMAIN t
    BY <1>5 DEF Marca, Nueva, Respuesta
  <2> HIDE DEF t
  <2> QED BY <1>2, <2>1
<1>6. CASE AdvanceOnboardingRequestState(p)
  <2>1. CASE Responde(p, "negada")
    BY <1>4, <2>1 DEF Respuesta
  <2>2. CASE ~Responde(p, "negada")
    <3>1. PICK i, r, a : Prosigue(p, [Nueva EXCEPT !.sol = i, !.resto = r, !.avisar = a])
      BY <1>6, <2>2 DEF AdvanceOnboardingRequestState
    <3> DEFINE t == [Nueva EXCEPT !.sol = i, !.resto = r, !.avisar = a]
    <3>2. Prosigue(p, t) /\ t.fin \in Respuesta /\ {"paso", "resto"} \subseteq DOMAIN t
      BY <3>1 DEF Nueva, Respuesta
    <3> HIDE DEF t
    <3> QED BY <1>2, <3>2
  <2> QED BY <2>1, <2>2
<1>7. CASE RejectOnboardingRequest(p)
  BY <1>4, <1>5, <1>7 DEF RejectOnboardingRequest, Respuesta
<1>8. CASE DeleteOnboardingRequest(p)
  BY <1>4, <1>5, <1>8 DEF DeleteOnboardingRequest, Respuesta
<1>9. CASE DeleteMyOnboardingRequests(p)
  BY <1>5, <1>9 DEF DeleteMyOnboardingRequests
<1>10. CASE CreateDotacionTemplate(p)
  <2>1. PICK f : Queda(p, [Nueva EXCEPT !.paso = "alta_plantilla", !.fila = f]) \/ Responde(p, "negada")
    BY <1>10 DEF CreateDotacionTemplate
  <2>2. [Nueva EXCEPT !.paso = "alta_plantilla", !.fila = f].paso = "alta_plantilla"
    BY DEF Nueva
  <2> QED BY <1>3, <1>4, <1>10, <2>1, <2>2 DEF Respuesta
<1>11. CASE AdvanceUserOnboardingState(p)
  <2>1. PICK v : Queda(p, [Nueva EXCEPT !.paso = "finalizar_usuario", !.usuario = v])
                   \/ Responde(p, "negada")
    BY <1>11 DEF AdvanceUserOnboardingState
  <2>2. [Nueva EXCEPT !.paso = "finalizar_usuario", !.usuario = v].paso = "finalizar_usuario"
    BY DEF Nueva
  <2> QED BY <1>3, <1>4, <2>1, <2>2 DEF Respuesta
<1>12. CASE DeleteUser(p)
  <2>1. PICK v : Queda(p, [Nueva EXCEPT !.paso = "listar_usuario", !.usuario = v])
                   \/ Responde(p, "negada")
    BY <1>12 DEF DeleteUser
  <2>2. [Nueva EXCEPT !.paso = "listar_usuario", !.usuario = v].paso = "listar_usuario"
    BY DEF Nueva
  <2> QED BY <1>3, <1>4, <2>1, <2>2 DEF Respuesta
<1>13. CASE InsertRequest(p)
  <2>1. PICK i, cs : Prosigue(p, [Nueva EXCEPT !.sol = i, !.cambios = cs])
    BY <1>13 DEF InsertRequest
  <2> DEFINE t == [Nueva EXCEPT !.sol = i, !.cambios = cs]
  <2>2. Prosigue(p, t) /\ t.fin \in Respuesta /\ {"paso", "resto"} \subseteq DOMAIN t
    BY <2>1 DEF Nueva, Respuesta
  <2> HIDE DEF t
  <2> QED BY <1>2, <2>2
<1>14. CASE WriteUpdate(p)
  <2> DEFINE r == RespuestaDe(peticion[p].fila)
  <2>3. r \in Respuesta
    BY DEF RespuestaDe, Respuesta
  <2>1. PICK i, cs, a :
          Prosigue(p, [Nueva EXCEPT !.sol = i, !.cambios = cs, !.avisar = a, !.fin = r])
    BY <1>14 DEF WriteUpdate
  <2> HIDE DEF r
  <2> DEFINE t == [Nueva EXCEPT !.sol = i, !.cambios = cs, !.avisar = a, !.fin = r]
  <2>2. Prosigue(p, t) /\ t.fin \in Respuesta /\ {"paso", "resto"} \subseteq DOMAIN t
    BY <2>1, <2>3 DEF Nueva
  <2> HIDE DEF t
  <2> QED BY <1>2, <2>2
<1>15. CASE WriteState(p)
  <2>1. PICK r, cs : Prosigue(p, [peticion[p] EXCEPT !.resto = r, !.cambios = cs])
    BY <1>15 DEF WriteState
  <2> DEFINE t == [peticion[p] EXCEPT !.resto = r, !.cambios = cs]
  <2>2. Prosigue(p, t) /\ t.fin \in Respuesta /\ {"paso", "resto"} \subseteq DOMAIN t
    BY <1>1, <2>1 DEF TypeOK, Llamada
  <2> HIDE DEF t
  <2> QED BY <1>2, <2>2
<1>16. CASE RegisterHistory(p)
  <2>1. PICK cs : Prosigue(p, [peticion[p] EXCEPT !.cambios = cs])
    BY <1>16 DEF RegisterHistory
  <2> DEFINE t == [peticion[p] EXCEPT !.cambios = cs]
  <2>2. Prosigue(p, t) /\ t.fin \in Respuesta /\ {"paso", "resto"} \subseteq DOMAIN t
    BY <1>1, <2>1 DEF TypeOK, Llamada
  <2> HIDE DEF t
  <2> QED BY <1>2, <2>2
<1>17. CASE SendNotification(p)
  <2> DEFINE t == [peticion[p] EXCEPT !.avisar = FALSE]
  <2>1. Prosigue(p, t) /\ t.fin \in Respuesta /\ {"paso", "resto"} \subseteq DOMAIN t
    BY <1>1, <1>17 DEF SendNotification, TypeOK, Llamada
  <2> HIDE DEF t
  <2> QED BY <1>2, <2>1
<1>18. CASE SelectUserRequests(p)
  <2>1. PICK r : Prosigue(p, [peticion[p] EXCEPT !.resto = r])
    BY <1>18 DEF SelectUserRequests
  <2> DEFINE t == [peticion[p] EXCEPT !.resto = r]
  <2>2. Prosigue(p, t) /\ t.fin \in Respuesta /\ {"paso", "resto"} \subseteq DOMAIN t
    BY <1>1, <2>1 DEF TypeOK, Llamada
  <2> HIDE DEF t
  <2> QED BY <1>2, <2>2
<1>19. CASE InsertTemplate(p) \/ WriteUserState(p) \/ MarkUserDeleted(p)
  BY <1>4, <1>19 DEF InsertTemplate, WriteUserState, MarkUserDeleted, Respuesta
<1>20. CASE Fail(p)
  <2>1. peticion'[p] = [Nueva EXCEPT !.paso = "error", !.cambios = peticion[p].cambios]
    BY <1>3, <1>20 DEF Fail
  <2>2. peticion'[p].paso = "error"
    BY <2>1 DEF Nueva
  <2> QED BY <2>2
<1> QED
  BY <1>6, <1>7, <1>8, <1>9, <1>10, <1>11, <1>12, <1>13, <1>14, <1>15, <1>16, <1>17, <1>18,
     <1>19, <1>20 DEF Turno, Arrive, Continue

\* The three statements that write SOLICITUDES and the two that write DOTACION.
LEMMA TablasQueTocan ==
  ASSUME NEW p \in Peticion, Turno(p)
  PROVE  /\ \/ solicitudes' = solicitudes
            \/ InsertRequest(p) \/ WriteUpdate(p) \/ WriteState(p)
         /\ dotacion' = dotacion \/ InsertMissingTemplate(p) \/ InsertTemplate(p)
  BY DEF Turno, Arrive, Continue, Fail, db, CreateOnboardingRequest, UpdateOnboardingRequest,
     AdvanceOnboardingRequestState, RejectOnboardingRequest, DeleteOnboardingRequest,
     DeleteMyOnboardingRequests, CreateDotacionTemplate, AdvanceUserOnboardingState, DeleteUser,
     SelectTemplate, InsertMissingTemplate, InsertRequest, WriteUpdate, WriteState,
     RegisterHistory, SendNotification, InsertTemplate, WriteUserState, SelectUserRequests,
     MarkUserDeleted
----------------------------------------------------------------------------
(* Every request has its template.                                          *)

\* As HayPlantilla and TipoEditado, of any catalogue and any rows.
Tiene(plantillas, spec) == \E d \in plantillas : Clave[d.especificacion] = Clave[spec]
Editado(asientos, i) ==
  \E h \in asientos : h.sol = i /\ h.tipo = "CAMBIO_ESPECIFICACIONES"

FilaPlantada(A, D, i, spec) == Editado(A, i) \/ Tiene(D, spec)

\* A call that is about to write a row has its template, or has read the
\* especificaciones of a row that had it.
LlamadaPlantada(A, D, t) ==
  /\ t.paso = "alta" => Tiene(D, t.fila.especificaciones)
  /\ t.paso = "editar" => FilaPlantada(A, D, t.sol, t.leida.especificaciones)

Plantadas ==
  /\ \A i \in Ids : FilaPlantada(Asientos, Elementos(dotacion), i, solicitudes[i].especificaciones)
  /\ \A p \in Peticion : LlamadaPlantada(Asientos, Elementos(dotacion), peticion[p])

(* A PATCH is answered at once, or holds the row it read and the new one.     *)
LEMMA EdicionAlLlegar ==
  ASSUME TypeOK, NEW p \in Peticion, UpdateOnboardingRequest(p)
  PROVE  \/ peticion'[p].paso \in Respuesta
         \/ \E i \in Ids, e \in Ediciones :
              /\ peticion'[p].paso = "editar" /\ peticion'[p].sol = i
              /\ peticion'[p].leida = solicitudes[i]
              /\ peticion'[p].fila = FilaEditada(solicitudes[i], e)
<1>1. peticion \in [Peticion -> Llamada]
  BY DEF TypeOK
<1>2. CASE \E r \in Respuesta : Responde(p, r)
  <2>1. PICK r \in Respuesta : Queda(p, [Nueva EXCEPT !.paso = r])
    BY <1>2 DEF Responde
  <2>2. peticion'[p] = [Nueva EXCEPT !.paso = r]
    BY <1>1, <2>1 DEF Queda
  <2>3. peticion'[p].paso = r
    BY <2>2 DEF Nueva
  <2> QED BY <2>1, <2>3
<1>3. CASE \E i \in Ids, e \in Ediciones :
             Queda(p, [Nueva EXCEPT !.paso = "editar", !.sol = i, !.leida = solicitudes[i],
                                    !.fila = FilaEditada(solicitudes[i], e)])
  <2>1. PICK i \in Ids, e \in Ediciones :
          Queda(p, [Nueva EXCEPT !.paso = "editar", !.sol = i, !.leida = solicitudes[i],
                                 !.fila = FilaEditada(solicitudes[i], e)])
    BY <1>3
  <2> DEFINE leida == solicitudes[i]
             fila == FilaEditada(solicitudes[i], e)
  <2>2. peticion'[p] = [Nueva EXCEPT !.paso = "editar", !.sol = i, !.leida = leida, !.fila = fila]
    BY <1>1, <2>1 DEF Queda
  <2> HIDE DEF leida, fila
  <2>3. /\ peticion'[p].paso = "editar" /\ peticion'[p].sol = i
        /\ peticion'[p].leida = leida /\ peticion'[p].fila = fila
    BY <2>2 DEF Nueva
  <2> QED BY <2>3 DEF leida, fila
<1>4. "negada" \in Respuesta /\ \A fila : RespuestaDe(fila) \in Respuesta
  BY DEF Respuesta, RespuestaDe
<1> QED BY <1>2, <1>3, <1>4, Zenon DEF UpdateOnboardingRequest, EdicionAdmitida

LEMMA PlantadasDice == Plantadas => TodaSolicitudTienePlantilla
  BY DEF Plantadas, TodaSolicitudTienePlantilla, FilaPlantada, Tiene, Editado, HayPlantilla,
     TipoEditado

LEMMA PlantadaMonotona ==
  ASSUME NEW A, NEW D, NEW B, NEW E, A \subseteq B, D \subseteq E
  PROVE  /\ \A i, spec : FilaPlantada(A, D, i, spec) => FilaPlantada(B, E, i, spec)
         /\ \A t : LlamadaPlantada(A, D, t) => LlamadaPlantada(B, E, t)
  BY DEF FilaPlantada, LlamadaPlantada, Tiene, Editado

(* A concatenation has the elements of its parts.                             *)
LEMMA ElementosDeConcat ==
  ASSUME NEW S, NEW s \in Seq(S), NEW t \in Seq(S)
  PROVE  /\ s \o t \in Seq(S)
         /\ Elementos(s) \subseteq Elementos(s \o t)
         /\ Elementos(t) \subseteq Elementos(s \o t)
<1> DEFINE u == s \o t
<1>1. /\ u \in Seq(S) /\ Len(u) = Len(s) + Len(t)
      /\ \A k \in 1..Len(s) + Len(t) : u[k] = IF k <= Len(s) THEN s[k] ELSE t[k - Len(s)]
  BY ConcatProperties
<1>2. /\ Len(s) \in Nat /\ Len(t) \in Nat
      /\ DOMAIN s = 1..Len(s) /\ DOMAIN t = 1..Len(t) /\ DOMAIN u = 1..Len(u)
  BY <1>1, LenProperties
<1> HIDE DEF u
<1>3. ASSUME NEW k \in DOMAIN s PROVE k \in DOMAIN u /\ u[k] = s[k]
  BY <1>1, <1>2
<1>4. ASSUME NEW k \in DOMAIN t PROVE Len(s) + k \in DOMAIN u /\ u[Len(s) + k] = t[k]
  <2>1. /\ Len(s) + k \in 1..Len(s) + Len(t) /\ ~(Len(s) + k <= Len(s))
        /\ (Len(s) + k) - Len(s) = k
    BY <1>2
  <2> QED BY <1>1, <1>2, <2>1
<1>5. u \in Seq(S) /\ Elementos(s) \subseteq Elementos(u) /\ Elementos(t) \subseteq Elementos(u)
  BY <1>1, <1>3, <1>4 DEF Elementos
<1> QED BY <1>5 DEF u

(* A PATCH that writes other especificaciones than it read owes a row.        *)
LEMMA CambioDeTipoConsta ==
  ASSUME NEW i \in Nat \ {0}, NEW l \in Fila, NEW f \in Fila,
         l.especificaciones # f.especificaciones
  PROVE  Cambio(i, "CAMBIO_ESPECIFICACIONES", l.especificaciones, f.especificaciones)
           \in Elementos(Cambios(i, l, f))
<1> DEFINE A == SiCambia(i, "CAMBIO_ESTADO", l.estado, f.estado)
           B == SiCambia(i, "CAMBIO_FECHA_FIN", l.fecha_fin, f.fecha_fin)
           C == SiCambia(i, "CAMBIO_ESPECIFICACIONES", l.especificaciones, f.especificaciones)
           D == SiCambia(i, "CAMBIO_DESTINATARIO", l.destinatario, f.destinatario)
<1>1. Cambios(i, l, f) = ((A \o B) \o C) \o D
  BY DEF Cambios
<1>2. A \in Seq(Asiento) /\ B \in Seq(Asiento) /\ C \in Seq(Asiento) /\ D \in Seq(Asiento)
  <2>1. {"CAMBIO_ESTADO", "CAMBIO_FECHA_FIN", "CAMBIO_ESPECIFICACIONES", "CAMBIO_DESTINATARIO"}
          \subseteq TipoDeCambio
    BY DEF TipoDeCambio, TipoDeEstado, TipoDeCampo
  <2>2. /\ {l.estado, l.fecha_fin, l.especificaciones, l.destinatario} \subseteq Valor
        /\ {f.estado, f.fecha_fin, f.especificaciones, f.destinatario} \subseteq Valor
    BY DEF Fila, Valor
  <2> QED BY <2>1, <2>2, SiCambiaTipo
<1>3. Elementos(C) = {Cambio(i, "CAMBIO_ESPECIFICACIONES", l.especificaciones, f.especificaciones)}
  BY UnCambio DEF SiCambia
<1> HIDE DEF A, B, C, D
<1>4. Elementos(C) \subseteq Elementos(((A \o B) \o C) \o D)
  <2>1. A \o B \in Seq(Asiento)
    BY <1>2, ElementosDeConcat
  <2> DEFINE AB == A \o B
  <2> HIDE DEF AB
  <2>2. AB \o C \in Seq(Asiento) /\ Elementos(C) \subseteq Elementos(AB \o C)
    BY <1>2, <2>1, ElementosDeConcat DEF AB
  <2>3. Elementos(AB \o C) \subseteq Elementos((AB \o C) \o D)
    BY <1>2, <2>2, ElementosDeConcat
  <2> QED BY <2>2, <2>3 DEF AB
<1> QED BY <1>1, <1>3, <1>4

LEMMA EdicionDeTipoConsta ==
  ASSUME TypeOK, NEW p \in Peticion, WriteUpdate(p), NEW l, NEW f,
         l = peticion[p].leida.especificaciones, f = peticion[p].fila.especificaciones, l # f
  PROVE  Cambio(peticion[p].sol, "CAMBIO_ESPECIFICACIONES", l, f) \in Asientos'
<1> DEFINE t == peticion[p]
<1>1. PICK s, cs :
        /\ cs = Cambios(t.sol, t.leida, t.fila)
        /\ s = [Nueva EXCEPT !.sol     = t.sol,
                             !.cambios = cs,
                             !.avisar  = t.leida.estado # "En proceso"
                                           /\ t.fila.estado = "En proceso",
                             !.fin     = RespuestaDe(t.fila)]
        /\ Prosigue(p, s)
  BY DEF WriteUpdate
<1>2. s.cambios = cs /\ "cambios" \in DOMAIN s
  BY <1>1 DEF Nueva
<1>3. Cambio(t.sol, "CAMBIO_ESPECIFICACIONES", l, f) \in Elementos(cs)
  <2>1. /\ peticion \in [Peticion -> Llamada] /\ t.fila \in Fila /\ t.leida \in Fila
        /\ t.sol \in Nat \ {0}
    BY FilaDeId DEF TypeOK, Coherente, WriteUpdate
  <2> QED BY <1>1, <2>1, CambioDeTipoConsta
<1>4. Siguiente(s) = "registrar"
  <2>1. s.cambios # <<>>
    BY <1>2, <1>3, SinCambios
  <2> QED BY <2>1 DEF Siguiente
<1>5. peticion'[p] = [s EXCEPT !.paso = "registrar"]
  BY <1>1, <1>4 DEF Prosigue, Queda, Respuesta, TypeOK
<1>6. peticion'[p].cambios = cs
  BY <1>2, <1>5
<1>7. Elementos(peticion'[p].cambios) \subseteq Asientos'
  BY DEF Asientos
<1> QED BY <1>3, <1>6, <1>7

LEMMA PlantadasSeConserva ==
  ASSUME TypeOK, Plantadas, NEW p \in Peticion, Turno(p)
  PROVE  Plantadas'
<1> DEFINE t == peticion[p]
           D == Elementos(dotacion)
           E == Elementos(dotacion')
<1>1. /\ peticion \in [Peticion -> Llamada] /\ t \in Llamada /\ Coherente(t, Ids)
      /\ dotacion \in Seq(Plantilla) /\ Asientos \subseteq Asientos'
  BY NadaSePierde DEF TypeOK
<1>2. D \subseteq E
  <2>1. CASE InsertMissingTemplate(p)
    <3>1. PICK d : dotacion' = Append(dotacion, d) /\ d \in Plantilla
      BY <1>1, <2>1 DEF InsertMissingTemplate, Coherente, Plantilla, Fila
    <3> QED BY <1>1, <3>1, ElementosDeAppend
  <2>2. CASE InsertTemplate(p)
    <3>1. PICK d : dotacion' = Append(dotacion, d) /\ d \in Plantilla
      BY <1>1, <2>2 DEF InsertTemplate, Coherente
    <3> QED BY <1>1, <3>1, ElementosDeAppend
  <2> QED BY <2>1, <2>2, TablasQueTocan
<1>3. /\ \A i, spec : FilaPlantada(Asientos, D, i, spec) => FilaPlantada(Asientos', E, i, spec)
      /\ \A s : LlamadaPlantada(Asientos, D, s) => LlamadaPlantada(Asientos', E, s)
  BY <1>1, <1>2, PlantadaMonotona
<1>4. ASSUME NEW i \in Ids
      PROVE  FilaPlantada(Asientos', E, i, solicitudes[i].especificaciones)
  BY <1>3 DEF Plantadas
<1>5. LlamadaPlantada(Asientos', E, t)
  BY <1>3 DEF Plantadas
<1>6. LlamadaPlantada(Asientos', E, peticion'[p])
  <2>1. CASE peticion'[p].paso \notin {"plantilla", "alta_dotacion", "alta", "editar"}
    BY <2>1 DEF LlamadaPlantada
  <2>2. CASE CreateOnboardingRequest(p)
    <3>1. PICK f : \/ peticion'[p] = [Nueva EXCEPT !.paso = "plantilla", !.fila = f]
                   \/ peticion'[p] = [Nueva EXCEPT !.paso = "negada"]
      BY <1>1, <2>2 DEF CreateOnboardingRequest, Queda, Responde
    <3>2. peticion'[p].paso \in {"plantilla", "negada"}
      BY <3>1 DEF Nueva
    <3> QED BY <3>2 DEF LlamadaPlantada
  <2>3. CASE UpdateOnboardingRequest(p)
    <3>1. \/ peticion'[p].paso \in Respuesta
          \/ \E i \in Ids : /\ peticion'[p].paso = "editar" /\ peticion'[p].sol = i
                            /\ peticion'[p].leida = solicitudes[i]
      BY <2>3, EdicionAlLlegar
    <3>2. "alta" \notin Respuesta /\ "editar" \notin Respuesta
      BY DEF Respuesta
    <3> QED BY <1>4, <3>1, <3>2 DEF LlamadaPlantada
  <2>4. CASE SelectTemplate(p)
    <3>1. PICK r : /\ r = (IF HayPlantilla(t.fila.especificaciones) THEN "alta" ELSE "alta_dotacion")
                   /\ peticion'[p] = [t EXCEPT !.paso = r]
      BY <1>1, <2>4 DEF SelectTemplate, Queda
    <3>2. peticion'[p].paso = r /\ peticion'[p].fila = t.fila /\ dotacion' = dotacion
      BY <1>1, <2>4, <3>1 DEF Llamada, SelectTemplate, db
    <3>3. HayPlantilla(t.fila.especificaciones) => Tiene(E, t.fila.especificaciones)
      BY <3>2 DEF HayPlantilla, Tiene
    <3> QED BY <3>1, <3>2, <3>3 DEF LlamadaPlantada
  <2>5. CASE InsertMissingTemplate(p)
    <3>1. PICK d : /\ d = [encargado      |-> t.fila.destinatario,
                           especificacion |-> t.fila.especificaciones]
                   /\ dotacion' = Append(dotacion, d) /\ d \in Plantilla
      BY <1>1, <2>5 DEF InsertMissingTemplate, Coherente, Plantilla, Fila
    <3>2. d \in E /\ d.especificacion = t.fila.especificaciones
      BY <1>1, <3>1, ElementosDeAppend
    <3>3. peticion'[p] = [t EXCEPT !.paso = "alta"]
      BY <1>1, <2>5 DEF InsertMissingTemplate, Queda
    <3>4. peticion'[p].paso = "alta" /\ peticion'[p].fila = t.fila
      BY <1>1, <3>3 DEF Llamada
    <3> QED BY <3>2, <3>4 DEF LlamadaPlantada, Tiene
  <2> QED BY <2>1, <2>2, <2>3, <2>4, <2>5, PasoSiguiente
<1>7. ASSUME NEW q \in Peticion PROVE LlamadaPlantada(Asientos', E, peticion'[q])
  <2>1. CASE q = p
    BY <1>6, <2>1
  <2>2. CASE q # p
    <3>1. peticion'[q] = peticion[q]
      BY <1>1, <2>2, SoloLaSuya
    <3> QED BY <1>3, <3>1 DEF Plantadas
  <2> QED BY <2>1, <2>2
<1>8. ASSUME NEW i \in Ids'
      PROVE  FilaPlantada(Asientos', E, i, solicitudes'[i].especificaciones)
  <2>1. CASE solicitudes' = solicitudes
    BY <1>4, <2>1 DEF Ids
  <2>2. CASE InsertRequest(p)
    <3>1. /\ solicitudes' = Append(solicitudes, t.fila) /\ solicitudes \in Seq(Fila)
          /\ t.fila \in Fila /\ t.paso = "alta"
      BY <1>1, <2>2 DEF InsertRequest, Coherente, TypeOK
    <3>2. solicitudes'[i] = t.fila \/ (i \in Ids /\ solicitudes'[i] = solicitudes[i])
      BY <3>1, AppendProperties, LenProperties DEF Ids
    <3> QED BY <1>4, <1>5, <3>1, <3>2 DEF LlamadaPlantada, FilaPlantada
  <2>3. CASE WriteUpdate(p)
    <3>1. /\ t.paso = "editar" /\ t.fila \in Fila /\ t.leida \in Fila /\ t.sol \in Ids
          /\ solicitudes' = [solicitudes EXCEPT ![t.sol] = FilaEscrita(@, t.fila)]
          /\ t.sol \in Nat \ {0}
      BY <1>1, <2>3, FilaDeId DEF WriteUpdate, Coherente
    <3>2. CASE i # t.sol
      BY <1>4, <3>1, <3>2 DEF Ids
    <3>3. CASE i = t.sol
      <4>1. solicitudes'[i].especificaciones = t.fila.especificaciones
        BY <3>1, <3>3 DEF Ids, FilaEscrita, Fila
      <4>2. CASE t.leida.especificaciones = t.fila.especificaciones
        BY <1>5, <3>1, <3>3, <4>1, <4>2 DEF LlamadaPlantada
      <4>3. CASE t.leida.especificaciones # t.fila.especificaciones
        <5>1. PICK l, f : l = t.leida.especificaciones /\ f = t.fila.especificaciones /\ l # f
          BY <4>3
        <5>2. Cambio(i, "CAMBIO_ESPECIFICACIONES", l, f) \in Asientos'
          BY <2>3, <3>3, <5>1, EdicionDeTipoConsta
        <5>3. PICK h \in Asientos' : h.sol = i /\ h.tipo = "CAMBIO_ESPECIFICACIONES"
          BY <5>2 DEF Cambio
        <5> QED BY <5>3 DEF Editado, FilaPlantada
      <4> QED BY <4>2, <4>3
    <3> QED BY <3>2, <3>3
  <2>4. CASE WriteState(p)
    <3>1. PICK c \in t.resto : solicitudes' = [solicitudes EXCEPT ![c.sol].estado = c.nuevo]
      BY <2>4 DEF WriteState
    <3>2. i \in Ids /\ solicitudes[i] \in Fila
      BY <3>1, FilaDeId DEF Ids
    <3>3. solicitudes'[i].especificaciones = solicitudes[i].especificaciones
      BY <3>1, <3>2 DEF Ids, Fila
    <3> QED BY <1>4, <3>2, <3>3
  <2> QED BY <2>1, <2>2, <2>3, <2>4, TablasQueTocan
<1> QED BY <1>7, <1>8 DEF Plantadas

(* Where every request of the start has its template, so does every request    *)
(* there ever is, or a PATCH has changed what it is for and left a row.        *)
THEOREM PlantillaSiempre ==
  ASSUME \A i \in DOMAIN Iniciales :
           \E d \in Elementos(PlantillasIniciales) :
             Clave[d.especificacion] = Clave[Iniciales[i].especificaciones]
  PROVE  Spec => []TodaSolicitudTienePlantilla
<1>1. Init => Plantadas
  BY DEF Init, Plantadas, FilaPlantada, LlamadaPlantada, Tiene, Ids, Nueva
<1>2. Plantadas /\ TypeOK /\ [Next]_vars => Plantadas'
  <2> SUFFICES ASSUME Plantadas, TypeOK, [Next]_vars PROVE Plantadas'
    OBVIOUS
  <2>1. CASE \E p \in Peticion : Arrive(p) \/ Continue(p) \/ Fail(p)
    BY <2>1, PlantadasSeConserva DEF Turno
  <2>2. CASE UNCHANGED vars
    BY <2>2 DEF vars, Plantadas, Ids, Asientos, Escritos
  <2> QED BY <2>1, <2>2 DEF Next, Terminated
<1> QED BY <1>1, <1>2, PlantadasDice, TypeCorrect, PTL DEF Spec
----------------------------------------------------------------------------
(* A request is finished after it was in progress, or by a PATCH.           *)

\* What a call has decided to advance to 'Finalizado' was in progress.
LlamadaEnOrden(A, t) ==
  \A c \in t.resto : c.nuevo = "Finalizado" => Consta(A, c.sol, "En proceso")

LlamadasEnOrden == \A p \in Peticion : LlamadaEnOrden(Asientos, peticion[p])

\* The estados that a PATCH may ask for.
Enviados == {e.estado : e \in Ediciones} \ {Nulo, Ausente}

\* The estado a call is about to write with a row is one that its body may ask
\* for, or the one it read.
FilaDecidida(t) ==
  /\ t.paso \in {"plantilla", "alta_dotacion", "alta"} => t.fila.estado \in EstadoSolicitud
  /\ t.paso = "editar" => t.fila.estado = t.leida.estado \/ t.fila.estado \in Enviados

(* It is so from the moment the call holds the row.                           *)
LEMMA FilaQueQueda ==
  ASSUME TypeOK, NEW p \in Peticion, Turno(p), FilaDecidida(peticion[p])
  PROVE  FilaDecidida(peticion'[p])
<1> DEFINE t == peticion[p]
           u == peticion'[p]
<1>0. peticion \in [Peticion -> Llamada] /\ t \in Llamada
  BY DEF TypeOK
<1>1. CASE u.paso \notin {"plantilla", "alta_dotacion", "alta", "editar"}
  BY <1>1 DEF FilaDecidida
<1>2. CASE CreateOnboardingRequest(p)
  <2>1. PICK f :
          /\ \E a \in Altas : f = FilaDeAlta(a)
          /\ \/ u = [Nueva EXCEPT !.paso = "plantilla", !.fila = f]
             \/ u = [Nueva EXCEPT !.paso = "negada"]
    BY <1>0, <1>2 DEF CreateOnboardingRequest, Queda, Responde
  <2>2. f.estado \in EstadoSolicitud
    BY <2>1, FilaDeAltaTipo DEF OnboardingRequest
  <2>3. (u.paso = "plantilla" /\ u.fila = f) \/ u.paso = "negada"
    BY <2>1 DEF Nueva
  <2> QED BY <2>2, <2>3 DEF FilaDecidida
<1>3. CASE UpdateOnboardingRequest(p)
  <2>1. CASE u.paso \in Respuesta
    BY <2>1 DEF Respuesta, FilaDecidida
  <2>2. CASE u.paso \notin Respuesta
    <3>1. PICK i \in Ids, e \in Ediciones :
            /\ u.paso = "editar" /\ u.leida = solicitudes[i]
            /\ u.fila = FilaEditada(solicitudes[i], e)
      BY <1>3, <2>2, EdicionAlLlegar
    <3>2. u.fila.estado = Nuevo(u.leida.estado, e.estado, {Nulo, Ausente})
      <4>1. solicitudes[i] \in Fila
        BY FilaDeId
      <4> QED BY <3>1, <4>1 DEF FilaEditada, Fila
    <3> QED BY <3>1, <3>2 DEF Nuevo, Enviados, FilaDecidida
  <2> QED BY <2>1, <2>2
<1>4. CASE SelectTemplate(p) \/ InsertMissingTemplate(p)
  <2>1. PICK r \in {"alta", "alta_dotacion"} : u = [t EXCEPT !.paso = r]
    BY <1>0, <1>4 DEF SelectTemplate, InsertMissingTemplate, Queda
  <2>2. u.paso = r /\ u.fila = t.fila
    BY <1>0, <2>1 DEF Llamada
  <2>3. t.paso \in {"plantilla", "alta_dotacion"}
    BY <1>4 DEF SelectTemplate, InsertMissingTemplate
  <2> QED BY <1>0, <2>2, <2>3 DEF FilaDecidida
<1>5. CASE CreateDotacionTemplate(p)
  <2>1. PICK f : \/ u = [Nueva EXCEPT !.paso = "alta_plantilla", !.fila = f]
                 \/ u = [Nueva EXCEPT !.paso = "negada"]
    BY <1>0, <1>5 DEF CreateDotacionTemplate, Queda, Responde
  <2>2. u.paso \in {"alta_plantilla", "negada"}
    BY <2>1 DEF Nueva
  <2> QED BY <2>2 DEF FilaDecidida
<1> QED BY <1>1, <1>2, <1>3, <1>4, <1>5, PasoSiguiente

(* A request is moved on to one of two estados.                               *)
LEMMA EstadosQueSiguen ==
  ASSUME NEW e, next_state(e) # Nulo
  PROVE  next_state(e) \in {"En proceso", "Finalizado"}
<1>1. PICK k \in 1..2 : next_state(e) = STATE_FLOW[1 + k]
  BY DEF next_state
<1>2. STATE_FLOW[2] = "En proceso" /\ STATE_FLOW[3] = "Finalizado"
  BY DEF STATE_FLOW
<1>3. 1 + k = 2 \/ 1 + k = 3
  OBVIOUS
<1> QED BY <1>1, <1>2, <1>3

\* The UPDATE of estado a call decides on from the row it has read, with the row
\* of HISTORIAL that is to follow; u is the user of the call, if it is about one,
\* and then the request is his.
Decidida(c, u) ==
  \E i, a :
    /\ i \in Ids /\ a = solicitudes[i].estado
    /\ u # Nulo => solicitudes[i].id_empleado = u
    /\ \/ /\ c = Cambio(i, "ELIMINACION", a, "Eliminada")
          /\ u = Nulo => a # "En proceso"
       \/ /\ c = Cambio(i, "CAMBIO_ESTADO", a, "Rechazado")
          /\ a \notin {"Rechazado", "Finalizado"}
       \/ /\ c = Cambio(i, "CAMBIO_ESTADO", a, next_state(a))
          /\ next_state(a) # Nulo

(* The UPDATEs of estado that a call has to do it had already, or it has just  *)
(* decided on them.                                                            *)
LEMMA RestoQueQueda ==
  ASSUME TypeOK, NEW p \in Peticion, Turno(p), NEW c \in peticion'[p].resto
  PROVE  \/ c \in peticion[p].resto /\ peticion'[p].usuario = peticion[p].usuario
         \/ Decidida(c, peticion'[p].usuario)
<1>1. /\ peticion \in [Peticion -> Llamada]
      /\ peticion[p].fin \in Respuesta
      /\ {"paso", "resto", "cambios", "avisar", "usuario"} \subseteq DOMAIN peticion[p]
  BY DEF TypeOK, Llamada
<1>2. ASSUME NEW t, Prosigue(p, t), t.fin \in Respuesta, {"paso", "resto", "usuario"} \subseteq DOMAIN t
      PROVE  c \in t.resto /\ peticion'[p].usuario = t.usuario
  BY <1>1, <1>2, PasoDeProsigue
<1>3. ASSUME NEW t, Queda(p, t) PROVE c \in t.resto /\ peticion'[p].usuario = t.usuario
  BY <1>1, <1>3 DEF Queda
<1>4. ASSUME NEW r, Responde(p, r) PROVE FALSE
  BY <1>3, <1>4 DEF Responde, Nueva
<1>5. ASSUME NEW resto, Marca(p, resto) PROVE c \in resto /\ peticion'[p].usuario = Nulo
  <2> DEFINE t == [Nueva EXCEPT !.resto = resto]
  <2>1. Prosigue(p, t) /\ t.fin \in Respuesta /\ {"paso", "resto", "usuario"} \subseteq DOMAIN t
    BY <1>5 DEF Marca, Nueva, Respuesta
  <2>2. t.resto = resto /\ t.usuario = Nulo
    BY DEF Nueva
  <2> HIDE DEF t
  <2> QED BY <1>2, <2>1, <2>2
<1>8. CASE AdvanceOnboardingRequestState(p)
  <2>1. ~Responde(p, "negada")
    BY <1>4
  <2>2. PICK i, r, a :
          /\ i \in Ids
          /\ next_state(solicitudes[i].estado) # Nulo
          /\ r = {Cambio(i, "CAMBIO_ESTADO", solicitudes[i].estado, next_state(solicitudes[i].estado))}
          /\ Prosigue(p, [Nueva EXCEPT !.sol = i, !.resto = r, !.avisar = a])
    BY <1>8, <2>1 DEF AdvanceOnboardingRequestState, PuedeAvanzar
  <2> DEFINE t == [Nueva EXCEPT !.sol = i, !.resto = r, !.avisar = a]
  <2>3. /\ Prosigue(p, t) /\ t.fin \in Respuesta /\ {"paso", "resto", "usuario"} \subseteq DOMAIN t
        /\ t.resto = r /\ t.usuario = Nulo
    BY <2>2 DEF Nueva, Respuesta
  <2> HIDE DEF t
  <2>4. c \in r /\ peticion'[p].usuario = Nulo
    BY <1>2, <2>3
  <2> QED BY <2>2, <2>4 DEF Decidida
<1>9. CASE RejectOnboardingRequest(p)
  <2>1. PICK r, i, a :
          /\ i \in Ids /\ a = solicitudes[i].estado /\ a \notin {"Rechazado", "Finalizado"}
          /\ r = {Cambio(i, "CAMBIO_ESTADO", a, "Rechazado")} /\ Marca(p, r)
    BY <1>4, <1>9 DEF RejectOnboardingRequest, PuedeRechazar
  <2>2. c = Cambio(i, "CAMBIO_ESTADO", a, "Rechazado") /\ peticion'[p].usuario = Nulo
    BY <1>5, <2>1
  <2> QED BY <2>1, <2>2 DEF Decidida
<1>10. CASE DeleteOnboardingRequest(p)
  <2>1. PICK r, i, a :
          /\ i \in Ids /\ a = solicitudes[i].estado /\ a # "En proceso"
          /\ r = {Cambio(i, "ELIMINACION", a, "Eliminada")} /\ Marca(p, r)
    BY <1>4, <1>10 DEF DeleteOnboardingRequest, PuedeEliminar
  <2>2. c \in r /\ peticion'[p].usuario = Nulo
    BY <1>5, <2>1
  <2>3. c = Cambio(i, "ELIMINACION", a, "Eliminada")
    BY <2>1, <2>2
  <2> QED BY <2>1, <2>2, <2>3 DEF Decidida
<1>11. CASE DeleteMyOnboardingRequests(p)
  <2>1. PICK r, u :
          /\ r = {Cambio(i, "ELIMINACION", "Pendiente", "Eliminada") : i \in PendientesDe(u)}
          /\ Marca(p, r)
    BY <1>11 DEF DeleteMyOnboardingRequests
  <2>2. PICK i \in PendientesDe(u) : c = Cambio(i, "ELIMINACION", "Pendiente", "Eliminada")
    BY <1>5, <2>1
  <2>3. i \in Ids /\ solicitudes[i].estado = "Pendiente" /\ peticion'[p].usuario = Nulo
    BY <1>5, <2>1 DEF PendientesDe
  <2> QED BY <2>2, <2>3 DEF Decidida
<1>12. CASE \/ CreateOnboardingRequest(p) \/ UpdateOnboardingRequest(p)
            \/ CreateDotacionTemplate(p) \/ AdvanceUserOnboardingState(p) \/ DeleteUser(p)
  <2>1. ASSUME NEW s, Queda(p, s), s.resto = {} PROVE FALSE
    BY <1>3, <2>1
  <2>2. /\ \A x, y : [Nueva EXCEPT !.paso = x, !.fila = y].resto = {}
        /\ \A x, y : [Nueva EXCEPT !.paso = x, !.usuario = y].resto = {}
        /\ \A i, l, f : [Nueva EXCEPT !.paso = "editar", !.sol = i, !.leida = l,
                                        !.fila = f].resto = {}
    BY DEF Nueva
  <2> QED
    BY <1>4, <1>12, <2>1, <2>2 DEF CreateOnboardingRequest, UpdateOnboardingRequest,
       CreateDotacionTemplate, AdvanceUserOnboardingState, DeleteUser
<1>13. CASE SelectTemplate(p) \/ InsertMissingTemplate(p)
  <2>1. PICK r : Queda(p, [peticion[p] EXCEPT !.paso = r])
    BY <1>13 DEF SelectTemplate, InsertMissingTemplate
  <2>2. /\ [peticion[p] EXCEPT !.paso = r].resto = peticion[p].resto
        /\ [peticion[p] EXCEPT !.paso = r].usuario = peticion[p].usuario
    BY <1>1
  <2> QED BY <1>3, <2>1, <2>2
<1>14. CASE InsertRequest(p)
  <2>1. PICK i, cs : Prosigue(p, [Nueva EXCEPT !.sol = i, !.cambios = cs])
    BY <1>14 DEF InsertRequest
  <2> DEFINE t == [Nueva EXCEPT !.sol = i, !.cambios = cs]
  <2>2. /\ Prosigue(p, t) /\ t.fin \in Respuesta /\ {"paso", "resto", "usuario"} \subseteq DOMAIN t
        /\ t.resto = {}
    BY <2>1 DEF Nueva, Respuesta
  <2> HIDE DEF t
  <2> QED BY <1>2, <2>2
<1>15. CASE WriteUpdate(p)
  <2> DEFINE r == RespuestaDe(peticion[p].fila)
  <2>1. r \in Respuesta
    BY DEF RespuestaDe, Respuesta
  <2>2. PICK i, cs, a :
          Prosigue(p, [Nueva EXCEPT !.sol = i, !.cambios = cs, !.avisar = a, !.fin = r])
    BY <1>15 DEF WriteUpdate
  <2> HIDE DEF r
  <2> DEFINE t == [Nueva EXCEPT !.sol = i, !.cambios = cs, !.avisar = a, !.fin = r]
  <2>3. /\ Prosigue(p, t) /\ t.fin \in Respuesta /\ {"paso", "resto", "usuario"} \subseteq DOMAIN t
        /\ t.resto = {}
    BY <2>1, <2>2 DEF Nueva
  <2> HIDE DEF t
  <2> QED BY <1>2, <2>3
<1>16. CASE WriteState(p)
  <2>1. PICK d, cs : Prosigue(p, [peticion[p] EXCEPT !.resto = @ \ {d}, !.cambios = cs])
    BY <1>16 DEF WriteState
  <2> DEFINE t == [peticion[p] EXCEPT !.resto = @ \ {d}, !.cambios = cs]
  <2>2. /\ Prosigue(p, t) /\ t.fin \in Respuesta /\ {"paso", "resto", "usuario"} \subseteq DOMAIN t
        /\ t.resto \subseteq peticion[p].resto /\ t.usuario = peticion[p].usuario
    BY <1>1, <2>1 DEF TypeOK, Llamada
  <2> HIDE DEF t
  <2> QED BY <1>2, <2>2
<1>17. CASE RegisterHistory(p)
  <2>1. PICK cs : Prosigue(p, [peticion[p] EXCEPT !.cambios = cs])
    BY <1>17 DEF RegisterHistory
  <2> DEFINE t == [peticion[p] EXCEPT !.cambios = cs]
  <2>2. /\ Prosigue(p, t) /\ t.fin \in Respuesta /\ {"paso", "resto", "usuario"} \subseteq DOMAIN t
        /\ t.resto = peticion[p].resto /\ t.usuario = peticion[p].usuario
    BY <1>1, <2>1 DEF TypeOK, Llamada
  <2> HIDE DEF t
  <2> QED BY <1>2, <2>2
<1>18. CASE SendNotification(p)
  <2> DEFINE t == [peticion[p] EXCEPT !.avisar = FALSE]
  <2>1. /\ Prosigue(p, t) /\ t.fin \in Respuesta /\ {"paso", "resto", "usuario"} \subseteq DOMAIN t
        /\ t.resto = peticion[p].resto /\ t.usuario = peticion[p].usuario
    BY <1>1, <1>18 DEF SendNotification, TypeOK, Llamada
  <2> HIDE DEF t
  <2> QED BY <1>2, <2>1
<1>19. CASE SelectUserRequests(p)
  <2> DEFINE suyas == {i \in Ids : solicitudes[i].id_empleado = peticion[p].usuario}
             r == {Cambio(i, "ELIMINACION", solicitudes[i].estado, "Eliminada") : i \in suyas}
             t == [peticion[p] EXCEPT !.resto = r]
  <2>1. Prosigue(p, t)
    BY <1>19 DEF SelectUserRequests
  <2> HIDE DEF r
  <2>2. /\ t.fin \in Respuesta /\ {"paso", "resto", "usuario"} \subseteq DOMAIN t
        /\ t.resto = r /\ t.usuario = peticion[p].usuario
    BY <1>1 DEF TypeOK, Llamada
  <2> HIDE DEF t
  <2>3. c \in r /\ peticion'[p].usuario = peticion[p].usuario
    BY <1>2, <2>1, <2>2
  <2>4. PICK i \in Ids : /\ c = Cambio(i, "ELIMINACION", solicitudes[i].estado, "Eliminada")
                         /\ solicitudes[i].id_empleado = peticion[p].usuario
    BY <2>3 DEF r
  <2>5. peticion'[p].usuario # Nulo
    BY <1>19, <2>3, SolicitudesAssumption DEF SelectUserRequests, TypeOK, Coherente
  <2> QED BY <2>3, <2>4, <2>5 DEF Decidida
<1>20. CASE InsertTemplate(p) \/ WriteUserState(p) \/ MarkUserDeleted(p)
  BY <1>4, <1>20 DEF InsertTemplate, WriteUserState, MarkUserDeleted
<1>21. CASE Fail(p)
  <2> DEFINE t == [Nueva EXCEPT !.paso = "error", !.cambios = peticion[p].cambios]
  <2>1. Queda(p, t) /\ t.resto = {}
    BY <1>21 DEF Fail, Nueva
  <2> HIDE DEF t
  <2> QED BY <1>3, <2>1
<1> QED
  BY <1>8, <1>9, <1>10, <1>11, <1>12, <1>13, <1>14, <1>15, <1>16, <1>17, <1>18, <1>19, <1>20,
     <1>21 DEF Turno, Arrive, Continue

(* The history rows a call owes it owed already, or they are of what its       *)
(* statement has just written.                                                 *)
LEMMA CambiosQueQuedan ==
  ASSUME TypeOK, NEW p \in Peticion, Turno(p), NEW c \in Elementos(peticion'[p].cambios)
  PROVE  \/ c \in Elementos(peticion[p].cambios)
         \/ c \in peticion[p].resto
         \/ /\ InsertRequest(p)
            /\ c = Cambio(Len(solicitudes) + 1, "CREACION", Nulo, peticion[p].fila.estado)
         \/ /\ WriteUpdate(p)
            /\ c.tipo \notin {"CREACION", "ELIMINACION"}
            /\ c.tipo = "CAMBIO_ESTADO" =>
                 /\ c.antiguo = peticion[p].leida.estado
                 /\ c.nuevo = peticion[p].fila.estado
                 /\ peticion[p].leida.estado # peticion[p].fila.estado
<1> DEFINE t == peticion[p]
<1>1. /\ peticion \in [Peticion -> Llamada] /\ t \in Llamada /\ Coherente(t, Ids)
      /\ t.cambios \in Seq(Asiento) /\ t.fin \in Respuesta
      /\ peticion'[p].cambios # <<>>
  BY SinCambios DEF TypeOK, Llamada
<1>2. ASSUME NEW s, Prosigue(p, s), {"paso", "cambios"} \subseteq DOMAIN s
      PROVE  c \in Elementos(s.cambios)
  <2>1. CASE Siguiente(s) \in Respuesta
    <3>1. peticion'[p] = [Nueva EXCEPT !.paso = Siguiente(s)]
      BY <1>1, <1>2, <2>1 DEF Prosigue, Responde, Queda
    <3> QED BY <1>1, <3>1 DEF Nueva
  <2>2. CASE Siguiente(s) \notin Respuesta
    <3>1. peticion'[p] = [s EXCEPT !.paso = Siguiente(s)]
      BY <1>1, <1>2, <2>2 DEF Prosigue, Queda
    <3> QED BY <1>2, <3>1
  <2> QED BY <2>1, <2>2
<1>3. CASE historial' = historial /\ peticion'[p].cambios = t.cambios
  BY <1>3
<1>4. CASE peticion'[p].cambios = Tail(t.cambios) /\ t.cambios # <<>>
  BY <1>1, <1>4, CabezaYCola
<1>5. CASE InsertRequest(p)
  <2>1. PICK i, cs, e :
          /\ i = Len(solicitudes) + 1 /\ e = t.fila.estado
          /\ cs = <<Cambio(i, "CREACION", Nulo, e)>>
          /\ Prosigue(p, [Nueva EXCEPT !.sol = i, !.cambios = cs])
    BY <1>5 DEF InsertRequest
  <2> DEFINE s == [Nueva EXCEPT !.sol = i, !.cambios = cs]
  <2>2. Prosigue(p, s) /\ {"paso", "cambios"} \subseteq DOMAIN s /\ s.cambios = cs
    BY <2>1 DEF Nueva
  <2> HIDE DEF s
  <2>3. c \in Elementos(cs)
    BY <1>2, <2>2
  <2>4. c = Cambio(i, "CREACION", Nulo, e)
    BY <2>1, <2>3, UnCambio
  <2> QED BY <1>5, <2>1, <2>4
<1>6. CASE WriteUpdate(p)
  <2>1. PICK i, cs, a, r :
          /\ i = t.sol /\ cs = Cambios(i, t.leida, t.fila)
          /\ Prosigue(p, [Nueva EXCEPT !.sol = i, !.cambios = cs, !.avisar = a, !.fin = r])
    BY <1>6 DEF WriteUpdate
  <2> DEFINE s == [Nueva EXCEPT !.sol = i, !.cambios = cs, !.avisar = a, !.fin = r]
  <2>2. Prosigue(p, s) /\ {"paso", "cambios"} \subseteq DOMAIN s /\ s.cambios = cs
    BY <2>1 DEF Nueva
  <2> HIDE DEF s
  <2>3. c \in Elementos(cs)
    BY <1>2, <2>2
  <2>4. t.leida \in Fila /\ t.fila \in Fila /\ i \in Nat \ {0}
    BY <1>1, <1>6, <2>1, FilaDeId DEF WriteUpdate, Coherente
  <2>5. /\ c.tipo \notin {"CREACION", "ELIMINACION"}
        /\ c.tipo = "CAMBIO_ESTADO" => /\ c.antiguo = t.leida.estado /\ c.nuevo = t.fila.estado
                                       /\ t.leida.estado # t.fila.estado
    BY <2>1, <2>3, <2>4, CambiosTipo DEF Elementos, TipoDeEstado
  <2> QED BY <1>6, <2>5
<1>7. CASE WriteState(p)
  <2>1. PICK d \in t.resto : Prosigue(p, [t EXCEPT !.resto = @ \ {d}, !.cambios = <<d>>])
    BY <1>7 DEF WriteState
  <2> DEFINE s == [t EXCEPT !.resto = @ \ {d}, !.cambios = <<d>>]
  <2>2. Prosigue(p, s) /\ {"paso", "cambios"} \subseteq DOMAIN s /\ s.cambios = <<d>>
    BY <1>1, <2>1 DEF Llamada
  <2> HIDE DEF s
  <2>3. c \in Elementos(<<d>>)
    BY <1>2, <2>2
  <2> QED BY <2>1, <2>3, UnCambio
<1>8. ASSUME NEW s, Queda(p, s) PROVE c \in Elementos(s.cambios)
  BY <1>1, <1>8 DEF Queda
<1>9. ASSUME NEW r, Responde(p, r) PROVE FALSE
  <2>1. peticion'[p] = [Nueva EXCEPT !.paso = r]
    BY <1>1, <1>9 DEF Responde, Queda
  <2> QED BY <1>1, <2>1 DEF Nueva
<1>10. ASSUME NEW r, Marca(p, r) PROVE FALSE
  <2> DEFINE s == [Nueva EXCEPT !.resto = r]
  <2>1. Prosigue(p, s) /\ {"paso", "cambios"} \subseteq DOMAIN s /\ s.cambios = <<>>
    BY <1>10 DEF Marca, Nueva
  <2> HIDE DEF s
  <2> QED BY <1>2, <2>1, SinCambios
<1>11. CASE AdvanceOnboardingRequestState(p)
  <2>1. PICK i, r, a : Prosigue(p, [Nueva EXCEPT !.sol = i, !.resto = r, !.avisar = a])
    BY <1>9, <1>11 DEF AdvanceOnboardingRequestState
  <2> DEFINE s == [Nueva EXCEPT !.sol = i, !.resto = r, !.avisar = a]
  <2>2. Prosigue(p, s) /\ {"paso", "cambios"} \subseteq DOMAIN s /\ s.cambios = <<>>
    BY <2>1 DEF Nueva
  <2> HIDE DEF s
  <2> QED BY <1>2, <2>2, SinCambios
<1>12. CASE \/ RejectOnboardingRequest(p) \/ DeleteOnboardingRequest(p)
            \/ DeleteMyOnboardingRequests(p)
  BY <1>9, <1>10, <1>12 DEF RejectOnboardingRequest, DeleteOnboardingRequest,
     DeleteMyOnboardingRequests
<1>13. CASE \/ CreateOnboardingRequest(p) \/ UpdateOnboardingRequest(p)
            \/ CreateDotacionTemplate(p) \/ AdvanceUserOnboardingState(p) \/ DeleteUser(p)
  <2>1. ASSUME NEW s, Queda(p, s), s.cambios = <<>> PROVE FALSE
    BY <1>8, <2>1, SinCambios
  <2>2. CASE CreateOnboardingRequest(p) \/ CreateDotacionTemplate(p)
    <3>1. PICK x, y : Queda(p, [Nueva EXCEPT !.paso = x, !.fila = y])
      BY <1>9, <2>2 DEF CreateOnboardingRequest, CreateDotacionTemplate
    <3>2. [Nueva EXCEPT !.paso = x, !.fila = y].cambios = <<>>
      BY DEF Nueva
    <3> QED BY <2>1, <3>1, <3>2
  <2>3. CASE UpdateOnboardingRequest(p)
    <3>1. PICK i, l, f :
            Queda(p, [Nueva EXCEPT !.paso = "editar", !.sol = i, !.leida = l, !.fila = f])
      BY <1>9, <2>3 DEF UpdateOnboardingRequest
    <3>2. [Nueva EXCEPT !.paso = "editar", !.sol = i, !.leida = l, !.fila = f].cambios = <<>>
      BY DEF Nueva
    <3> QED BY <2>1, <3>1, <3>2
  <2>4. CASE AdvanceUserOnboardingState(p) \/ DeleteUser(p)
    <3>1. PICK x, y : Queda(p, [Nueva EXCEPT !.paso = x, !.usuario = y])
      BY <1>9, <2>4 DEF AdvanceUserOnboardingState, DeleteUser
    <3>2. [Nueva EXCEPT !.paso = x, !.usuario = y].cambios = <<>>
      BY DEF Nueva
    <3> QED BY <2>1, <3>1, <3>2
  <2> QED BY <1>13, <2>2, <2>3, <2>4
<1>14. CASE SelectTemplate(p) \/ InsertMissingTemplate(p)
  <2>1. PICK r : Queda(p, [t EXCEPT !.paso = r])
    BY <1>14 DEF SelectTemplate, InsertMissingTemplate
  <2>2. [t EXCEPT !.paso = r].cambios = t.cambios
    BY <1>1 DEF Llamada
  <2> QED BY <1>8, <2>1, <2>2
<1>15. CASE SendNotification(p)
  <2> DEFINE s == [t EXCEPT !.avisar = FALSE]
  <2>1. Prosigue(p, s) /\ {"paso", "cambios"} \subseteq DOMAIN s /\ s.cambios = t.cambios
    BY <1>1, <1>15 DEF SendNotification, Llamada
  <2> HIDE DEF s
  <2> QED BY <1>2, <2>1
<1>16. CASE SelectUserRequests(p)
  <2>1. PICK r : Prosigue(p, [t EXCEPT !.resto = r])
    BY <1>16 DEF SelectUserRequests
  <2> DEFINE s == [t EXCEPT !.resto = r]
  <2>2. Prosigue(p, s) /\ {"paso", "cambios"} \subseteq DOMAIN s /\ s.cambios = t.cambios
    BY <1>1, <2>1 DEF Llamada
  <2> HIDE DEF s
  <2> QED BY <1>2, <2>2
<1>17. CASE InsertTemplate(p) \/ WriteUserState(p) \/ MarkUserDeleted(p)
  BY <1>9, <1>17 DEF InsertTemplate, WriteUserState, MarkUserDeleted
<1>18. CASE Fail(p)
  <2>1. [Nueva EXCEPT !.paso = "error", !.cambios = t.cambios].cambios = t.cambios
    BY DEF Nueva
  <2> QED BY <1>8, <1>18, <2>1 DEF Fail
<1>19. CASE RegisterHistory(p)
  BY <1>1, <1>3, <1>4, <1>19, EfectoEnHistorial DEF RegisterHistory, Coherente
<1> QED
  BY <1>5, <1>6, <1>7, <1>11, <1>12, <1>13, <1>14, <1>15, <1>16, <1>17, <1>18, <1>19
     DEF Turno, Arrive, Continue

(* A call that is to set 'Finalizado' had it to do already, or has just read   *)
(* 'En proceso' in the row.                                                    *)
LEMMA FinalizadoQueQueda ==
  ASSUME TypeOK, NEW p \in Peticion, Turno(p),
         NEW c \in peticion'[p].resto, c.nuevo = "Finalizado"
  PROVE  \/ c \in peticion[p].resto
         \/ c.sol \in Ids /\ solicitudes[c.sol].estado = "En proceso"
<1>1. CASE c \in peticion[p].resto
  BY <1>1
<1>2. CASE Decidida(c, peticion'[p].usuario)
  <2>1. PICK i, a :
          /\ i \in Ids /\ a = solicitudes[i].estado
          /\ \/ c = Cambio(i, "ELIMINACION", a, "Eliminada")
             \/ c = Cambio(i, "CAMBIO_ESTADO", a, "Rechazado")
             \/ /\ c = Cambio(i, "CAMBIO_ESTADO", a, next_state(a))
                /\ next_state(a) # Nulo
    BY <1>2 DEF Decidida
  <2>2. c.sol = i
    BY <2>1 DEF Cambio
  <2>3. next_state(a) = "Finalizado" /\ next_state(a) # Nulo
    <3>1. ASSUME NEW e, NEW tipo, c = Cambio(i, tipo, a, e), e \in {"Eliminada", "Rechazado"}
          PROVE  FALSE
      BY <3>1 DEF Cambio, ComoTexto
    <3>2. PICK e : c = Cambio(i, "CAMBIO_ESTADO", a, e) /\ e = next_state(a) /\ e # Nulo
      BY <2>1, <3>1
    <3> QED BY <3>2 DEF Cambio, ComoTexto
  <2>4. a = "En proceso"
    <3>1. PICK k \in 1..2 : STATE_FLOW[k] = a /\ STATE_FLOW[1 + k] = "Finalizado"
      BY <2>3 DEF next_state
    <3>2. /\ STATE_FLOW[1] = "Pendiente" /\ STATE_FLOW[2] = "En proceso"
          /\ STATE_FLOW[3] = "Finalizado"
      BY DEF STATE_FLOW
    <3>3. (k = 1 /\ 1 + k = 2) \/ (k = 2 /\ 1 + k = 3)
      OBVIOUS
    <3>4. k # 1
      BY <3>1, <3>2, <3>3
    <3> QED BY <3>1, <3>2, <3>3, <3>4
  <2> QED BY <2>1, <2>2, <2>4
<1> QED BY <1>1, <1>2, RestoQueQueda

(* So what is still to be advanced was in progress, however late it is done.   *)
LEMMA OrdenSeConserva ==
  ASSUME Inductiva, LlamadasEnOrden, NEW p \in Peticion, Turno(p)
  PROVE  LlamadasEnOrden'
<1>1. TypeOK /\ Asientos \subseteq Asientos'
  BY NadaSePierde DEF Inductiva
<1>2. \A i, e : Consta(Asientos, i, e) => Consta(Asientos', i, e)
  BY <1>1, ConstaMonotona
<1>3. ASSUME NEW q \in Peticion PROVE LlamadaEnOrden(Asientos', peticion[q])
  BY <1>2 DEF LlamadasEnOrden, LlamadaEnOrden
<1>4. LlamadaEnOrden(Asientos', peticion'[p])
  <2> SUFFICES ASSUME NEW c \in peticion'[p].resto, c.nuevo = "Finalizado"
               PROVE  Consta(Asientos', c.sol, "En proceso")
    BY DEF LlamadaEnOrden
  <2>1. CASE c \in peticion[p].resto
    BY <1>3, <2>1 DEF LlamadaEnOrden
  <2>2. CASE c.sol \in Ids /\ solicitudes[c.sol].estado = "En proceso"
    <3>1. Consta(Asientos, c.sol, "En proceso")
      BY <2>2 DEF Inductiva, EstadoAcreditado, Acreditado
    <3> QED BY <1>2, <3>1
  <2> QED BY <1>1, <2>1, <2>2, FinalizadoQueQueda
<1>5. ASSUME NEW q \in Peticion PROVE LlamadaEnOrden(Asientos', peticion'[q])
  <2>1. CASE q = p
    BY <1>4, <2>1
  <2>2. CASE q # p
    <3>1. peticion'[q] = peticion[q]
      BY <1>1, <2>2, SoloLaSuya DEF TypeOK
    <3> QED BY <1>3, <3>1
  <2> QED BY <2>1, <2>2
<1> QED BY <1>5 DEF LlamadasEnOrden

\* The PATCH p has just finished request i, and what it did is on record.
FinalizadaPorEdicion(p, i) ==
  /\ peticion[p].paso = "editar" /\ peticion[p].sol = i
  /\ peticion'[p].paso # "editar"
  /\ \/ Acreditado(i, "Finalizado")
     \/ Consta(Elementos(peticion'[p].cambios), i, "Finalizado")

(* The UPDATE of a PATCH is followed by the rows of what it changed.           *)
LEMMA EdicionDebeFilas ==
  ASSUME TypeOK, NEW p \in Peticion, WriteUpdate(p),
         peticion[p].leida.estado # peticion[p].fila.estado
  PROVE  Consta(Elementos(peticion'[p].cambios), peticion[p].sol, peticion[p].fila.estado)
<1> DEFINE t == peticion[p]
<1>1. /\ peticion \in [Peticion -> Llamada] /\ Coherente(t, Ids) /\ t.paso = "editar"
      /\ t.leida \in Fila /\ t.fila \in Fila /\ t.sol \in Nat \ {0}
  BY FilaDeId DEF WriteUpdate, TypeOK, Coherente
<1>2. PICK i, cs, a, r :
        /\ i = t.sol /\ cs = Cambios(i, t.leida, t.fila)
        /\ Prosigue(p, [Nueva EXCEPT !.sol = i, !.cambios = cs, !.avisar = a, !.fin = r])
  BY DEF WriteUpdate
<1>3. PICK k \in DOMAIN cs : Dice(cs[k], i, t.fila.estado)
  BY <1>1, <1>2, CambiosCuentan DEF Cuentan
<1> DEFINE s == [Nueva EXCEPT !.sol = i, !.cambios = cs, !.avisar = a, !.fin = r]
<1>4. Prosigue(p, s) /\ {"paso", "cambios"} \subseteq DOMAIN s /\ s.cambios = cs
  BY <1>2 DEF Nueva
<1> HIDE DEF s
<1>5. cs # <<>>
  BY <1>3
<1>6. Siguiente(s) = "registrar"
  BY <1>4, <1>5 DEF Siguiente
<1>7. peticion' = [peticion EXCEPT ![p] = [s EXCEPT !.paso = "registrar"]]
  BY <1>4, <1>6 DEF Prosigue, Queda, Respuesta
<1>8. peticion'[p].paso = "registrar" /\ peticion'[p].cambios = cs
  BY <1>1, <1>4, <1>7
<1>9. Consta(Elementos(cs), i, t.fila.estado)
  BY <1>3 DEF Consta, Elementos
<1> QED BY <1>2, <1>8, <1>9

(* However it was read, the estado a PATCH leaves is on record.                *)
LEMMA EdicionConsta ==
  ASSUME Inductiva, NEW p \in Peticion, WriteUpdate(p),
         peticion[p].fila.estado = "Finalizado"
  PROVE  \/ Acreditado(peticion[p].sol, "Finalizado")
         \/ Consta(Elementos(peticion'[p].cambios), peticion[p].sol, "Finalizado")
<1>1. peticion[p].paso = "editar" /\ TypeOK
  BY DEF WriteUpdate, Inductiva
<1>2. CASE peticion[p].leida.estado = "Finalizado"
  BY <1>1, <1>2 DEF Inductiva, LlamadasFundadas, Fundada, Acreditado
<1>3. CASE peticion[p].leida.estado # "Finalizado"
  BY <1>1, <1>3, EdicionDebeFilas
<1> QED BY <1>2, <1>3

LEMMA FinalizaEnOrden ==
  ASSUME Inductiva, LlamadasEnOrden, NEW p \in Peticion, Turno(p), NEW i \in Ids,
         solicitudes[i].estado # "Finalizado", solicitudes'[i].estado = "Finalizado"
  PROVE  Acreditado(i, "En proceso") \/ FinalizadaPorEdicion(p, i)
<1> DEFINE t == peticion[p]
<1>1. /\ TypeOK /\ t \in Llamada /\ Coherente(t, Ids) /\ solicitudes[i] \in Fila
      /\ solicitudes \in Seq(Fila)
  BY FilaDeId DEF Inductiva, TypeOK
<1>2. CASE InsertRequest(p)
  <2>1. solicitudes' = Append(solicitudes, t.fila) /\ i \in 1..Len(solicitudes)
    BY <1>1, <1>2, LenProperties DEF InsertRequest, Ids
  <2>2. t.fila \in Fila
    BY <1>1, <1>2 DEF InsertRequest, Coherente
  <2>3. solicitudes'[i] = solicitudes[i]
    BY <1>1, <2>1, <2>2, AppendProperties
  <2> QED BY <2>3
<1>3. CASE WriteUpdate(p)
  <2>1. /\ t.paso = "editar" /\ t.fila \in Fila /\ t.sol \in Ids
        /\ solicitudes' = [solicitudes EXCEPT ![t.sol] = FilaEscrita(@, t.fila)]
    BY <1>1, <1>3 DEF WriteUpdate, Coherente
  <2>2. i = t.sol
    BY <2>1 DEF Ids
  <2>3. solicitudes'[i].estado = t.fila.estado
    BY <2>1, <2>2 DEF Ids, FilaEscrita, Fila
  <2>4. \/ Acreditado(i, "Finalizado")
        \/ Consta(Elementos(peticion'[p].cambios), i, "Finalizado")
    BY <1>3, <2>2, <2>3, EdicionConsta
  <2>5. peticion'[p].paso # "editar"
    BY <1>1, <2>1, PasoSiguiente DEF Llega, CreateOnboardingRequest, UpdateOnboardingRequest,
       SelectTemplate, InsertMissingTemplate, CreateDotacionTemplate
  <2> QED BY <2>1, <2>2, <2>4, <2>5 DEF FinalizadaPorEdicion
<1>4. CASE WriteState(p)
  <2>1. PICK c \in t.resto : solicitudes' = [solicitudes EXCEPT ![c.sol].estado = c.nuevo]
    BY <1>4 DEF WriteState
  <2>2. i = c.sol
    BY <2>1 DEF Ids
  <2>3. c.nuevo = "Finalizado"
    BY <1>1, <2>1, <2>2 DEF Ids, Fila
  <2> QED BY <2>2, <2>3 DEF LlamadasEnOrden, LlamadaEnOrden, Acreditado
<1> QED BY <1>2, <1>3, <1>4, TablasQueTocan

(* Every request that turns 'Finalizado' was 'En proceso', by a row that       *)
(* HISTORIAL has or that some call owes, unless a PATCH made it so, whose own  *)
(* row tells: whatever the bodies say and however the calls overlap or fail.   *)
THEOREM FinalizaSiempreTrasEnProceso == Spec => FinalizaTrasEnProceso
<1> DEFINE Paso1(i) ==
      solicitudes[i].estado # "Finalizado" /\ solicitudes'[i].estado = "Finalizado" =>
        Acreditado(i, "En proceso") \/ \E p \in Peticion : FinalizadaPorEdicion(p, i)
<1>1. Init => LlamadasEnOrden
  <2>1. Init => \A p \in Peticion : peticion[p].resto = {}
    BY DEF Init, Nueva
  <2> QED BY <2>1 DEF LlamadasEnOrden, LlamadaEnOrden
<1>2. LlamadasEnOrden /\ Inductiva /\ [Next]_vars => LlamadasEnOrden'
  <2> SUFFICES ASSUME LlamadasEnOrden, Inductiva, [Next]_vars PROVE LlamadasEnOrden'
    OBVIOUS
  <2>1. CASE \E p \in Peticion : Arrive(p) \/ Continue(p) \/ Fail(p)
    BY <2>1, OrdenSeConserva DEF Turno
  <2>2. CASE UNCHANGED vars
    BY <2>2 DEF vars, LlamadasEnOrden, Asientos, Escritos
  <2> QED BY <2>1, <2>2 DEF Next, Terminated
<1>3. LlamadasEnOrden /\ Inductiva /\ [Next]_vars => [\A i \in Ids : Paso1(i)]_vars
  <2> SUFFICES ASSUME LlamadasEnOrden, Inductiva, Next PROVE (\A i \in Ids : Paso1(i)) \/ UNCHANGED vars
    OBVIOUS
  <2>1. CASE \E p \in Peticion : Arrive(p) \/ Continue(p) \/ Fail(p)
    BY <2>1, FinalizaEnOrden DEF Turno
  <2> QED BY <2>1 DEF Next, Terminated
<1>4. [\A i \in Ids : Paso1(i)]_vars => [\A i \in Ids :
       solicitudes[i].estado # "Finalizado" /\ solicitudes'[i].estado = "Finalizado" =>
         \/ Acreditado(i, "En proceso")
         \/ \E p \in Peticion :
              /\ peticion[p].paso = "editar" /\ peticion[p].sol = i
              /\ peticion'[p].paso # "editar"
              /\ \/ Acreditado(i, "Finalizado")
                 \/ Consta(Elementos(peticion'[p].cambios), i, "Finalizado")]_vars
  BY DEF FinalizadaPorEdicion
<1> QED BY <1>1, <1>2, <1>3, <1>4, InductivaSeConserva, PTL DEF Spec, FinalizaTrasEnProceso
=============================================================================
