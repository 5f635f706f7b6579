---------------------------- MODULE ConsultasProofs ----------------------------
(****************************************************************************)
(* Proofs of what is read of the requests while calls create, edit and      *)
(* delete them: the dates the tables take, the estado a report counts and   *)
(* the history it reads after it, the order of the percentiles, and that    *)
(* the lists show what may be advanced and read.                            *)
(****************************************************************************)
EXTENDS Estadisticas, Vistas, HistorialProofs, FunctionTheorems, FiniteSetTheorems

(* A non-empty set of naturals has a least element.  The initial segments of   *)
(* the naturals are finite sets, and those are well founded by inclusion.      *)
LEMMA Minimo ==
  ASSUME NEW T, T \subseteq Nat, T # {}
  PROVE  \E x \in T : \A y \in T : x <= y
<1> DEFINE R == StrictSubsetOrdering(Nat)
           F == {0..x : x \in T}
<1>1. IsWellFoundedOn(R, FiniteSubsetsOf(Nat))
  BY FS_StrictSubsetOrderingWellFounded
<1>2. F \subseteq FiniteSubsetsOf(Nat) /\ F # {}
  <2>1. ASSUME NEW x \in T PROVE 0..x \in FiniteSubsetsOf(Nat)
    <3>1. x \in Nat /\ 0..x \subseteq Nat
      OBVIOUS
    <3>2. IsFiniteSet(0..x)
      BY <3>1, FS_Interval
    <3> QED BY <3>1, <3>2 DEF FiniteSubsetsOf
  <2> QED BY <2>1
<1>3. PICK U \in F : \A V \in F : <<V, U>> \notin R
  <2> HIDE DEF R, F
  <2> QED BY <1>1, <1>2, WFMin
<1>4. PICK x \in T : U = 0..x
  OBVIOUS
<1>5. ASSUME NEW y \in T PROVE x <= y
  <2> SUFFICES ASSUME ~(x <= y) PROVE FALSE
    OBVIOUS
  <2>1. x \in Nat /\ y \in Nat /\ y < x
    OBVIOUS
  <2>2. 0..y \subseteq 0..x /\ x \in 0..x /\ x \notin 0..y
    BY <2>1
  <2>3. 0..y \in SUBSET Nat /\ 0..x \in SUBSET Nat
    BY <2>1
  <2>4. <<0..y, 0..x>> \in R
    BY <2>2, <2>3, Zenon DEF StrictSubsetOrdering
  <2> QED BY <1>3, <1>4, <2>4
<1> QED BY <1>5

(* A non-empty set of naturals with a bound has a greatest element.            *)
LEMMA Maximo ==
  ASSUME NEW T, T \subseteq Nat, T # {}, NEW b \in Nat, \A x \in T : x <= b
  PROVE  \E x \in T : \A y \in T : y <= x
<1> DEFINE D == {b - x : x \in T}
<1>1. D \subseteq Nat /\ D # {}
  <2>1. ASSUME NEW x \in T PROVE b - x \in Nat
    OBVIOUS
  <2> QED BY <2>1
<1>2. PICK d \in D : \A e \in D : d <= e
  <2> HIDE DEF D
  <2> QED BY <1>1, Minimo
<1>3. PICK x \in T : d = b - x
  OBVIOUS
<1>4. ASSUME NEW y \in T PROVE y <= x
  <2>1. b - x <= b - y
    BY <1>2, <1>3
  <2> QED BY <2>1
<1> QED BY <1>4

(* A finite set of naturals has a bound: a smallest one without it would have  *)
(* one once an element is taken out.                                           *)
LEMMA CotaDeFinito ==
  ASSUME NEW T, T \subseteq Nat, IsFiniteSet(T)
  PROVE  \E b \in Nat : \A x \in T : x <= b
<1> DEFINE R == StrictSubsetOrdering(Nat)
           F == FiniteSubsetsOf(Nat)
           Acotado(U) == \E b \in Nat : \A x \in U : x <= b
           Mal == {U \in F : ~Acotado(U)}
<1> SUFFICES ASSUME Mal # {} PROVE FALSE
  <2>1. T \in F
    BY DEF FiniteSubsetsOf
  <2> QED BY <2>1
<1>1. IsWellFoundedOn(R, F)
  BY FS_StrictSubsetOrderingWellFounded
<1>2. PICK U \in Mal : \A V \in Mal : <<V, U>> \notin R
  <2>1. Mal \subseteq F
    OBVIOUS
  <2> HIDE DEF R, F, Mal
  <2> QED BY <1>1, <2>1, WFMin
<1>3. U \subseteq Nat /\ IsFiniteSet(U) /\ ~Acotado(U)
  BY DEF FiniteSubsetsOf
<1>4. PICK x \in U : TRUE
  BY <1>3
<1> DEFINE V == U \ {x}
<1>5. V \subseteq U /\ V # U /\ V \in SUBSET Nat /\ U \in SUBSET Nat
  BY <1>3
<1>6. IsFiniteSet(V)
  BY <1>3, <1>5, FS_Subset
<1>7. <<V, U>> \in R
  BY <1>5, Zenon DEF StrictSubsetOrdering
<1>8. Acotado(V)
  BY <1>2, <1>5, <1>6, <1>7 DEF FiniteSubsetsOf
<1>9. PICK b \in Nat : \A y \in V : y <= b
  BY <1>8
<1>10. x \in Nat
  BY <1>3
<1>11. b + x \in Nat /\ \A y \in U : y <= b + x
  <2>1. ASSUME NEW y \in U PROVE y <= b + x
    <3>1. y \in Nat /\ (y = x \/ y <= b)
      BY <1>3, <1>9
    <3> QED BY <1>10, <3>1
  <2> QED BY <1>10, <2>1
<1> QED BY <1>3, <1>11

LEMMA MinDa ==
  ASSUME NEW T, T \subseteq Nat, T # {}
  PROVE  Min(T) \in T /\ \A y \in T : Min(T) <= y
<1>1. \E x \in T : \A y \in T : x <= y
  BY Minimo
<1> QED BY <1>1 DEF Min

LEMMA DiaMonotono ==
  ASSUME NEW a \in Nat, NEW b \in Nat, a <= b
  PROVE  Dia(a) \in Nat /\ Dia(a) <= Dia(b)
<1>1. TicsPorDia \in Nat \ {0}
  BY CronicaAssumption
<1> QED BY <1>1 DEF Dia
----------------------------------------------------------------------------
(* The tables and their dates.                                                *)

(* The new rows of a table are dated now, and the old ones keep their date.   *)
LEMMA FechadasDa ==
  ASSUME NEW s, reloj \in Nat, s \in Seq(0..reloj), NEW n \in Nat, Len(s) <= n
  PROVE  /\ Fechadas(s, n) \in Seq(0..reloj)
         /\ Len(Fechadas(s, n)) = n
         /\ \A k \in 1..Len(s) : Fechadas(s, n)[k] = s[k]
         /\ \A k \in 1..n : k > Len(s) => Fechadas(s, n)[k] = reloj
<1> DEFINE m == n - Len(s)
           u == [k \in 1..m |-> reloj]
<1>1. m \in Nat /\ Len(s) \in Nat
  BY LenProperties
<1>2. u \in Seq(0..reloj) /\ Len(u) = m /\ \A k \in 1..m : u[k] = reloj
  BY <1>1
<1> HIDE DEF u
<1>3. /\ s \o u \in Seq(0..reloj) /\ Len(s \o u) = Len(s) + Len(u)
      /\ \A k \in 1..Len(s) : (s \o u)[k] = s[k]
      /\ \A k \in 1..(Len(s) + Len(u)) : k > Len(s) => (s \o u)[k] = u[k - Len(s)]
  BY <1>1, <1>2, ConcatProperties, LenProperties
<1>4. Fechadas(s, n) = s \o u
  BY DEF Fechadas, u
<1>5. Len(s) + Len(u) = n
  BY <1>1, <1>2
<1>6. ASSUME NEW k \in 1..n, k > Len(s) PROVE (s \o u)[k] = reloj
  <2>1. k - Len(s) \in 1..m
    BY <1>1, <1>6
  <2> QED BY <1>2, <1>3, <1>5, <1>6, <2>1
<1> QED BY <1>3, <1>4, <1>5, <1>6

(* A statement leaves the rows of HISTORIAL as they are and adds one at most:  *)
(* the first its call owed.                                                    *)
LEMMA HistorialCrece ==
  ASSUME TypeOK, NEW p \in Peticion, Turno(p)
  PROVE  /\ Len(historial) \in Nat /\ Len(historial') \in Nat
         /\ Len(historial) <= Len(historial')
         /\ \A k \in 1..Len(historial) : historial'[k] = historial[k]
         /\ \A k \in 1..Len(historial') : k > Len(historial) =>
              historial'[k] \in Elementos(peticion[p].cambios)
<1>1. historial \in Seq(Asiento) /\ peticion[p].cambios \in Seq(Asiento)
  BY DEF TypeOK, Llamada
<1>2. CASE historial' = historial
  BY <1>1, <1>2, LenProperties
<1>3. CASE /\ historial' = Append(historial, Head(peticion[p].cambios))
           /\ peticion[p].cambios # <<>>
  <2>1. PICK h : h = Head(peticion[p].cambios)
    OBVIOUS
  <2>2. h \in Asiento /\ h \in Elementos(peticion[p].cambios)
    BY <1>1, <1>3, <2>1, CabezaYCola
  <2>3. historial' = Append(historial, h)
    BY <1>3, <2>1
  <2>4. /\ Len(historial') = Len(historial) + 1
        /\ \A k \in 1..Len(historial) : historial'[k] = historial[k]
        /\ historial'[Len(historial) + 1] = h
    BY <1>1, <2>2, <2>3, AppendProperties, LenProperties
  <2> QED BY <1>1, <2>2, <2>4, LenProperties
<1> QED BY <1>2, <1>3, EfectoEnHistorial

(* No statement takes a row out of SOLICITUDES.                               *)
LEMMA SolicitudesCrecen ==
  ASSUME TypeOK, NEW p \in Peticion, Turno(p)
  PROVE  /\ Len(solicitudes) \in Nat /\ Len(solicitudes') \in Nat
         /\ Len(solicitudes) <= Len(solicitudes')
         /\ Ids = 1..Len(solicitudes) /\ Ids' = 1..Len(solicitudes')
         /\ InsertRequest(p) => Len(solicitudes') = Len(solicitudes) + 1
<1>1. solicitudes \in Seq(Fila) /\ Len(solicitudes) \in Nat /\ Ids = 1..Len(solicitudes)
  BY LenProperties DEF TypeOK, Ids
<1>0. solicitudes' \in Seq(Fila) /\ Len(solicitudes') \in Nat /\ Ids' = 1..Len(solicitudes')
  <2>1. TypeOK'
    BY TipoDeLlegada, TipoDeContinuacion DEF Turno
  <2> QED BY <2>1, LenProperties DEF TypeOK, Ids
<1>2. CASE solicitudes' = solicitudes /\ ~InsertRequest(p)
  <2>1. Len(solicitudes') = Len(solicitudes)
    BY <1>2
  <2> QED BY <1>0, <1>1, <1>2, <2>1
<1>3. CASE InsertRequest(p)
  <2>1. solicitudes' = Append(solicitudes, peticion[p].fila) /\ peticion[p].fila \in Fila
    BY <1>3 DEF InsertRequest, TypeOK, Coherente
  <2>2. solicitudes' \in Seq(Fila) /\ Len(solicitudes') = Len(solicitudes) + 1
    BY <1>1, <2>1, AppendProperties
  <2> QED BY <1>0, <1>1, <2>2
<1>4. CASE WriteUpdate(p) \/ WriteState(p)
  <2>1. PICK i, x : solicitudes' = [solicitudes EXCEPT ![i] = x]
    BY <1>4 DEF WriteUpdate, WriteState
  <2>2. ~InsertRequest(p)
    BY <1>4 DEF WriteUpdate, WriteState, InsertRequest
  <2>3. Ids' = Ids
    BY <2>1 DEF Ids
  <2>4. PICK m, n : m = Len(solicitudes) /\ n = Len(solicitudes')
    OBVIOUS
  <2>5. m \in Nat /\ n \in Nat /\ 1..m = 1..n
    BY <1>0, <1>1, <2>3, <2>4
  <2>6. m = n
    BY <2>5
  <2> QED BY <1>0, <1>1, <2>2, <2>4, <2>6
<1> QED BY <1>2, <1>3, <1>4, TablasQueTocan
----------------------------------------------------------------------------
\* Every row of HISTORIAL is of a request there is, and no older than it.
Fechada ==
  /\ CronicaTypeOK
  /\ \A k \in 1..Len(historial) :
       historial[k].sol \in Ids /\ creadas[historial[k].sol] <= fechas[k]

(* What a statement that dates its rows does to the dates.                     *)
LEMMA FechasCrecen ==
  ASSUME TypeOK, CronicaTypeOK, NEW p \in Peticion, Turno(p), Dating
  PROVE  /\ CronicaTypeOK'
         /\ \A i \in Ids : creadas'[i] = creadas[i]
         /\ \A k \in 1..Len(historial) : fechas'[k] = fechas[k]
         /\ \A k \in 1..Len(historial') : k > Len(historial) => fechas'[k] = reloj
<1>1. reloj \in Nat /\ reloj' = reloj
  BY CronicaAssumption DEF CronicaTypeOK, Dating
<1>2. PICK n, m : n = Len(solicitudes') /\ m = Len(historial')
  OBVIOUS
<1>3. /\ n \in Nat /\ Len(creadas) <= n /\ m \in Nat /\ Len(fechas) <= m
      /\ Ids = 1..Len(creadas) /\ Len(fechas) = Len(historial)
  BY <1>2, HistorialCrece, SolicitudesCrecen DEF CronicaTypeOK
<1>4. creadas' = Fechadas(creadas, n) /\ fechas' = Fechadas(fechas, m)
  BY <1>2 DEF Dating
<1>5. /\ creadas' \in Seq(0..reloj) /\ Len(creadas') = n
      /\ \A i \in 1..Len(creadas) : creadas'[i] = creadas[i]
  BY <1>1, <1>3, <1>4, FechadasDa DEF CronicaTypeOK
<1>6. /\ fechas' \in Seq(0..reloj) /\ Len(fechas') = m
      /\ \A k \in 1..Len(fechas) : fechas'[k] = fechas[k]
      /\ \A k \in 1..m : k > Len(fechas) => fechas'[k] = reloj
  BY <1>1, <1>3, <1>4, FechadasDa DEF CronicaTypeOK
<1>7. CronicaTypeOK'
  BY <1>1, <1>2, <1>5, <1>6 DEF CronicaTypeOK
<1> QED BY <1>2, <1>3, <1>5, <1>6, <1>7

LEMMA TicDa ==
  ASSUME CronicaTypeOK, Tick
  PROVE  CronicaTypeOK' /\ UNCHANGED <<vars, creadas, fechas>>
<1>1. reloj \in Nat /\ MaxReloj \in Nat /\ reloj' = reloj + 1 /\ reloj < MaxReloj
  BY CronicaAssumption DEF Tick, CronicaTypeOK
<1>2. 0..reloj \subseteq 0..reloj' /\ reloj' \in 0..MaxReloj
  BY <1>1
<1>3. UNCHANGED <<solicitudes, historial, creadas, fechas>>
  BY DEF Tick, vars
<1>4. creadas \in Seq(0..reloj') /\ fechas \in Seq(0..reloj')
  BY <1>2, SeqMonotonic DEF CronicaTypeOK
<1> QED BY <1>2, <1>3, <1>4 DEF CronicaTypeOK, Tick

LEMMA FechadaSeConserva ==
  ASSUME TypeOK, Fechada, NEW p \in Peticion, Turno(p), Dating
  PROVE  Fechada'
<1>1. CronicaTypeOK
  BY DEF Fechada
<1>2. ASSUME NEW k \in 1..Len(historial')
      PROVE  historial'[k].sol \in Ids' /\ creadas'[historial'[k].sol] <= fechas'[k]
  <2>1. Ids \subseteq Ids' /\ Len(historial) \in Nat /\ k \in Nat /\ Len(historial') \in Nat
    BY HistorialCrece, SolicitudesCrecen
  <2>2. CASE k <= Len(historial)
    <3>1. k \in 1..Len(historial)
      BY <2>1, <2>2
    <3>2. historial'[k] = historial[k] /\ fechas'[k] = fechas[k]
      BY <1>1, <3>1, HistorialCrece, FechasCrecen
    <3>3. historial[k].sol \in Ids /\ creadas[historial[k].sol] <= fechas[k]
      BY <3>1 DEF Fechada
    <3> QED BY <1>1, <2>1, <3>2, <3>3, FechasCrecen
  <2>3. CASE k > Len(historial)
    <3>1. historial'[k] \in Elementos(peticion[p].cambios) /\ fechas'[k] = reloj
      BY <1>1, <2>3, HistorialCrece, FechasCrecen
    <3>2. historial'[k].sol \in Ids
      BY <3>1 DEF TypeOK, Coherente, Elementos
    <3>3. creadas[historial'[k].sol] \in 0..reloj
      <4>1. creadas \in Seq(0..reloj) /\ Ids = 1..Len(creadas)
        BY <1>1, SolicitudesCrecen DEF CronicaTypeOK
      <4> QED BY <3>2, <4>1, ElementOfSeq
    <3>4. creadas'[historial'[k].sol] = creadas[historial'[k].sol]
      BY <1>1, <3>2, FechasCrecen
    <3>5. reloj \in Nat
      BY <1>1, CronicaAssumption DEF CronicaTypeOK
    <3> QED BY <2>1, <3>1, <3>2, <3>3, <3>4, <3>5
  <2> QED BY <2>1, <2>2, <2>3
<1>3. CronicaTypeOK'
  BY <1>1, FechasCrecen
<1> QED BY <1>2, <1>3 DEF Fechada
----------------------------------------------------------------------------
(* The steps of a report.                                                     *)

\* A report, of the requests it has read.
Informe ==
  [paso: {"nuevo", "solicitudes", "historial", "hecho"}, hasta: Nat,
   filas: UNION {[D -> OnboardingRequest] : D \in SUBSET Nat}, leidos: Nat, ahora: Nat]

\* What a report has read is not younger than its answer, and what it has not
\* read of HISTORIAL is not older.
Leida ==
  /\ informe \in Informe
  /\ informe.hasta \in 0..reloj /\ informe.ahora \in 0..reloj
  /\ informe.leidos \in 0..Len(historial)
  /\ Contados \subseteq Ids
  /\ informe.paso = "hecho" =>
       /\ informe.hasta <= informe.ahora
       /\ \A i \in Contados : creadas[i] <= informe.ahora
       /\ \A k \in 1..informe.leidos : fechas[k] <= informe.ahora
       /\ \A k \in 1..Len(historial) : k > informe.leidos => informe.ahora <= fechas[k]

Fondo == TypeOK /\ Fechada /\ Leida

LEMMA FondoAlPrincipio == EstadisticasInit => Fondo
<1> SUFFICES ASSUME EstadisticasInit PROVE Fondo
  OBVIOUS
<1>1. TypeOK /\ reloj = 0 /\ 0 \in 0..reloj
  BY TipoInicial DEF EstadisticasInit, CronicaInit
<1>2. /\ solicitudes \in Seq(Fila) /\ historial \in Seq(Asiento)
      /\ Ids = 1..Len(solicitudes) /\ DOMAIN historial = 1..Len(historial)
      /\ Len(solicitudes) \in Nat /\ Len(historial) \in Nat
  BY <1>1, LenProperties DEF TypeOK, Ids
<1>3. /\ creadas = [i \in 1..Len(solicitudes) |-> 0]
      /\ fechas = [k \in 1..Len(historial) |-> 0]
  BY <1>2 DEF EstadisticasInit, CronicaInit, Ids
<1>4. /\ creadas \in Seq(0..reloj) /\ Len(creadas) = Len(solicitudes)
      /\ fechas \in Seq(0..reloj) /\ Len(fechas) = Len(historial)
  BY <1>1, <1>2, <1>3
<1>5. CronicaTypeOK
  BY <1>1, <1>4, CronicaAssumption DEF CronicaTypeOK
<1>6. ASSUME NEW k \in 1..Len(historial) PROVE historial[k].sol = k /\ k \in Ids
  <2>1. historial = [i \in DOMAIN Iniciales |-> Cambio(i, "CREACION", Nulo, Iniciales[i].estado)]
    BY DEF EstadisticasInit, CronicaInit, Init
  <2>2. k \in DOMAIN historial /\ DOMAIN historial = DOMAIN Iniciales
    BY <1>2, <2>1
  <2>3. solicitudes = Iniciales
    BY DEF EstadisticasInit, CronicaInit, Init
  <2>4. historial[k] = Cambio(k, "CREACION", Nulo, Iniciales[k].estado)
    BY <2>1, <2>2
  <2> QED BY <2>2, <2>3, <2>4 DEF Cambio, Ids
<1>7. Fechada
  BY <1>2, <1>3, <1>5, <1>6 DEF Fechada
<1>8. Leida
  <2>1. informe = InformeNuevo
    BY DEF EstadisticasInit
  <2>2. <<>> \in [{} -> OnboardingRequest] /\ DOMAIN <<>> = {}
    OBVIOUS
  <2>3. informe \in Informe
    BY <2>1, <2>2 DEF Informe, InformeNuevo
  <2> QED BY <1>1, <1>2, <2>1, <2>2, <2>3 DEF Leida, InformeNuevo, Contados
<1> QED BY <1>1, <1>7, <1>8 DEF Fondo

LEMMA FondoAlEscribir ==
  ASSUME Fondo, NEW p \in Peticion, Turno(p), Dating, UNCHANGED informe
  PROVE  Fondo'
<1>1. TypeOK' /\ Fechada'
  BY FechadaSeConserva, TipoDeLlegada, TipoDeContinuacion DEF Fondo, Turno
<1>2. /\ Contados' = Contados /\ informe' = informe /\ reloj' = reloj /\ Ids \subseteq Ids'
      /\ Len(historial) \in Nat /\ Len(historial') \in Nat /\ Len(historial) <= Len(historial')
  BY HistorialCrece, SolicitudesCrecen DEF Fondo, Contados, Dating
<1>3. /\ \A i \in Ids : creadas'[i] = creadas[i]
      /\ \A k \in 1..Len(historial) : fechas'[k] = fechas[k]
      /\ \A k \in 1..Len(historial') : k > Len(historial) => fechas'[k] = reloj
  BY FechasCrecen DEF Fondo, Fechada
<1>7. ASSUME informe.paso = "hecho", NEW k \in 1..Len(historial'), k > informe.leidos
      PROVE  informe.ahora <= fechas'[k]
  <2>1. CASE k > Len(historial)
    BY <1>3, <1>7, <2>1, CronicaAssumption DEF Fondo, Fechada, Leida, CronicaTypeOK
  <2>2. CASE ~(k > Len(historial))
    <3>1. k \in 1..Len(historial)
      BY <1>2, <2>2
    <3> QED BY <1>3, <1>7, <3>1 DEF Fondo, Leida
  <2> QED BY <2>1, <2>2
<1>4. informe.leidos \in 0..Len(historial) /\ Contados \subseteq Ids
  BY DEF Fondo, Leida
<1>5. informe.leidos \in 0..Len(historial') /\ 1..informe.leidos \subseteq 1..Len(historial)
  BY <1>2, <1>4
<1>6. Leida'
  BY <1>2, <1>3, <1>4, <1>5, <1>7 DEF Fondo, Leida
<1> QED BY <1>1, <1>6 DEF Fondo

LEMMA FondoAlPasarElTiempo ==
  ASSUME Fondo, Tick, UNCHANGED informe
  PROVE  Fondo'
<1>1. CronicaTypeOK' /\ UNCHANGED <<vars, creadas, fechas>>
  BY TicDa DEF Fondo, Fechada
<1>2. TypeOK'
  BY <1>1 DEF Fondo, vars, TypeOK, Ids
<1>3. Fechada'
  BY <1>1 DEF Fondo, vars, Fechada, Ids
<1>4. reloj \in Nat /\ reloj' = reloj + 1
  BY CronicaAssumption DEF Fondo, Fechada, CronicaTypeOK, Tick
<1>5. 0..reloj \subseteq 0..reloj'
  BY <1>4
<1>6. Leida'
  BY <1>1, <1>5 DEF Fondo, Leida, Contados, Ids, vars
<1> QED BY <1>2, <1>3, <1>6 DEF Fondo

(* A report begins by looking at the clock.                                    *)
LEMMA TomarHoraDa ==
  ASSUME Fondo, TomarHora
  PROVE  /\ informe' \in Informe
         /\ informe'.paso = "solicitudes" /\ informe'.hasta = reloj
         /\ informe'.leidos = informe.leidos /\ informe'.ahora = informe.ahora
         /\ Contados' = Contados
<1>1. informe \in Informe /\ reloj \in Nat
  BY CronicaAssumption DEF Fondo, Leida, Fechada, CronicaTypeOK
<1>2. informe' = [informe EXCEPT !.paso = "solicitudes", !.hasta = reloj]
  BY DEF TomarHora
<1>3. /\ informe' \in Informe /\ informe'.paso = "solicitudes" /\ informe'.hasta = reloj
      /\ informe'.leidos = informe.leidos /\ informe'.ahora = informe.ahora
      /\ informe'.filas = informe.filas
  BY <1>1, <1>2 DEF Informe
<1> QED BY <1>3 DEF Contados

(* What the first SELECT leaves: its rows are those of requests that count.    *)
LEMMA SelectSolicitudesDa ==
  ASSUME Fondo, SelectSolicitudes
  PROVE  /\ informe' \in Informe
         /\ informe'.paso = "historial" /\ informe'.hasta = informe.hasta
         /\ informe'.leidos = informe.leidos /\ informe'.ahora = informe.ahora
         /\ Contados' \subseteq Ids
         /\ \A i \in Contados' : informe'.filas[i] = solicitudes[i]
<1>1. PICK F : F = [i \in Contadas |-> solicitudes[i]]
  OBVIOUS
<1>2. Contadas \subseteq Ids /\ Ids \subseteq Nat
  BY FilaDeId DEF Contadas, Fondo
<1>3. ASSUME NEW i \in Contadas PROVE solicitudes[i] \in OnboardingRequest
  <2>1. solicitudes[i] \in Fila /\ solicitudes[i].estado # "Eliminada"
    BY <1>2, FilaDeId DEF Contadas, Fondo
  <2> QED BY <2>1 DEF Fila, EstadoFila, OnboardingRequest
<1>4. F \in [Contadas -> OnboardingRequest] /\ DOMAIN F = Contadas
  BY <1>1, <1>3
<1>5. informe' = [informe EXCEPT !.paso = "historial", !.filas = F]
  BY <1>1 DEF SelectSolicitudes
<1>6. informe \in Informe /\ reloj \in Nat
  BY CronicaAssumption DEF Fondo, Leida, Fechada, CronicaTypeOK
<1>7. F \in UNION {[D -> OnboardingRequest] : D \in SUBSET Nat}
  BY <1>2, <1>4
<1>8. informe' \in Informe
  BY <1>5, <1>6, <1>7 DEF Informe
<1>9. /\ informe'.paso = "historial" /\ informe'.hasta = informe.hasta /\ informe'.filas = F
      /\ informe'.leidos = informe.leidos /\ informe'.ahora = informe.ahora
  BY <1>5, <1>6 DEF Informe
<1> QED BY <1>1, <1>2, <1>4, <1>8, <1>9 DEF Contados

(* What the second one leaves: all there is of HISTORIAL, now.                 *)
LEMMA SelectHistorialDa ==
  ASSUME Fondo, SelectHistorial
  PROVE  /\ informe' \in Informe
         /\ informe'.paso = "hecho" /\ informe'.hasta = informe.hasta
         /\ informe'.leidos = Len(historial) /\ informe'.ahora = reloj
         /\ informe'.filas = informe.filas /\ Contados' = Contados
<1>1. informe \in Informe /\ reloj \in Nat /\ Len(historial) \in Nat
  BY CronicaAssumption, LenProperties DEF Fondo, Leida, Fechada, CronicaTypeOK, TypeOK
<1>2. PICK n : n = Len(historial)
  OBVIOUS
<1>3. informe' = [informe EXCEPT !.paso = "hecho", !.ahora = reloj, !.leidos = n]
  BY <1>2 DEF SelectHistorial
<1>4. /\ informe' \in Informe /\ informe'.paso = "hecho" /\ informe'.hasta = informe.hasta
      /\ informe'.leidos = n /\ informe'.ahora = reloj /\ informe'.filas = informe.filas
  BY <1>1, <1>2, <1>3 DEF Informe
<1> QED BY <1>2, <1>4 DEF Contados

LEMMA FondoAlLeer ==
  ASSUME Fondo, TomarHora \/ SelectSolicitudes \/ SelectHistorial
  PROVE  Fondo'
<1>1. UNCHANGED <<vars, reloj, creadas, fechas>>
  BY DEF TomarHora, SelectSolicitudes, SelectHistorial, cronica
<1>2. TypeOK' /\ Fechada'
  BY <1>1 DEF Fondo, vars, TypeOK, Fechada, CronicaTypeOK, Ids
<1>3. reloj \in Nat /\ Len(historial) \in Nat /\ Ids' = Ids
  BY <1>1, CronicaAssumption, LenProperties DEF Fondo, Fechada, CronicaTypeOK, TypeOK, vars, Ids
<1>4. ASSUME NEW i \in Ids PROVE creadas[i] \in 0..reloj
  <2>1. creadas \in Seq(0..reloj) /\ Ids = 1..Len(creadas)
    BY LenProperties DEF Fondo, Fechada, CronicaTypeOK, TypeOK, Ids
  <2> QED BY <1>4, <2>1, ElementOfSeq
<1>5. ASSUME NEW k \in 1..Len(historial) PROVE fechas[k] \in 0..reloj
  <2>1. fechas \in Seq(0..reloj) /\ Len(fechas) = Len(historial)
    BY DEF Fondo, Fechada, CronicaTypeOK
  <2> QED BY <1>5, <2>1, ElementOfSeq
<1>8. CASE TomarHora
  <2>1. /\ informe' \in Informe /\ informe'.paso = "solicitudes" /\ informe'.hasta = reloj
        /\ informe'.leidos = informe.leidos /\ informe'.ahora = informe.ahora
        /\ Contados' = Contados
    BY <1>8, TomarHoraDa
  <2>2. /\ informe.leidos \in 0..Len(historial) /\ informe.ahora \in 0..reloj
        /\ Contados \subseteq Ids
    BY DEF Fondo, Leida
  <2>3. Leida'
    BY <1>1, <1>3, <2>1, <2>2 DEF Leida, vars
  <2> QED BY <1>2, <2>3 DEF Fondo
<1>6. CASE SelectSolicitudes
  <2>1. /\ informe' \in Informe /\ informe'.paso = "historial" /\ informe'.hasta = informe.hasta
        /\ informe'.leidos = informe.leidos /\ informe'.ahora = informe.ahora
        /\ Contados' \subseteq Ids
    BY <1>6, SelectSolicitudesDa
  <2>2. /\ informe.leidos \in 0..Len(historial)
        /\ informe.hasta \in 0..reloj /\ informe.ahora \in 0..reloj
    BY DEF Fondo, Leida
  <2>3. Leida'
    BY <1>1, <1>3, <2>1, <2>2 DEF Leida, vars
  <2> QED BY <1>2, <2>3 DEF Fondo
<1>7. CASE SelectHistorial
  <2>1. /\ informe' \in Informe /\ informe'.paso = "hecho" /\ informe'.hasta = informe.hasta
        /\ informe'.leidos = Len(historial) /\ informe'.ahora = reloj
        /\ Contados' = Contados
    BY <1>7, SelectHistorialDa
  <2>2. informe.hasta \in 0..reloj /\ Contados \subseteq Ids
    BY DEF Fondo, Leida
  <2>3. Leida'
    BY <1>1, <1>3, <1>4, <1>5, <2>1, <2>2 DEF Leida, vars
  <2> QED BY <1>2, <2>3 DEF Fondo
<1> QED BY <1>6, <1>7, <1>8

LEMMA FondoSeConserva == EstadisticasSpec => []Fondo
<1>1. EstadisticasInit => Fondo
  BY FondoAlPrincipio
<1>2. Fondo /\ [EstadisticasNext]_estadisticas => Fondo'
  <2> SUFFICES ASSUME Fondo, [EstadisticasNext]_estadisticas PROVE Fondo'
    OBVIOUS
  <2>1. ASSUME NEW p \in Peticion, Statement(p), UNCHANGED informe PROVE Fondo'
    BY <2>1, FondoAlEscribir DEF Statement, Turno
  <2>2. CASE Tick /\ UNCHANGED informe
    BY <2>2, FondoAlPasarElTiempo
  <2>3. CASE TomarHora \/ SelectSolicitudes \/ SelectHistorial
    BY <2>3, FondoAlLeer
  <2>4. CASE UNCHANGED estadisticas
    BY <2>4 DEF estadisticas, cronica, vars, Fondo, TypeOK, Fechada, Leida, CronicaTypeOK,
       Ids, Contados
  <2> QED BY <2>1, <2>2, <2>3, <2>4 DEF EstadisticasNext
<1> QED BY <1>1, <1>2, PTL DEF EstadisticasSpec

(* The dates are instants gone by and every table has its own, and a report    *)
(* counts requests there are, none of them 'Eliminada', with no more rows of   *)
(* HISTORIAL than there are.                                                   *)
THEOREM EstadisticasTypeCorrect == EstadisticasSpec => []EstadisticasTypeOK
<1>1. Fondo => EstadisticasTypeOK
  <2> SUFFICES ASSUME Fondo PROVE EstadisticasTypeOK
    OBVIOUS
  <2>1. informe \in Informe
    BY DEF Fondo, Leida
  <2>2. PICK D : informe.filas \in [D -> OnboardingRequest]
    BY <2>1 DEF Informe
  <2>3. \A i \in Contados : informe.filas[i] \in OnboardingRequest
    BY <2>2 DEF Contados
  <2> QED BY <2>1, <2>3 DEF Fondo, Fechada, Leida, EstadisticasTypeOK, Informe
<1> QED BY <1>1, FondoSeConserva, PTL
----------------------------------------------------------------------------
(* The date a request was closed on.                                          *)

\* The closings of request i among the first n rows of h.
CierresEn(h, i, n) ==
  {k \in 1..n : /\ h[k].sol = i
                /\ h[k].tipo = "CAMBIO_ESTADO"
                /\ h[k].nuevo \in TERMINAL_STATES}

FechaDeCierre(h, fs, i, n) ==
  IF CierresEn(h, i, n) = {} THEN Nulo ELSE fs[Min(CierresEn(h, i, n))]

\* The trace of a request takes its closings, and their date, from HISTORIAL.
CierresDeHistorial ==
  \A f, i : \A n \in Nat : Cierre(Trazo(f, i, n)) = FechaDeCierre(historial, fechas, i, n)

LEMMA CierresSonDeHistorial == CierresDeHistorial
<1> SUFFICES ASSUME NEW f, NEW i, NEW n \in Nat
             PROVE  Cierre(Trazo(f, i, n)) = FechaDeCierre(historial, fechas, i, n)
  BY DEF CierresDeHistorial
<1> DEFINE D == {0} \cup {m \in 1..n : EsCambio(m, i)}
           tr == Trazo(f, i, n)
           C == CierresEn(historial, i, n)
<1>1. DOMAIN tr = D
  BY DEF Trazo
<1>2. ASSUME NEW k \in D, k # 0 PROVE tr[k].t = fechas[k] /\ tr[k].e = historial[k].nuevo
  BY <1>2 DEF Trazo
<1>3. Cierres(tr) = C
  <2> HIDE DEF tr
  <2>1. Cierres(tr) = {k \in D : k # 0 /\ tr[k].e \in TERMINAL_STATES}
    BY <1>1 DEF Cierres
  <2>2. Cierres(tr) = {k \in D : k # 0 /\ historial[k].nuevo \in TERMINAL_STATES}
    BY <1>2, <2>1
  <2> QED BY <2>2 DEF CierresEn, EsCambio
<1>4. ASSUME C # {} PROVE tr[Min(C)].t = fechas[Min(C)]
  <2>1. C \subseteq Nat
    BY DEF CierresEn
  <2>2. Min(C) \in C
    BY <1>4, <2>1, MinDa
  <2>3. Min(C) \in D /\ Min(C) # 0
    BY <2>2 DEF CierresEn, EsCambio
  <2> QED BY <1>2, <2>3
<1> QED BY <1>3, <1>4 DEF Cierre, FechaDeCierre

\* The first m rows and their dates are the same.
MismoPasado(h, fs, g, gs, m) == \A k \in 1..m : g[k] = h[k] /\ gs[k] = fs[k]

(* Later rows do not change it.                                               *)
LEMMA FechaDeCierreNoCambia ==
  ASSUME NEW h, NEW fs, NEW g, NEW gs, NEW i, NEW m \in Nat, NEW n \in Nat, m <= n,
         MismoPasado(h, fs, g, gs, m),
         CierresEn(h, i, m) # {}
  PROVE  FechaDeCierre(g, gs, i, n) = FechaDeCierre(h, fs, i, m)
<1> DEFINE C == CierresEn(h, i, m)
           E == CierresEn(g, i, n)
<1>1. C \subseteq E /\ C \subseteq 1..m /\ E \subseteq Nat /\ 1..m \subseteq 1..n
  BY DEF CierresEn, MismoPasado
<1>2. \A k \in E : k \in C \/ k > m
  BY DEF CierresEn, MismoPasado
<1> HIDE DEF C, E
<1>3. C \subseteq Nat /\ C # {} /\ E # {}
  BY <1>1 DEF C
<1>4. /\ Min(C) \in C /\ \A k \in C : Min(C) <= k
      /\ Min(E) \in E /\ \A k \in E : Min(E) <= k
  BY <1>1, <1>3, MinDa
<1>5. Min(E) = Min(C)
  <2>1. Min(E) <= Min(C) /\ Min(C) \in 1..m /\ Min(E) \in Nat
    BY <1>1, <1>4
  <2>2. Min(E) \in C
    BY <1>2, <1>4, <2>1
  <2> QED BY <1>4, <2>1, <2>2
<1>6. gs[Min(C)] = fs[Min(C)]
  BY <1>1, <1>4 DEF MismoPasado
<1> QED BY <1>3, <1>5, <1>6 DEF FechaDeCierre, C, E

(* No step changes what HISTORIAL says or when it was said, nor takes back a   *)
(* row that is owed.                                                           *)
LEMMA PasadoFijo ==
  ASSUME Fondo, [EstadisticasNext]_estadisticas
  PROVE  /\ Len(historial) \in Nat /\ Len(historial') \in Nat
         /\ Len(historial) <= Len(historial')
         /\ \A k \in 1..Len(historial) : historial'[k] = historial[k] /\ fechas'[k] = fechas[k]
         /\ Asientos \subseteq Asientos'
<1>1. Len(historial) \in Nat
  BY LenProperties DEF Fondo, TypeOK
<1>2. CASE \E p \in Peticion : Statement(p)
  <2>1. PICK p \in Peticion : Turno(p) /\ Dating
    BY <1>2 DEF Statement, Turno
  <2> QED BY <2>1, HistorialCrece, FechasCrecen, NadaSePierde DEF Fondo, Fechada
<1>3. CASE UNCHANGED <<vars, fechas>>
  <2>1. historial' = historial /\ fechas' = fechas /\ Asientos' = Asientos
    BY <1>3 DEF vars, Asientos, Escritos
  <2>2. Len(historial') = Len(historial)
    BY <2>1
  <2> QED BY <1>1, <2>1, <2>2
<1>4. Tick \/ TomarHora \/ SelectSolicitudes \/ SelectHistorial \/ UNCHANGED estadisticas
      => UNCHANGED <<vars, fechas>>
  BY DEF Tick, TomarHora, SelectSolicitudes, SelectHistorial, estadisticas, cronica
<1> QED BY <1>2, <1>3, <1>4 DEF EstadisticasNext

(* The date a request was closed on never moves, whatever is done to it later. *)
THEOREM FechaDeCierreSiempreEstable == EstadisticasSpec => FechaDeCierreEstable
<1> DEFINE Antes(i) == Cierre(Trazo(solicitudes[i], i, Len(historial)))
           Estable == \A i \in Ids : Antes(i) # Nulo =>
                        Cierre(Trazo(solicitudes[i], i, Len(historial))') = Antes(i)
<1>1. CierresDeHistorial /\ CierresDeHistorial'
  BY CierresSonDeHistorial, PTL
<1>2. Fondo /\ [EstadisticasNext]_estadisticas => Estable
  <2> SUFFICES ASSUME Fondo, [EstadisticasNext]_estadisticas, NEW i \in Ids,
                      Cierre(Trazo(solicitudes[i], i, Len(historial))) # Nulo
               PROVE  Cierre(Trazo(solicitudes[i], i, Len(historial))')
                        = Cierre(Trazo(solicitudes[i], i, Len(historial)))
    OBVIOUS
  <2>1. PICK m, n : m = Len(historial) /\ n = Len(historial')
    OBVIOUS
  <2>2. /\ m \in Nat /\ n \in Nat /\ m <= n
        /\ \A k \in 1..m : historial'[k] = historial[k] /\ fechas'[k] = fechas[k]
    BY <2>1, PasadoFijo
  <2>3. Cierre(Trazo(solicitudes[i], i, Len(historial)))
          = FechaDeCierre(historial, fechas, i, m)
    BY <1>1, <2>1, <2>2 DEF CierresDeHistorial
  <2>4. Cierre(Trazo(solicitudes[i], i, Len(historial))')
          = FechaDeCierre(historial', fechas', i, n)
    BY <1>1, <2>1, <2>2 DEF CierresDeHistorial
  <2>5. CierresEn(historial, i, m) # {}
    BY <2>3 DEF FechaDeCierre
  <2>6. FechaDeCierre(historial', fechas', i, n) = FechaDeCierre(historial, fechas, i, m)
    <3>1. PICK h, fs, g, gs :
            h = historial /\ fs = fechas /\ g = historial' /\ gs = fechas'
      OBVIOUS
    <3>2. MismoPasado(h, fs, g, gs, m) /\ CierresEn(h, i, m) # {}
      BY <2>2, <2>5, <3>1 DEF MismoPasado
    <3>3. FechaDeCierre(g, gs, i, n) = FechaDeCierre(h, fs, i, m)
      BY <2>2, <3>2, FechaDeCierreNoCambia
    <3> QED BY <3>1, <3>3
  <2> QED BY <2>3, <2>4, <2>6
<1> QED BY <1>2, FondoSeConserva, PTL DEF EstadisticasSpec, FechaDeCierreEstable
----------------------------------------------------------------------------
(* The numbers of a report.                                                   *)

(* A closing that was read has its date, which is not before the request.      *)
LEMMA CierreLeido ==
  ASSUME Fondo, NEW i \in Contados
  PROVE  /\ creadas[i] \in Nat
         /\ \/ Cierre(TrazoDe(i)) = Nulo
            \/ /\ Cierre(TrazoDe(i)) # Nulo /\ Cierre(TrazoDe(i)) \in Nat
               /\ creadas[i] <= Cierre(TrazoDe(i))
               /\ \E k \in 1..informe.leidos : Cierre(TrazoDe(i)) = fechas[k]
<1> DEFINE n == informe.leidos
           C == CierresEn(historial, i, n)
<1>1. n \in Nat /\ 1..n \subseteq 1..Len(historial) /\ reloj \in Nat /\ i \in Ids
  <2>1. Len(historial) \in Nat /\ reloj \in Nat
    BY CronicaAssumption, LenProperties DEF Fondo, TypeOK, Fechada, CronicaTypeOK
  <2> QED BY <2>1 DEF Fondo, Leida
<1>2. Cierre(TrazoDe(i)) = FechaDeCierre(historial, fechas, i, n)
  BY <1>1, CierresSonDeHistorial DEF CierresDeHistorial, TrazoDe
<1>3. creadas[i] \in Nat
  <2>1. creadas \in Seq(0..reloj) /\ Ids = 1..Len(creadas)
    BY LenProperties DEF Fondo, Fechada, CronicaTypeOK, TypeOK, Ids
  <2> QED BY <1>1, <2>1, ElementOfSeq
<1>4. CASE C = {}
  BY <1>2, <1>3, <1>4 DEF FechaDeCierre
<1>5. CASE C # {}
  <2>1. C \subseteq Nat /\ C \subseteq 1..n
    BY DEF CierresEn
  <2>2. PICK k : k = Min(C)
    OBVIOUS
  <2>3. k \in C
    BY <1>5, <2>1, <2>2, MinDa
  <2>4. k \in 1..n /\ historial[k].sol = i
    BY <2>3 DEF CierresEn
  <2>5. creadas[i] <= fechas[k]
    BY <1>1, <2>4 DEF Fondo, Fechada
  <2>6. fechas[k] \in 0..reloj
    <3>1. fechas \in Seq(0..reloj) /\ k \in 1..Len(fechas)
      BY <1>1, <2>4 DEF Fondo, Fechada, CronicaTypeOK
    <3> QED BY <3>1, ElementOfSeq
  <2>7. fechas[k] \in Nat /\ fechas[k] # Nulo
    BY <2>6, CronicaAssumption
  <2>8. Cierre(TrazoDe(i)) = fechas[k]
    BY <1>2, <1>5, <2>2 DEF FechaDeCierre
  <2> QED BY <1>3, <2>4, <2>5, <2>7, <2>8
<1> QED BY <1>4, <1>5

(* The total of a request is a number of minutes, never negative: the rows of  *)
(* HISTORIAL are no older than their request and the present is no older than  *)
(* either.                                                                     *)
LEMMA TotalNatural ==
  ASSUME Fondo, Hecho, NEW i \in Contados
  PROVE  Total(i) \in Nat
<1>1. /\ creadas[i] \in Nat
      /\ \/ Cierre(TrazoDe(i)) = Nulo
         \/ /\ Cierre(TrazoDe(i)) # Nulo /\ Cierre(TrazoDe(i)) \in Nat
            /\ creadas[i] <= Cierre(TrazoDe(i))
  BY CierreLeido
<1>2. TrazoDe(i)[0].t = creadas[i]
  BY DEF TrazoDe, Trazo
<1>3. creadas[i] <= informe.ahora /\ informe.ahora \in Nat
  BY DEF Fondo, Leida, Hecho, Informe
<1> QED BY <1>1, <1>2, <1>3 DEF Total, total_minutes

----------------------------------------------------------------------------
(* The percentiles.                                                           *)

Totales(f) ==
  f \in [DOMAIN f -> Nat] /\ IsFiniteSet(DOMAIN f) /\ DOMAIN f # {}

Menores(f, v) == {i \in DOMAIN f : f[i] < v}
Hasta(f, v)   == {i \in DOMAIN f : f[i] <= v}

\* v is the k-th value of f.
EsElDeRango(f, k, v) ==
  v \in Range(f) /\ Cardinality(Menores(f, v)) < k /\ Cardinality(Hasta(f, v)) >= k

LEMMA CuentaDe ==
  ASSUME NEW f, Totales(f), NEW T \in SUBSET DOMAIN f
  PROVE  /\ IsFiniteSet(T) /\ Cardinality(T) \in Nat
         /\ Cardinality(T) <= Cardinality(DOMAIN f)
         /\ Cardinality(DOMAIN f) \in Nat \ {0}
         /\ \A U \in SUBSET T : Cardinality(U) <= Cardinality(T)
         /\ Cardinality(DOMAIN f \ T) = Cardinality(DOMAIN f) - Cardinality(T)
<1>1. IsFiniteSet(DOMAIN f) /\ DOMAIN f # {}
  BY DEF Totales
<1>2. IsFiniteSet(T) /\ Cardinality(T) <= Cardinality(DOMAIN f)
  BY <1>1, FS_Subset
<1>3. Cardinality(T) \in Nat /\ Cardinality(DOMAIN f) \in Nat \ {0}
  BY <1>1, <1>2, FS_CardinalityType, FS_EmptySet
<1>4. \A U \in SUBSET T : Cardinality(U) <= Cardinality(T)
  BY <1>2, FS_Subset
<1>5. Cardinality(DOMAIN f \ T) = Cardinality(DOMAIN f) - Cardinality(T)
  <2>1. DOMAIN f \cap T = T
    OBVIOUS
  <2>2. Cardinality(DOMAIN f \ T) = Cardinality(DOMAIN f) - Cardinality(DOMAIN f \cap T)
    BY <1>1, FS_Difference
  <2> QED BY <2>1, <2>2
<1> QED BY <1>1, <1>2, <1>3, <1>4, <1>5

(* There is a k-th value, for every k there are values for.  It is the least   *)
(* one with k or more at or below it; those below it are at or below the next  *)
(* smaller one, and so are fewer than k.                                       *)
LEMMA OrdenadoDa ==
  ASSUME NEW f, Totales(f), NEW k \in 1..Cardinality(DOMAIN f)
  PROVE  EsElDeRango(f, k, Ordenado(f, k)) /\ Ordenado(f, k) \in Nat
<1> DEFINE S == {v \in Range(f) : Cardinality(Hasta(f, v)) >= k}
<1>1. Range(f) \subseteq Nat /\ Range(f) # {} /\ \A i \in DOMAIN f : f[i] \in Range(f)
  BY DEF Totales, Range
<1>2. Cardinality(DOMAIN f) \in Nat /\ k \in Nat /\ k >= 1 /\ k <= Cardinality(DOMAIN f)
  BY FS_CardinalityType DEF Totales
<1>3. \E b \in Nat : \A v \in Range(f) : v <= b
  <2>1. IsFiniteSet(Range(f))
    <3>1. f \in Surjection(DOMAIN f, Range(f))
      BY DEF Surjection, Totales, Range
    <3> QED BY <3>1, FS_Surjection DEF Totales
  <2>2. PICK b \in Nat : \A v \in Range(f) : v <= b
    BY <1>1, <2>1, CotaDeFinito
  <2> QED BY <2>2
<1>4. S # {} /\ S \subseteq Nat
  <2>1. PICK v \in Range(f) : \A w \in Range(f) : w <= v
    BY <1>1, <1>3, Maximo
  <2>2. Hasta(f, v) = DOMAIN f
    BY <1>1, <2>1 DEF Hasta
  <2> QED BY <1>1, <1>2, <2>2
<1>5. PICK v \in S : \A w \in S : v <= w
  <2> HIDE DEF S
  <2> QED BY <1>4, Minimo
<1>6. Cardinality(Menores(f, v)) < k
  <2> DEFINE T == {w \in Range(f) : w < v}
  <2>1. v \in Nat /\ T \subseteq Nat /\ \A w \in T : w <= v
    BY <1>1
  <2>2. CASE T = {}
    <3>1. Menores(f, v) = {}
      BY <1>1, <2>2 DEF Menores
    <3>2. Cardinality({}) = 0
      BY FS_EmptySet
    <3> QED BY <1>2, <3>1, <3>2
  <2>3. CASE T # {}
    <3>1. PICK w \in T : \A x \in T : x <= w
      <4> HIDE DEF T
      <4> QED BY <2>1, <2>3, Maximo
    <3>2. Menores(f, v) = Hasta(f, w)
      <4>1. ASSUME NEW i \in DOMAIN f PROVE f[i] < v <=> f[i] <= w
        <5>1. f[i] \in Range(f) /\ f[i] \in Nat /\ w \in Nat /\ w < v /\ v \in Nat
          BY <1>1, <2>1
        <5> QED BY <3>1, <5>1
      <4> QED BY <4>1 DEF Menores, Hasta
    <3>3. w \notin S
      BY <1>5, <2>1, <3>1
    <3>4. Cardinality(Hasta(f, w)) \in Nat
      BY CuentaDe DEF Hasta
    <3> QED BY <1>2, <3>2, <3>3, <3>4
  <2> QED BY <2>2, <2>3
<1>7. EsElDeRango(f, k, v)
  BY <1>6 DEF EsElDeRango
<1>8. Ordenado(f, k) = CHOOSE x \in Range(f) : EsElDeRango(f, k, x)
  BY DEF Ordenado, EsElDeRango, Menores, Hasta
<1>9. v \in Range(f)
  OBVIOUS
<1> HIDE DEF S
<1>10. EsElDeRango(f, k, Ordenado(f, k)) /\ Ordenado(f, k) \in Range(f)
  BY <1>7, <1>8, <1>9
<1> QED BY <1>1, <1>10

(* The values come in the order of their ranks.                               *)
LEMMA OrdenadoCrece ==
  ASSUME NEW f, Totales(f), NEW k \in 1..Cardinality(DOMAIN f),
         NEW l \in 1..Cardinality(DOMAIN f), k <= l
  PROVE  Ordenado(f, k) <= Ordenado(f, l)
<1> DEFINE v == Ordenado(f, k)
           w == Ordenado(f, l)
<1>1. /\ Cardinality(Menores(f, v)) < k /\ Cardinality(Hasta(f, w)) >= l
      /\ v \in Nat /\ w \in Nat
  BY OrdenadoDa DEF EsElDeRango
<1> HIDE DEF v, w
<1> SUFFICES ASSUME w < v PROVE FALSE
  BY <1>1 DEF v, w
<1>2. Hasta(f, w) \subseteq Menores(f, v)
  BY <1>1 DEF Hasta, Menores, Totales
<1>3. /\ Cardinality(Hasta(f, w)) <= Cardinality(Menores(f, v))
      /\ Cardinality(Hasta(f, w)) \in Nat /\ Cardinality(Menores(f, v)) \in Nat
  <2>1. Menores(f, v) \in SUBSET DOMAIN f /\ Hasta(f, w) \in SUBSET DOMAIN f
    BY DEF Menores, Hasta
  <2> QED BY <1>2, <2>1, CuentaDe
<1>4. k \in Nat /\ l \in Nat
  BY CuentaDe
<1> QED BY <1>1, <1>3, <1>4

(* A mean with weights in tenths lies between its two values, and nearer the   *)
(* greater one the more it weighs.                                             *)
LEMMA MediaEntre ==
  ASSUME NEW a \in Nat, NEW b \in Nat, a <= b, NEW w \in 0..9
  PROVE  /\ a * (10 - w) + b * w \in Nat
         /\ 10 * a <= a * (10 - w) + b * w /\ a * (10 - w) + b * w <= 10 * b
         /\ w = 0 => a * (10 - w) + b * w = 10 * a
         /\ \A z \in 0..9 : w <= z => a * (10 - w) + b * w <= a * (10 - z) + b * z
<1>1. PICK c \in Nat : b = a + c
  <2>1. b - a \in Nat /\ b = a + (b - a)
    OBVIOUS
  <2> QED BY <2>1
<1>2. ASSUME NEW z \in 0..9
      PROVE  a * (10 - z) + b * z = 10 * a + c * z /\ c * z \in Nat /\ c * z <= 10 * c
  <2>1. CASE z = 0
    BY <1>1, <2>1
  <2>2. CASE z = 1
    BY <1>1, <2>2
  <2>3. CASE z = 2
    BY <1>1, <2>3
  <2>4. CASE z = 3
    BY <1>1, <2>4
  <2>5. CASE z = 4
    BY <1>1, <2>5
  <2>6. CASE z = 5
    BY <1>1, <2>6
  <2>7. CASE z = 6
    BY <1>1, <2>7
  <2>8. CASE z = 7
    BY <1>1, <2>8
  <2>9. CASE z = 8
    BY <1>1, <2>9
  <2>10. CASE z = 9
    BY <1>1, <2>10
  <2> QED BY <2>1, <2>2, <2>3, <2>4, <2>5, <2>6, <2>7, <2>8, <2>9, <2>10
<1>3. ASSUME NEW z \in 0..9, w <= z PROVE c * w <= c * z
  <2>1. PICK d \in Nat : z = w + d
    <3>1. z - w \in Nat /\ z = w + (z - w)
      BY <1>3
    <3> QED BY <3>1
  <2>2. c * z = c * w + c * d /\ c * d \in Nat /\ c * w \in Nat
    BY <2>1
  <2> QED BY <2>2
<1>4. w = 0 => c * w = 0
  OBVIOUS
<1> QED BY <1>1, <1>2, <1>3, <1>4

\* The two ranks a percentile lies between, and how far it is from the first.
Bajo(n, r) == r \div 10
Alto(n, r) == Min({r \div 10 + 1, n - 1})

LEMMA RangosDa ==
  ASSUME NEW n \in Nat \ {0}, NEW r \in Nat, r <= 10 * (n - 1)
  PROVE  /\ Bajo(n, r) \in 0..(n - 1) /\ Alto(n, r) \in 0..(n - 1) /\ r % 10 \in 0..9
         /\ Bajo(n, r) <= Alto(n, r) /\ Alto(n, r) <= Bajo(n, r) + 1
         /\ Bajo(n, r) < n - 1 => Alto(n, r) = Bajo(n, r) + 1
         /\ r = 10 * Bajo(n, r) + (r % 10)
<1>1. PICK b, w : b = r \div 10 /\ w = r % 10
  OBVIOUS
<1>2. b \in Nat /\ w \in 0..9 /\ r = 10 * b + w
  BY <1>1
<1>3. b <= n - 1
  BY <1>2
<1>4. PICK T : T = {b + 1, n - 1}
  OBVIOUS
<1>5. T \subseteq Nat /\ T # {} /\ b + 1 \in T /\ n - 1 \in T
  BY <1>2, <1>4
<1>6. Min(T) \in T /\ Min(T) <= b + 1 /\ Min(T) <= n - 1
  BY <1>5, MinDa
<1>7. Alto(n, r) = Min(T)
  BY <1>1, <1>4 DEF Alto
<1>8. PICK a : a = Alto(n, r)
  OBVIOUS
<1>9. /\ a \in 0..(n - 1) /\ b \in 0..(n - 1) /\ b <= a /\ a <= b + 1
      /\ b < n - 1 => a = b + 1
  BY <1>2, <1>3, <1>4, <1>6, <1>7, <1>8
<1> QED BY <1>1, <1>2, <1>8, <1>9 DEF Bajo

(* A percentile lies between two values of neighbouring ranks.                *)
LEMMA PercentilDa ==
  ASSUME NEW f, Totales(f), NEW n, n = Cardinality(DOMAIN f), NEW q \in {5, 9},
         NEW b, b = Bajo(n, (n - 1) * q), NEW a, a = Alto(n, (n - 1) * q),
         NEW w, w = ((n - 1) * q) % 10
  PROVE  /\ n \in Nat \ {0} /\ b \in 0..(n - 1) /\ a \in 0..(n - 1) /\ w \in 0..9
         /\ b <= a /\ a <= b + 1 /\ (b < n - 1 => a = b + 1) /\ (n - 1) * q = 10 * b + w
         /\ Ordenado(f, b + 1) \in Nat /\ Ordenado(f, a + 1) \in Nat
         /\ Ordenado(f, b + 1) <= Ordenado(f, a + 1)
         /\ percentile(f, q) = Ordenado(f, b + 1) * (10 - w) + Ordenado(f, a + 1) * w
<1>1. n \in Nat \ {0}
  BY FS_CardinalityType, FS_EmptySet DEF Totales
<1>2. (n - 1) * q \in Nat /\ (n - 1) * q <= 10 * (n - 1)
  BY <1>1
<1>3. PICK r : r = (n - 1) * q
  OBVIOUS
<1>4. /\ b \in 0..(n - 1) /\ a \in 0..(n - 1) /\ w \in 0..9
      /\ b <= a /\ a <= b + 1 /\ (b < n - 1 => a = b + 1) /\ r = 10 * b + w
  <2>1. r \in Nat /\ r <= 10 * (n - 1)
    BY <1>2, <1>3
  <2>2. b = Bajo(n, r) /\ a = Alto(n, r) /\ w = r % 10
    BY <1>3
  <2>3. /\ Bajo(n, r) \in 0..(n - 1) /\ Alto(n, r) \in 0..(n - 1) /\ r % 10 \in 0..9
        /\ Bajo(n, r) <= Alto(n, r) /\ Alto(n, r) <= Bajo(n, r) + 1
        /\ Bajo(n, r) < n - 1 => Alto(n, r) = Bajo(n, r) + 1
        /\ r = 10 * Bajo(n, r) + (r % 10)
    BY <1>1, <2>1, RangosDa
  <2> QED BY <2>2, <2>3
<1>5. b + 1 \in 1..n /\ a + 1 \in 1..n /\ b + 1 <= a + 1
  BY <1>1, <1>4
<1>6. /\ Ordenado(f, b + 1) \in Nat /\ Ordenado(f, a + 1) \in Nat
      /\ Ordenado(f, b + 1) <= Ordenado(f, a + 1)
  BY <1>5, OrdenadoDa, OrdenadoCrece
<1>7. percentile(f, q) = Ordenado(f, b + 1) * (10 - w) + Ordenado(f, a + 1) * w
  BY DEF percentile, Bajo, Alto
<1> QED BY <1>1, <1>3, <1>4, <1>6, <1>7

\* What PercentilesEnOrden says of the totals f.
EnOrden(f) ==
  LET n   == Cardinality(DOMAIN f)
      p50 == percentile(f, 5)
      p90 == percentile(f, 9)
  IN  /\ 10 * Ordenado(f, 1) <= p50 /\ p50 <= p90
      /\ p90 <= 10 * Ordenado(f, n)
      /\ 2 * Cardinality({i \in DOMAIN f : 10 * f[i] <= p50}) >= n
      /\ 2 * Cardinality({i \in DOMAIN f : 10 * f[i] >= p50}) >= n

LEMMA PercentilesDeTotales == ASSUME NEW f, Totales(f) PROVE EnOrden(f)
<1>1. PICK n, p50, p90 :
        n = Cardinality(DOMAIN f) /\ p50 = percentile(f, 5) /\ p90 = percentile(f, 9)
  OBVIOUS
<1>2. PICK b, a, w :
        b = Bajo(n, (n - 1) * 5) /\ a = Alto(n, (n - 1) * 5) /\ w = ((n - 1) * 5) % 10
  OBVIOUS
<1>3. PICK d, c, z :
        d = Bajo(n, (n - 1) * 9) /\ c = Alto(n, (n - 1) * 9) /\ z = ((n - 1) * 9) % 10
  OBVIOUS
<1>4. /\ n \in Nat \ {0} /\ b \in 0..(n - 1) /\ a \in 0..(n - 1) /\ w \in 0..9
      /\ b <= a /\ a <= b + 1 /\ (b < n - 1 => a = b + 1) /\ (n - 1) * 5 = 10 * b + w
      /\ Ordenado(f, b + 1) \in Nat /\ Ordenado(f, a + 1) \in Nat
      /\ Ordenado(f, b + 1) <= Ordenado(f, a + 1)
      /\ p50 = Ordenado(f, b + 1) * (10 - w) + Ordenado(f, a + 1) * w
  <2>1. PICK q : q = 5
    OBVIOUS
  <2>2. /\ q \in {5, 9} /\ p50 = percentile(f, q)
        /\ b = Bajo(n, (n - 1) * q) /\ a = Alto(n, (n - 1) * q) /\ w = ((n - 1) * q) % 10
    BY <1>1, <1>2, <2>1
  <2>3. n \in Nat \ {0}
    BY <1>1, FS_CardinalityType, FS_EmptySet DEF Totales
  <2>4. /\ b \in 0..(n - 1) /\ a \in 0..(n - 1) /\ w \in 0..9
        /\ b <= a /\ a <= b + 1 /\ (b < n - 1 => a = b + 1) /\ (n - 1) * q = 10 * b + w
        /\ Ordenado(f, b + 1) \in Nat /\ Ordenado(f, a + 1) \in Nat
        /\ Ordenado(f, b + 1) <= Ordenado(f, a + 1)
        /\ p50 = Ordenado(f, b + 1) * (10 - w) + Ordenado(f, a + 1) * w
    BY <1>1, <2>2, PercentilDa
  <2> QED BY <2>1, <2>3, <2>4
<1>5. /\ d \in 0..(n - 1) /\ c \in 0..(n - 1) /\ z \in 0..9
      /\ d <= c /\ c <= d + 1 /\ (d < n - 1 => c = d + 1) /\ (n - 1) * 9 = 10 * d + z
      /\ Ordenado(f, d + 1) \in Nat /\ Ordenado(f, c + 1) \in Nat
      /\ Ordenado(f, d + 1) <= Ordenado(f, c + 1)
      /\ p90 = Ordenado(f, d + 1) * (10 - z) + Ordenado(f, c + 1) * z
  <2>1. PICK q : q = 9
    OBVIOUS
  <2>2. /\ q \in {5, 9} /\ p90 = percentile(f, q)
        /\ d = Bajo(n, (n - 1) * q) /\ c = Alto(n, (n - 1) * q) /\ z = ((n - 1) * q) % 10
    BY <1>1, <1>3, <2>1
  <2>3. /\ d \in 0..(n - 1) /\ c \in 0..(n - 1) /\ z \in 0..9
        /\ d <= c /\ c <= d + 1 /\ (d < n - 1 => c = d + 1) /\ (n - 1) * q = 10 * d + z
        /\ Ordenado(f, d + 1) \in Nat /\ Ordenado(f, c + 1) \in Nat
        /\ Ordenado(f, d + 1) <= Ordenado(f, c + 1)
        /\ p90 = Ordenado(f, d + 1) * (10 - z) + Ordenado(f, c + 1) * z
    BY <1>1, <2>2, PercentilDa
  <2> QED BY <2>1, <2>3
<1>6. /\ p50 \in Nat /\ 10 * Ordenado(f, b + 1) <= p50 /\ p50 <= 10 * Ordenado(f, a + 1)
      /\ w = 0 => p50 = 10 * Ordenado(f, b + 1)
      /\ \A x \in 0..9 : w <= x =>
           p50 <= Ordenado(f, b + 1) * (10 - x) + Ordenado(f, a + 1) * x
  BY <1>4, MediaEntre
<1>7. p90 \in Nat /\ 10 * Ordenado(f, d + 1) <= p90 /\ p90 <= 10 * Ordenado(f, c + 1)
  BY <1>5, MediaEntre
<1>8. /\ Ordenado(f, 1) \in Nat /\ Ordenado(f, n) \in Nat
      /\ Ordenado(f, 1) <= Ordenado(f, b + 1) /\ Ordenado(f, c + 1) <= Ordenado(f, n)
  <2>1. 1 \in 1..n /\ n \in 1..n /\ b + 1 \in 1..n /\ c + 1 \in 1..n
    BY <1>4, <1>5
  <2> QED BY <1>1, <1>4, <1>5, <2>1, OrdenadoDa, OrdenadoCrece
<1>9. p50 <= p90
  <2>1. b <= d
    BY <1>4, <1>5
  <2>2. CASE b < d
    <3>1. a + 1 \in 1..n /\ d + 1 \in 1..n /\ a + 1 <= d + 1
      BY <1>4, <1>5, <2>2
    <3>2. Ordenado(f, a + 1) <= Ordenado(f, d + 1)
      BY <1>1, <3>1, OrdenadoCrece
    <3> QED BY <1>4, <1>5, <1>6, <1>7, <3>2
  <2>3. CASE b = d
    <3>1. a = c
      <4>1. /\ n \in Nat /\ b \in 0..(n - 1) /\ a \in 0..(n - 1) /\ c \in 0..(n - 1)
            /\ b <= a /\ b <= c /\ (b < n - 1 => a = b + 1 /\ c = b + 1)
        BY <1>4, <1>5, <2>3
      <4> QED BY <4>1
    <3>2. w <= z
      BY <1>4, <1>5, <2>3
    <3> QED BY <1>5, <1>6, <2>3, <3>1, <3>2
  <2> QED BY <1>4, <1>5, <2>1, <2>2, <2>3
<1>10. 2 * Cardinality({i \in DOMAIN f : 10 * f[i] <= p50}) >= n
  <2> DEFINE B == Ordenado(f, b + 1)
             M == {i \in DOMAIN f : 10 * f[i] <= p50}
  <2>1. b + 1 \in 1..n
    BY <1>4
  <2>2. Cardinality(Hasta(f, B)) >= b + 1
    BY <1>1, <2>1, OrdenadoDa DEF EsElDeRango
  <2>3. Hasta(f, B) \subseteq M
    <3> SUFFICES ASSUME NEW i \in DOMAIN f, f[i] <= B PROVE 10 * f[i] <= p50
      BY DEF Hasta
    <3>1. f[i] \in Nat
      BY DEF Totales
    <3> QED BY <1>4, <1>6, <3>1
  <2>4. Cardinality(Hasta(f, B)) <= Cardinality(M) /\ Cardinality(M) \in Nat
        /\ Cardinality(Hasta(f, B)) \in Nat
    <3>1. M \in SUBSET DOMAIN f /\ Hasta(f, B) \in SUBSET DOMAIN f
      BY DEF Hasta
    <3> HIDE DEF M, B
    <3> QED BY <2>3, <3>1, CuentaDe
  <2>5. 2 * (b + 1) >= n
    BY <1>4
  <2> HIDE DEF M, B
  <2>6. 2 * Cardinality(M) >= n
    BY <1>4, <2>2, <2>4, <2>5
  <2> QED BY <2>6 DEF M
<1>11. 2 * Cardinality({i \in DOMAIN f : 10 * f[i] >= p50}) >= n
  <2> DEFINE M == {i \in DOMAIN f : 10 * f[i] >= p50}
  <2>1. PICK v, k : /\ v = Ordenado(f, k + 1) /\ k \in 0..(n - 1) /\ p50 <= 10 * v
                    /\ 2 * (n - k) >= n /\ v \in Nat
    <3>1. CASE w = 0
      <4>1. 2 * (n - b) >= n
        BY <1>4, <3>1
      <4> QED BY <1>4, <1>6, <3>1, <4>1
    <3>2. CASE w # 0
      <4>1. a = b + 1 /\ 2 * (n - a) >= n
        BY <1>4, <3>2
      <4> QED BY <1>4, <1>6, <4>1
    <3> QED BY <3>1, <3>2
  <2>2. k + 1 \in 1..n
    BY <1>4, <2>1
  <2>3. Cardinality(Menores(f, v)) < k + 1
    BY <1>1, <2>1, <2>2, OrdenadoDa DEF EsElDeRango
  <2>4. DOMAIN f \ Menores(f, v) \subseteq M
    <3> SUFFICES ASSUME NEW i \in DOMAIN f, ~(f[i] < v) PROVE 10 * f[i] >= p50
      BY DEF Menores
    <3>1. f[i] \in Nat
      BY DEF Totales
    <3> QED BY <1>6, <2>1, <3>1
  <2>5. Menores(f, v) \in SUBSET DOMAIN f /\ M \in SUBSET DOMAIN f
    BY DEF Menores
  <2> HIDE DEF M
  <2>6. /\ Cardinality(DOMAIN f \ Menores(f, v)) = n - Cardinality(Menores(f, v))
        /\ Cardinality(Menores(f, v)) \in Nat /\ Cardinality(M) \in Nat
    BY <1>1, <2>5, CuentaDe
  <2>7. Cardinality(DOMAIN f \ Menores(f, v)) <= Cardinality(M)
    BY <2>4, <2>5, CuentaDe
  <2>8. 2 * Cardinality(M) >= n
    BY <1>4, <2>1, <2>3, <2>6, <2>7
  <2> QED BY <2>8 DEF M
<1>12. 10 * Ordenado(f, 1) <= p50 /\ p90 <= 10 * Ordenado(f, n)
  BY <1>4, <1>5, <1>6, <1>7, <1>8
<1> QED BY <1>1, <1>9, <1>10, <1>11, <1>12 DEF EnOrden

(* The percentiles of every report are in order, between the shortest and the  *)
(* longest total, and the median has half of the requests on either side.      *)
THEOREM PercentilesSiempreEnOrden == EstadisticasSpec => []PercentilesEnOrden
<1>1. Fondo => PercentilesEnOrden
  <2> SUFFICES ASSUME Fondo, Hecho, Contados # {} PROVE PercentilesEnOrden
    BY DEF PercentilesEnOrden
  <2>1. PICK f : f = [i \in Contados |-> Total(i)]
    OBVIOUS
  <2>2. DOMAIN f = Contados /\ f \in [Contados -> Nat]
    BY <2>1, TotalNatural
  <2>3. IsFiniteSet(Contados)
    <3>1. Contados \subseteq 1..Len(solicitudes) /\ Len(solicitudes) \in Nat
      BY LenProperties DEF Fondo, Leida, TypeOK, Ids
    <3>2. IsFiniteSet(1..Len(solicitudes))
      BY <3>1, FS_Interval
    <3> QED BY <3>1, <3>2, FS_Subset
  <2>4. EnOrden(f)
    BY <2>2, <2>3, PercentilesDeTotales DEF Totales
  <2> QED BY <2>1, <2>2, <2>4 DEF PercentilesEnOrden, EnOrden
<1> QED BY <1>1, FondoSeConserva, PTL
----------------------------------------------------------------------------
(* What a report counts as closed and the history it reads.                   *)

\* Every row there is, or is going to be, of a deletion says 'Eliminada', and
\* the openings of one request all say the same.
Distinguida ==
  /\ \A h \in Asientos : h.tipo = "ELIMINACION" => h.nuevo = "Eliminada"
  /\ \A p \in Peticion : \A c \in peticion[p].resto :
       c.tipo = "ELIMINACION" => c.nuevo = "Eliminada"
  /\ \A g, h \in Asientos :
       g.tipo = "CREACION" /\ h.tipo = "CREACION" /\ g.sol = h.sol => g.nuevo = h.nuevo

LEMMA AsientosDeIds == ASSUME TypeOK, Fechada PROVE \A h \in Asientos : h.sol \in Ids
<1>1. DOMAIN historial = 1..Len(historial)
  BY LenProperties DEF TypeOK
<1>2. \A h \in Escritos : h.sol \in Ids
  BY <1>1 DEF Fechada, Escritos, Elementos
<1>3. \A p \in Peticion : \A h \in Elementos(peticion[p].cambios) : h.sol \in Ids
  BY DEF TypeOK, Coherente, Elementos
<1> QED BY <1>2, <1>3 DEF Asientos

LEMMA DistinguidaSeConserva ==
  ASSUME TypeOK, Fechada, Distinguida, NEW p \in Peticion, Turno(p)
  PROVE  Distinguida'
<1>1. /\ peticion \in [Peticion -> Llamada] /\ Coherente(peticion[p], Ids)
      /\ \A q \in Peticion \ {p} : peticion'[q] = peticion[q]
  BY SoloLaSuya DEF TypeOK
<1>2. ASSUME NEW h \in Asientos'
      PROVE  h \in Asientos \/ h \in Elementos(peticion'[p].cambios)
  <2>1. Escritos' \subseteq Asientos
    BY NadaSePierde DEF Asientos
  <2>2. ASSUME NEW q \in Peticion, h \in Elementos(peticion'[q].cambios), q # p
        PROVE  h \in Asientos
    BY <1>1, <2>2 DEF Asientos
  <2>3. h \in Escritos' \/ \E q \in Peticion : h \in Elementos(peticion'[q].cambios)
    BY DEF Asientos
  <2> QED BY <2>1, <2>2, <2>3
<1>3. ASSUME NEW h \in Asientos', h \notin Asientos
      PROVE  \/ h \in peticion[p].resto
             \/ h = Cambio(Len(solicitudes) + 1, "CREACION", Nulo, peticion[p].fila.estado)
             \/ h.tipo \notin {"CREACION", "ELIMINACION"}
  <2>1. h \in Elementos(peticion'[p].cambios) /\ h \notin Elementos(peticion[p].cambios)
    BY <1>2, <1>3 DEF Asientos
  <2> QED BY <2>1, CambiosQueQuedan
<1>4. ASSUME NEW h \in Asientos', h.tipo = "ELIMINACION" PROVE h.nuevo = "Eliminada"
  <2>1. CASE h \in Asientos \/ h \in peticion[p].resto
    BY <1>4, <2>1 DEF Distinguida
  <2>2. Cambio(Len(solicitudes) + 1, "CREACION", Nulo, peticion[p].fila.estado).tipo = "CREACION"
    BY DEF Cambio
  <2> QED BY <1>3, <1>4, <2>1, <2>2
<1>5. ASSUME NEW q \in Peticion, NEW c \in peticion'[q].resto, c.tipo = "ELIMINACION"
      PROVE  c.nuevo = "Eliminada"
  <2>1. CASE c \in peticion[q].resto
    BY <1>5, <2>1 DEF Distinguida
  <2>2. CASE Decidida(c, peticion'[p].usuario)
    <3>1. "Eliminada" # Nulo
      BY SolicitudesAssumption DEF EstadoFila
    <3>2. \A i, a, b : Cambio(i, "CAMBIO_ESTADO", a, b).tipo = "CAMBIO_ESTADO"
      BY DEF Cambio
    <3>3. \A i, a : Cambio(i, "ELIMINACION", a, "Eliminada").nuevo = "Eliminada"
      BY <3>1 DEF Cambio, ComoTexto
    <3> QED BY <1>5, <2>2, <3>2, <3>3 DEF Decidida
  <2> QED BY <1>1, <1>5, <2>1, <2>2, RestoQueQueda
<1>6. ASSUME NEW g \in Asientos', NEW h \in Asientos',
             g.tipo = "CREACION", h.tipo = "CREACION", g.sol = h.sol
      PROVE  g.nuevo = h.nuevo
  <2>1. PICK c : c = Cambio(Len(solicitudes) + 1, "CREACION", Nulo, peticion[p].fila.estado)
    OBVIOUS
  <2>2. c.sol = Len(solicitudes) + 1 /\ c.sol \notin Ids
    BY <2>1, SolicitudesCrecen DEF Cambio
  <2>3. \A d \in peticion[p].resto : d.tipo # "CREACION"
    BY <1>1 DEF Coherente
  <2>4. (g \in Asientos \/ g = c) /\ (h \in Asientos \/ h = c)
    BY <1>3, <1>6, <2>1, <2>3
  <2>5. \A d \in Asientos : d.sol \in Ids
    BY AsientosDeIds
  <2>6. CASE g \in Asientos /\ h \in Asientos
    BY <1>6, <2>6 DEF Distinguida
  <2> QED BY <1>6, <2>2, <2>4, <2>5, <2>6
<1> QED BY <1>4, <1>5, <1>6 DEF Distinguida

LEMMA DistinguidaAlPrincipio == Init => Distinguida
<1> SUFFICES ASSUME Init PROVE Distinguida
  OBVIOUS
<1>1. \A p \in Peticion : peticion[p].resto = {} /\ peticion[p].cambios = <<>>
  BY DEF Init, Nueva
<1>2. Asientos = Escritos
  BY <1>1, SinCambios DEF Asientos
<1>3. \A k \in DOMAIN historial :
        historial[k] = Cambio(k, "CREACION", Nulo, Iniciales[k].estado)
  BY DEF Init
<1>4. \A h \in Asientos : h.tipo = "CREACION" /\ h.sol \in DOMAIN historial
                          /\ h = historial[h.sol]
  BY <1>2, <1>3 DEF Escritos, Elementos, Cambio
<1> QED BY <1>1, <1>4 DEF Distinguida

\* What a report has read of a request is accounted for until it has read
\* HISTORIAL too.
Respaldada ==
  informe.paso = "historial" => \A i \in Contados : Acreditado(i, informe.filas[i].estado)

LEMMA LecturaSeConserva == EstadisticasSpec => [](Inductiva /\ Fondo /\ Distinguida /\ Respaldada)
<1>1. EstadisticasSpec => Spec
  <2>1. EstadisticasInit => Init
    BY DEF EstadisticasInit, CronicaInit
  <2>2. [EstadisticasNext]_estadisticas => [Next]_vars
    BY DEF EstadisticasNext, estadisticas, cronica, Next, Statement, Tick, TomarHora, SelectSolicitudes,
       SelectHistorial, Terminated
  <2> QED BY <2>1, <2>2, PTL DEF EstadisticasSpec, Spec
<1>2. EstadisticasInit => Distinguida /\ Respaldada
  BY DistinguidaAlPrincipio DEF EstadisticasInit, CronicaInit, InformeNuevo, Respaldada
<1>3. /\ Inductiva /\ Fondo /\ Distinguida /\ Respaldada /\ [EstadisticasNext]_estadisticas
      => Distinguida' /\ Respaldada'
  <2> SUFFICES ASSUME Inductiva, Fondo, Distinguida, Respaldada,
                      [EstadisticasNext]_estadisticas
               PROVE  Distinguida' /\ Respaldada'
    OBVIOUS
  <2>1. Asientos \subseteq Asientos'
    BY PasadoFijo
  <2>2. CASE UNCHANGED informe
    <3>1. Respaldada'
      BY <2>1, <2>2, ConstaMonotona DEF Respaldada, Contados, Acreditado
    <3>2. CASE UNCHANGED vars
      BY <3>1, <3>2 DEF vars, Distinguida, Asientos, Escritos
    <3>3. CASE \E p \in Peticion : Statement(p)
      <4>1. PICK p \in Peticion : Turno(p)
        BY <3>3 DEF Statement, Turno
      <4>2. TypeOK /\ Fechada
        BY DEF Fondo
      <4> QED BY <3>1, <4>1, <4>2, DistinguidaSeConserva
    <3>4. Tick \/ TomarHora \/ SelectSolicitudes \/ SelectHistorial \/ UNCHANGED estadisticas
            => UNCHANGED vars
      BY DEF Tick, TomarHora, SelectSolicitudes, SelectHistorial, estadisticas, cronica
    <3> QED BY <3>2, <3>3, <3>4 DEF EstadisticasNext
  <2>5. CASE TomarHora
    <3>1. UNCHANGED vars
      BY <2>5 DEF TomarHora, cronica
    <3>2. Distinguida'
      BY <3>1 DEF vars, Distinguida, Asientos, Escritos
    <3>3. informe'.paso = "solicitudes"
      BY <2>5, TomarHoraDa
    <3> QED BY <3>2, <3>3 DEF Respaldada
  <2>3. CASE SelectSolicitudes
    <3>1. UNCHANGED vars
      BY <2>3 DEF SelectSolicitudes, cronica
    <3>2. Distinguida'
      BY <3>1 DEF vars, Distinguida, Asientos, Escritos
    <3>3. Contados' \subseteq Ids /\ \A i \in Contados' : informe'.filas[i] = solicitudes[i]
      BY <2>3, SelectSolicitudesDa
    <3>4. \A i \in Contados' : Consta(Asientos', i, informe'.filas[i].estado)
      BY <2>1, <3>3, ConstaMonotona DEF Inductiva, EstadoAcreditado, Acreditado
    <3> QED BY <3>2, <3>4 DEF Respaldada, Acreditado
  <2>4. CASE SelectHistorial
    <3>1. UNCHANGED vars
      BY <2>4 DEF SelectHistorial, cronica
    <3>2. Distinguida'
      BY <3>1 DEF vars, Distinguida, Asientos, Escritos
    <3>3. informe'.paso = "hecho"
      BY <2>4, SelectHistorialDa
    <3> QED BY <3>2, <3>3 DEF Respaldada
  <2> QED BY <2>2, <2>3, <2>4, <2>5 DEF EstadisticasNext, estadisticas
<1> QED BY <1>1, <1>2, <1>3, InductivaSeConserva, FondoSeConserva, PTL DEF EstadisticasSpec

(* A request that was opened unfinished and counts as closed has the date of   *)
(* its closing, unless the row of the change is still owed, although a report  *)
(* reads the estado in one statement and the history in another.               *)
THEOREM CierreSiempreFechado == EstadisticasSpec => CierreFechado
<1> DEFINE Fechado ==
             informe.paso = "historial" /\ informe'.paso = "hecho" =>
               \A i \in Cerradas(Contados)' :
                 \/ Debida(i)
                 \/ TrazoDe(i)'[0].e \in TERMINAL_STATES
                 \/ Cierre(TrazoDe(i)') # Nulo
<1>1. CierresDeHistorial'
  BY CierresSonDeHistorial, PTL
<1>2. Inductiva /\ Fondo /\ Distinguida /\ Respaldada /\ [EstadisticasNext]_estadisticas => Fechado
  <2> SUFFICES ASSUME Inductiva, Fondo, Distinguida, Respaldada,
                      [EstadisticasNext]_estadisticas,
                      informe.paso = "historial", informe'.paso = "hecho",
                      NEW i \in Cerradas(Contados)', ~Debida(i)
               PROVE  \/ TrazoDe(i)'[0].e \in TERMINAL_STATES
                      \/ Cierre(TrazoDe(i)') # Nulo
    OBVIOUS
  <2>1. SelectHistorial
    BY DEF EstadisticasNext, Tick, TomarHora, SelectSolicitudes, Terminated, estadisticas
  <2>2. /\ historial' = historial /\ fechas' = fechas
        /\ informe'.filas = informe.filas /\ Contados' = Contados
        /\ informe'.leidos = Len(historial)
    BY <2>1, SelectHistorialDa DEF SelectHistorial, cronica, vars
  <2>3. i \in Contados /\ informe.filas[i].estado \in TERMINAL_STATES
    BY <2>2 DEF Cerradas
  <2>4. PICK h \in Asientos : Dice(h, i, informe.filas[i].estado)
    BY <2>3 DEF Respaldada, Acreditado, Consta
  <2>5. h \in Escritos
    BY <2>4 DEF Debida, Asientos, Dice
  <2>6. PICK n : n = Len(historial)
    OBVIOUS
  <2>7. n \in Nat /\ DOMAIN historial = 1..n
    BY <2>6, LenProperties DEF Fondo, TypeOK
  <2>8. PICK k \in 1..n : h = historial[k]
    BY <2>5, <2>7 DEF Escritos, Elementos
  <2>9. CASE h.tipo = "CREACION"
    <3>1. PICK j \in 1..n : historial[j].sol = i /\ historial[j].tipo = "CREACION"
                            /\ TrazoDe(i)'[0].e = historial[j].nuevo
      <4> DEFINE A(j) == historial[j].sol = i /\ historial[j].tipo = "CREACION"
      <4>1. A(k)
        BY <2>4, <2>8, <2>9 DEF Dice
      <4>2. PICK j : j = CHOOSE m \in 1..n : A(m)
        OBVIOUS
      <4>3. j \in 1..n /\ A(j)
        BY <4>1, <4>2
      <4>4. TrazoDe(i)'[0].e = historial[j].nuevo
        BY <2>2, <2>6, <4>1, <4>2 DEF TrazoDe, Trazo, EstadoDeApertura, EsApertura
      <4> QED BY <4>3, <4>4
    <3>2. historial[j] \in Asientos
      BY <2>7 DEF Asientos, Escritos, Elementos
    <3>3. historial[j].nuevo = h.nuevo
      BY <2>4, <2>9, <3>1, <3>2 DEF Distinguida, Dice
    <3> QED BY <2>3, <2>4, <3>1, <3>3 DEF Dice
  <2>10. CASE h.tipo = "CAMBIO_ESTADO"
    <3>1. k \in CierresEn(historial, i, n)
      BY <2>3, <2>4, <2>8, <2>10 DEF CierresEn, Dice
    <3>2. Cierre(TrazoDe(i)') = FechaDeCierre(historial, fechas, i, n)
      BY <1>1, <2>2, <2>6, <2>7 DEF CierresDeHistorial, TrazoDe
    <3>3. Min(CierresEn(historial, i, n)) \in 1..n
      <4>1. CierresEn(historial, i, n) \subseteq Nat /\ CierresEn(historial, i, n) \subseteq 1..n
        BY DEF CierresEn
      <4> QED BY <3>1, <4>1, MinDa
    <3>4. \A m \in 1..n : fechas[m] # Nulo
      <4>1. fechas \in Seq(0..reloj) /\ Len(fechas) = n /\ reloj \in Nat
        BY <2>6, CronicaAssumption DEF Fondo, Fechada, CronicaTypeOK
      <4>2. \A m \in 1..n : fechas[m] \in Nat
        BY <4>1, ElementOfSeq
      <4> QED BY <4>2, CronicaAssumption
    <3> QED BY <3>1, <3>2, <3>3, <3>4 DEF FechaDeCierre
  <2>11. CASE h.tipo = "ELIMINACION"
    BY <2>3, <2>4, <2>11 DEF Distinguida, Dice, TERMINAL_STATES
  <2>12. h.tipo \in TipoDeEstado
    BY <2>4 DEF Dice
  <2> QED BY <2>9, <2>10, <2>11, <2>12 DEF TipoDeEstado
<1> QED BY <1>2, LecturaSeConserva, PTL DEF EstadisticasSpec, CierreFechado
----------------------------------------------------------------------------
(* The time a request spends in each estado.                                  *)

\* A trace has an opening, its times are instants up to the present, and they
\* come in the order of their rows.
EsTrazo(tr, n, ahora) ==
  /\ n \in Nat /\ ahora \in Nat
  /\ DOMAIN tr \subseteq 0..n /\ 0 \in DOMAIN tr
  /\ \A k \in DOMAIN tr : tr[k].t \in 0..ahora
  /\ \A j, k \in DOMAIN tr : j <= k => tr[j].t <= tr[k].t

\* The row k is the last one up to the instant m.
EsUltima(tr, m, k) ==
  /\ k \in DOMAIN tr /\ tr[k].t <= m
  /\ \A j \in DOMAIN tr : tr[j].t <= m => j <= k

Ultima(tr, m) == CHOOSE k : EsUltima(tr, m, k)

LEMMA UltimaDa ==
  ASSUME NEW tr, NEW n, NEW ahora, EsTrazo(tr, n, ahora), NEW m \in Nat, tr[0].t <= m
  PROVE  /\ EsUltima(tr, m, Ultima(tr, m))
         /\ \A k : EsUltima(tr, m, k) => k = Ultima(tr, m)
<1> DEFINE T == {k \in DOMAIN tr : tr[k].t <= m}
<1>1. T \subseteq Nat /\ T # {} /\ n \in Nat /\ \A k \in T : k <= n
  BY DEF EsTrazo
<1>2. PICK k \in T : \A j \in T : j <= k
  <2> HIDE DEF T
  <2> QED BY <1>1, Maximo
<1>3. EsUltima(tr, m, k)
  BY <1>2 DEF EsUltima
<1>4. EsUltima(tr, m, Ultima(tr, m))
  BY <1>3 DEF Ultima
<1>5. ASSUME NEW j, EsUltima(tr, m, j) PROVE j = Ultima(tr, m)
  <2>1. PICK u : u = Ultima(tr, m)
    OBVIOUS
  <2>2. j \in Nat /\ u \in Nat /\ j <= u /\ u <= j
    BY <1>4, <1>5, <2>1 DEF EsTrazo, EsUltima
  <2> QED BY <2>1, <2>2
<1> QED BY <1>4, <1>5

(* The minutes of a stretch of an unfinished estado are the instants up to the *)
(* present at which its row is the last one.                                   *)
LEMMA TramoDa ==
  ASSUME NEW tr, NEW n, NEW ahora, EsTrazo(tr, n, ahora), NEW k \in DOMAIN tr, NEW m,
         tr[k].e \notin TERMINAL_STATES
  PROVE  m \in Tramo(tr, k, ahora) <=> m \in Nat /\ m < ahora /\ EsUltima(tr, m, k)
<1> DEFINE S == Despues(tr, k)
<1>1. /\ DOMAIN tr \subseteq Nat /\ ahora \in Nat /\ S \subseteq Nat /\ S \subseteq DOMAIN tr
      /\ \A j \in DOMAIN tr : tr[j].t \in Nat /\ tr[j].t <= ahora
  BY DEF EsTrazo, Despues
<1>2. CASE S = {}
  <2>1. \A j \in DOMAIN tr : j <= k
    BY <1>1, <1>2 DEF Despues
  <2>2. Tramo(tr, k, ahora) = tr[k].t..(ahora - 1)
    BY <1>2 DEF Tramo
  <2> QED BY <1>1, <2>1, <2>2 DEF EsUltima
<1>3. CASE S # {}
  <2>1. PICK d : d = Min(S)
    OBVIOUS
  <2>2. d \in S /\ \A j \in S : d <= j
    <3> HIDE DEF S
    <3> QED BY <1>1, <1>3, <2>1, MinDa
  <2>3. Tramo(tr, k, ahora) = tr[k].t..(tr[d].t - 1)
    BY <1>3, <2>1 DEF Tramo
  <2>4. /\ d \in DOMAIN tr /\ k < d /\ d \in Nat /\ k \in Nat
        /\ \A j \in DOMAIN tr : j <= k \/ (d <= j /\ tr[d].t <= tr[j].t)
    <3>1. d \in DOMAIN tr /\ k < d
      BY <2>2 DEF Despues
    <3>2. ASSUME NEW j \in DOMAIN tr PROVE j <= k \/ (d <= j /\ tr[d].t <= tr[j].t)
      <4>1. j <= k \/ j \in S
        BY <1>1, <3>2 DEF Despues
      <4> QED BY <2>2, <3>1, <4>1 DEF EsTrazo
    <3> QED BY <1>1, <3>1, <3>2
  <2>5. ASSUME m \in tr[k].t..(tr[d].t - 1)
        PROVE  m \in Nat /\ m < ahora /\ EsUltima(tr, m, k)
    <3>1. /\ tr[k].t \in Nat /\ tr[d].t \in Nat /\ tr[d].t <= ahora
          /\ m \in Nat /\ tr[k].t <= m /\ m < tr[d].t
      BY <1>1, <2>4, <2>5
    <3>2. ASSUME NEW j \in DOMAIN tr, tr[j].t <= m PROVE j <= k
      BY <1>1, <2>4, <3>1, <3>2
    <3> QED BY <1>1, <3>1, <3>2 DEF EsUltima
  <2>6. ASSUME m \in Nat, m < ahora, EsUltima(tr, m, k)
        PROVE  m \in tr[k].t..(tr[d].t - 1)
    <3>1. ~(tr[d].t <= m)
      BY <2>4, <2>6 DEF EsUltima
    <3>2. tr[k].t <= m /\ tr[k].t \in Nat /\ tr[d].t \in Nat
      BY <1>1, <2>4, <2>6 DEF EsUltima
    <3> QED BY <2>6, <3>1, <3>2
  <2> QED BY <2>3, <2>5, <2>6
<1> QED BY <1>2, <1>3

\* The instants at which the estado of a trace is e.
Instantes(tr, e, ahora) == {m \in tr[0].t..(ahora - 1) : tr[Ultima(tr, m)].e = e}

\* The minutes of e, each with the row of its stretch.
Minutos(tr, e, ahora) ==
  UNION {{k} \X Tramo(tr, k, ahora) : k \in {m \in DOMAIN tr : tr[m].e = e}}

(* No minute is in two stretches, so an unfinished estado has as many minutes  *)
(* as instants.                                                                *)
LEMMA MinutosPorInstante ==
  ASSUME NEW tr, NEW n, NEW ahora, EsTrazo(tr, n, ahora), NEW e, e \notin TERMINAL_STATES
  PROVE  /\ elapsed_by_state(tr, e, ahora) = Cardinality(Instantes(tr, e, ahora))
         /\ IsFiniteSet(Instantes(tr, e, ahora))
<1> DEFINE I == Instantes(tr, e, ahora)
           P == Minutos(tr, e, ahora)
           f == [m \in I |-> <<Ultima(tr, m), m>>]
<1>1. tr[0].t \in Nat /\ ahora \in Nat
  BY DEF EsTrazo
<1>2. IsFiniteSet(I)
  <2>1. I \in SUBSET (tr[0].t..(ahora - 1))
    BY DEF Instantes
  <2>2. IsFiniteSet(tr[0].t..(ahora - 1))
    <3>1. PICK a \in Int, b \in Int : a = tr[0].t /\ b = ahora - 1
      BY <1>1
    <3>2. IsFiniteSet(a..b)
      BY FS_Interval
    <3> QED BY <3>1, <3>2
  <2> HIDE DEF I
  <2> QED BY <2>1, <2>2, FS_Subset
<1>3. ASSUME NEW m \in I
      PROVE  /\ m \in Nat /\ m < ahora /\ tr[0].t <= m
             /\ EsUltima(tr, m, Ultima(tr, m)) /\ tr[Ultima(tr, m)].e = e
  <2>1. m \in Nat /\ m < ahora /\ tr[0].t <= m /\ tr[Ultima(tr, m)].e = e
    BY <1>1 DEF Instantes
  <2> QED BY <2>1, UltimaDa
<1>4. ASSUME NEW m \in I PROVE f[m] \in P
  <2>1. PICK k : k = Ultima(tr, m)
    OBVIOUS
  <2>2. k \in DOMAIN tr /\ tr[k].e = e /\ m \in Tramo(tr, k, ahora)
    BY <1>3, <2>1, TramoDa DEF EsUltima
  <2>3. <<k, m>> \in {k} \X Tramo(tr, k, ahora)
    BY <2>2
  <2>4. <<k, m>> \in P
    BY <2>2, <2>3 DEF Minutos
  <2> QED BY <2>1, <2>4
<1>5. ASSUME NEW x \in P PROVE \E m \in I : f[m] = x
  <2>1. PICK k \in DOMAIN tr : tr[k].e = e /\ x \in {k} \X Tramo(tr, k, ahora)
    BY DEF Minutos
  <2>2. PICK m \in Tramo(tr, k, ahora) : x = <<k, m>>
    BY <2>1
  <2>3. m \in Nat /\ m < ahora /\ EsUltima(tr, m, k)
    BY <2>1, <2>2, TramoDa
  <2>4. tr[0].t <= tr[k].t /\ tr[k].t <= m /\ tr[k].t \in Nat
    BY <2>1, <2>3 DEF EsTrazo, EsUltima
  <2>5. tr[0].t <= m
    BY <1>1, <2>3, <2>4
  <2>6. k = Ultima(tr, m)
    BY <2>3, <2>5, UltimaDa
  <2>7. m \in I
    BY <1>1, <2>1, <2>3, <2>5, <2>6 DEF Instantes
  <2> QED BY <2>2, <2>6, <2>7
<1>6. f \in Bijection(I, P)
  <2> HIDE DEF I, P
  <2>1. f \in [I -> P]
    BY <1>4
  <2>2. \A a, b \in I : f[a] = f[b] => a = b
    OBVIOUS
  <2>3. \A x \in P : \E m \in I : f[m] = x
    BY <1>5
  <2> HIDE DEF f
  <2>4. f \in Injection(I, P)
    BY <2>1, <2>2 DEF Injection, IsInjective
  <2>5. f \in Surjection(I, P)
    BY <2>1, <2>3 DEF Surjection
  <2> QED BY <2>4, <2>5 DEF Bijection, Injection
<1>7. ExistsBijection(I, P)
  BY <1>6 DEF ExistsBijection
<1>8. Cardinality(P) = Cardinality(I)
  <2> HIDE DEF I, P
  <2> QED BY <1>2, <1>7, FS_Bijection
<1>9. elapsed_by_state(tr, e, ahora) = Cardinality(P)
  BY DEF elapsed_by_state, Minutos
<1> QED BY <1>2, <1>8, <1>9

(* Where the last row is the only one to close the request, its two unfinished *)
(* estados share out all the time up to it.                                    *)
LEMMA TotalRepartido ==
  ASSUME NEW tr, NEW n, NEW ahora, EsTrazo(tr, n, ahora),
         \A k \in DOMAIN tr : tr[k].e \in EstadoSolicitud,
         \A k \in DOMAIN tr : tr[k].e \in TERMINAL_STATES => Despues(tr, k) = {} /\ k > 0
  PROVE  total_minutes(tr, ahora)
           = elapsed_by_state(tr, "Pendiente", ahora) + elapsed_by_state(tr, "En proceso", ahora)
<1> DEFINE fin == IF Cierre(tr) = Nulo THEN ahora ELSE Cierre(tr)
           A == Instantes(tr, "Pendiente", ahora)
           B == Instantes(tr, "En proceso", ahora)
           C == Cierres(tr)
<1>1. /\ tr[0].t \in Nat /\ ahora \in Nat /\ DOMAIN tr \subseteq Nat /\ 0 \in DOMAIN tr
      /\ tr[0].t <= ahora
      /\ \A k \in DOMAIN tr : tr[k].t \in Nat /\ tr[k].t <= ahora /\ tr[0].t <= tr[k].t
  BY DEF EsTrazo
<1>2. \A k \in DOMAIN tr : tr[k].e \in TERMINAL_STATES \/ tr[k].e \in {"Pendiente", "En proceso"}
  BY DEF EstadoSolicitud, TERMINAL_STATES
<1>3. \A k \in DOMAIN tr : tr[k].e \in TERMINAL_STATES => k \in C /\ \A j \in DOMAIN tr : j <= k
  BY <1>1 DEF Cierres, Despues
<1>4. \/ C = {} /\ fin = ahora
      \/ \E c \in DOMAIN tr : /\ tr[c].e \in TERMINAL_STATES /\ fin = tr[c].t
                              /\ \A j \in DOMAIN tr : j <= c
  <2>1. CASE C = {}
    BY <2>1 DEF Cierre
  <2>2. CASE C # {}
    <3>1. PICK c : c = Min(C)
      OBVIOUS
    <3>2. C \subseteq Nat
      BY <1>1 DEF Cierres
    <3>3. c \in C
      <4> HIDE DEF C
      <4> QED BY <2>2, <3>1, <3>2, MinDa
    <3>4. c \in DOMAIN tr /\ tr[c].e \in TERMINAL_STATES
      BY <3>3 DEF Cierres
    <3>5. Cierre(tr) = tr[c].t /\ tr[c].t # Nulo
      BY <1>1, <2>2, <3>1, <3>4, CronicaAssumption DEF Cierre
    <3> QED BY <1>3, <3>4, <3>5
  <2> QED BY <2>1, <2>2
<1>5. fin \in Nat /\ tr[0].t <= fin /\ fin <= ahora
  BY <1>1, <1>4
<1> HIDE DEF fin
<1>6. ASSUME NEW m \in tr[0].t..(ahora - 1)
      PROVE  tr[Ultima(tr, m)].e \in {"Pendiente", "En proceso"} <=> m < fin
  <2>1. PICK k : k = Ultima(tr, m)
    OBVIOUS
  <2>2. m \in Nat /\ tr[0].t <= m /\ m < ahora
    BY <1>1
  <2>3. EsUltima(tr, m, k)
    BY <2>1, <2>2, UltimaDa
  <2>4. k \in DOMAIN tr /\ tr[k].t <= m /\ tr[k].t \in Nat /\ k \in Nat
    BY <1>1, <2>3 DEF EsUltima
  <2>5. ASSUME tr[k].e \in TERMINAL_STATES PROVE ~(m < fin)
    <3>1. PICK c \in DOMAIN tr : fin = tr[c].t /\ \A j \in DOMAIN tr : j <= c
      BY <1>3, <1>4, <2>4, <2>5
    <3>2. k <= c /\ c <= k /\ c \in Nat
      BY <1>1, <1>3, <2>4, <2>5, <3>1
    <3>3. c = k
      BY <2>4, <3>2
    <3> QED BY <2>2, <2>4, <3>1, <3>3
  <2>6. ASSUME tr[k].e \notin TERMINAL_STATES PROVE m < fin
    <3>1. CASE fin = ahora
      BY <2>2, <3>1
    <3>2. CASE fin # ahora
      <4>1. PICK c \in DOMAIN tr : /\ tr[c].e \in TERMINAL_STATES /\ fin = tr[c].t
                                   /\ \A j \in DOMAIN tr : j <= c
        BY <1>4, <3>2
      <4>2. c # k /\ k <= c /\ c \in Nat
        BY <1>1, <2>4, <2>6, <4>1
      <4>3. ~(tr[c].t <= m)
        BY <2>3, <2>4, <4>1, <4>2 DEF EsUltima
      <4> QED BY <1>5, <2>2, <4>1, <4>3
    <3> QED BY <3>1, <3>2
  <2>7. \A x : ~(x \in TERMINAL_STATES /\ x \in {"Pendiente", "En proceso"})
    BY DEF TERMINAL_STATES
  <2> QED BY <1>2, <2>1, <2>4, <2>5, <2>6, <2>7
<1>7. A \cup B = tr[0].t..(fin - 1)
  <2>1. A \cup B = {m \in tr[0].t..(ahora - 1) : tr[Ultima(tr, m)].e \in {"Pendiente", "En proceso"}}
    BY DEF Instantes
  <2>2. A \cup B = {m \in tr[0].t..(ahora - 1) : m < fin}
    BY <1>6, <2>1
  <2>3. PICK a : a = tr[0].t
    OBVIOUS
  <2>4. a \in Nat /\ fin \in Nat /\ ahora \in Nat /\ fin <= ahora
    BY <1>1, <1>5, <2>3
  <2>5. {m \in a..(ahora - 1) : m < fin} = a..(fin - 1)
    BY <2>4
  <2> QED BY <2>2, <2>3, <2>5
<1>8. A \cap B = {}
  BY DEF Instantes
<1>9. /\ elapsed_by_state(tr, "Pendiente", ahora) = Cardinality(A) /\ IsFiniteSet(A)
      /\ elapsed_by_state(tr, "En proceso", ahora) = Cardinality(B) /\ IsFiniteSet(B)
  <2>1. "Pendiente" \notin TERMINAL_STATES /\ "En proceso" \notin TERMINAL_STATES
    BY DEF TERMINAL_STATES
  <2> QED BY <2>1, MinutosPorInstante
<1>10. Cardinality(tr[0].t..(fin - 1)) = fin - tr[0].t
  <2>1. PICK a : a = tr[0].t
    OBVIOUS
  <2>2. a \in Int /\ fin - 1 \in Int /\ a <= fin /\ fin \in Int
    BY <1>1, <1>5, <2>1
  <2>3. Cardinality(a..(fin - 1)) = IF a > fin - 1 THEN 0 ELSE (fin - 1) - a + 1
    BY <2>2, FS_Interval
  <2> QED BY <2>1, <2>2, <2>3
<1>11. Cardinality(A) + Cardinality(B) = fin - tr[0].t
  <2> HIDE DEF A, B
  <2>0. IsFiniteSet(A) /\ IsFiniteSet(B)
    BY <1>9
  <2>1. Cardinality(A \cup B) = Cardinality(A) + Cardinality(B) - Cardinality(A \cap B)
    BY <2>0, FS_Union
  <2>2. Cardinality(A \cap B) = 0 /\ Cardinality(A) \in Nat /\ Cardinality(B) \in Nat
    BY <1>8, <2>0, FS_EmptySet, FS_CardinalityType
  <2>3. Cardinality(A \cup B) = fin - tr[0].t
    BY <1>7, <1>10
  <2>4. PICK a : a = tr[0].t
    OBVIOUS
  <2>5. PICK x, y, z : x = Cardinality(A) /\ y = Cardinality(B) /\ z = Cardinality(A \cup B)
    OBVIOUS
  <2>6. x \in Nat /\ y \in Nat /\ a \in Nat /\ fin \in Nat /\ z = x + y - 0 /\ z = fin - a
    BY <1>1, <1>5, <2>1, <2>2, <2>3, <2>4, <2>5
  <2>7. x + y = fin - a
    BY <2>6
  <2> QED BY <2>4, <2>5, <2>7
<1> QED BY <1>9, <1>11 DEF total_minutes, fin

\* HISTORIAL is dated in the order of its ids.
FechasEnOrden ==
  \A j, k \in 1..Len(historial) : j <= k => fechas[j] <= fechas[k]

\* A date that was written is an instant.
LEMMA FechaDa ==
  ASSUME Fondo, NEW k \in 1..Len(historial)
  PROVE  fechas[k] \in 0..reloj /\ reloj \in Nat
<1>1. fechas \in Seq(0..reloj) /\ Len(fechas) = Len(historial) /\ reloj \in Nat
  BY CronicaAssumption DEF Fondo, Fechada, CronicaTypeOK
<1> QED BY <1>1, ElementOfSeq

(* The rows of HISTORIAL come by their date when they come by their id, which  *)
(* is what the report goes by: there is no other order among the changes of    *)
(* one instant (stats.py 154-172, 231-262).                                    *)
THEOREM FechasSiempreEnOrden == EstadisticasSpec => []FechasEnOrden
<1>1. EstadisticasInit => FechasEnOrden
  <2> SUFFICES ASSUME EstadisticasInit, NEW j \in 1..Len(historial), NEW k \in 1..Len(historial)
               PROVE  fechas[j] <= fechas[k]
    BY DEF FechasEnOrden
  <2>1. fechas = [m \in DOMAIN historial |-> 0] /\ DOMAIN historial = 1..Len(historial)
    BY FondoAlPrincipio, LenProperties DEF EstadisticasInit, CronicaInit, Fondo, TypeOK
  <2> QED BY <2>1
<1>2. Fondo /\ FechasEnOrden /\ [EstadisticasNext]_estadisticas => FechasEnOrden'
  <2> SUFFICES ASSUME Fondo, FechasEnOrden, [EstadisticasNext]_estadisticas,
                      NEW j \in 1..Len(historial'), NEW k \in 1..Len(historial'), j <= k
               PROVE  fechas'[j] <= fechas'[k]
    BY DEF FechasEnOrden
  <2>1. PICK n, m : n = Len(historial) /\ m = Len(historial')
    OBVIOUS
  <2>2. /\ n \in Nat /\ m \in Nat /\ n <= m
        /\ \A x \in 1..n : fechas'[x] = fechas[x] /\ fechas[x] \in Nat /\ fechas[x] <= reloj
    <3>1. \A x \in 1..n : fechas[x] \in 0..reloj /\ reloj \in Nat
      BY <2>1, FechaDa
    <3>2. \A x \in 1..n : fechas[x] \in Nat /\ fechas[x] <= reloj
      BY <3>1
    <3> QED BY <2>1, <3>2, PasadoFijo
  <2>3. n < m => \A x \in 1..m : x > n => fechas'[x] = reloj /\ reloj \in Nat
    <3>1. CASE \E p \in Peticion : Statement(p)
      <4>1. PICK p \in Peticion : Turno(p) /\ Dating
        BY <3>1 DEF Statement, Turno
      <4>2. TypeOK /\ CronicaTypeOK /\ reloj \in Nat
        BY CronicaAssumption DEF Fondo, Fechada, CronicaTypeOK
      <4> QED BY <2>1, <4>1, <4>2, FechasCrecen
    <3>2. CASE UNCHANGED historial
      BY <2>1, <2>2, <3>2
    <3>3. Tick \/ TomarHora \/ SelectSolicitudes \/ SelectHistorial \/ UNCHANGED estadisticas
            => UNCHANGED historial
      BY DEF Tick, TomarHora, SelectSolicitudes, SelectHistorial, estadisticas, cronica, vars
    <3> QED BY <3>1, <3>2, <3>3 DEF EstadisticasNext
  <2>4. j \in 1..m /\ k \in 1..m /\ j \in Nat /\ k \in Nat
    BY <2>1, <2>2
  <2>5. CASE k <= n
    <3>1. j \in 1..n /\ k \in 1..n
      BY <2>2, <2>4, <2>5
    <3> QED BY <2>1, <2>2, <3>1 DEF FechasEnOrden
  <2>6. CASE k > n
    <3>1. fechas'[k] = reloj /\ reloj \in Nat
      BY <2>2, <2>3, <2>4, <2>6
    <3>2. CASE j <= n
      BY <2>2, <2>4, <3>1, <3>2
    <3>3. CASE j > n
      BY <2>2, <2>3, <2>4, <2>6, <3>1, <3>3
    <3> QED BY <2>2, <2>4, <3>2, <3>3
  <2> QED BY <2>2, <2>4, <2>5, <2>6
<1> QED BY <1>1, <1>2, FondoSeConserva, PTL DEF EstadisticasSpec

(* A closing that was read is the first there is of its request, so that it is *)
(* not after any other; and HISTORIAL was read to its end.                     *)
LEMMA PrimerCierreLeido ==
  ASSUME Fondo, FechasEnOrden, Hecho, NEW i \in Contados,
         NEW k \in 1..Len(historial), EsCambio(k, i), historial[k].nuevo \in TERMINAL_STATES,
         k <= informe.leidos
  PROVE  Cierre(TrazoDe(i)) # Nulo /\ Cierre(TrazoDe(i)) <= fechas[k]
<1> DEFINE n == informe.leidos
           C == CierresEn(historial, i, n)
<1>1. n \in Nat /\ Len(historial) \in Nat /\ n <= Len(historial)
  <2>1. Len(historial) \in Nat
    BY LenProperties DEF Fondo, TypeOK
  <2> QED BY <2>1 DEF Fondo, Leida
<1>2. Cierre(TrazoDe(i)) = FechaDeCierre(historial, fechas, i, n)
  BY <1>1, CierresSonDeHistorial DEF CierresDeHistorial, TrazoDe
<1>3. k \in C /\ C \subseteq Nat
  BY <1>1 DEF CierresEn, EsCambio
<1>4. PICK m : m = Min(C)
  OBVIOUS
<1>5. m \in C /\ m <= k
  BY <1>3, <1>4, MinDa
<1>6. m \in 1..Len(historial)
  BY <1>1, <1>5 DEF CierresEn
<1>7. fechas[m] <= fechas[k] /\ fechas[m] \in Nat
  BY <1>5, <1>6, FechaDa DEF FechasEnOrden
<1>8. Cierre(TrazoDe(i)) = fechas[m]
  BY <1>2, <1>3, <1>4 DEF FechaDeCierre
<1> QED BY <1>7, <1>8, CronicaAssumption

(* Of what had been closed before it was called the timeline up to now misses  *)
(* nothing that the summary of the same reading counts, and until midnight     *)
(* only what has no date or was created since.                                 *)
THEOREM LineaSiempreCuadra == EstadisticasSpec => []LineaCuadraConResumen
<1>1. Fondo /\ FechasEnOrden => LineaCuadraConResumen
  <2> SUFFICES ASSUME Fondo, FechasEnOrden, Hecho PROVE LineaCuadraConResumen
    BY DEF LineaCuadraConResumen
  <2> DEFINE linea == Dias(0, informe.hasta)
             enLinea == UNION {Cerradas(DelDia(d, 0, informe.hasta)) : d \in linea}
             CerradaAntes(i) == \E k \in DOMAIN historial :
                                  /\ EsCambio(k, i) /\ historial[k].nuevo \in TERMINAL_STATES
                                  /\ fechas[k] < informe.hasta
  <2>1. /\ informe.hasta \in Nat /\ informe.ahora \in Nat /\ informe.hasta <= informe.ahora
        /\ informe.leidos \in Nat /\ Len(historial) \in Nat
        /\ DOMAIN historial = 1..Len(historial)
    BY LenProperties DEF Fondo, TypeOK, Leida, Hecho, Informe
  <2>2. ASSUME NEW i \in Cerradas(Contados), Cierre(TrazoDe(i)) # Nulo,
               creadas[i] <= informe.hasta, Dia(Cierre(TrazoDe(i))) <= Dia(informe.hasta)
        PROVE  i \in enLinea
    <3>1. i \in Contados /\ informe.filas[i].estado \in TERMINAL_STATES
      BY DEF Cerradas
    <3>2. PICK c : c = Cierre(TrazoDe(i))
      OBVIOUS
    <3>3. c \in Nat /\ creadas[i] \in Nat
      BY <2>2, <3>1, <3>2, CierreLeido
    <3>4. /\ Dia(c) \in Nat /\ Dia(0) \in Nat /\ Dia(0) <= Dia(c)
          /\ Dia(informe.hasta) \in Nat
      <4>1. 0 <= c /\ c <= c
        BY <3>3
      <4>2. Dia(c) \in Nat /\ Dia(0) \in Nat /\ Dia(0) <= Dia(c)
        BY <3>3, <4>1, DiaMonotono
      <4>3. informe.hasta <= informe.ahora
        BY <2>1
      <4> QED BY <2>1, <4>2, <4>3, DiaMonotono
    <3>5. Dia(c) \in linea
      BY <2>2, <3>2, <3>4 DEF Dias
    <3>6. i \in Cerradas(DelDia(Dia(c), 0, informe.hasta))
      BY <2>1, <2>2, <3>1, <3>2, <3>3 DEF Cerradas, DelDia
    <3> QED BY <3>5, <3>6
  <2>3. ASSUME NEW i \in Cerradas(Contados), CerradaAntes(i)
        PROVE  i \in enLinea
    <3>1. PICK k \in 1..Len(historial) :
            /\ EsCambio(k, i) /\ historial[k].nuevo \in TERMINAL_STATES
            /\ fechas[k] < informe.hasta
      BY <2>1, <2>3
    <3>2. i \in Contados
      BY DEF Cerradas
    <3>3. PICK t, x : t = fechas[k] /\ x = informe.hasta
      OBVIOUS
    <3>4. t \in Nat /\ x \in Nat /\ t < x /\ x <= informe.ahora
      BY <2>1, <3>1, <3>3, FechaDa
    <3>5. k <= informe.leidos
      <4> SUFFICES ASSUME k > informe.leidos PROVE FALSE
        BY <2>1
      <4>1. informe.ahora <= t
        BY <3>3 DEF Fondo, Leida, Hecho
      <4> QED BY <2>1, <3>4, <4>1
    <3>6. PICK c : c = Cierre(TrazoDe(i))
      OBVIOUS
    <3>7. c # Nulo /\ c <= t
      BY <3>1, <3>2, <3>3, <3>5, <3>6, PrimerCierreLeido
    <3>8. c \in Nat /\ creadas[i] \in Nat /\ creadas[i] <= c
      BY <3>2, <3>6, <3>7, CierreLeido
    <3>9. c <= x /\ creadas[i] <= x
      BY <3>4, <3>7, <3>8
    <3>10. Dia(c) <= Dia(x)
      BY <3>4, <3>8, <3>9, DiaMonotono
    <3> QED BY <2>2, <3>3, <3>6, <3>7, <3>9, <3>10
  <2>4. ASSUME Dia(informe.hasta) = Dia(informe.ahora),
               NEW i \in Cerradas(Contados), Cierre(TrazoDe(i)) # Nulo,
               creadas[i] <= informe.hasta
        PROVE  i \in enLinea
    <3>1. PICK c : c = Cierre(TrazoDe(i))
      OBVIOUS
    <3>2. c \in Nat /\ \E k \in 1..informe.leidos : c = fechas[k]
      BY <2>4, <3>1, CierreLeido DEF Cerradas
    <3>3. c <= informe.ahora
      BY <3>2 DEF Fondo, Leida, Hecho
    <3>4. Dia(c) <= Dia(informe.hasta)
      BY <2>1, <2>4, <3>2, <3>3, DiaMonotono
    <3> QED BY <2>2, <2>4, <3>1, <3>4
  <2>5. ASSUME NEW i \in enLinea
        PROVE  /\ i \in Cerradas(Contados)
               /\ Cierre(TrazoDe(i)) # Nulo /\ creadas[i] <= informe.hasta
    <3>1. PICK d \in linea : i \in Cerradas(DelDia(d, 0, informe.hasta))
      OBVIOUS
    <3> QED BY <2>1, <3>1 DEF Cerradas, DelDia
  <2> QED BY <2>3, <2>4, <2>5 DEF LineaCuadraConResumen
<1> QED BY <1>1, FondoSeConserva, FechasSiempreEnOrden, PTL

\* Openings and changes, written or to come, say one of the four estados.
SoloEstados ==
  /\ \A h \in Asientos : h.tipo \in {"CREACION", "CAMBIO_ESTADO"} => h.nuevo \in EstadoSolicitud
  /\ \A p \in Peticion : \A c \in peticion[p].resto :
       c.tipo = "CAMBIO_ESTADO" => c.nuevo \in EstadoSolicitud
  /\ \A p \in Peticion : FilaDecidida(peticion[p])

LEMMA EnviadosSonEstados == Enviados \subseteq EstadoSolicitud
  BY SolicitudesAssumption DEF Enviados, OnboardingUpdateRequest

(* A row that says which estado a request takes says the one that is written.  *)
LEMMA EstadoDicho ==
  ASSUME NEW i, NEW tipo, NEW a, NEW e \in EstadoSolicitud
  PROVE  Cambio(i, tipo, a, e).nuevo \in EstadoSolicitud
  BY SolicitudesAssumption DEF Cambio, ComoTexto, EstadoFila

LEMMA SoloEstadosSeConserva ==
  ASSUME TypeOK, SoloEstados, NEW p \in Peticion, Turno(p)
  PROVE  SoloEstados'
<1> DEFINE t == peticion[p]
<1>1. /\ peticion \in [Peticion -> Llamada]
      /\ Coherente(t, Ids)
      /\ \A q \in Peticion \ {p} : peticion'[q] = peticion[q]
  BY SoloLaSuya DEF TypeOK
<1>2. ASSUME NEW h \in Asientos', h.tipo \in {"CREACION", "CAMBIO_ESTADO"}
      PROVE  h.nuevo \in EstadoSolicitud
  <2>1. CASE h \in Asientos
    BY <1>2, <2>1 DEF SoloEstados
  <2>2. CASE h \in Elementos(peticion'[p].cambios)
    <3>1. CASE h \in Elementos(t.cambios)
      BY <1>2, <3>1 DEF SoloEstados, Asientos
    <3>2. CASE h \in t.resto
      <4>1. h.tipo = "CAMBIO_ESTADO"
        BY <1>1, <1>2, <3>2 DEF Coherente
      <4> QED BY <3>2, <4>1 DEF SoloEstados
    <3>3. CASE /\ InsertRequest(p)
               /\ h = Cambio(Len(solicitudes) + 1, "CREACION", Nulo, t.fila.estado)
      <4>1. t.fila.estado \in EstadoSolicitud
        BY <3>3 DEF InsertRequest, SoloEstados, FilaDecidida
      <4> QED BY <3>3, <4>1, EstadoDicho
    <3>4. CASE /\ WriteUpdate(p)
               /\ h.tipo \notin {"CREACION", "ELIMINACION"}
               /\ h.tipo = "CAMBIO_ESTADO" =>
                    h.nuevo = t.fila.estado /\ t.leida.estado # t.fila.estado
      <4>1. h.nuevo = t.fila.estado /\ t.leida.estado # t.fila.estado
        BY <1>2, <3>4
      <4>2. t.fila.estado = t.leida.estado \/ t.fila.estado \in Enviados
        BY <3>4 DEF WriteUpdate, SoloEstados, FilaDecidida
      <4> QED BY <4>1, <4>2, EnviadosSonEstados
    <3> QED BY <2>2, <3>1, <3>2, <3>3, <3>4, CambiosQueQuedan
  <2>3. h \in Asientos \/ h \in Elementos(peticion'[p].cambios)
    <3>1. Escritos' \subseteq Asientos
      BY NadaSePierde DEF Asientos
    <3>2. ASSUME NEW q \in Peticion, h \in Elementos(peticion'[q].cambios), q # p
          PROVE  h \in Asientos
      BY <1>1, <3>2 DEF Asientos
    <3>3. h \in Escritos' \/ \E q \in Peticion : h \in Elementos(peticion'[q].cambios)
      BY DEF Asientos
    <3> QED BY <3>1, <3>2, <3>3
  <2> QED BY <2>1, <2>2, <2>3
<1>3. ASSUME NEW q \in Peticion, NEW c \in peticion'[q].resto, c.tipo = "CAMBIO_ESTADO"
      PROVE  c.nuevo \in EstadoSolicitud
  <2>1. CASE c \in peticion[q].resto
    BY <1>3, <2>1 DEF SoloEstados
  <2>2. CASE Decidida(c, peticion'[p].usuario)
    <3>1. PICK i, a :
            \/ c = Cambio(i, "ELIMINACION", a, "Eliminada")
            \/ c = Cambio(i, "CAMBIO_ESTADO", a, "Rechazado")
            \/ next_state(a) # Nulo /\ c = Cambio(i, "CAMBIO_ESTADO", a, next_state(a))
      BY <2>2 DEF Decidida
    <3>2. "Rechazado" \in EstadoSolicitud
      BY DEF EstadoSolicitud
    <3>3. next_state(a) # Nulo => next_state(a) \in EstadoSolicitud
      BY EstadosQueSiguen DEF EstadoSolicitud
    <3>4. Cambio(i, "ELIMINACION", a, "Eliminada").tipo # "CAMBIO_ESTADO"
      BY DEF Cambio
    <3> QED BY <1>3, <3>1, <3>2, <3>3, <3>4, EstadoDicho
  <2> QED BY <1>1, <1>3, <2>1, <2>2, RestoQueQueda
<1>4. ASSUME NEW q \in Peticion PROVE FilaDecidida(peticion'[q])
  <2>1. FilaDecidida(peticion[q])
    BY DEF SoloEstados
  <2> QED BY <1>1, <2>1, FilaQueQueda
<1> QED BY <1>2, <1>3, <1>4 DEF SoloEstados

LEMMA SoloEstadosAlPrincipio == Init => SoloEstados
<1> SUFFICES ASSUME Init PROVE SoloEstados
  OBVIOUS
<1>1. \A p \in Peticion : peticion[p] = Nueva
  BY DEF Init
<1>2. \A p \in Peticion : /\ peticion[p].resto = {} /\ peticion[p].cambios = <<>>
                          /\ FilaDecidida(peticion[p])
  BY <1>1 DEF Nueva, FilaDecidida
<1>3. Asientos = Escritos
  BY <1>2, SinCambios DEF Asientos
<1>4. ASSUME NEW h \in Escritos PROVE h.nuevo \in EstadoSolicitud
  <2>1. PICK k \in DOMAIN Iniciales : h = Cambio(k, "CREACION", Nulo, Iniciales[k].estado)
    BY DEF Init, Escritos, Elementos
  <2>2. Iniciales[k] \in OnboardingRequest
    BY SolicitudesAssumption, ElementOfSeq, LenProperties
  <2>3. Iniciales[k].estado \in EstadoSolicitud
    BY <2>2 DEF OnboardingRequest
  <2> QED BY <2>1, <2>3, EstadoDicho
<1> QED BY <1>2, <1>3, <1>4 DEF SoloEstados

LEMMA SiempreSoloEstados == EstadisticasSpec => []SoloEstados
<1>1. EstadisticasInit => SoloEstados
  BY SoloEstadosAlPrincipio DEF EstadisticasInit, CronicaInit
<1>2. Fondo /\ SoloEstados /\ [EstadisticasNext]_estadisticas => SoloEstados'
  <2> SUFFICES ASSUME Fondo, SoloEstados, [EstadisticasNext]_estadisticas PROVE SoloEstados'
    OBVIOUS
  <2>1. CASE \E p \in Peticion : Statement(p)
    BY <2>1, SoloEstadosSeConserva DEF Statement, Turno, Fondo
  <2>2. CASE UNCHANGED vars
    BY <2>2 DEF vars, SoloEstados, Asientos, Escritos
  <2>3. Tick \/ TomarHora \/ SelectSolicitudes \/ SelectHistorial \/ UNCHANGED estadisticas => UNCHANGED vars
    BY DEF Tick, TomarHora, SelectSolicitudes, SelectHistorial, estadisticas, cronica
  <2> QED BY <2>1, <2>2, <2>3 DEF EstadisticasNext
<1> QED BY <1>1, <1>2, FondoSeConserva, PTL DEF EstadisticasSpec

(* What a report has read of a request is a trace, and it says what the rows   *)
(* it has read say of every instant.                                           *)
LEMMA TrazoLeido ==
  ASSUME Fondo, Distinguida, FechasEnOrden, SoloEstados, Hecho,
         NEW i \in Contados, AbiertaEn(i) # {}
  PROVE  /\ EsTrazo(TrazoDe(i), informe.leidos, informe.ahora)
         /\ TrazoDe(i)[0].t = creadas[i]
         /\ \A k \in DOMAIN TrazoDe(i) : TrazoDe(i)[k].e \in EstadoSolicitud
         /\ \A m \in creadas[i]..(informe.ahora - 1) :
              TrazoDe(i)[Ultima(TrazoDe(i), m)].e = EstadoEn(i, m)
<1> DEFINE n == informe.leidos
           ahora == informe.ahora
           D == {0} \cup {m \in 1..n : EsCambio(m, i)}
           O == AbiertaEn(i)
           tr == TrazoDe(i)
<1>1. /\ n \in Nat /\ ahora \in Nat /\ Len(historial) \in Nat /\ n <= Len(historial)
      /\ i \in Ids /\ creadas[i] \in Nat /\ creadas[i] <= ahora
      /\ DOMAIN historial = 1..Len(historial)
  <2>1. Len(historial) \in Nat /\ DOMAIN historial = 1..Len(historial)
    BY LenProperties DEF Fondo, TypeOK
  <2>2. /\ informe.leidos \in 0..Len(historial) /\ i \in Ids
        /\ informe.ahora \in Nat /\ creadas[i] <= informe.ahora
    BY DEF Fondo, Leida, Hecho, Informe
  <2>3. creadas[i] \in Nat
    BY CierreLeido
  <2> QED BY <2>1, <2>2, <2>3
<1>2. ASSUME NEW k \in 1..n
      PROVE  /\ k \in 1..Len(historial) /\ historial[k] \in Asientos
             /\ fechas[k] \in Nat /\ fechas[k] <= ahora
  <2>1. k \in 1..Len(historial)
    BY <1>1
  <2>2. historial[k] \in Asientos
    BY <1>1, <2>1 DEF Asientos, Escritos, Elementos
  <2>3. fechas[k] \in Nat
    BY <2>1, FechaDa
  <2> QED BY <2>1, <2>2, <2>3 DEF Fondo, Leida, Hecho
<1>3. ASSUME NEW k \in D, k # 0
      PROVE  /\ k \in 1..n /\ EsCambio(k, i) /\ tr[k].t = fechas[k] /\ tr[k].e = historial[k].nuevo
             /\ creadas[i] <= fechas[k]
  <2>1. k \in 1..n /\ EsCambio(k, i) /\ tr[k].t = fechas[k] /\ tr[k].e = historial[k].nuevo
    BY <1>3 DEF TrazoDe, Trazo
  <2> QED BY <1>2, <2>1 DEF Fondo, Fechada, EsCambio
<1>4. PICK o \in O : o = CHOOSE k \in 1..n : EsApertura(k, i)
  BY DEF AbiertaEn
<1>5. DOMAIN tr = D /\ tr[0].t = creadas[i] /\ tr[0].e = historial[o].nuevo
  <2>1. \E k \in 1..n : EsApertura(k, i)
    BY DEF AbiertaEn
  <2> QED BY <1>4, <2>1 DEF TrazoDe, Trazo, EstadoDeApertura
<1>6. \A k \in O : historial[k].nuevo = tr[0].e /\ historial[k].nuevo \in EstadoSolicitud
  <2>1. ASSUME NEW k \in O
        PROVE  k \in 1..n /\ historial[k].sol = i /\ historial[k].tipo = "CREACION"
    BY DEF AbiertaEn, EsApertura
  <2> QED BY <1>2, <1>5, <2>1 DEF Distinguida, SoloEstados
<1> HIDE DEF tr, O
<1>7. ASSUME NEW k \in D PROVE tr[k].t \in 0..ahora /\ tr[k].e \in EstadoSolicitud
  <2>1. CASE k = 0
    BY <1>1, <1>4, <1>5, <1>6, <2>1
  <2>2. CASE k # 0
    <3>1. tr[k].t = fechas[k] /\ fechas[k] \in Nat /\ fechas[k] <= ahora
      BY <1>2, <1>3, <2>2
    <3>2. tr[k].e \in EstadoSolicitud
      BY <1>2, <1>3, <2>2 DEF SoloEstados, EsCambio
    <3> QED BY <1>1, <3>1, <3>2
  <2> QED BY <2>1, <2>2
<1>8. ASSUME NEW j \in D, NEW k \in D, j <= k PROVE tr[j].t <= tr[k].t
  <2>1. CASE j = 0 /\ k = 0
    BY <1>1, <1>5, <2>1
  <2>2. CASE j = 0 /\ k # 0
    BY <1>3, <1>5, <2>2
  <2>3. CASE j # 0 /\ k # 0
    BY <1>2, <1>3, <1>8, <2>3 DEF FechasEnOrden
  <2>4. CASE j # 0 /\ k = 0
    <3>1. j \in 1..n
      BY <1>3, <2>4
    <3> QED BY <1>1, <1>8, <2>4, <3>1
  <2> QED BY <2>1, <2>2, <2>3, <2>4
<1>9. EsTrazo(tr, n, ahora)
  <2>1. D \subseteq 0..n /\ 0 \in D
    BY <1>1
  <2> QED BY <1>1, <1>5, <1>7, <1>8, <2>1 DEF EsTrazo
<1>10. ASSUME NEW m \in creadas[i]..(ahora - 1)
       PROVE  tr[Ultima(tr, m)].e = EstadoEn(i, m)
  <2> DEFINE cambios == {k \in 1..n : EsCambio(k, i) /\ fechas[k] <= m}
  <2>1. m \in Nat /\ tr[0].t <= m
    BY <1>1, <1>5
  <2>2. PICK u : u = Ultima(tr, m)
    OBVIOUS
  <2>3. u \in D /\ tr[u].t <= m /\ \A j \in D : tr[j].t <= m => j <= u
    BY <1>5, <1>9, <2>1, <2>2, UltimaDa DEF EsUltima
  <2>4. cambios = {k \in D : k # 0 /\ tr[k].t <= m} /\ cambios \subseteq Nat
    <3>1. \A k \in D : k # 0 => (fechas[k] <= m <=> tr[k].t <= m)
      BY <1>3
    <3>2. cambios = {k \in D : k # 0 /\ fechas[k] <= m}
      BY <1>1
    <3> QED BY <1>1, <3>1, <3>2
  <2>5. EstadoEn(i, m) = historial[IF cambios = {} THEN Max(O) ELSE Max(cambios)].nuevo
    BY DEF EstadoEn, O
  <2> HIDE DEF cambios
  <2>6. CASE cambios = {}
    <3>1. u = 0
      BY <2>3, <2>4, <2>6
    <3>2. Max(O) \in O
      <4>1. O \subseteq Nat /\ \A k \in O : k <= n
        BY <1>1 DEF O, AbiertaEn
      <4>2. \E x \in O : \A y \in O : y <= x
        BY <1>1, <1>4, <4>1, Maximo
      <4>3. \E x \in O : \A y \in O : x >= y
        BY <4>1, <4>2
      <4> QED BY <4>3 DEF Max
    <3> QED BY <1>6, <2>2, <2>5, <2>6, <3>1, <3>2
  <2>7. CASE cambios # {}
    <3>1. u # 0 /\ u \in Nat
      BY <1>1, <2>3, <2>4, <2>7
    <3>2. u \in cambios /\ \A k \in cambios : k <= u
      BY <2>3, <2>4, <3>1
    <3>3. Max(cambios) = u
      <4>1. \E x \in cambios : \A y \in cambios : x >= y
        BY <2>4, <3>1, <3>2
      <4>2. PICK x : x = Max(cambios)
        OBVIOUS
      <4>3. x \in cambios /\ \A y \in cambios : x >= y
        BY <4>1, <4>2 DEF Max
      <4>4. x \in Nat /\ x >= u /\ x <= u
        BY <2>4, <3>2, <4>3
      <4> QED BY <3>1, <4>2, <4>4
    <3>4. tr[u].e = historial[u].nuevo
      BY <1>3, <2>3, <3>1
    <3> QED BY <2>2, <2>5, <2>7, <3>3, <3>4
  <2> QED BY <2>6, <2>7
<1> QED BY <1>5, <1>7, <1>9, <1>10 DEF tr

(* The minutes of an unfinished estado are the instants the request was in it, *)
(* and they add up to its total unless it was open again after a closing: the  *)
(* dates do not go back, and no minute is in two stretches.                    *)
THEOREM TiempoSiempreRepartido == EstadisticasSpec => []TiempoRepartido
<1>1. Fondo /\ Distinguida /\ FechasEnOrden /\ SoloEstados => TiempoRepartido
  <2> SUFFICES ASSUME Fondo, Distinguida, FechasEnOrden, SoloEstados, Hecho,
                      NEW i \in Contados, AbiertaEn(i) # {}
               PROVE  /\ \A e \in EstadoSolicitud \ TERMINAL_STATES :
                           Tiempo(i, e) =
                             Cardinality({m \in creadas[i]..(informe.ahora - 1) : EstadoEn(i, m) = e})
                      /\ (\A k \in DOMAIN TrazoDe(i) :
                            TrazoDe(i)[k].e \in TERMINAL_STATES => Despues(TrazoDe(i), k) = {} /\ k > 0)
                           => Total(i) = Tiempo(i, "Pendiente") + Tiempo(i, "En proceso")
    BY DEF TiempoRepartido
  <2>1. PICK tr, n, ahora : tr = TrazoDe(i) /\ n = informe.leidos /\ ahora = informe.ahora
    OBVIOUS
  <2>2. /\ EsTrazo(tr, n, ahora) /\ tr[0].t = creadas[i]
        /\ \A k \in DOMAIN tr : tr[k].e \in EstadoSolicitud
        /\ \A m \in creadas[i]..(ahora - 1) : tr[Ultima(tr, m)].e = EstadoEn(i, m)
    BY <2>1, TrazoLeido
  <2>3. ASSUME NEW e \in EstadoSolicitud \ TERMINAL_STATES
        PROVE  Tiempo(i, e) =
                 Cardinality({m \in creadas[i]..(informe.ahora - 1) : EstadoEn(i, m) = e})
    <3>1. Tiempo(i, e) = Cardinality(Instantes(tr, e, ahora))
      BY <2>1, <2>2, MinutosPorInstante DEF Tiempo
    <3>2. Instantes(tr, e, ahora) = {m \in creadas[i]..(ahora - 1) : EstadoEn(i, m) = e}
      BY <2>2 DEF Instantes
    <3> QED BY <2>1, <3>1, <3>2
  <2>4. ASSUME \A k \in DOMAIN tr : tr[k].e \in TERMINAL_STATES => Despues(tr, k) = {} /\ k > 0
        PROVE  Total(i) = Tiempo(i, "Pendiente") + Tiempo(i, "En proceso")
    <3>1. total_minutes(tr, ahora)
            = elapsed_by_state(tr, "Pendiente", ahora) + elapsed_by_state(tr, "En proceso", ahora)
      BY <2>2, <2>4, TotalRepartido
    <3> QED BY <2>1, <3>1 DEF Total, Tiempo
  <2> QED BY <2>1, <2>3, <2>4
<1> QED BY <1>1, LecturaSeConserva, FechasSiempreEnOrden, SiempreSoloEstados, PTL
----------------------------------------------------------------------------
(* Who sees which requests.                                                   *)

(* A list that is asked for no range has the requests of any instant.          *)
LEMMA SinRango == \A i : EnRango(i, Siempre)
  BY DEF EnRango, Siempre

LEMMA LectoresSonCargos == Lectores \subseteq Cargo /\ \A c \in Lectores : c # Nulo
  BY CargoAssumption DEF Lectores

(* What may be moved on is not finished.                                      *)
LEMMA SiguienteDa == \A e : next_state(e) # Nulo => e \in {"Pendiente", "En proceso"}
<1> SUFFICES ASSUME NEW e, next_state(e) # Nulo PROVE e \in {"Pendiente", "En proceso"}
  OBVIOUS
<1>1. PICK k \in 1..2 : STATE_FLOW[k] = e
  BY DEF next_state
<1>2. k = 1 \/ k = 2
  OBVIOUS
<1>3. STATE_FLOW[1] = "Pendiente" /\ STATE_FLOW[2] = "En proceso"
  BY DEF STATE_FLOW
<1> QED BY <1>1, <1>2, <1>3

(* Whoever may move a request on finds it in one of his lists, although the    *)
(* handler compares texts as Python does and the list as SQLite does.          *)
THEOREM QuienPuedeAvanzarSiempreLaVe == EstadisticasSpec => []QuienPuedeAvanzarLaVe
<1>1. Fondo => QuienPuedeAvanzarLaVe
  <2> SUFFICES ASSUME Fondo, NEW c \in Lectores, NEW i \in Ids,
                      PuedeAvanzar(c, solicitudes[i]),
                      solicitudes[i].estado = "En proceso" =>
                        \A t \in {solicitudes[i].destinatario, Strip[NombreCargo[c]], Strip[Area[c]]} :
                          PliegueComun(t)
               PROVE  i \in list_team_onboarding_requests(c, Nulo, Siempre)
                              \cup list_assigned_onboarding_requests(c, Siempre)
    BY DEF QuienPuedeAvanzarLaVe
  <2>1. c \in Cargo /\ EnRango(i, Siempre)
    BY LectoresSonCargos, SinRango
  <2>2. solicitudes[i] \in Fila /\ solicitudes[i].estado \in {"Pendiente", "En proceso"}
    BY FilaDeId, SiguienteDa DEF Fondo, PuedeAvanzar
  <2>3. CASE solicitudes[i].estado = "Pendiente"
    BY <2>1, <2>3 DEF PuedeAvanzar, list_team_onboarding_requests, EstadoListado
  <2>4. CASE solicitudes[i].estado = "En proceso"
    <3>1. PICK d, n, a : /\ d = solicitudes[i].destinatario
                         /\ n = NombreCargo[c] /\ a = Area[c]
      OBVIOUS
    <3>2. /\ d \in Texto /\ n \in Texto /\ a \in Texto /\ d # Nulo
          /\ Strip[d] \in Texto /\ Strip[n] \in Texto /\ Strip[a] \in Texto
          /\ Lower[Strip[d]] # ""
          /\ Lower[Strip[d]] \in {Lower[Strip[n]], Lower[Strip[a]]}
      <4>1. destination_matches_user_cargo(c, d)
        BY <2>4, <3>1 DEF PuedeAvanzar
      <4>2. d \in Texto /\ n \in Texto /\ a \in Texto
        BY <2>1, <2>2, <3>1, <4>1, CargoAssumption
           DEF Fila, TextoONulo, destination_matches_user_cargo
      <4>3. d # Nulo /\ Lower[Strip[d]] # "" /\ Lower[Strip[d]] \in {Lower[Strip[n]], Lower[Strip[a]]}
        BY <3>1, <4>1 DEF destination_matches_user_cargo
      <4> QED BY <4>2, <4>3, TextoAssumption
    <3>3. /\ Clave[d] = Lower[Strip[d]]
          /\ Clave[Strip[n]] = Lower[Strip[Strip[n]]] /\ Clave[Strip[a]] = Lower[Strip[Strip[a]]]
      BY <2>4, <3>1 DEF PliegueComun
    <3>4. Strip[Strip[n]] = Strip[n] /\ Strip[Strip[a]] = Strip[a] /\ Lower[""] = ""
      BY <3>2, VistasAssumption, TextoAssumption
    <3>5. Clave[d] \in {Clave[Strip[n]], Clave[Strip[a]]} /\ {Strip[n], Strip[a]} # {""}
      BY <3>2, <3>3, <3>4
    <3>6. DirigidaA(i, c)
      BY <3>1, <3>2, <3>5 DEF DirigidaA
    <3> QED BY <2>1, <2>4, <3>6 DEF list_assigned_onboarding_requests
  <2> QED BY <2>2, <2>3, <2>4
<1> QED BY <1>1, FondoSeConserva, PTL

\* Every job title has a name and an area, as in the seeds; a blank one would
\* match the requests that are addressed to nobody.
CargosConNombre ==
  \A c \in Cargo : Strip[NombreCargo[c]] # "" /\ Strip[Area[c]] # ""

(* Who has a request in his list of assigned ones is whom it is addressed to.  *)
LEMMA DirigidaCoincide ==
  ASSUME CargosConNombre, TypeOK, NEW c \in Cargo, NEW i \in Ids, DirigidaA(i, c)
  PROVE  destination_matches_user_cargo(c, solicitudes[i].destinatario)
<1>1. PICK d, n, a : /\ d = solicitudes[i].destinatario
                     /\ n = NombreCargo[c] /\ a = Area[c]
  OBVIOUS
<1>2. d \in Texto /\ n \in Texto /\ a \in Texto /\ d # Nulo
  BY <1>1, FilaDeId, CargoAssumption DEF DirigidaA, Fila, TextoONulo
<1>3. PICK x \in {n, a} : Clave[d] = Clave[Strip[x]]
  BY <1>1 DEF DirigidaA
<1>4. x \in Texto /\ Strip[x] \in Texto /\ Strip[d] \in Texto /\ Strip[x] # ""
  BY <1>1, <1>2, <1>3, TextoAssumption DEF CargosConNombre
<1>5. Lower[Strip[d]] = Lower[Strip[Strip[x]]]
  BY <1>2, <1>3, <1>4, VistasAssumption
<1>6. Strip[Strip[x]] = Strip[x] /\ Lower[Strip[x]] # "" /\ Strip[""] = "" /\ Lower[""] = ""
  BY <1>4, VistasAssumption, TextoAssumption
<1>7. /\ Lower[Strip[d]] # "" /\ d # ""
      /\ Lower[Strip[d]] \in {Lower[Strip[n]], Lower[Strip[a]]}
  BY <1>3, <1>5, <1>6
<1> QED BY <1>1, <1>2, <1>7 DEF destination_matches_user_cargo

(* Whoever has a request in a list of requests of others can read its history, *)
(* unless the employee is gone, and nobody's own list has a row that cannot be *)
(* answered.                                                                   *)
THEOREM HistorialSiempreConsultable ==
  ASSUME CargosConNombre
  PROVE  EstadisticasSpec => []HistorialConsultable
<1>1. Fondo => HistorialConsultable
  <2> SUFFICES ASSUME Fondo PROVE HistorialConsultable
    OBVIOUS
  <2>1. ASSUME NEW c \in Lectores,
               NEW i \in list_onboarding_requests(c) \cup list_team_onboarding_requests(c, Nulo, Siempre)
                         \cup list_assigned_onboarding_requests(c, Siempre),
               estadoUsuario[solicitudes[i].id_empleado] # "Eliminada"
        PROVE  VeHistorial(c, i)
    <3>1. c \in Cargo /\ get_payload_cargo(c)
      BY LectoresSonCargos DEF get_payload_cargo
    <3>2. CASE i \in list_onboarding_requests(c)
      <4>1. i \in Ids /\ solicitudes[i].estado # "Eliminada"
            /\ c \in allowed_cargos_for_permission("onboarding_listar")
        BY <3>2 DEF list_onboarding_requests, EstadoListado, require_permission
      <4>2. allowed_cargos_for_permission("onboarding_listar") = ROLE_CARGO_ACCESS["rrhh"]
        <5>1. PERMISSION_ROLES["onboarding_listar"] = {"rrhh"}
          BY DEF PERMISSION_ROLES
        <5> QED BY <5>1 DEF allowed_cargos_for_permission
      <4>3. is_rrhh_cargo(c)
        BY <4>1, <4>2 DEF is_rrhh_cargo
      <4> QED BY <2>1, <3>1, <4>1, <4>3 DEF VeHistorial, can_view_onboarding_history
    <3>3. CASE i \in list_team_onboarding_requests(c, Nulo, Siempre)
      BY <2>1, <3>1, <3>3 DEF list_team_onboarding_requests, EstadoListado, VeHistorial,
         can_view_onboarding_history
    <3>4. CASE i \in list_assigned_onboarding_requests(c, Siempre)
      <4>1. i \in Ids /\ DirigidaA(i, c) /\ solicitudes[i].estado # "Eliminada"
        BY <3>4 DEF list_assigned_onboarding_requests
      <4>2. destination_matches_user_cargo(c, solicitudes[i].destinatario)
        BY <3>1, <4>1, DirigidaCoincide DEF Fondo
      <4> QED BY <2>1, <3>1, <4>1, <4>2 DEF VeHistorial, can_view_onboarding_history
    <3> QED BY <2>1, <3>2, <3>3, <3>4
  <2>2. ASSUME NEW u \in Usuario, NEW i \in list_my_onboarding_requests(u, Nulo, Siempre)
        PROVE  RespuestaDe(solicitudes[i]) = "ok"
    <3>1. i \in Ids /\ solicitudes[i].estado # "Eliminada"
      BY DEF list_my_onboarding_requests, EstadoListado
    <3>2. solicitudes[i].estado \in EstadoFila
      BY <3>1, FilaDeId DEF Fondo
    <3> QED BY <3>1, <3>2 DEF RespuestaDe, EstadoFila
  <2> QED BY <2>1, <2>2 DEF HistorialConsultable
<1> QED BY <1>1, FondoSeConserva, PTL

\* A range of instants is exact but for the two days at its ends.
FiltroSalvoEnLosBordes ==
  \A c \in Lectores, desde, hasta \in 0..MaxReloj :
    \A i \in list_team_onboarding_requests(c, Nulo, Siempre) :
      LET sale == i \in list_team_onboarding_requests(c, Nulo, <<desde, hasta>>)
      IN  /\ creadas[i] \in desde..hasta /\ Dia(creadas[i]) # Dia(desde) => sale
          /\ sale => /\ creadas[i] > desde
                     /\ creadas[i] <= hasta \/ Dia(creadas[i]) = Dia(hasta)

(* FiltroPorFecha fails as far as this and no further: a range misses requests *)
(* of the day it starts on and no other in it, and lets in requests of the day *)
(* it ends on and no other outside (list.py 138-166).                          *)
THEOREM FiltroSoloYerraEnLosBordes == EstadisticasSpec => []FiltroSalvoEnLosBordes
<1>1. Fondo => FiltroSalvoEnLosBordes
  <2> SUFFICES ASSUME Fondo, NEW c \in Lectores, NEW desde \in 0..MaxReloj, NEW hasta \in 0..MaxReloj,
                      NEW i \in list_team_onboarding_requests(c, Nulo, Siempre)
               PROVE  LET sale == i \in list_team_onboarding_requests(c, Nulo, <<desde, hasta>>)
                      IN  /\ creadas[i] \in desde..hasta /\ Dia(creadas[i]) # Dia(desde) => sale
                          /\ sale => /\ creadas[i] > desde
                                     /\ creadas[i] <= hasta \/ Dia(creadas[i]) = Dia(hasta)
    BY DEF FiltroSalvoEnLosBordes
  <2>1. PICK r : r = creadas[i]
    OBVIOUS
  <2>2. r \in Nat /\ desde \in Nat /\ hasta \in Nat /\ desde # Nulo /\ hasta # Nulo
    <3>1. i \in Ids /\ creadas \in Seq(0..reloj) /\ Len(creadas) = Len(solicitudes)
      BY DEF list_team_onboarding_requests, Fondo, Fechada, CronicaTypeOK
    <3>2. i \in 1..Len(creadas) /\ reloj \in Nat
      BY <3>1, LenProperties, CronicaAssumption DEF Ids, Fondo, Fechada, CronicaTypeOK, TypeOK
    <3>3. creadas[i] \in 0..reloj
      BY <3>1, <3>2, ElementOfSeq
    <3> QED BY <2>1, <3>2, <3>3, CronicaAssumption
  <2>3. i \in list_team_onboarding_requests(c, Nulo, <<desde, hasta>>)
          <=> Dia(r) > Dia(desde) /\ Dia(r) <= Dia(hasta)
    BY <2>1, <2>2 DEF list_team_onboarding_requests, EnRango
  <2>4. /\ Dia(r) \in Nat /\ Dia(desde) \in Nat /\ Dia(hasta) \in Nat
        /\ desde <= r => Dia(desde) <= Dia(r)
        /\ r <= desde => Dia(r) <= Dia(desde)
        /\ r <= hasta => Dia(r) <= Dia(hasta)
        /\ hasta <= r => Dia(hasta) <= Dia(r)
    BY <2>2, DiaMonotono
  <2> QED BY <2>1, <2>2, <2>3, <2>4
<1> QED BY <1>1, FondoSeConserva, PTL
=============================================================================
