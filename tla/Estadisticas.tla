----------------------------- MODULE Estadisticas -----------------------------
(****************************************************************************)
(* The performance statistics (api/v1/onboarding/stats.py): a call reads    *)
(* SOLICITUDES in one statement and HISTORIAL in another, while the request *)
(* handlers go on, and computes the rest from the two.                      *)
(*                                                                          *)
(* Minutes are ticks of the clock.  The means, the grouping by recipient or *)
(* by specification and the choice of the slowest ones are left out.        *)
(****************************************************************************)
EXTENDS Cronica, Functions, FiniteSetsExt

VARIABLE informe \* what the call has read

TERMINAL_STATES == {"Finalizado", "Rechazado"}

InformeNuevo == [paso |-> "nuevo",
                 hasta |-> 0,      \* fecha_hasta of the timeline: when it was called
                 filas |-> <<>>,   \* the rows of SOLICITUDES it read, by their id
                 leidos |-> 0,     \* how many rows of HISTORIAL it read
                 ahora |-> 0]      \* and when

estadisticas == <<cronica, informe>>

EstadisticasInit == CronicaInit /\ informe = InformeNuevo

\* Variant: the deleted ones of a user who is there count too.
Contadas_ConEliminadas ==
  {i \in Ids : LET u == solicitudes[i].id_empleado
               IN  /\ estadoUsuario[u] # "Eliminada"
                   /\ CargoDe[u] \in Cargo}

\* The requests of the first SELECT: not deleted, of a user not deleted who has
\* a job title.
Contadas ==
  {i \in Ids : LET u == solicitudes[i].id_empleado
               IN  /\ solicitudes[i].estado # "Eliminada"
                   /\ estadoUsuario[u] # "Eliminada"
                   /\ CargoDe[u] \in Cargo}

\* The timeline looks at the clock before it asks for anything.
TomarHora ==
  /\ informe.paso = "nuevo"
  /\ informe' = [informe EXCEPT !.paso = "solicitudes", !.hasta = reloj]
  /\ UNCHANGED cronica

SelectSolicitudes ==
  /\ informe.paso = "solicitudes"
  /\ informe' = [informe EXCEPT !.paso = "historial",
                                !.filas = [i \in Contadas |-> solicitudes[i]]]
  /\ UNCHANGED cronica

\* Variant: WHERE fecha_cambio < datetime('now').
SelectHistorial_SoloAnteriores ==
  /\ informe.paso = "historial"
  /\ informe' = [informe EXCEPT !.paso = "hecho", !.ahora = reloj,
                                !.leidos = Cardinality({k \in DOMAIN fechas : fechas[k] < reloj})]
  /\ UNCHANGED cronica

SelectHistorial ==
  /\ informe.paso = "historial"
  /\ informe' = [informe EXCEPT !.paso = "hecho", !.ahora = reloj, !.leidos = Len(historial)]
  /\ UNCHANGED cronica

EstadisticasNext ==
  \/ (\E p \in Peticion : Statement(p)) /\ UNCHANGED informe
  \/ Tick /\ UNCHANGED informe
  \/ TomarHora
  \/ SelectSolicitudes
  \/ SelectHistorial
  \/ Terminated /\ informe.paso = "hecho" /\ reloj = MaxReloj /\ UNCHANGED estadisticas

EstadisticasSpec == EstadisticasInit /\ [][EstadisticasNext]_estadisticas

\* D1 answers whoever awaits it, as in FairSpec.
EstadisticasFairSpec ==
  /\ EstadisticasSpec
  /\ \A p \in Peticion : WF_estadisticas(Continue(p) /\ Dating /\ UNCHANGED informe)
----------------------------------------------------------------------------
(* _compute_request_metrics, of request i, from its row and the first n     *)
(* rows of HISTORIAL.                                                       *)

EsCambio(k, i) == historial[k].sol = i /\ historial[k].tipo = "CAMBIO_ESTADO"

EsApertura(k, i) == historial[k].sol = i /\ historial[k].tipo = "CREACION"

\* The estado of the row stands in for an opening that is not there yet.
EstadoDeApertura(fila, i, n) ==
  IF \E k \in 1..n : EsApertura(k, i)
    THEN historial[CHOOSE k \in 1..n : EsApertura(k, i)].nuevo
    ELSE fila.estado

\* The estados the request went through, each with the instant it took it, by
\* the row of HISTORIAL that says so; 0 is its creation.  The rows come by their
\* date, which is also the order of their ids: the code skips a change older than
\* the one before it, and there is none (FechasSiempreEnOrden).
Trazo(fila, i, n) ==
  [k \in {0} \cup {m \in 1..n : EsCambio(m, i)} |->
     IF k = 0 THEN [t |-> creadas[i], e |-> EstadoDeApertura(fila, i, n)]
              ELSE [t |-> fechas[k], e |-> historial[k].nuevo]]

Cierres(tr) == {k \in DOMAIN tr : k # 0 /\ tr[k].e \in TERMINAL_STATES}

\* Variant: the last closing, not the first.
Cierre_Ultimo(tr) == IF Cierres(tr) = {} THEN Nulo ELSE tr[Max(Cierres(tr))].t

\* terminal_time: the first change to a terminal estado.
Cierre(tr) == IF Cierres(tr) = {} THEN Nulo ELSE tr[Min(Cierres(tr))].t

Despues(tr, k) == {m \in DOMAIN tr : m > k}

\* Variant: previous_time stays where the request began.
Tramo_DesdeElInicio(tr, k, ahora) ==
  CASE Despues(tr, k) # {}                                   -> tr[0].t..(tr[Min(Despues(tr, k))].t - 1)
    [] Despues(tr, k) = {} /\ tr[k].e \notin TERMINAL_STATES -> tr[k].t..(ahora - 1)
    [] Despues(tr, k) = {} /\ tr[k].e \in TERMINAL_STATES    -> {}

\* The minutes of the stretch that begins at k, each by the instant it begins:
\* up to the next change; of the last one, up to now unless it is terminal.
Tramo(tr, k, ahora) ==
  CASE Despues(tr, k) # {}                                   -> tr[k].t..(tr[Min(Despues(tr, k))].t - 1)
    [] Despues(tr, k) = {} /\ tr[k].e \notin TERMINAL_STATES -> tr[k].t..(ahora - 1)
    [] Despues(tr, k) = {} /\ tr[k].e \in TERMINAL_STATES    -> {}

\* The sum of the lengths of the stretches of estado e: a minute that were in two
\* of them would count twice.
elapsed_by_state(tr, e, ahora) ==
  Cardinality(UNION {{k} \X Tramo(tr, k, ahora) : k \in {m \in DOMAIN tr : tr[m].e = e}})

total_minutes(tr, ahora) == (IF Cierre(tr) = Nulo THEN ahora ELSE Cierre(tr)) - tr[0].t
----------------------------------------------------------------------------
(* What the endpoints answer.                                               *)

Contados   == DOMAIN informe.filas
TrazoDe(i) == Trazo(informe.filas[i], i, informe.leidos)
Tiempo(i, e) == elapsed_by_state(TrazoDe(i), e, informe.ahora)
Total(i)   == total_minutes(TrazoDe(i), informe.ahora)

\* Those of a set that are closed now, by their row.
Cerradas(S) == {i \in S : informe.filas[i].estado \in TERMINAL_STATES}

\* Variant: while current_day < end_day.
Dias_SinElUltimo(desde, hasta) == {d \in Dia(desde)..Dia(hasta) : d # Dia(hasta)}

\* The days of the timeline, and the requests of a day: those created within
\* the range, on the day they were first closed.
Dias(desde, hasta) == Dia(desde)..Dia(hasta)

DelDia(d, desde, hasta) ==
  {i \in Contados : /\ creadas[i] \in desde..hasta
                    /\ Cierre(TrazoDe(i)) # Nulo
                    /\ Dia(Cierre(TrazoDe(i))) = d}

\* Totales[i] is the total_minutes of request i; the k-th of them, in order.
Ordenado(totales, k) ==
  CHOOSE v \in Range(totales) :
    /\ Cardinality({i \in DOMAIN totales : totales[i] < v}) < k
    /\ Cardinality({i \in DOMAIN totales : totales[i] <= v}) >= k

\* Variant: the two weights have changed places.
percentile_PesosCambiados(totales, q) ==
  LET n     == Cardinality(DOMAIN totales)
      rango == (n - 1) * q
      bajo  == rango \div 10
      alto  == Min({bajo + 1, n - 1})
      peso  == rango % 10
  IN  Ordenado(totales, bajo + 1) * peso + Ordenado(totales, alto + 1) * (10 - peso)

\* _percentile, in tenths of a minute; q is the percentile in tenths.
percentile(totales, q) ==
  LET n     == Cardinality(DOMAIN totales)
      rango == (n - 1) * q
      bajo  == rango \div 10
      alto  == Min({bajo + 1, n - 1})
      peso  == rango % 10
  IN  Ordenado(totales, bajo + 1) * (10 - peso) + Ordenado(totales, alto + 1) * peso
----------------------------------------------------------------------------
Hecho == informe.paso = "hecho"

\* The type invariant: no estado but the four of EstadoSolicitud is counted.
EstadisticasTypeOK ==
  /\ CronicaTypeOK
  /\ informe.paso \in {"nuevo", "solicitudes", "historial", "hecho"}
  /\ informe.hasta \in 0..reloj /\ informe.ahora \in 0..reloj
  /\ informe.leidos \in 0..Len(historial)
  /\ Contados \subseteq Ids /\ \A i \in Contados : informe.filas[i] \in OnboardingRequest

\* Some call still owes HISTORIAL a row of request i.
Debida(i) == \E p \in Peticion : \E c \in Elementos(peticion[p].cambios) : c.sol = i

(* A request that was opened unfinished and counts as 'Finalizado' or         *)
(* 'Rechazado' has the date of its closing, although its estado and its       *)
(* history are of two moments, unless the row of the change was still to be   *)
(* written (stats.py 143-173: the history is read after the requests).        *)
CierreFechado ==
  [][informe.paso = "historial" /\ informe'.paso = "hecho" =>
       \A i \in Cerradas(Contados)' :
         \/ Debida(i)
         \/ TrazoDe(i)'[0].e \in TERMINAL_STATES
         \/ Cierre(TrazoDe(i)') # Nulo]_estadisticas

\* The estado of request i at instant m, by the rows that were read.
AbiertaEn(i) == {k \in 1..informe.leidos : EsApertura(k, i)}
EstadoEn(i, m) ==
  LET cambios == {k \in 1..informe.leidos : EsCambio(k, i) /\ fechas[k] <= m}
  IN  historial[IF cambios = {} THEN Max(AbiertaEn(i)) ELSE Max(cambios)].nuevo

(* The minutes a request is given for an unfinished estado are the instants   *)
(* it was in it, whether it was reopened, closed twice, or several changes    *)
(* fell on one instant; and they add up to its total unless it has been open  *)
(* again after a closing (stats.py 240-262).                                  *)
TiempoRepartido ==
  Hecho => \A i \in Contados : AbiertaEn(i) # {} =>
    LET tr == TrazoDe(i)
        abiertos == EstadoSolicitud \ TERMINAL_STATES
    IN  /\ \A e \in abiertos :
             Tiempo(i, e) =
               Cardinality({m \in creadas[i]..(informe.ahora - 1) : EstadoEn(i, m) = e})
        /\ (\A k \in DOMAIN tr : tr[k].e \in TERMINAL_STATES => Despues(tr, k) = {} /\ k > 0) =>
             Total(i) = Tiempo(i, "Pendiente") + Tiempo(i, "En proceso")

(* The date a request was closed on never moves again, whatever is done to    *)
(* the request afterwards: an old report and a new one give the same.         *)
FechaDeCierreEstable ==
  [][\A i \in Ids :
       LET antes == Cierre(Trazo(solicitudes[i], i, Len(historial)))
       IN  antes # Nulo =>
             Cierre(Trazo(solicitudes[i], i, Len(historial))') = antes]_estadisticas

(* The timeline up to now takes its end from the clock before the requests     *)
(* are read, and the general summary takes none, so that the same reading may *)
(* show one more closed requests than the other.  The timeline misses none    *)
(* that had been closed before it was called; and until midnight what it      *)
(* misses are the requests that were created since and those that have no     *)
(* date (stats.py 174-190, 344-374, 430-432, 563-573).                        *)
LineaCuadraConResumen ==
  Hecho =>
    LET enLinea == UNION {Cerradas(DelDia(d, 0, informe.hasta)) : d \in Dias(0, informe.hasta)}
        CerradaAntes(i) == \E k \in DOMAIN historial :
                             /\ EsCambio(k, i) /\ historial[k].nuevo \in TERMINAL_STATES
                             /\ fechas[k] < informe.hasta
    IN  /\ {i \in Cerradas(Contados) : CerradaAntes(i)} \subseteq enLinea
        /\ Dia(informe.hasta) = Dia(informe.ahora) =>
             enLinea = {i \in Cerradas(Contados) :
                          Cierre(TrazoDe(i)) # Nulo /\ creadas[i] <= informe.hasta}

(* Between the shortest and the longest total, the median is not above the    *)
(* 90th percentile, and half of the requests are on either side of it         *)
(* (stats.py 203-214).                                                        *)
PercentilesEnOrden ==
  Hecho /\ Contados # {} =>
    LET totales == [i \in Contados |-> Total(i)]
        n   == Cardinality(Contados)
        p50 == percentile(totales, 5)
        p90 == percentile(totales, 9)
    IN  /\ 10 * Ordenado(totales, 1) <= p50 /\ p50 <= p90
        /\ p90 <= 10 * Ordenado(totales, n)
        /\ 2 * Cardinality({i \in Contados : 10 * totales[i] <= p50}) >= n
        /\ 2 * Cardinality({i \in Contados : 10 * totales[i] >= p50}) >= n
=============================================================================
