----------------------------- MODULE Sugerencias -----------------------------
(****************************************************************************)
(* How POST /v1/puesto-trabajo/sugerencia makes a list of workstations out  *)
(* of the free text the language model answers (_parse_ai_suggestions and   *)
(* _parse_ai_suggestions_flexible, puesto_trabajo.py 400-507): a loop over  *)
(* the lines with one position open at a time, a second reading where the   *)
(* first finds nothing, a sort and a cut.                                   *)
(*                                                                          *)
(* A line is what the expressions find in it.  A seat has no other identity *)
(* than the line it is written in.                                          *)
(****************************************************************************)
EXTENDS Naturals, Sequences, FiniteSets

CONSTANTS
  Nada,      \* what an expression that does not match gives
  Razon,     \* reasons the model writes
  Lineas,    \* the lines an answer may be made of
  MaxLineas, \* bound: lines of an answer
  MaxAlcance \* bound: whole lines within 100 characters of another

\* A seat is written as asked for ("Posicion 1: Piso 1, Fila 5, Columna 10 |
\* Puntuacion: 5/5") or loosely ("1. Piso 1, Fila 5, Columna 10"). A line has
\* one seat at most; several on one line are outside the model.
Linea == [asiento: {"pedido", "suelto", Nada}, puntos: Nat \cup {Nada},
          razon: Razon \cup {Nada}]

\* A position read: its line, its score and the reason written for it, if any.
Posicion == [linea: Nat, puntuacion: Nat, razon: Razon \cup {""}]

ASSUME SugerenciasAssumption ==
  /\ Lineas \subseteq Linea
  /\ \A l \in Lineas : l.asiento = "pedido" => l.puntos \in Nat
  /\ Nada \notin Razon \cup Nat \cup Posicion /\ {"", "Ubicacion recomendada"} \cap Razon = {}
  /\ MaxLineas \in Nat /\ MaxAlcance \in Nat

VARIABLES
  lineas,          \* the lines read so far
  posiciones,      \* the positions that are complete
  posicion_actual, \* the one that may still get its reason
  respuesta        \* what the endpoint answers

vars == <<lineas, posiciones, posicion_actual, respuesta>>

Init ==
  /\ lineas = <<>> /\ posiciones = <<>>
  /\ posicion_actual = Nada /\ respuesta = Nada
----------------------------------------------------------------------------
Guardadas == IF posicion_actual = Nada THEN posiciones ELSE Append(posiciones, posicion_actual)

\* Variant: the reason is looked for before the seat.
ReadLine_RazonAntes ==
  /\ respuesta = Nada /\ Len(lineas) < MaxLineas
  /\ \E l \in Lineas :
       LET con(pos) == IF l.razon # Nada /\ pos # Nada THEN [pos EXCEPT !.razon = l.razon] ELSE pos
       IN  /\ lineas' = Append(lineas, l)
           /\ IF l.asiento = "pedido"
                THEN /\ posiciones' = IF posicion_actual = Nada THEN posiciones
                                      ELSE Append(posiciones, con(posicion_actual))
                     /\ posicion_actual' = [linea |-> Len(lineas'), puntuacion |-> l.puntos,
                                            razon |-> ""]
                ELSE posiciones' = posiciones /\ posicion_actual' = con(posicion_actual)
  /\ UNCHANGED respuesta

ReadLine ==
  /\ respuesta = Nada /\ Len(lineas) < MaxLineas
  /\ \E l \in Lineas :
       LET con(pos) == IF l.razon # Nada /\ pos # Nada THEN [pos EXCEPT !.razon = l.razon] ELSE pos
       IN  /\ lineas' = Append(lineas, l)
           /\ IF l.asiento = "pedido"
                THEN /\ posiciones' = Guardadas
                     /\ posicion_actual' = con([linea |-> Len(lineas'), puntuacion |-> l.puntos,
                                                razon |-> ""])
                ELSE posiciones' = posiciones /\ posicion_actual' = con(posicion_actual)
  /\ UNCHANGED respuesta

\* list.sort with reverse=True keeps the order of those that score the same.
Delante(s, i) ==
  {j \in DOMAIN s : \/ s[j].puntuacion > s[i].puntuacion
                    \/ s[j].puntuacion = s[i].puntuacion /\ j < i}

Ordenadas(s) ==
  [k \in DOMAIN s |-> s[CHOOSE i \in DOMAIN s : Cardinality(Delante(s, i)) = k - 1]]

Primeras(s, n) == SubSeq(s, 1, IF Len(s) < n THEN Len(s) ELSE n)

\* Variant: the first five are put in order.
Mejores_CortaAntes(s) == Ordenadas(Primeras(s, 5))

Mejores(s) == Primeras(Ordenadas(s), 5)

\* The numbers of the lines with a seat written this way, in order.
ConAsiento(forma) == {n \in DOMAIN lineas : lineas[n].asiento = forma}
Enesimo(S, k) == CHOOSE n \in S : Cardinality({m \in S : m < n}) = k - 1

\* What the first of these lines that gives something gives.
Primero(S, dato, defecto) ==
  LET con == {n \in S : dato[n] # Nada}
  IN  IF con = {} THEN defecto ELSE dato[Enesimo(con, 1)]

Puntos == [n \in DOMAIN lineas |-> lineas[n].puntos]
Razones == [n \in DOMAIN lineas |-> lineas[n].razon]

\* The score and the reason of a loose seat are the first ones found around it.
Flexible(antes, despues) ==
  LET sueltos == ConAsiento("suelto")
      cerca(n) == {m \in DOMAIN lineas : m + antes >= n /\ m <= n + despues}
      de(n) == [linea |-> n, puntuacion |-> Primero(cerca(n), Puntos, 3),
                razon |-> Primero(cerca(n), Razones, "Ubicacion recomendada")]
  IN  [k \in 1..Cardinality(sueltos) |-> de(Enesimo(sueltos, k))]

\* Variant: the position still open when the lines end is forgotten.
Answer_SinLaUltima ==
  /\ respuesta = Nada /\ lineas # <<>>
  /\ \/ posiciones # <<>> /\ respuesta' = Mejores(posiciones)
     \/ /\ posiciones = <<>>
        /\ \E antes, despues \in 0..MaxAlcance : respuesta' = Mejores(Flexible(antes, despues))
  /\ UNCHANGED <<lineas, posiciones, posicion_actual>>

Answer ==
  /\ respuesta = Nada /\ lineas # <<>>
  /\ \/ Guardadas # <<>> /\ respuesta' = Mejores(Guardadas)
     \/ /\ Guardadas = <<>>
        /\ \E antes, despues \in 0..MaxAlcance : respuesta' = Mejores(Flexible(antes, despues))
  /\ UNCHANGED <<lineas, posiciones, posicion_actual>>

Answered == respuesta # Nada /\ UNCHANGED vars

Next == ReadLine \/ Answer \/ Answered

Spec == Init /\ [][Next]_vars
----------------------------------------------------------------------------
Puesta(n) == \E k \in DOMAIN respuesta : respuesta[k].linea = n
AntesEnRespuesta(n, m) ==
  \E j, k \in DOMAIN respuesta : j < k /\ respuesta[j].linea = n /\ respuesta[k].linea = m

(* Where the model kept to the form asked for, the answer has its best        *)
(* positions, best first, those that score the same as the model had them:    *)
(* whatever is shown, everything better than it is shown before it            *)
(* (puesto_trabajo.py 450-457).                                               *)
MejoresPrimero ==
  respuesta # Nada =>
    \A n, m \in ConAsiento("pedido") :
      /\ \/ lineas[n].puntos > lineas[m].puntos
         \/ lineas[n].puntos = lineas[m].puntos /\ n < m
      /\ Puesta(m)
      => AntesEnRespuesta(n, m)

(* No position is made up or repeated, each is of a line of its own, and those *)
(* written as asked for are lost to the cut at five only. Loosely written ones *)
(* count only in a text that has none as asked for (449-451): with one such    *)
(* line, all of them are dropped (puesto_trabajo.py 424-457).                  *)
TodaPosicionCuenta ==
  respuesta # Nada =>
    LET hay == IF ConAsiento("pedido") # {} THEN ConAsiento("pedido") ELSE ConAsiento("suelto")
        puestas == {respuesta[k].linea : k \in DOMAIN respuesta}
    IN  /\ puestas \subseteq hay
        /\ Cardinality(puestas) = Len(respuesta)
        /\ Len(respuesta) = IF Cardinality(hay) < 5 THEN Cardinality(hay) ELSE 5

(* A position asked for has the reason written for it and no other: the last  *)
(* one from its own line on, before the line of the next position; and its    *)
(* own score (puesto_trabajo.py 424-443).                                     *)
RazonPropia ==
  respuesta # Nada /\ ConAsiento("pedido") # {} =>
    \A k \in DOMAIN respuesta :
      LET n == respuesta[k].linea
          suyas == {m \in DOMAIN lineas :
                      /\ m >= n /\ lineas[m].razon # Nada
                      /\ ~\E q \in ConAsiento("pedido") : n < q /\ q <= m}
      IN  /\ respuesta[k].puntuacion = lineas[n].puntos
          /\ \/ suyas = {} /\ respuesta[k].razon = ""
             \/ \E m \in suyas : /\ \A q \in suyas : q <= m
                                 /\ respuesta[k].razon = lineas[m].razon
=============================================================================
