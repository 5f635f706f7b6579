------------------------------- MODULE Cronica -------------------------------
(****************************************************************************)
(* The request handlers with a clock: SOLICITUDES.fecha_creacion and        *)
(* HISTORIAL.fecha_cambio are datetime('now') in the very statement that    *)
(* inserts the row, and nothing updates them.  D1 and the workers share one *)
(* clock, in UTC; a tick is what datetime('now') tells apart, so several    *)
(* statements may fall on the same one.                                     *)
(****************************************************************************)
EXTENDS Solicitudes

CONSTANTS
  MaxReloj,  \* bound: the last instant
  TicsPorDia \* instants in a calendar day

ASSUME CronicaAssumption ==
  /\ MaxReloj \in Nat /\ TicsPorDia \in Nat \ {0}
  /\ Nulo \notin Nat

VARIABLES
  reloj,   \* the present instant
  creadas, \* SOLICITUDES.fecha_creacion, of each row
  fechas   \* HISTORIAL.fecha_cambio, of each row

cronica == <<vars, reloj, creadas, fechas>>

Dia(t) == t \div TicsPorDia

CronicaInit ==
  /\ Init
  /\ reloj = 0
  /\ creadas = [i \in DOMAIN solicitudes |-> 0]
  /\ fechas = [k \in DOMAIN historial |-> 0]

\* The rows a statement has added to a table of n rows are dated now.
Fechadas(antes, n) == antes \o [k \in 1..(n - Len(antes)) |-> reloj]

Dating ==
  /\ creadas' = Fechadas(creadas, Len(solicitudes'))
  /\ fechas' = Fechadas(fechas, Len(historial'))
  /\ UNCHANGED reloj

Statement(p) == (Arrive(p) \/ Continue(p) \/ Fail(p)) /\ Dating

Tick ==
  /\ reloj < MaxReloj
  /\ reloj' = reloj + 1
  /\ UNCHANGED <<vars, creadas, fechas>>

CronicaTypeOK ==
  /\ reloj \in 0..MaxReloj
  /\ creadas \in Seq(0..reloj) /\ Len(creadas) = Len(solicitudes)
  /\ fechas \in Seq(0..reloj) /\ Len(fechas) = Len(historial)
=============================================================================
