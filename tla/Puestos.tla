------------------------------- MODULE Puestos -------------------------------
(****************************************************************************)
(* Workstations: POST /v1/puesto-trabajo/asignar and the views /mapa and    *)
(* /ocupadas (api/v1/puesto_trabajo.py) on the table PUESTO_DE_TRABAJO,     *)
(* whose rows nothing ever updates or deletes.  It has no unique index:     *)
(* that a seat is free is read in one statement and used in another.  POST  *)
(* /sugerencia only reads it; how it parses the text of the model is        *)
(* Sugerencias.                                                             *)
(*                                                                          *)
(* A coordinate is the text P1-F05-C10: its floor and the digits of its row *)
(* and of its column, <<1, <<0, 5>>, <<1, 0>>>>.  The seat it names is      *)
(* <<1, 5, 10>>.                                                            *)
(****************************************************************************)
EXTENDS Jerarquia, Sequences, FiniteSets

CONSTANTS
  Peticion,       \* the POST /asignar of a behaviour, each used once
  Usuario,        \* USUARIO.id
  CargoDe,        \* USUARIO.cargo
  Pedidos,        \* the seats asked for
  MaxSimultaneas, \* bound: calls in flight at the same time
  ConFallos       \* may a D1 call raise, or the worker be evicted?

Rejilla == (1..2) \X (1..20) \X (1..20)

ASSUME PuestosAssumption ==
  /\ CargoDe \in [Usuario -> Cargo \cup {Nulo}]
  /\ Nulo \notin Usuario \cup Rejilla
  /\ Pedidos \subseteq Rejilla
  /\ MaxSimultaneas \in Nat
  /\ ConFallos \in BOOLEAN

VARIABLES
  puestos,   \* PUESTO_DE_TRABAJO: row i has the autonumbered id i
  peticion   \* what each call knows and has to do

vars == <<puestos, peticion>>

\* f"{n:02d}"
DosCifras(n) == <<n \div 10, n % 10>>

encode_coordinate(s) == <<s[1], DosCifras(s[2]), DosCifras(s[3])>>

\* Variant: the expression forgets the 20 at the end.
Leible_SinVeinte(c) ==
  \/ Len(c) = 1 /\ c[1] \in 1..9
  \/ Len(c) = 2 /\ c[1] = 0 /\ c[2] \in 1..9
  \/ Len(c) = 2 /\ c[1] = 1 /\ c[2] \in 0..9

\* 0?[1-9]|1\d|20
Leible(c) ==
  \/ Len(c) = 1 /\ c[1] \in 1..9
  \/ Len(c) = 2 /\ c[1] = 0 /\ c[2] \in 1..9
  \/ Len(c) = 2 /\ c[1] = 1 /\ c[2] \in 0..9
  \/ c = <<2, 0>>

Numero(c) == IF Len(c) = 1 THEN c[1] ELSE 10 * c[1] + c[2]

\* Nulo stands for the ValueError; whoever decodes a row skips it.
decode_coordinate(c) ==
  IF c[1] \in 1..2 /\ Leible(c[2]) /\ Leible(c[3])
    THEN <<c[1], Numero(c[2]), Numero(c[3])>>
    ELSE Nulo

Respuesta == {"ok", "negada", "error"}

Nueva == [paso     |-> "nueva",
          asiento  |-> Nulo,   \* the body
          empleado |-> Nulo,
          vistas   |-> 0,      \* the rows there were when it read the seat as free
          puesto   |-> 0]      \* the row it has inserted

EnCurso(p) == peticion[p].paso = "alta"

Init ==
  /\ puestos = <<>>
  /\ peticion = [p \in Peticion |-> Nueva]
----------------------------------------------------------------------------
\* Variant: the foreign key is left to find out.
EmpleadoAdmitido_SinComprobar(e) == TRUE

\* _ensure_employee_exists: no employee at all is as good.
EmpleadoAdmitido(e) == e \in Usuario \cup {Nulo}

\* Variant: the text is put together without the zeros.
Ocupada_SinCeros(s) ==
  \E k \in DOMAIN puestos : puestos[k].coordenadas = <<s[1], <<s[2]>>, <<s[3]>>>>

\* _ensure_coordinate_available
Ocupada(s) == \E k \in DOMAIN puestos : puestos[k].coordenadas = encode_coordinate(s)

AssignWorkstation(p) ==
  /\ peticion[p].paso = "nueva"
  /\ Cardinality({q \in Peticion : EnCurso(q)}) < MaxSimultaneas
  /\ \E quien \in Usuario, s \in Pedidos, e \in Usuario \cup {Nulo, 0} :
       LET admitida == /\ require_permission("puestos_asignar", CargoDe[quien])
                       /\ EmpleadoAdmitido(e)
                       /\ ~Ocupada(s)
       IN  peticion' = [peticion EXCEPT ![p] =
             IF admitida
               THEN [Nueva EXCEPT !.paso = "alta", !.asiento = s, !.empleado = e,
                                  !.vistas = Len(puestos)]
               ELSE [Nueva EXCEPT !.paso = "negada"]]
  /\ UNCHANGED puestos

InsertWorkstation(p) ==
  LET t == peticion[p]
  IN  /\ t.paso = "alta"
      /\ puestos' = Append(puestos, [coordenadas |-> encode_coordinate(t.asiento),
                                     id_empleado |-> t.empleado])
      /\ peticion' = [peticion EXCEPT ![p] =
           [t EXCEPT !.paso = "ok", !.puesto = Len(puestos) + 1]]

Fail(p) ==
  /\ ConFallos
  /\ EnCurso(p)
  /\ peticion' = [peticion EXCEPT ![p].paso = "error"]
  /\ UNCHANGED puestos

----------------------------------------------------------------------------
(* The views, of the table as it is.                                        *)

AsientoDe(k) == decode_coordinate(puestos[k].coordenadas)

\* /mapa: the row that shows at a seat is the last one of those that have it.
Mapa(s) ==
  LET filas == {k \in DOMAIN puestos : AsientoDe(k) = s}
  IN  {k \in filas : \A j \in filas : j <= k}

\* /ocupadas, and what /sugerencia tells the model: the rows whose employee
\* has a job title.
Ocupadas ==
  {k \in DOMAIN puestos : /\ puestos[k].id_empleado # Nulo
                          /\ CargoDe[puestos[k].id_empleado] # Nulo
                          /\ AsientoDe(k) # Nulo}
----------------------------------------------------------------------------
Terminated ==
  /\ \A p \in Peticion : peticion[p].paso \in Respuesta
  /\ UNCHANGED vars

Next ==
  \/ \E p \in Peticion : AssignWorkstation(p) \/ InsertWorkstation(p) \/ Fail(p)
  \/ Terminated

Spec == Init /\ [][Next]_vars
----------------------------------------------------------------------------
Coordenadas == {encode_coordinate(s) : s \in Rejilla}

\* The type invariant.
TypeOK ==
  /\ puestos \in Seq([coordenadas: Coordenadas, id_empleado: Usuario \cup {Nulo}])
  /\ peticion \in [Peticion ->
       [paso: {"nueva", "alta"} \cup Respuesta, asiento: Pedidos \cup {Nulo},
        empleado: Usuario \cup {Nulo}, vistas: Nat, puesto: Nat]]
  /\ \A p \in Peticion : EnCurso(p) => peticion[p].asiento \in Pedidos

(* Two employees get the same seat only if their calls overlapped: the        *)
(* second one had read the seat as free before the first one's row was there *)
(* (puesto_trabajo.py 93-113: the check and the INSERT are two statements).   *)
SolapeSoloEnCarrera ==
  \A i, j \in DOMAIN puestos :
    i < j /\ puestos[i].coordenadas = puestos[j].coordenadas =>
      \E p \in Peticion : peticion[p].puesto = j /\ peticion[p].vistas < i

(* Who was answered ok can be seen: the map shows the seat that was asked     *)
(* for taken, by the row of that call unless another call took the seat in a *)
(* race, and the list of occupied workstations has it under its employee if   *)
(* the employee has a job title (puesto_trabajo.py 21-33, 146-158, 191-211).  *)
RespuestaALaVista ==
  \A p \in Peticion :
    LET t == peticion[p]
    IN  t.paso = "ok" =>
          /\ \E k \in Mapa(t.asiento) :
               \/ k = t.puesto
               \/ \E q \in Peticion : peticion[q].puesto = k /\ peticion[q].vistas < t.puesto
          /\ puestos[t.puesto].id_empleado = t.empleado
          /\ t.empleado # Nulo /\ CargoDe[t.empleado] \in Cargo => t.puesto \in Ocupadas

(* One row per seat.                                                         *)
SinSolape ==
  \A i, j \in DOMAIN puestos :
    puestos[i].coordenadas = puestos[j].coordenadas => i = j
=============================================================================
