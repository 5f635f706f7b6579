---------------------------- MODULE PuestosProofs ----------------------------
(****************************************************************************)
(* What holds of Puestos for any number of calls, users and seats.          *)
(****************************************************************************)
EXTENDS Puestos, FiniteSetTheorems, TLAPS

(* Every statement of every call leaves the table and the calls well typed:   *)
(* the rows of PUESTO_DE_TRABAJO have readable coordinates and an employee    *)
(* that exists, or none (puesto_trabajo.py 36-48, 81-113).                    *)
THEOREM PuestosBienFormados == Spec => []TypeOK
<1>1. Init => TypeOK
  BY DEF Init, TypeOK, Nueva, EnCurso
<1>2. TypeOK /\ [Next]_vars => TypeOK'
  <2> SUFFICES ASSUME TypeOK, [Next]_vars PROVE TypeOK'
    OBVIOUS
  <2>1. ASSUME NEW p \in Peticion, AssignWorkstation(p) PROVE TypeOK'
    <3> DEFINE negada == [Nueva EXCEPT !.paso = "negada"]
               alta(s, e) == [Nueva EXCEPT !.paso = "alta", !.asiento = s,
                                           !.empleado = e, !.vistas = Len(puestos)]
    <3>0. puestos' = puestos /\ Len(puestos) \in Nat
      BY <2>1 DEF AssignWorkstation, TypeOK
    <3>1. \/ peticion' = [peticion EXCEPT ![p] = negada]
          \/ \E s \in Pedidos, e \in Usuario \cup {Nulo} :
               peticion' = [peticion EXCEPT ![p] = alta(s, e)]
      <4>1. PICK s \in Pedidos, e \in Usuario \cup {Nulo, 0} :
              \/ e \in Usuario \cup {Nulo} /\ peticion' = [peticion EXCEPT ![p] = alta(s, e)]
              \/ peticion' = [peticion EXCEPT ![p] = negada]
        BY <2>1, Zenon DEF AssignWorkstation, EmpleadoAdmitido
      <4> QED
        BY <4>1
    <3>2. CASE peticion' = [peticion EXCEPT ![p] = negada]
      BY <3>0, <3>2 DEF TypeOK, Nueva, EnCurso, Respuesta
    <3>3. ASSUME NEW s \in Pedidos, NEW e \in Usuario \cup {Nulo},
                 peticion' = [peticion EXCEPT ![p] = alta(s, e)]
          PROVE  TypeOK'
      BY <3>0, <3>3 DEF TypeOK, Nueva, EnCurso, Respuesta
    <3> QED
      BY <3>1, <3>2, <3>3
  <2>2. ASSUME NEW p \in Peticion, InsertWorkstation(p) PROVE TypeOK'
    <3>1. /\ peticion[p].asiento \in Rejilla
          /\ peticion[p].empleado \in Usuario \cup {Nulo}
      BY <2>2, PuestosAssumption DEF TypeOK, InsertWorkstation, EnCurso
    <3>2. encode_coordinate(peticion[p].asiento) \in Coordenadas
      BY <3>1 DEF Coordenadas
    <3>3. /\ puestos' \in Seq([coordenadas: Coordenadas, id_empleado: Usuario \cup {Nulo}])
          /\ Len(puestos) + 1 \in Nat
      BY <2>2, <3>1, <3>2 DEF TypeOK, InsertWorkstation
    <3>4. peticion' = [peticion EXCEPT ![p] =
            [peticion[p] EXCEPT !.paso = "ok", !.puesto = Len(puestos) + 1]]
      BY <2>2 DEF InsertWorkstation
    <3> DEFINE Llamada == [paso: {"nueva", "alta"} \cup Respuesta, asiento: Pedidos \cup {Nulo},
                           empleado: Usuario \cup {Nulo}, vistas: Nat, puesto: Nat]
               n == Len(puestos) + 1
               t == [peticion[p] EXCEPT !.paso = "ok", !.puesto = n]
    <3>5. peticion \in [Peticion -> Llamada] /\ "ok" \in Respuesta
      BY DEF TypeOK, Respuesta
    <3>6. t \in Llamada /\ t.paso = "ok"
      <4> HIDE DEF n
      <4>1. n \in Nat
        BY <3>3 DEF n
      <4> QED
        BY <3>5, <4>1
    <3>7. /\ peticion' \in [Peticion -> Llamada]
          /\ \A q \in Peticion \ {p} : peticion'[q] = peticion[q]
          /\ peticion'[p].paso = "ok"
      <4> HIDE DEF t, Llamada
      <4>1. peticion' = [peticion EXCEPT ![p] = t]
        BY <3>4 DEF t
      <4> QED
        BY <3>5, <3>6, <4>1
    <3>8. \A q \in Peticion : EnCurso(q)' => peticion'[q].asiento \in Pedidos
      BY <3>7 DEF TypeOK, EnCurso
    <3> QED
      BY <3>3, <3>4, <3>7, <3>8 DEF TypeOK
  <2>3. ASSUME NEW p \in Peticion, Fail(p) PROVE TypeOK'
    <3> DEFINE Llamada == [paso: {"nueva", "alta"} \cup Respuesta, asiento: Pedidos \cup {Nulo},
                           empleado: Usuario \cup {Nulo}, vistas: Nat, puesto: Nat]
               t == [peticion[p] EXCEPT !.paso = "error"]
    <3>1. /\ peticion' \in [Peticion -> Llamada]
          /\ peticion'[p].paso = "error"
          /\ \A q \in Peticion \ {p} : peticion'[q] = peticion[q]
      <4>1. peticion \in [Peticion -> Llamada] /\ "error" \in Respuesta
        BY DEF TypeOK, Respuesta
      <4>2. t \in Llamada /\ t.paso = "error"
        BY <4>1
      <4>3. peticion' = [peticion EXCEPT ![p] = t]
        BY <2>3 DEF Fail
      <4> HIDE DEF t, Llamada
      <4> QED
        BY <4>1, <4>2, <4>3
    <3>2. \A q \in Peticion : EnCurso(q)' => peticion'[q].asiento \in Pedidos
      BY <3>1 DEF TypeOK, EnCurso
    <3>3. puestos' = puestos
      BY <2>3 DEF Fail
    <3> QED
      BY <3>1, <3>2, <3>3 DEF TypeOK
  <2>4. CASE UNCHANGED vars
    BY <2>4 DEF vars, TypeOK, EnCurso
  <2> QED
    BY <2>1, <2>2, <2>3, <2>4 DEF Next, Terminated
<1> QED
  BY <1>1, <1>2, PTL DEF Spec
----------------------------------------------------------------------------
(* What a call that has read its seat as free still knows when it inserts.   *)
LecturaVigente ==
  \A p \in Peticion :
    /\ peticion[p].paso \in {"nueva", "alta"} => peticion[p].puesto = 0
    /\ EnCurso(p) =>
         /\ peticion[p].vistas <= Len(puestos)
         /\ \A i \in 1..peticion[p].vistas :
              puestos[i].coordenadas # encode_coordinate(peticion[p].asiento)

Inductiva == TypeOK /\ LecturaVigente /\ SolapeSoloEnCarrera

(* A call that only changes its own record, keeping or dropping its seat,     *)
(* before it has a row.                                                       *)
LEMMA OtroPaso ==
  ASSUME Inductiva, NEW p \in Peticion, puestos' = puestos,
         peticion[p].puesto = 0,
         \A q \in Peticion \ {p} : peticion'[q] = peticion[q]
  PROVE  SolapeSoloEnCarrera'
<1> SUFFICES ASSUME NEW i \in DOMAIN puestos, NEW j \in DOMAIN puestos,
                    i < j, puestos[i].coordenadas = puestos[j].coordenadas
             PROVE  \E q \in Peticion : peticion'[q].puesto = j /\ peticion'[q].vistas < i
  BY DEF SolapeSoloEnCarrera
<1>1. PICK q \in Peticion : peticion[q].puesto = j /\ peticion[q].vistas < i
  BY DEF Inductiva, SolapeSoloEnCarrera
<1>2. q # p
  BY <1>1 DEF Inductiva, TypeOK
<1> QED
  BY <1>1, <1>2

(* Nothing a step of another call does takes that away.                       *)
LEMMA PuestosInductiva == Spec => []Inductiva
<1>1. Init => Inductiva
  BY DEF Init, Inductiva, TypeOK, LecturaVigente, SolapeSoloEnCarrera, Nueva,
         EnCurso
<1>2. Inductiva /\ TypeOK' /\ [Next]_vars => Inductiva'
  <2> SUFFICES ASSUME Inductiva, TypeOK', [Next]_vars
               PROVE  LecturaVigente' /\ SolapeSoloEnCarrera'
    BY DEF Inductiva
  <2> USE DEF EnCurso
  <2>1. ASSUME NEW p \in Peticion, AssignWorkstation(p)
        PROVE  LecturaVigente' /\ SolapeSoloEnCarrera'
    <3>1. /\ puestos' = puestos
          /\ peticion[p].puesto = 0
          /\ \A q \in Peticion \ {p} : peticion'[q] = peticion[q]
      BY <2>1 DEF AssignWorkstation, Inductiva, LecturaVigente, TypeOK
    <3>2. /\ peticion'[p].puesto = 0
          /\ peticion'[p].paso = "alta" =>
               /\ peticion'[p].vistas = Len(puestos)
               /\ ~Ocupada(peticion'[p].asiento)
      BY <2>1 DEF AssignWorkstation, Inductiva, TypeOK, Nueva
    <3>3. Len(puestos) \in Nat /\ DOMAIN puestos = 1..Len(puestos)
      BY DEF Inductiva, TypeOK
    <3>4. LecturaVigente'
      BY <3>1, <3>2, <3>3 DEF LecturaVigente, Inductiva, Ocupada
    <3> QED
      BY <3>1, <3>4, OtroPaso
  <2>2. ASSUME NEW p \in Peticion, InsertWorkstation(p)
        PROVE  LecturaVigente' /\ SolapeSoloEnCarrera'
    <3> DEFINE n == Len(puestos) + 1
    <3>1. /\ Len(puestos) \in Nat /\ DOMAIN puestos = 1..Len(puestos)
          /\ Len(puestos') = n /\ DOMAIN puestos' = 1..n
          /\ \A i \in 1..Len(puestos) : puestos'[i] = puestos[i]
          /\ puestos'[n].coordenadas = encode_coordinate(peticion[p].asiento)
      BY <2>2 DEF InsertWorkstation, Inductiva, TypeOK
    <3>2. /\ peticion[p].puesto = 0 /\ peticion[p].paso = "alta"
          /\ peticion'[p].paso = "ok" /\ peticion'[p].puesto = n
          /\ peticion'[p].vistas = peticion[p].vistas
          /\ \A q \in Peticion \ {p} : peticion'[q] = peticion[q]
      BY <2>2 DEF InsertWorkstation, Inductiva, LecturaVigente, TypeOK
    <3>3. LecturaVigente'
      <4> SUFFICES ASSUME NEW q \in Peticion
                   PROVE  /\ peticion'[q].paso \in {"nueva", "alta"} => peticion'[q].puesto = 0
                          /\ peticion'[q].paso = "alta" =>
                               /\ peticion'[q].vistas <= Len(puestos')
                               /\ \A i \in 1..peticion'[q].vistas :
                                    puestos'[i].coordenadas
                                      # encode_coordinate(peticion'[q].asiento)
        BY DEF LecturaVigente
      <4>1. CASE q = p
        BY <4>1, <3>2
      <4>2. CASE q # p
        <5>1. peticion'[q] = peticion[q] /\ peticion[q].vistas \in Nat
          BY <4>2, <3>2 DEF Inductiva, TypeOK
        <5> QED
          BY <5>1, <3>1 DEF LecturaVigente, Inductiva
      <4> QED
        BY <4>1, <4>2
    <3>4. SolapeSoloEnCarrera'
      <4> SUFFICES ASSUME NEW i \in 1..n, NEW j \in 1..n, i < j,
                          puestos'[i].coordenadas = puestos'[j].coordenadas
                   PROVE  \E q \in Peticion : peticion'[q].puesto = j /\ peticion'[q].vistas < i
        BY <3>1 DEF SolapeSoloEnCarrera
      <4>1. CASE j = n
        <5>1. i \in 1..Len(puestos) /\ puestos[i].coordenadas = encode_coordinate(peticion[p].asiento)
          BY <4>1, <3>1
        <5>2. peticion[p].vistas \in Nat /\ ~(i <= peticion[p].vistas)
          BY <5>1, <3>2 DEF Inductiva, LecturaVigente, TypeOK
        <5> QED
          BY <5>1, <5>2, <4>1, <3>2
      <4>2. CASE j # n
        <5>1. /\ i \in DOMAIN puestos /\ j \in DOMAIN puestos
              /\ puestos[i].coordenadas = puestos[j].coordenadas
          BY <4>2, <3>1
        <5>2. PICK q \in Peticion : peticion[q].puesto = j /\ peticion[q].vistas < i
          BY <5>1 DEF Inductiva, SolapeSoloEnCarrera
        <5>3. q # p
          BY <5>2, <3>2, <5>1, <3>1
        <5> QED
          BY <5>2, <5>3, <3>2
      <4> QED
        BY <4>1, <4>2
    <3> QED
      BY <3>3, <3>4
  <2>3. ASSUME NEW p \in Peticion, Fail(p)
        PROVE  LecturaVigente' /\ SolapeSoloEnCarrera'
    <3>1. /\ puestos' = puestos
          /\ peticion[p].puesto = 0
          /\ peticion'[p].paso = "error"
          /\ \A q \in Peticion \ {p} : peticion'[q] = peticion[q]
      BY <2>3 DEF Fail, Inductiva, LecturaVigente, TypeOK
    <3>2. LecturaVigente'
      BY <3>1 DEF LecturaVigente, Inductiva
    <3> QED
      BY <3>1, <3>2, OtroPaso
  <2>4. CASE UNCHANGED vars
    BY <2>4 DEF vars, Inductiva, LecturaVigente, SolapeSoloEnCarrera
  <2> QED
    BY <2>1, <2>2, <2>3, <2>4 DEF Next, Terminated
<1> QED
  BY <1>1, <1>2, PuestosBienFormados, PTL DEF Spec

(* Two rows have the same coordinates only if the call of the second one read *)
(* the table before the first one was in it (puesto_trabajo.py 51-62, 95-113).*)
THEOREM SolapeSoloSiHuboCarrera == Spec => []SolapeSoloEnCarrera
<1>1. Inductiva => SolapeSoloEnCarrera
  BY DEF Inductiva
<1> QED
  BY <1>1, PuestosInductiva, PTL
----------------------------------------------------------------------------
\* One call at a time: what it has read is still all there is.
SinOtras ==
  \A p \in Peticion :
    EnCurso(p) => /\ peticion[p].vistas = Len(puestos)
                  /\ \A q \in Peticion : EnCurso(q) => q = p

(* Were the calls served one at a time, no seat would be given twice, which   *)
(* is what the 409 of _ensure_coordinate_available is for                     *)
(* (puesto_trabajo.py 51-62).                                                 *)
THEOREM EnSerieSinSolape ==
  ASSUME MaxSimultaneas = 1, IsFiniteSet(Peticion)
  PROVE  Spec => []SinSolape
<1> USE DEF EnCurso
<1>1. Init => SinOtras /\ SinSolape
  BY DEF Init, SinOtras, SinSolape, Nueva
<1>2. SinOtras /\ SinSolape /\ Inductiva /\ [Next]_vars => SinOtras' /\ SinSolape'
  <2> SUFFICES ASSUME SinOtras, SinSolape, Inductiva, [Next]_vars
               PROVE  SinOtras' /\ SinSolape'
    OBVIOUS
  <2>0. /\ Len(puestos) \in Nat /\ DOMAIN puestos = 1..Len(puestos)
        /\ peticion = [q \in Peticion |-> peticion[q]]
    BY DEF Inductiva, TypeOK
  <2>1. ASSUME NEW p \in Peticion, AssignWorkstation(p) PROVE SinOtras' /\ SinSolape'
    <3>1. \A q \in Peticion : peticion[q].paso # "alta"
      <4> DEFINE S == {q \in Peticion : EnCurso(q)}
      <4>1. IsFiniteSet(S)
        BY FS_Subset
      <4>2. Cardinality(S) \in Nat /\ Cardinality(S) < 1
        BY <4>1, <2>1, FS_CardinalityType DEF AssignWorkstation
      <4>3. S = {}
        BY <4>1, <4>2, FS_EmptySet
      <4> QED
        BY <4>3
    <3>2. /\ puestos' = puestos
          /\ \A q \in Peticion \ {p} : peticion'[q] = peticion[q]
          /\ peticion'[p].paso = "alta" => peticion'[p].vistas = Len(puestos)
      BY <2>1, <2>0 DEF AssignWorkstation, Nueva
    <3> QED
      BY <3>1, <3>2 DEF SinOtras, SinSolape
  <2>2. ASSUME NEW p \in Peticion, InsertWorkstation(p) PROVE SinOtras' /\ SinSolape'
    <3> DEFINE n == Len(puestos) + 1
    <3>1. /\ DOMAIN puestos' = 1..n
          /\ \A i \in 1..Len(puestos) : puestos'[i] = puestos[i]
          /\ puestos'[n].coordenadas = encode_coordinate(peticion[p].asiento)
      BY <2>2 DEF InsertWorkstation, Inductiva, TypeOK
    <3>2. \A q \in Peticion : peticion'[q].paso # "alta"
      BY <2>2, <2>0 DEF InsertWorkstation, SinOtras
    <3>3. peticion[p].vistas = Len(puestos) /\ EnCurso(p)
      BY <2>2 DEF InsertWorkstation, SinOtras
    <3>4. \A i \in 1..Len(puestos) : puestos'[i].coordenadas # puestos'[n].coordenadas
      BY <3>1, <3>3 DEF Inductiva, LecturaVigente
    <3>5. SinSolape'
      BY <2>0, <3>1, <3>4 DEF SinSolape
    <3> QED
      BY <3>2, <3>5 DEF SinOtras
  <2>3. ASSUME NEW p \in Peticion, Fail(p) PROVE SinOtras' /\ SinSolape'
    <3>1. /\ puestos' = puestos /\ peticion'[p].paso = "error"
          /\ \A q \in Peticion \ {p} : peticion'[q] = peticion[q]
      BY <2>3 DEF Fail, Inductiva, TypeOK
    <3> QED
      BY <3>1 DEF SinOtras, SinSolape
  <2>4. CASE UNCHANGED vars
    BY <2>4 DEF vars, SinOtras, SinSolape
  <2> QED
    BY <2>1, <2>2, <2>3, <2>4 DEF Next, Terminated
<1> QED
  BY <1>1, <1>2, PuestosInductiva, PTL DEF Spec
----------------------------------------------------------------------------
(* A seat that was given can be read back: encode_coordinate writes what      *)
(* decode_coordinate reads (puesto_trabajo.py 21-48), so that no row is       *)
(* skipped for its text.                                                      *)
LEMMA FilasLegibles ==
  ASSUME NEW s \in Rejilla
  PROVE  decode_coordinate(encode_coordinate(s)) = s
<1>1. \A n \in 1..20 : Leible(DosCifras(n)) /\ Numero(DosCifras(n)) = n
  BY DEF Leible, DosCifras, Numero
<1>2. /\ s = <<s[1], s[2], s[3]>>
      /\ s[1] \in 1..2 /\ s[2] \in 1..20 /\ s[3] \in 1..20
  BY DEF Rejilla
<1> QED
  BY <1>1, <1>2 DEF decode_coordinate, encode_coordinate
----------------------------------------------------------------------------
\* What was answered ok is what the table has, and a seat that a row takes shows
\* some row on the map: the last of them.
Contestada(t) ==
  t.paso = "ok" => /\ t.asiento \in Rejilla /\ t.puesto \in DOMAIN puestos
                   /\ puestos[t.puesto].coordenadas = encode_coordinate(t.asiento)
                   /\ puestos[t.puesto].id_empleado = t.empleado

Visible(k) == Mapa(AsientoDe(k)) # {}

Contestadas == \A p \in Peticion : Contestada(peticion[p])
Visibles    == \A k \in DOMAIN puestos : Visible(k)

\* The coordinates of a row are those of the seat it reads as.
LEMMA UnaEscritura ==
  ASSUME TypeOK, NEW k \in DOMAIN puestos
  PROVE  /\ AsientoDe(k) \in Rejilla
         /\ puestos[k].coordenadas = encode_coordinate(AsientoDe(k))
<1> DEFINE FilaDePuesto == [coordenadas: Coordenadas, id_empleado: Usuario \cup {Nulo}]
<1>1. puestos \in Seq(FilaDePuesto)
  BY DEF TypeOK
<1>2. \A r \in FilaDePuesto : r.coordenadas \in Coordenadas
  OBVIOUS
<1> HIDE DEF FilaDePuesto
<1>3. puestos[k] \in FilaDePuesto
  BY <1>1
<1>4. PICK s \in Rejilla : puestos[k].coordenadas = encode_coordinate(s)
  BY <1>2, <1>3 DEF Coordenadas
<1>5. AsientoDe(k) = s
  BY <1>4, FilasLegibles DEF AsientoDe
<1> QED BY <1>4, <1>5

LEMMA SiempreALaVista == Spec => [](Contestadas /\ Visibles)
<1>1. Init => Contestadas /\ Visibles
  BY DEF Init, Contestadas, Contestada, Visibles, Nueva
<1>2. TypeOK /\ TypeOK' /\ Contestadas /\ Visibles /\ [Next]_vars => Contestadas' /\ Visibles'
  <2> SUFFICES ASSUME TypeOK, TypeOK', Contestadas, Visibles, [Next]_vars
               PROVE  Contestadas' /\ Visibles'
    OBVIOUS
  <2>1. ASSUME puestos' = puestos PROVE Visibles'
    BY <2>1 DEF Visibles, Visible, Mapa, AsientoDe
  <2>2. ASSUME NEW p \in Peticion, puestos' = puestos, peticion'[p].paso # "ok",
               \A q \in Peticion \ {p} : peticion'[q] = peticion[q]
        PROVE  Contestadas'
    BY <2>2 DEF Contestadas, Contestada
  <2>3. ASSUME NEW p \in Peticion, AssignWorkstation(p) PROVE Contestadas' /\ Visibles'
    <3>1. /\ puestos' = puestos /\ peticion'[p].paso # "ok"
          /\ \A q \in Peticion \ {p} : peticion'[q] = peticion[q]
      BY <2>3 DEF AssignWorkstation, TypeOK, Nueva
    <3> QED BY <2>1, <2>2, <3>1
  <2>4. ASSUME NEW p \in Peticion, Fail(p) PROVE Contestadas' /\ Visibles'
    <3>1. /\ puestos' = puestos /\ peticion'[p].paso # "ok"
          /\ \A q \in Peticion \ {p} : peticion'[q] = peticion[q]
      BY <2>4 DEF Fail, TypeOK
    <3> QED BY <2>1, <2>2, <3>1
  <2>5. ASSUME NEW p \in Peticion, InsertWorkstation(p) PROVE Contestadas' /\ Visibles'
    <3>1. PICK n, s, e : n = Len(puestos) + 1 /\ s = peticion[p].asiento /\ e = peticion[p].empleado
      OBVIOUS
    <3>2. /\ DOMAIN puestos = 1..Len(puestos) /\ Len(puestos) \in Nat /\ s \in Rejilla
          /\ DOMAIN puestos' = 1..n
          /\ \A k \in 1..Len(puestos) : puestos'[k] = puestos[k]
          /\ puestos'[n].coordenadas = encode_coordinate(s) /\ puestos'[n].id_empleado = e
      BY <2>5, <3>1, PuestosAssumption DEF InsertWorkstation, TypeOK, EnCurso
    <3>3. /\ \A q \in Peticion \ {p} : peticion'[q] = peticion[q]
          /\ peticion'[p].asiento = s /\ peticion'[p].empleado = e /\ peticion'[p].puesto = n
      BY <2>5, <3>1 DEF InsertWorkstation, TypeOK
    <3>4. Contestadas'
      <4>1. ASSUME NEW q \in Peticion \ {p} PROVE Contestada(peticion[q])'
        BY <3>1, <3>2, <3>3 DEF Contestadas, Contestada
      <4>2. Contestada(peticion[p])'
        BY <3>1, <3>2, <3>3 DEF Contestada
      <4> QED BY <4>1, <4>2 DEF Contestadas
    <3>5. /\ \A k \in 1..Len(puestos) : AsientoDe(k)' = AsientoDe(k)
          /\ AsientoDe(n)' = s
      BY <3>2, FilasLegibles DEF AsientoDe
    <3>6. ASSUME NEW k \in 1..n PROVE Visible(k)'
      <4>1. CASE AsientoDe(k)' = s
        <5>1. n \in {j \in DOMAIN puestos' : AsientoDe(j)' = s}
              /\ \A j \in DOMAIN puestos' : j <= n
          BY <3>1, <3>2, <3>5
        <5>2. n \in Mapa(AsientoDe(k))'
          BY <4>1, <5>1 DEF Mapa
        <5> QED BY <5>2 DEF Visible
      <4>2. CASE AsientoDe(k)' # s
        <5>1. k \in 1..Len(puestos) /\ AsientoDe(k)' = AsientoDe(k)
          BY <3>1, <3>2, <3>5, <4>2
        <5>2. {j \in DOMAIN puestos' : AsientoDe(j)' = AsientoDe(k)}
                = {j \in DOMAIN puestos : AsientoDe(j) = AsientoDe(k)}
          BY <3>1, <3>2, <3>5, <4>2, <5>1
        <5>3. Mapa(AsientoDe(k))' = Mapa(AsientoDe(k))
          BY <5>1, <5>2 DEF Mapa
        <5> QED BY <3>2, <5>1, <5>3 DEF Visible, Visibles
      <4> QED BY <4>1, <4>2
    <3> QED BY <3>2, <3>4, <3>6 DEF Visibles
  <2>6. CASE UNCHANGED vars
    BY <2>1, <2>6 DEF vars, Contestadas, Contestada
  <2> QED BY <2>3, <2>4, <2>5, <2>6 DEF Next, Terminated
<1> QED BY <1>1, <1>2, PuestosBienFormados, PTL DEF Spec

(* Whoever was answered ok finds the seat taken on the map, by the row of that*)
(* call or by a later row of a call that raced it, and among the occupied     *)
(* workstations if the employee has a job title, however many calls came and  *)
(* overlapped meanwhile (puesto_trabajo.py 21-33, 146-158, 191-211).          *)
THEOREM RespuestaSiempreALaVista == Spec => []RespuestaALaVista
<1>1. TypeOK /\ SolapeSoloEnCarrera /\ Contestadas /\ Visibles => RespuestaALaVista
  <2> SUFFICES ASSUME TypeOK, SolapeSoloEnCarrera, Contestadas, Visibles,
                      NEW p \in Peticion, peticion[p].paso = "ok"
               PROVE  LET t == peticion[p]
                      IN  /\ \E k \in Mapa(t.asiento) :
                               \/ k = t.puesto
                               \/ \E q \in Peticion : peticion[q].puesto = k
                                                      /\ peticion[q].vistas < t.puesto
                          /\ puestos[t.puesto].id_empleado = t.empleado
                          /\ t.empleado # Nulo /\ CargoDe[t.empleado] \in Cargo =>
                               t.puesto \in Ocupadas
    BY DEF RespuestaALaVista
  <2>1. PICK n, s, e : /\ n = peticion[p].puesto /\ s = peticion[p].asiento
                       /\ e = peticion[p].empleado
    OBVIOUS
  <2>2. /\ s \in Rejilla /\ n \in DOMAIN puestos /\ DOMAIN puestos = 1..Len(puestos)
        /\ Len(puestos) \in Nat
        /\ puestos[n].coordenadas = encode_coordinate(s) /\ puestos[n].id_empleado = e
    BY <2>1 DEF Contestadas, Contestada, TypeOK
  <2>3. AsientoDe(n) = s
    BY <2>2, FilasLegibles DEF AsientoDe
  <2>4. PICK k \in Mapa(s) : TRUE
    BY <2>2, <2>3 DEF Visibles, Visible
  <2>5. k \in DOMAIN puestos /\ AsientoDe(k) = s /\ n <= k
    BY <2>2, <2>3, <2>4 DEF Mapa
  <2>6. k = n \/ \E q \in Peticion : peticion[q].puesto = k /\ peticion[q].vistas < n
    <3>1. puestos[k].coordenadas = puestos[n].coordenadas
      BY <2>2, <2>5, UnaEscritura
    <3>2. k = n \/ n < k
      BY <2>2, <2>5
    <3> QED BY <2>2, <2>5, <3>1, <3>2 DEF SolapeSoloEnCarrera
  <2>7. e # Nulo /\ CargoDe[e] \in Cargo => n \in Ocupadas
    BY <2>2, <2>3, PuestosAssumption, CargoAssumption DEF Ocupadas
  <2> QED BY <2>1, <2>2, <2>4, <2>6, <2>7
<1> QED
  BY <1>1, PuestosBienFormados, SolapeSoloSiHuboCarrera, SiempreALaVista, PTL
=============================================================================
