-------------------------- MODULE ExpedienteProofs --------------------------
(****************************************************************************)
(* What Expediente, the abstract specification of the request handlers,     *)
(* gives to whoever relies on it, for any estados and any flow.             *)
(****************************************************************************)
EXTENDS Expediente, SequenceTheorems, TLAPS

Valores == Estado \cup Apertura
Entradas == [sol : Nat, antiguo : Valores \cup {Nada}, nuevo : Valores]

(* The entries are numbered, and about the requests there are.                *)
Archivo ==
  /\ estados \in Seq(Valores)
  /\ DOMAIN acta \subseteq Nat
  /\ \A k \in DOMAIN acta : acta[k] \in Entradas /\ acta[k].sol \in DOMAIN estados

IInv == Archivo /\ ActaAlDia /\ ActaEncadenada

LEMMA AlAbrirElActa == Init => IInv
<1> SUFFICES ASSUME Init PROVE IInv
  OBVIOUS
<1>1. /\ estados \in Seq(Apertura) /\ DOMAIN acta = DOMAIN estados
      /\ \A k \in DOMAIN acta : acta[k] = Entrada(k, Nada, estados[k])
  BY DEF Init
<1>2. /\ Len(estados) \in Nat /\ DOMAIN estados = 1..Len(estados)
      /\ \A i \in 1..Len(estados) : estados[i] \in Apertura
  BY <1>1, LenProperties, ElementOfSeq
<1>3. Archivo
  <2>1. estados \in Seq(Valores)
    BY <1>1, <1>2, SeqDef DEF Valores
  <2>2. \A i \in 1..Len(estados) : /\ Entrada(i, Nada, estados[i]) \in Entradas
                                   /\ Entrada(i, Nada, estados[i]).sol = i
    BY <1>2 DEF Entrada, Entradas, Valores
  <2> QED BY <1>1, <1>2, <2>1, <2>2 DEF Archivo
<1>4. ActaAlDia
  BY <1>1 DEF ActaAlDia, EsUltima, Entrada
<1>5. ActaEncadenada
  BY <1>1 DEF ActaEncadenada, Entrada
<1> QED BY <1>3, <1>4, <1>5 DEF IInv

\* The entry h, about request i, is added to the record.
LEMMA AlAnotar ==
  ASSUME IInv, NEW i \in Nat, NEW a, NEW e, NEW h, h = Entrada(i, a, e),
         estados' \in Seq(Valores), Anotar(h), h \in Entradas,
         DOMAIN estados \cup {i} = DOMAIN estados', estados'[i] = e,
         \A j \in DOMAIN estados \ {i} : estados'[j] = estados[j],
         i \in DOMAIN estados => a = estados[i]
  PROVE  IInv'
<1>1. /\ DOMAIN acta \subseteq Nat
      /\ \A k \in DOMAIN acta : acta[k] \in Entradas /\ acta[k].sol \in DOMAIN estados
  BY DEF IInv, Archivo
<1>2. PICK n \in Nat :
        /\ \A k \in DOMAIN acta : k < n
        /\ DOMAIN acta' = DOMAIN acta \cup {n}
        /\ \A k \in DOMAIN acta : acta'[k] = acta[k]
        /\ acta'[n] = h
  <2>1. PICK n \in Nat :
          /\ \A k \in DOMAIN acta : k < n
          /\ acta' = [k \in DOMAIN acta \cup {n} |-> IF k = n THEN h ELSE acta[k]]
    BY DEF Anotar
  <2>2. n \notin DOMAIN acta
    BY <1>1, <2>1
  <2> QED BY <2>1, <2>2
<1>3. h.sol = i /\ h.antiguo = a /\ h.nuevo = e
  BY DEF Entrada
<1>4. Archivo'
  BY <1>1, <1>2, <1>3 DEF Archivo
<1>5. ActaAlDia'
  <2> SUFFICES ASSUME NEW j \in DOMAIN estados'
               PROVE  \E k \in DOMAIN acta' :
                        /\ acta'[k].sol = j
                        /\ \A l \in DOMAIN acta' : l > k => acta'[l].sol # acta'[k].sol
                        /\ acta'[k].nuevo = estados'[j]
    BY DEF ActaAlDia, EsUltima
  <2>1. CASE j = i
    <3>1. \A l \in DOMAIN acta' : ~(l > n)
      BY <1>1, <1>2
    <3> QED BY <1>2, <1>3, <2>1, <3>1
  <2>2. CASE j # i
    <3>1. j \in DOMAIN estados /\ estados'[j] = estados[j]
      BY <2>2
    <3>2. PICK k \in DOMAIN acta :
            /\ acta[k].sol = j /\ acta[k].nuevo = estados[j]
            /\ \A l \in DOMAIN acta : l > k => acta[l].sol # acta[k].sol
      BY <3>1 DEF IInv, ActaAlDia, EsUltima
    <3>3. k \in DOMAIN acta' /\ acta'[k] = acta[k]
      BY <1>2, <3>2
    <3>4. ASSUME NEW l \in DOMAIN acta', l > k PROVE acta'[l].sol # j
      <4>1. CASE l \in DOMAIN acta
        BY <1>2, <3>2, <3>4, <4>1
      <4>2. CASE l = n
        BY <1>2, <1>3, <2>2, <4>2
      <4> QED BY <1>2, <4>1, <4>2
    <3> QED BY <3>1, <3>2, <3>3, <3>4
  <2> QED BY <2>1, <2>2
<1>6. ActaEncadenada'
  <2> SUFFICES ASSUME NEW k \in DOMAIN acta', NEW l \in DOMAIN acta', k < l,
                      acta'[k].sol = acta'[l].sol,
                      \A m \in DOMAIN acta' : k < m /\ m < l => acta'[m].sol # acta'[k].sol
               PROVE  acta'[l].antiguo = acta'[k].nuevo
    BY DEF ActaEncadenada
  <2>1. k \in DOMAIN acta /\ acta'[k] = acta[k]
    <3>1. k # n
      BY <1>1, <1>2
    <3> QED BY <1>2, <3>1
  <2>2. \A m \in DOMAIN acta : m \in DOMAIN acta' /\ acta'[m] = acta[m]
    BY <1>2
  <2>3. CASE l \in DOMAIN acta
    <3>1. \A m \in DOMAIN acta : k < m /\ m < l => acta[m].sol # acta[k].sol
      BY <2>1, <2>2
    <3> QED BY <2>1, <2>2, <2>3, <3>1 DEF IInv, ActaEncadenada
  <2>4. CASE l = n
    <3>1. acta[k].sol = i /\ i \in DOMAIN estados
      BY <1>1, <1>2, <1>3, <2>1, <2>4
    <3>2. \A m \in DOMAIN acta : k < m => acta[m].sol # i
      BY <1>2, <2>1, <2>2, <2>4, <3>1
    <3>3. ActaAlDia
      BY DEF IInv
    <3>4. PICK u \in DOMAIN acta :
            acta[u].sol = i /\ EsUltima(u) /\ acta[u].nuevo = estados[i]
      BY <3>1, <3>3, Zenon DEF ActaAlDia
    <3>5. ~(k < u)
      BY <3>2, <3>4
    <3>6. ~(k > u)
      BY <2>1, <3>1, <3>4 DEF EsUltima
    <3>7. u = k
      BY <1>1, <2>1, <3>4, <3>5, <3>6
    <3> QED BY <1>2, <1>3, <2>1, <2>4, <3>1, <3>4, <3>7
  <2> QED BY <1>2, <2>3, <2>4
<1> QED BY <1>4, <1>5, <1>6 DEF IInv

LEMMA AlSeguirElActa == IInv /\ [Next]_<<estados, acta>> => IInv'
<1> SUFFICES ASSUME IInv, [Next]_<<estados, acta>> PROVE IInv'
  OBVIOUS
<1>1. /\ estados \in Seq(Valores) /\ Len(estados) \in Nat /\ DOMAIN estados = 1..Len(estados)
      /\ \A i \in DOMAIN estados : estados[i] \in Valores
  BY LenProperties, ElementOfSeq DEF IInv, Archivo
<1>2. ASSUME NEW e \in Apertura, Abrir(e) PROVE IInv'
  <2> DEFINE i == Len(estados) + 1
             h == Entrada(i, Nada, e)
  <2>1. e \in Valores /\ i \in Nat /\ h \in Entradas
    BY <1>1, <1>2 DEF Valores, Entrada, Entradas
  <2>2. /\ estados' \in Seq(Valores) /\ DOMAIN estados' = DOMAIN estados \cup {i}
        /\ estados'[i] = e /\ i \notin DOMAIN estados
        /\ \A j \in DOMAIN estados \ {i} : estados'[j] = estados[j]
    <3>1. estados' = Append(estados, e)
      BY <1>2 DEF Abrir
    <3>2. /\ Append(estados, e) \in Seq(Valores)
          /\ Len(Append(estados, e)) = Len(estados) + 1
          /\ Append(estados, e)[Len(estados) + 1] = e
          /\ \A j \in 1..Len(estados) : Append(estados, e)[j] = estados[j]
      BY <1>1, <2>1, AppendProperties
    <3>3. /\ estados' \in Seq(Valores) /\ Len(estados') = i /\ estados'[i] = e
          /\ \A j \in 1..Len(estados) : estados'[j] = estados[j]
      BY <3>1, <3>2
    <3>4. DOMAIN estados' = 1..i
      BY <3>3, LenProperties
    <3> QED BY <1>1, <3>3, <3>4
  <2>3. Anotar(h)
    BY <1>2 DEF Abrir
  <2> QED BY <2>1, <2>2, <2>3, AlAnotar
<1>3. ASSUME NEW i \in DOMAIN estados, NEW e \in Estado, Pasar(i, e) PROVE IInv'
  <2> DEFINE h == Entrada(i, estados[i], e)
  <2>1. e \in Valores /\ i \in Nat /\ h \in Entradas
    BY <1>1, <1>3 DEF Valores, Entrada, Entradas
  <2>2. /\ estados' \in Seq(Valores) /\ DOMAIN estados' = DOMAIN estados
        /\ estados'[i] = e
        /\ \A j \in DOMAIN estados \ {i} : estados'[j] = estados[j]
    BY <1>1, <1>3, <2>1, ExceptSeq DEF Pasar
  <2>3. Anotar(h)
    BY <1>3 DEF Pasar
  <2> QED BY <2>1, <2>2, <2>3, AlAnotar
<1>4. CASE UNCHANGED <<estados, acta>>
  BY <1>4 DEF IInv, Archivo, ActaAlDia, ActaEncadenada, EsUltima
<1> QED BY <1>2, <1>3, <1>4 DEF Next

(* The last entry about a request says the estado it has: HISTORIAL alone      *)
(* tells what SOLICITUDES holds, wherever the handlers implement Expediente.   *)
THEOREM ActaSiempreAlDia == Spec => []ActaAlDia
<1>1. IInv => ActaAlDia
  BY DEF IInv
<1> QED BY <1>1, AlAbrirElActa, AlSeguirElActa, PTL DEF Spec

(* No entry is missing between two about one request: each starts where the    *)
(* one before it ended.                                                        *)
THEOREM ActaSiempreEncadenada == Spec => []ActaEncadenada
<1>1. IInv => ActaEncadenada
  BY DEF IInv
<1> QED BY <1>1, AlAbrirElActa, AlSeguirElActa, PTL DEF Spec
=============================================================================
