----------------------------- MODULE Expediente -----------------------------
(****************************************************************************)
(* What the request handlers promise to somebody who reads SOLICITUDES and  *)
(* HISTORIAL: the estado of a request changes along Flujo, and a change and *)
(* its entry in the record (acta) are one and the same step.                *)
(****************************************************************************)
EXTENDS Naturals, Sequences

CONSTANTS
  Estado,   \* the estados of a request
  Apertura, \* those a request may be opened in
  Nada,     \* the "estado before" of an opening
  Flujo     \* the changes of estado that may happen

VARIABLES
  estados,  \* the estado of each request
  acta      \* the entries, each at its number, which grows

Entrada(i, antes, despues) == [sol |-> i, antiguo |-> antes, nuevo |-> despues]

Init ==
  /\ estados \in Seq(Apertura)
  /\ acta = [i \in DOMAIN estados |-> Entrada(i, Nada, estados[i])]

\* The entry gets a number above those there are: not always the next one, for
\* HISTORIAL numbers other rows too.
Anotar(entrada) ==
  \E n \in DOMAIN acta' \cap Nat :
    /\ \A k \in DOMAIN acta : k < n
    /\ acta' = [k \in DOMAIN acta \cup {n} |-> IF k = n THEN entrada ELSE acta[k]]

Abrir(e) ==
  /\ estados' = Append(estados, e)
  /\ Anotar(Entrada(Len(estados) + 1, Nada, e))

Pasar(i, e) ==
  /\ <<estados[i], e>> \in Flujo
  /\ estados' = [estados EXCEPT ![i] = e]
  /\ Anotar(Entrada(i, estados[i], e))

Next ==
  \/ \E e \in Apertura : Abrir(e)
  \/ \E i \in DOMAIN estados, e \in Estado : Pasar(i, e)

Spec == Init /\ [][Next]_<<estados, acta>>

----------------------------------------------------------------------------
\* Entry k is the last one about its request.
EsUltima(k) == \A l \in DOMAIN acta : l > k => acta[l].sol # acta[k].sol

(* The last entry about a request says the estado it has, and every request   *)
(* has one: HISTORIAL alone tells what SOLICITUDES holds.                     *)
ActaAlDia ==
  \A i \in DOMAIN estados :
    \E k \in DOMAIN acta : /\ acta[k].sol = i
                           /\ EsUltima(k)
                           /\ acta[k].nuevo = estados[i]

(* Each entry starts where the entry before it about the same request ended.  *)
ActaEncadenada ==
  \A k, l \in DOMAIN acta :
    /\ k < l
    /\ acta[k].sol = acta[l].sol
    /\ \A m \in DOMAIN acta : k < m /\ m < l => acta[m].sol # acta[k].sol
    => acta[l].antiguo = acta[k].nuevo
=============================================================================
