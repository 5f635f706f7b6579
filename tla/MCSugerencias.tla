--------------------------- MODULE MCSugerencias ---------------------------
(****************************************************************************)
(* Values for model checking Sugerencias: enough lines for six positions    *)
(* and a reason, in any order.                                              *)
(****************************************************************************)
EXTENDS Sugerencias

De(asiento, puntos, razon) == [asiento |-> asiento, puntos |-> puntos, razon |-> razon]

MCLineas ==
  {De("pedido", 3, Nada), De("pedido", 5, "r1"), De("pedido", 5, Nada),
   De(Nada, Nada, "r2"), De("suelto", Nada, Nada), De("suelto", 4, "r1"),
   De(Nada, Nada, Nada)}
=============================================================================
