------------------------------ MODULE MCPuestos ------------------------------
(****************************************************************************)
(* Values for model checking Puestos: seats at the corners of what the      *)
(* expression of decode_coordinate tells apart; user 1 may assign, user 2   *)
(* has no job title.                                                        *)
(****************************************************************************)
EXTENDS Puestos, TLC

MCTexto == {"", "Gerencia"}
MCIdentidad == [t \in MCTexto |-> t]
MCCargo == {4, 48}
MCJefe == 4 :> 48 @@ 48 :> Nulo
MCNombre == [c \in MCCargo |-> "Gerencia"]
MCUsuario == {1, 2, 3}
MCCargoDe == 1 :> 4 @@ 2 :> Nulo @@ 3 :> 48
MCPedidos == {<<1, 9, 10>>, <<2, 20, 1>>, <<2, 19, 20>>}

Simetria == Permutations(Peticion)
=============================================================================
