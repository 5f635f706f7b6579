------------------------------ MODULE MCCuentas ------------------------------
(****************************************************************************)
(* Values for model checking Cuentas: two addresses, a job title with a     *)
(* role of its own, none, and one JERARQUIA does not have.                  *)
(****************************************************************************)
EXTENDS Cuentas, TLC

MCTexto == {"", "Gerencia"}
MCIdentidad == [t \in MCTexto |-> t]
MCCargo == {8, 48}
MCJefe == 8 :> 48 @@ 48 :> Nulo
MCNombre == [c \in MCCargo |-> "Gerencia"]
MCCargoPedido == {48, 99, Nulo}

Simetria == Permutations(Peticion) \cup Permutations(Correo) \cup Permutations(Contrasena)
=============================================================================
