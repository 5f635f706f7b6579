---------------------------- MODULE MCSolicitudes ----------------------------
(****************************************************************************)
(* Values for model checking Solicitudes: a piece of the organisation of    *)
(* sql/estructura_organizacional.sql, four of its users, and bodies.        *)
(****************************************************************************)
EXTENDS SolicitudesEnSerie, TLC

MCCargo == {1, 2, 3, 4, 7, 8, 48}
MCJefe == 1 :> Nulo @@ 2 :> 1 @@ 3 :> 2 @@ 4 :> 3 @@ 7 :> 3 @@ 8 :> 7 @@ 48 :> 2
MCNombre ==
  1 :> "Asamblea" @@ 2 :> "Gerente General" @@ 3 :> "Gerente Administrativo" @@
  4 :> "Coordinador" @@ 7 :> "Jefe de Mantenimiento" @@ 8 :> "Tecnico" @@
  48 :> "Gerente Talento Humano"
MCArea ==
  1 :> "Organo" @@ 2 :> "Gerencia" @@ 3 :> "Administracion" @@
  4 :> "Servicios generales" @@ 7 :> "Mantenimiento" @@ 8 :> "Mantenimiento" @@
  48 :> "Talento humano"

\* MOVIL carries an accent: str.lower folds it, SQLite's LOWER does not.
MCTexto ==
  {"", " ", "laptop", " Laptop ", "Laptop", "silla", " silla", "MOVIL", "movil",
   " servicios generales", "servicios generales", "tecnico", "coordinador",
   "mantenimiento"}
  \cup {MCNombre[c] : c \in MCCargo} \cup {MCArea[c] : c \in MCCargo}

Tabla(casos) ==
  [t \in MCTexto |-> IF t \in DOMAIN casos THEN casos[t] ELSE t]
MCStrip ==
  Tabla(" " :> "" @@ " Laptop " :> "Laptop" @@ " silla" :> "silla" @@
        " servicios generales" :> "servicios generales")
MCLower ==
  Tabla("Laptop" :> "laptop" @@ "Servicios generales" :> "servicios generales" @@
        "Tecnico" :> "tecnico" @@ "Coordinador" :> "coordinador" @@
        "Mantenimiento" :> "mantenimiento" @@ "MOVIL" :> "movil")
MCClave ==
  Tabla(" " :> "" @@ "Laptop" :> "laptop" @@ " Laptop " :> "laptop" @@
        " silla" :> "silla" @@ " servicios generales" :> "servicios generales" @@
        "Servicios generales" :> "servicios generales" @@
        "Tecnico" :> "tecnico" @@ "Coordinador" :> "coordinador" @@
        "Mantenimiento" :> "mantenimiento")

\* Human resources, the head of maintenance, a technician of his, and the
\* coordinator that requests are addressed to.
rrhh == 1
jefe == 2
tecnico == 3
encargado == 4
MCUsuario == {rrhh, jefe, tecnico, encargado}
MCCargoDe == rrhh :> 48 @@ jefe :> 7 @@ tecnico :> 8 @@ encargado :> 4
MCEstadoInicial == [u \in MCUsuario |-> "En proceso"]
MCFecha == {"lunes", "martes"}

Solicitud(estado, spec, destinatario) ==
  [id_empleado |-> tecnico, fecha_fin |-> "lunes", estado |-> estado,
   especificaciones |-> spec, destinatario |-> destinatario]
Edicion(estado, fecha, destinatario) ==
  [fecha_fin |-> fecha, estado |-> estado, especificaciones |-> Ausente,
   destinatario |-> destinatario]
EdicionDeTipo(spec) == [Edicion(Ausente, Ausente, Ausente) EXCEPT !.especificaciones = spec]
Plantillas(spec) == <<[encargado |-> Nulo, especificacion |-> spec]>>

Simetria == Permutations(Peticion)

----------------------------------------------------------------------------
Ninguna == {}
UnaPendiente == <<Solicitud("Pendiente", "laptop", "servicios generales")>>
PendienteYEnProceso ==
  UnaPendiente \o <<Solicitud("En proceso", "silla", "Servicios generales")>>
SinFilas == <<>>
SinPlantillas == <<>>
PlantillaLaptop == Plantillas("laptop")
PlantillasDeAmbas == Plantillas("laptop") \o Plantillas(" silla")

\* A request like the initial one, one of another kind, and a blank one.
AltasVarias ==
  {Solicitud("Pendiente", " Laptop ", "Servicios generales"),
   Solicitud("En proceso", "MOVIL", " servicios generales"),
   Solicitud("Pendiente", " ", "Mantenimiento")}
\* And one that is finished from the start.
AltasYFinalizada ==
  AltasVarias \cup {Solicitud("Finalizado", "movil", "Servicios generales")}
EdicionesVarias ==
  {Edicion("En proceso", Ausente, Ausente), Edicion("Pendiente", "martes", Ausente),
   Edicion(Ausente, Nulo, Nulo), Edicion(Ausente, Ausente, Ausente)}
\* One that makes two of one kind; one that makes a kind without template, and one
\* that finishes whatever it finds.
EdicionesYLaptop == EdicionesVarias \cup {EdicionDeTipo("Laptop")}
EdicionesYMovil ==
  EdicionesVarias \cup {EdicionDeTipo("movil"), Edicion("Finalizado", Ausente, Ausente)}
UnAlta == {Solicitud("Pendiente", "laptop", "Servicios generales")}
EdicionesDisjuntas ==
  {Edicion("Finalizado", Ausente, Ausente), Edicion(Ausente, "martes", Ausente)}
MoldesVarios ==
  {[encargado |-> " ", especificacion |-> "movil"],
   [encargado |-> Nulo, especificacion |-> " "]}
TecnicoPendiente == [MCEstadoInicial EXCEPT ![tecnico] = "Pendiente"]
BajaDelTecnico == {tecnico}
EstadosConEliminada == {"Finalizado", "En proceso", "Pendiente", "Eliminada"}
EstadosDelEsquema == {"Finalizado", "En proceso", "Pendiente"}
=============================================================================
