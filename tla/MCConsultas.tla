----------------------------- MODULE MCConsultas -----------------------------
(****************************************************************************)
(* Values for model checking what is read of the requests: the lists and    *)
(* the statistics, while calls that create, edit, advance and delete them   *)
(* go on.                                                                   *)
(****************************************************************************)
EXTENDS MCSolicitudes, Estadisticas, Vistas

\* A request that is closed when it is opened, and one like any other, which may
\* be opened and closed between the call of a report and its reading.
AltasDeSilla ==
  {Solicitud("Finalizado", "silla", "Servicios generales"),
   Solicitud("Pendiente", "silla", "Servicios generales")}

\* The edits reopen a request, close it, and address it to an area that is spelled
\* with an accented capital there and without it in the chart.
EdicionesDeCierre ==
  {Edicion("Pendiente", Ausente, Ausente), Edicion("Finalizado", Ausente, Ausente),
   Edicion("En proceso", Ausente, "MOVIL")}
AreaMovil == [MCArea EXCEPT ![8] = "movil"]
UnaEnProceso == <<Solicitud("En proceso", "laptop", "servicios generales")>>
=============================================================================
