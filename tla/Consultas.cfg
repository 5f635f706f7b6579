SPECIFICATION EstadisticasFairSpec
CONSTANTS
  Nulo = Nulo
  Ausente = Ausente
  Texto <- MCTexto
  Strip <- MCStrip
  Lower <- MCLower
  Clave <- MCClave
  Cargo <- MCCargo
  Jefe <- MCJefe
  NombreCargo <- MCNombre
  Area <- AreaMovil
  Usuario <- MCUsuario
  CargoDe <- MCCargoDe
  Fecha <- MCFecha
  EstadoInicial <- MCEstadoInicial
  EstadosUsuario <- EstadosConEliminada
  Altas <- AltasDeSilla
  Ediciones <- EdicionesDeCierre
  Moldes <- Ninguna
  Bajas <- BajaDelTecnico
  Iniciales <- UnaEnProceso
  PlantillasIniciales <- PlantillaLaptop
  Peticion = {p1, p2}
  MaxSimultaneas = 2
  ConFallos = FALSE
  MaxReloj = 2
  TicsPorDia = 2
INVARIANTS
  EstadisticasTypeOK
  TiempoRepartido
  LineaCuadraConResumen
  PercentilesEnOrden
  QuienPuedeAvanzarLaVe
  HistorialConsultable
PROPERTIES
  CierreFechado
  FechaDeCierreEstable
  HistorialSePoneAlDia
