SPECIFICATION EstadisticasSpec
CONSTANTS
  Nulo = Nulo
  Ausente = Ausente
  Texto <- MCTexto
  Strip <- MCStrip
  Lower <- MCLower
  Clave <- MCClave
  Cargo <- MCCargo
  Jefe <- MCJefe
  NombreCargo <- MCNombre
  Area <- AreaMovil
  Usuario <- MCUsuario
  CargoDe <- MCCargoDe
  Fecha <- MCFecha
  EstadoInicial <- MCEstadoInicial
  EstadosUsuario <- EstadosDelEsquema
  Altas <- UnAlta
  Ediciones <- Ninguna
  Moldes <- Ninguna
  Bajas <- Ninguna
  Iniciales <- SinFilas
  PlantillasIniciales <- SinPlantillas
  Peticion = {p1}
  MaxSimultaneas = 1
  ConFallos = FALSE
  MaxReloj = 1
  TicsPorDia = 2
INVARIANTS
  FiltroPorFecha
