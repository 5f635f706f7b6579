SPECIFICATION Spec
CONSTANTS
  Nulo = Nulo
  Ausente = Ausente
  Texto <- MCTexto
  Strip <- MCStrip
  Lower <- MCLower
  Clave <- MCClave
  Cargo <- MCCargo
  Jefe <- MCJefe
  NombreCargo <- MCNombre
  Area <- MCArea
  Usuario <- MCUsuario
  CargoDe <- MCCargoDe
  Fecha <- MCFecha
  EstadoInicial <- MCEstadoInicial
  EstadosUsuario <- EstadosDelEsquema
  Altas <- Ninguna
  Ediciones <- Ninguna
  Moldes <- Ninguna
  Bajas <- Ninguna
  Iniciales <- UnaPendiente
  PlantillasIniciales <- PlantillaLaptop
  Peticion = {p1, p2}
  MaxSimultaneas = 2
  ConFallos = FALSE
SYMMETRY Simetria
PROPERTIES
  EnProcesoNoSeElimina
