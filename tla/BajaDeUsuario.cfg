SPECIFICATION Spec
CONSTANTS
  Nulo = Nulo
  Ausente = Ausente
  Texto <- MCTexto
  Strip <- MCStrip
  Lower <- MCLower
  Clave <- MCClave
  Cargo <- MCCargo
  Jefe <- MCJefe
  NombreCargo <- MCNombre
  Area <- MCArea
  Usuario <- MCUsuario
  CargoDe <- MCCargoDe
  Fecha <- MCFecha
  EstadoInicial <- MCEstadoInicial
  EstadosUsuario <- EstadosDelEsquema
  Altas <- Ninguna
  Ediciones <- Ninguna
  Moldes <- Ninguna
  Bajas <- BajaDelTecnico
  Iniciales <- UnaPendiente
  PlantillasIniciales <- PlantillaLaptop
  Peticion = {p1}
  MaxSimultaneas = 1
  ConFallos = FALSE
SYMMETRY Simetria
PROPERTIES
  BajaSeCompleta
