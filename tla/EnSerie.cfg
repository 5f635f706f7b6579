SPECIFICATION Spec
CONSTANTS
  Nulo = Nulo
  Ausente = Ausente
  Texto <- MCTexto
  Strip <- MCStrip
  Lower <- MCLower
  Clave <- MCClave
  Cargo <- MCCargo
  Jefe <- MCJefe
  NombreCargo <- MCNombre
  Area <- MCArea
  Usuario <- MCUsuario
  CargoDe <- MCCargoDe
  Fecha <- MCFecha
  EstadoInicial <- MCEstadoInicial
  EstadosUsuario <- EstadosConEliminada
  Altas <- AltasVarias
  Ediciones <- EdicionesYLaptop
  Moldes <- MoldesVarios
  Bajas <- BajaDelTecnico
  Iniciales <- PendienteYEnProceso
  PlantillasIniciales <- PlantillasDeAmbas
  Peticion = {p1, p2, p3, p4}
  MaxSimultaneas = 1
  ConFallos = FALSE
SYMMETRY Simetria
INVARIANTS
  DuplicadaConRastro
  PlantillaUnica
PROPERTIES
  CumpleExpediente
  EdicionParcial
  EnProcesoNoSeElimina
  BajaArrastraSolicitudes
  FinalizadoIntacto
