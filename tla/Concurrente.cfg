SPECIFICATION Spec
CONSTANTS
  Nulo = Nulo
  Ausente = Ausente
  Texto <- MCTexto
  Strip <- MCStrip
  Lower <- MCLower
  Clave <- MCClave
  Cargo <- MCCargo
  Jefe <- MCJefe
  NombreCargo <- MCNombre
  Area <- MCArea
  Usuario <- MCUsuario
  CargoDe <- MCCargoDe
  Fecha <- MCFecha
  EstadoInicial <- MCEstadoInicial
  EstadosUsuario <- EstadosDelEsquema
  Altas <- AltasYFinalizada
  Ediciones <- EdicionesYMovil
  Moldes <- MoldesVarios
  Bajas <- BajaDelTecnico
  Iniciales <- PendienteYEnProceso
  PlantillasIniciales <- PlantillasDeAmbas
  Peticion = {p1, p2, p3}
  MaxSimultaneas = 3
  ConFallos = TRUE
SYMMETRY Simetria
INVARIANTS
  TypeOK
  EstadoAcreditado
  HistorialVeraz
  LlamadasFundadas
  HistorialCompleto
  AvisoFundado
  TodaSolicitudTienePlantilla
PROPERTIES
  FinalizaTrasEnProceso
