SPECIFICATION Spec
CONSTANTS
  Nulo = Nulo
  Texto <- MCTexto
  Strip <- MCIdentidad
  Lower <- MCIdentidad
  Clave <- MCIdentidad
  Cargo <- MCCargo
  Jefe <- MCJefe
  NombreCargo <- MCNombre
  Area <- MCNombre
  Peticion = {p1, p2, p3}
  Usuario <- MCUsuario
  CargoDe <- MCCargoDe
  Pedidos <- MCPedidos
  MaxSimultaneas = 3
  ConFallos = TRUE
SYMMETRY Simetria
INVARIANTS
  TypeOK
  SolapeSoloEnCarrera
  RespuestaALaVista
