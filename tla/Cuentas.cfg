SPECIFICATION Spec
CONSTANTS
  Nulo = Nulo
  Texto <- MCTexto
  Strip <- MCIdentidad
  Lower <- MCIdentidad
  Clave <- MCIdentidad
  Cargo <- MCCargo
  Jefe <- MCJefe
  NombreCargo <- MCNombre
  Area <- MCNombre
  Peticion = {p1, p2, p3}
  Correo = {ana, luis}
  Contrasena = {c1, c2}
  Placeholder = Placeholder
  CargoPedido <- MCCargoPedido
  ACTIVATION_TOKEN_TTL_SECONDS = 1
  MaxReloj = 2
  ConFallos = TRUE
SYMMETRY Simetria
INVARIANTS
  TypeOK
  CorreoUnico
  AltaCompleta
  AltaPorOrden
  TokenGastadoConContrasena
  ContrasenaGastaToken
  ContrasenaAceptadaVale
PROPERTIES
  CuentaPerdidaNoVuelve
