SPECIFICATION Spec
CONSTANTS
  Nada = Nada
  Razon = {"r1", "r2"}
  Lineas <- MCLineas
  MaxLineas = 6
  MaxAlcance = 2
INVARIANTS
  MejoresPrimero
  TodaPosicionCuenta
  RazonPropia
