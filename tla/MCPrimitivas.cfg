CONSTANTS
  TamanioPagina = 12
  SizeofInt = 4
  SizeofChar = 1
  Programas <- CuatroTextos
  STACK_SIZE = 2
  Nombres = {a}
  Valores = {v1, v2}
  Codigo = Codigo
  Basura = Basura
  SinIniciar = SinIniciar
  NULO = NULO
  MaxDefiniciones = 2
SPECIFICATION Spec
CHECK_DEADLOCK FALSE
INVARIANTS TextoCorrecto PilaEnOrden UnaRespuesta ViajeDelPcb
PROPERTIES  EsperaTermina
