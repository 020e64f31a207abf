CONSTANTS
  p1 = p1
  p2 = p2
  p3 = p3
  b = b
  c = c
  Nadie = Nadie
  MaxSignals = 4
  Procesos <- MCProcesos
  Sems <- MCSems
  ValorInicial <- MCValorInicial
SPECIFICATION Spec
INVARIANTS
  TypeOK
  TraspasoExclusivo
  NadieDuermeConUnidades
  UnidadesConservadas
  EsperaUnica
  TraspasoSinUnidades
PROPERTIES
  ImplementaAbstracto
CHECK_DEADLOCK FALSE
