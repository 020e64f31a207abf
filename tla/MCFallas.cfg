CONSTANTS
  k1 = k1
  k2 = k2
  c1 = c1
  c2 = c2
  impresora = impresora
  turno = turno
  NULO = NULO
  HiloUmc = HiloUmc
  HiloExec = HiloExec
  Consolas = {k1, k2}
  Cpus = {c1, c2}
  Dispositivos = {impresora}
  Sems = {turno}
  ValorInicial <- ValorInicialMC
  Quantum = 1
  MaxSignals = 2
  Escenarios <- EscenariosConFallas
SPECIFICATION Spec
CHECK_DEADLOCK FALSE
INVARIANT TypeOK
INVARIANT UnSoloLugar
INVARIANT EjecucionUnica
INVARIANT ContadoresRespaldados
INVARIANT ImprimeEnSuConsola
PROPERTY SemaforosRespetados
PROPERTY ImplementaPlanificador
