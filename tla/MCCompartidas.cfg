CONSTANTS
  Cpus = {c1, c2}
  Procesos = {p1, p2, p3}
  NULO = NULO
  p1 = p1
  p2 = p2
  p3 = p3
  Vueltas <- Repite
SPECIFICATION Spec
CHECK_DEADLOCK FALSE
INVARIANTS ContadorExacto
PROPERTIES LecturaCompartidaTermina
