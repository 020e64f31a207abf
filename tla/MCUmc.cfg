CONSTANTS
  c1 = c1
  c2 = c2
  Cpus = {c1, c2}
  SeVan = {}
  Programas <- DosProgramas
  PaginasDe <- PaginasMC
  CodigoEn <- PaginasMC
  Accesos <- AccesosMC
  Comandos = {"flush"}
  Palabras = {0, 1}
  Datos = {0, 1}
  Codigo <- CodigoCero
  MARCOS = 2
  MARCO_X_PROC = 2
  ENTRADAS_TLB = 2
  ALGORITMO = "CLOCK"
  TotalSwap = 4
  MaxPaginas = 3
  Indefinida = Indefinida
  Exito = Exito
  Error = Error
  NULO = NULO
SYMMETRY CpusSimetricas
SPECIFICATION Spec
CHECK_DEADLOCK FALSE
INVARIANTS TypeOK TlbDeLaTabla MarcosRepartidos BufferDeLaRespuesta
PROPERTIES ImplementaMemoria
