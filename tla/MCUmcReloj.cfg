CONSTANTS
  c1 = c1
  c2 = c2
  Cpus = {c1}
  SeVan = {c1}
  Programas <- DosProgramas
  PaginasDe <- PaginasReloj
  CodigoEn <- CodigoReloj
  Accesos <- AccesosReloj
  Comandos = {"marcar"}
  Palabras = {0}
  Datos = {0, 1}
  Codigo <- CodigoCero
  MARCOS = 2
  MARCO_X_PROC = 2
  ENTRADAS_TLB = 0
  ALGORITMO = "CLOCK-M"
  TotalSwap = 3
  MaxPaginas = 4
  Indefinida = Indefinida
  Exito = Exito
  Error = Error
  NULO = NULO
SPECIFICATION SpecJusta
CHECK_DEADLOCK FALSE
PROPERTIES ImplementaMemoria VictimaDeLaPrimeraClase TodoSeContesta
