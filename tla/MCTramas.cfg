CONSTANTS
  Hilos = {h1, h2}
  Mensajes = {vacio, corto, largo}
  vacio = vacio
  corto = corto
  largo = largo
  Longitud <- LongitudDePrueba
  Cabecera = 2
  NADA = NADA
  Cortes = {}
  MaxEnvios = 4
SPECIFICATION Spec
CHECK_DEADLOCK FALSE
 
PROPERTIES TodoLlega
