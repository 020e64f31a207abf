CONSTANTS
  p1 = p1
  p2 = p2
  p3 = p3
  Programas = {p1, p2, p3}
  CantidadPaginas = 4
  BitsPorByte = 5
  MaxPaginas = 3
  Cero = Cero
  Dato = Dato
  Valores = {Cero, Dato}
  Escribe <- EscribeMC
  Indefinida = Indefinida
  Exito = Exito
  Error = Error
  NULO = NULO
SPECIFICATION SpecJusta
CHECK_DEADLOCK FALSE
INVARIANT TypeOK
 
INVARIANT BitmapExacto
INVARIANT CorreUnPrograma
 
PROPERTY CompactacionTermina
