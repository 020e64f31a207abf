------------------------- MODULE PrimitivasPruebas -------------------------
(***************************************************************************)
(* Proofs about the execution of a program by the CPU, for every program,  *)
(* every size of the page, of int and of char, and any number of           *)
(* variables and calls (the bounds of the instances count for nothing):    *)
(* the thread gets the answer of its own request, the text of a fetch is   *)
(* the one of the instruction, the variables that are alive share no byte, *)
(* and the PCB is the same after a journey.                                *)
(***************************************************************************)
EXTENDS Primitivas, FiniteSetTheorems, WellFoundedInduction, SequenceTheorems, TLAPS

-----------------------------------------------------------------------------
(* The inductive invariant.                                                *)
Etapas == {"afuera", "codigo", "analiza", "derefenciar", "asignar", "retornar", "fin", "perdido"}

Pcbs ==
  [quantum : Nat, pid : Nat, pc : Int, cant_paginas_codigo_stack : Nat, estado : Nat,
   contexto_actual : Nat, stack_size_fisico : Nat, stack_position : Nat, stack_pointer : Nat,
   etiquetas_size : Nat, etiquetas : Seq({Codigo}), instrucciones : Seq(Instrucciones),
   indice_stack : Seq(IndicesDeStack \cup {SinIniciar})]

Hilos ==
  [etapa : Etapas, espera : Semaforos \cup {NULO}, pedidos : Seq(Trozos),
   leido : Seq(Contenidos), escrito : Int, direccion : Int, valor : Valores \cup {NULO},
   salto : BOOLEAN]

Direccionables == 0..(TamanioPagina * CantPaginas(programa.largo) - 1)

TypeOK ==
  /\ programa \in Programas
  /\ pcb \in Pcbs
  /\ hilo \in Hilos
  /\ semaforos \in [Semaforos -> Nat]
  /\ pagina_es_codigo \in BOOLEAN /\ excepcion_umc \in BOOLEAN /\ indefinido \in BOOLEAN
  /\ valor_pagina \in Seq(Contenidos)
  /\ pedido \in PedidosUmc \cup {NULO}
  /\ respuesta \in RespuestasUmc \cup {NULO}
  /\ memoria \in [Direccionables -> Contenidos]

(* What of the PCB is always the program's, and where its pc may be.       *)
Lineas == -1..(Len(programa.instrucciones) - 1)
DelPrograma ==
  /\ pcb.instrucciones = programa.instrucciones
  /\ pcb.stack_position = programa.largo
  /\ pcb.cant_paginas_codigo_stack = CantPaginas(programa.largo)
  /\ Len(pcb.etiquetas) = pcb.etiquetas_size
  /\ pcb.pc \in Lineas
  /\ hilo.etapa \in {"afuera", "codigo"} => pcb.pc # -1
  /\ \A k \in 1..Len(Contextos) :
       Contextos[k] # SinIniciar => Contextos[k].posicion_retorno \in Lineas

(* What the thread waits for, where it is.                                 *)
Etapa ==
  /\ hilo.etapa \in {"afuera", "analiza", "fin", "perdido"} => hilo.espera = NULO
  /\ hilo.espera = "s_codigo" => hilo.etapa = "codigo" /\ hilo.pedidos # <<>>
  /\ hilo.espera = "s_variable_stack" => hilo.etapa = "derefenciar" /\ hilo.pedidos # <<>>
  /\ hilo.espera = "s_escribir_pagina" => hilo.etapa \in {"asignar", "retornar"}
  /\ hilo.etapa = "asignar" => hilo.pedidos # <<>>
  /\ hilo.etapa = "retornar" => hilo.espera = "s_escribir_pagina"

(* What is asked to write is not the text of the program.                  *)
Primero(trozo) == trozo.pagina * TamanioPagina + trozo.offset
FueraDelTexto ==
  /\ \A b \in 0..(programa.largo - 1) : memoria[b] = <<Codigo, b>>
  /\ hilo.etapa = "asignar" =>
       \A i \in DOMAIN hilo.pedidos : Primero(hilo.pedidos[i]) >= programa.largo
  /\ pedido # NULO /\ pedido.op = "escribir" =>
       Primero(pedido.donde) >= programa.largo /\ DOMAIN pedido.bytes = 1..pedido.donde.tamanio
  /\ \A k \in 2..(pcb.contexto_actual + 1) :
       Direccion(Contextos[k].posicion_variable_retorno) >= programa.largo

(* The text that the first j requests of an instruction bring.             *)
Trecho(desde, largo) == [b \in 1..largo |-> <<Codigo, desde + b - 1>>]
Leidos(instruccion, j) ==
  IF j = 0 THEN 0
  ELSE IF j = 1 THEN TamanioDelPedido(instruccion.start, instruccion.offset, 1)
  ELSE instruccion.offset
LoQueFalta(todos, j) ==
  /\ Len(hilo.pedidos) = Len(todos) - j
  /\ \A i \in 1..Len(hilo.pedidos) : hilo.pedidos[i] = todos[j + i]
Bien(instruccion, bytes, j) ==
  Leible(instruccion.start, instruccion.offset) =>
    bytes = Trecho(instruccion.start + Leidos(instruccion, j),
                   PedidosDeInstruccion(instruccion)[j + 1].tamanio)
Lectura(instruccion, j) ==
  /\ LoQueFalta(PedidosDeInstruccion(instruccion), j)
  /\ Leible(instruccion.start, instruccion.offset) =>
       hilo.leido = Trecho(instruccion.start, Leidos(instruccion, j))
  /\ hilo.espera # NULO /\ pedido # NULO =>
       pedido.op = "leer" /\ pedido.donde = PedidosDeInstruccion(instruccion)[j + 1]
  /\ hilo.espera # NULO /\ respuesta # NULO =>
       respuesta.op = "leer" /\ (~respuesta.error => Bien(instruccion, respuesta.bytes, j))
  /\ hilo.espera # NULO /\ pedido = NULO /\ respuesta = NULO /\ ~excepcion_umc =>
       Bien(instruccion, valor_pagina, j)
LecturaDelCodigo ==
  hilo.etapa = "codigo" =>
    \E j \in 0..Len(PedidosDeInstruccion(Instruccion)) : Lectura(Instruccion, j)

(* Where the variables of the contexts that are alive are.                 *)
Vivos == 1..(pcb.contexto_actual + 1)
LugarDe(k, i) == Contextos[k].variables[i].posicion_memoria
Repartidas(m) ==
  /\ pcb.stack_pointer = programa.largo + SizeofInt * m
  /\ \A k \in Vivos : \A i \in 1..Len(Contextos[k].variables) :
       \E j \in 1..m : LugarDe(k, i) = Lugar(programa.largo + SizeofInt * j)
Pila ==
  /\ pcb.contexto_actual < Len(Contextos)
  /\ \A k \in Vivos : Contextos[k] # SinIniciar
  /\ \E m \in Nat : Repartidas(m)
  /\ \A k \in Vivos, l \in Vivos :
       \A i \in 1..Len(Contextos[k].variables), h \in 1..Len(Contextos[l].variables) :
         LugarDe(k, i) = LugarDe(l, h) => k = l /\ i = h

Inv ==
  /\ TypeOK /\ DelPrograma /\ Etapa /\ UnaRespuesta /\ FueraDelTexto /\ LecturaDelCodigo /\ Pila

-----------------------------------------------------------------------------
(* The arithmetic of the pages.                                            *)

(***************************************************************************)
(* The page and the offset of an address, and that no others make it.      *)
(***************************************************************************)
LEMMA Division ==
  ASSUME NEW a \in Nat, NEW T \in Nat \ {0}
  PROVE  /\ a \div T \in Nat /\ a % T \in 0..(T - 1)
         /\ a = T * (a \div T) + (a % T)
OBVIOUS

(***************************************************************************)
(* Only the quotient and the remainder are so.                             *)
(***************************************************************************)
LEMMA DivisionUnica ==
  ASSUME NEW T \in Nat \ {0}, NEW a \in Nat, NEW p \in Nat, NEW o \in 0..(T - 1), a = T * p + o
  PROVE  a \div T = p /\ a % T = o
<1>1. PICK q \in Nat : q = a \div T
  BY Division
<1>2. PICK r \in 0..(T - 1) : r = a % T
  BY Division
<1>3. T * q + r = T * p + o
  BY <1>1, <1>2, Division
<1>4. q = p
  <2>1. ASSUME q < p PROVE FALSE
    <3>1. p - q \in Nat /\ p - q >= 1 
      BY <2>1
    <3>2. T * (p - q) >= T
      BY <3>1
    <3>3. T * (p - q) = T * p - T * q
      BY <1>1
    <3>4. T * p \in Nat /\ T * q \in Nat
      BY <1>1
    <3> QED
      BY <1>2, <1>3, <3>2, <3>3, <3>4
  <2>2. ASSUME p < q PROVE FALSE
    <3>1. q - p \in Nat /\ q - p >= 1 
      BY <2>2
    <3>2. T * (q - p) >= T
      BY <3>1
    <3>3. T * (q - p) = T * q - T * p
      BY <1>1
    <3>4. T * p \in Nat /\ T * q \in Nat
      BY <1>1
    <3> QED
      BY <1>2, <1>3, <3>2, <3>3, <3>4
  <2> QED
    BY <1>1, <2>1, <2>2
<1>5. r = o
  BY <1>2, <1>3, <1>4
<1> QED
  BY <1>1, <1>2, <1>4, <1>5

(***************************************************************************)
(* Where a place is: at the address it was made from, or, when that is the *)
(* first byte of a page, in the next page (calcula_pagina).                *)
(***************************************************************************)
Corrida(direccion) == IF CalculaOffset(direccion) = 0 THEN TamanioPagina ELSE 0

(* The place of an address is one, and where it stands.                    *)
LEMMA LugarBien ==
  ASSUME NEW d \in Nat
  PROVE  /\ Lugar(d) \in Lugares
         /\ CalculaPagina(d) \in Nat /\ CalculaOffset(d) \in 0..(TamanioPagina - 1)
         /\ CalculaPagina(d) * TamanioPagina + CalculaOffset(d) = d + Corrida(d)
         /\ Direccion(Lugar(d)) = d + Corrida(d)
         /\ Corrida(d) \in Nat
<1> DEFINE T == TamanioPagina
<1>1. T \in Nat \ {0} /\ SizeofInt \in Nat
  BY TamaniosAssumption
<1>2. PICK p \in Nat, o \in 0..(T - 1) : p = d \div T /\ o = d % T /\ d = T * p + o
  BY <1>1, Division
<1>3. CalculaOffset(d) = o /\ CalculaPagina(d) = p + (IF o = 0 THEN 1 ELSE 0)
  BY <1>2 DEF CalculaOffset, CalculaPagina
<1>4. CalculaPagina(d) * T + CalculaOffset(d) = d + Corrida(d)
  <2>1. (p + 1) * T = T * p + T /\ p * T = T * p
    BY <1>1
  <2>2. CASE o = 0
    <3>1. CalculaPagina(d) = p + 1 /\ CalculaOffset(d) = 0 /\ Corrida(d) = T
      BY <1>3, <2>2 DEF Corrida
    <3> QED
      BY <1>1, <1>2, <2>1, <2>2, <3>1
  <2>3. CASE o # 0
    <3>1. CalculaPagina(d) = p /\ CalculaOffset(d) = o /\ Corrida(d) = 0
      BY <1>2, <1>3, <2>3 DEF Corrida
    <3>2. T * p + o = d /\ p * T = T * p
      BY <1>2, <2>1
    <3>3. p * T + o = d + 0
      BY <3>2
    <3> QED
      BY <3>1, <3>3
  <2> QED
    BY <2>2, <2>3
<1>5. CalculaPagina(d) \in Nat /\ CalculaOffset(d) \in Nat /\ CalculaOffset(d) \in 0..(T - 1)
  BY <1>1, <1>2, <1>3
<1>6. Lugar(d) \in Lugares
  BY <1>1, <1>5 DEF Lugar, Lugares
<1>7. Corrida(d) \in Nat
  BY <1>1 DEF Corrida
<1> QED
  BY <1>4, <1>5, <1>6, <1>7 DEF Lugar, Direccion

(***************************************************************************)
(* Two addresses never have the same place.                                *)
(***************************************************************************)
LEMMA LugaresDistintos ==
  ASSUME NEW c \in Nat, NEW d \in Nat, Lugar(c) = Lugar(d)
  PROVE  c = d
<1>1. CalculaOffset(c) = CalculaOffset(d) /\ CalculaPagina(c) = CalculaPagina(d)
  BY DEF Lugar
<1>2. Corrida(c) = Corrida(d)
  BY <1>1 DEF Corrida
<1>3. c + Corrida(c) = d + Corrida(d) /\ Corrida(c) \in Nat
  BY <1>1, LugarBien
<1> QED
  BY <1>2, <1>3

(***************************************************************************)
(* The requests of a stretch are requests, and none of them is for what    *)
(* there is before it.                                                     *)
(***************************************************************************)
LEMMA PedidosBien ==
  ASSUME NEW d \in Nat, NEW t \in Nat
  PROVE  /\ Pedidos(d, t) \in Seq(Trozos)
         /\ \A i \in DOMAIN Pedidos(d, t) : Primero(Pedidos(d, t)[i]) >= d
<1> DEFINE T == TamanioPagina
           n == CantidadDePaginas(d, t)
           pedidos == Pedidos(d, t)
<1>1. T \in Nat \ {0}
  BY TamaniosAssumption
<1>2. d + t \in Nat
  OBVIOUS
<1>3. n \in Int
  BY <1>2, LugarBien DEF CantidadDePaginas
<1>4. PICK p \in Nat, o \in 0..(T - 1) : p = CalculaPagina(d) /\ o = CalculaOffset(d)
  BY LugarBien
<1>5. p * T + o >= d
  BY <1>4, LugarBien
<1>6. ASSUME NEW i \in 1..n
      PROVE  /\ p + i - 1 \in Nat /\ OffsetDelPedido(d, i) \in Nat
             /\ TamanioDelPedido(d, t, i) \in Int
  <2>1. i \in Nat /\ i >= 1
    BY <1>3
  <2> QED
    BY <1>1, <1>3, <1>4, <2>1 DEF OffsetDelPedido, TamanioDelPedido
<1>7. pedidos = [i \in 1..n |-> [pagina |-> p + i - 1, offset |-> OffsetDelPedido(d, i),
                                 tamanio |-> TamanioDelPedido(d, t, i)]]
  BY <1>4 DEF Pedidos
<1>8. \A i \in 1..n : pedidos[i] \in Trozos
  BY <1>6, <1>7 DEF Trozos
<1>9. pedidos \in Seq(Trozos)
  <2>1. PICK m \in Nat : 1..n = 1..m
    <3>1. CASE n >= 0
      BY <1>3, <3>1
    <3>2. CASE n < 0
      <4>1. 1..n = 1..0
        BY <1>3, <3>2
      <4> QED
        BY <4>1
    <3> QED
      BY <1>3, <3>1, <3>2
  <2>2. DOMAIN pedidos = 1..m /\ \A i \in 1..m : pedidos[i] \in Trozos
    BY <1>7, <1>8, <2>1
  <2>3. pedidos = [i \in 1..m |-> pedidos[i]]
    BY <1>7, <2>1
  <2> QED
    BY <2>2, <2>3
<1>10. ASSUME NEW i \in 1..n
       PROVE  Primero(pedidos[i]) >= d
  <2>1. Primero(pedidos[i]) = (p + i - 1) * T + OffsetDelPedido(d, i)
    BY <1>7 DEF Primero
  <2>2. CASE i = 1
    <3>1. p + i - 1 = p /\ OffsetDelPedido(d, i) = o
      BY <1>4, <2>2 DEF OffsetDelPedido
    <3> QED
      BY <1>5, <2>1, <3>1
  <2>3. CASE i # 1
    <3>1. PICK k \in Nat : i = k + 2
      <4>1. i - 2 \in Nat /\ i = (i - 2) + 2
        BY <1>3, <2>3
      <4> QED
        BY <4>1
    <3>2. OffsetDelPedido(d, i) = 0 /\ p + i - 1 = p + 1 + k
      BY <1>4, <2>3, <3>1 DEF OffsetDelPedido
    <3>3. (p + 1 + k) * T = p * T + T + k * T /\ k * T \in Nat /\ p * T \in Nat
      BY <1>1, <3>1
    <3>4. (p + i - 1) * T + OffsetDelPedido(d, i) = p * T + T + k * T
      BY <3>2, <3>3, <1>1
    <3> QED
      BY <1>1, <1>4, <1>5, <2>1, <3>3, <3>4
  <2> QED
    BY <2>2, <2>3
<1> QED
  BY <1>7, <1>9, <1>10

(***************************************************************************)
(* The requests of an instruction that starts inside a page and goes past  *)
(* two at most: the first one, or the first two, bring its bytes one after *)
(* the other, and if there are more they are for no byte.                  *)
(***************************************************************************)
Trae(i, j) ==
  LET r == PedidosDeInstruccion(i)[j + 1]
  IN /\ r.tamanio \in Nat /\ Leidos(i, j) \in Nat
     /\ r.offset + r.tamanio <= TamanioPagina
     /\ r.tamanio > 0 => Primero(r) = i.start + Leidos(i, j)
     /\ Leidos(i, j + 1) = Leidos(i, j) + r.tamanio
     /\ Leidos(i, j) + r.tamanio <= i.offset

(* An instruction has three requests at most, they end where it does, and  *)
(* each brings what follows what the ones before it brought.               *)
LEMMA PedidosLeibles ==
  ASSUME NEW i \in Instrucciones, Leible(i.start, i.offset)
  PROVE  /\ Len(PedidosDeInstruccion(i)) \in 1..3
         /\ Leidos(i, 0) = 0
         /\ Leidos(i, Len(PedidosDeInstruccion(i))) = i.offset
         /\ \A j \in 0..(Len(PedidosDeInstruccion(i)) - 1) : Trae(i, j)
<1>0. PICK T \in Nat, s \in Nat, n \in Nat :
        T = TamanioPagina /\ s = i.start /\ n = i.offset /\ T # 0 /\ n # 0
  BY TamaniosAssumption DEF Instrucciones
<1> DEFINE c == CantidadDePaginas(s, n)
           P == PedidosDeInstruccion(i)
<1>1. s + n \in Nat /\ T \in Nat \ {0}
  BY <1>0
<1>2. PICK p \in Nat, o \in 0..(T - 1) : p = s \div T /\ o = s % T /\ s = T * p + o
  BY <1>1, Division
<1>3. CalculaOffset(s) = o /\ o # 0 /\ o + n < 2 * T /\ CalculaPagina(s) = p
  BY <1>0, <1>2 DEF Leible, CalculaOffset, CalculaPagina
<1>a. PICK x \in Nat : x = T * p
  OBVIOUS
<1>4. T * (p + 1) = x + T /\ s = x + o
  BY <1>2, <1>a
<1>5. \/ o + n < T /\ c = 1
      \/ o + n = T /\ c = 3
      \/ o + n > T /\ c = 2
  <2>1. CASE o + n < T
    <3>1. s + n = T * p + (o + n) /\ o + n \in 0..(T - 1) /\ o + n # 0
      BY <1>0, <1>a, <1>4, <2>1
    <3>2. (s + n) \div T = p /\ (s + n) % T = o + n
      BY <1>1, <3>1, DivisionUnica
    <3>3. CalculaPagina(s + n) = p
      BY <1>0, <3>1, <3>2 DEF CalculaPagina
    <3> QED
      BY <1>3, <2>1, <3>3 DEF CantidadDePaginas
  <2>2. CASE o + n = T
    <3>1. s + n = T * (p + 1) + 0 /\ 0 \in 0..(T - 1) /\ p + 1 \in Nat
      BY <1>0, <1>4, <2>2
    <3>2. (s + n) \div T = p + 1 /\ (s + n) % T = 0
      BY <1>1, <3>1, DivisionUnica
    <3>3. CalculaPagina(s + n) = p + 2
      BY <1>0, <3>2 DEF CalculaPagina
    <3> QED
      BY <1>3, <2>2, <3>3 DEF CantidadDePaginas
  <2>3. CASE o + n > T
    <3> DEFINE z == o + n - T
    <3>1. s + n = T * (p + 1) + z /\ z \in 0..(T - 1) /\ p + 1 \in Nat /\ z # 0
      BY <1>0, <1>3, <1>4, <2>3
    <3>2. (s + n) \div T = p + 1 /\ (s + n) % T = z
      BY <1>1, <3>1, DivisionUnica
    <3>3. CalculaPagina(s + n) = p + 1
      BY <1>0, <3>1, <3>2 DEF CalculaPagina
    <3> QED
      BY <1>3, <2>3, <3>3 DEF CantidadDePaginas
  <2> QED
    BY <2>1, <2>2, <2>3
<1>6. P = [k \in 1..c |-> [pagina |-> p + k - 1, offset |-> OffsetDelPedido(s, k),
                           tamanio |-> TamanioDelPedido(s, n, k)]]
  BY <1>0, <1>3 DEF PedidosDeInstruccion, Pedidos
<1>7. c \in 1..3 /\ DOMAIN P = 1..c /\ Len(P) = c
  BY <1>5, <1>6
<1>8. TamanioDelPedido(s, n, 1) = (IF c = 1 THEN n ELSE T - o)
  BY <1>0, <1>3 DEF TamanioDelPedido
<1>9. \A k \in {2, 3} : TamanioDelPedido(s, n, k) = n - (T - o) /\ OffsetDelPedido(s, k) = 0
  BY <1>0, <1>3 DEF TamanioDelPedido, OffsetDelPedido
<1>10. OffsetDelPedido(s, 1) = o
  BY <1>3 DEF OffsetDelPedido
<1>11. /\ Leidos(i, 0) = 0 /\ Leidos(i, 1) = (IF c = 1 THEN n ELSE T - o)
       /\ Leidos(i, 2) = n /\ Leidos(i, 3) = n
  BY <1>0, <1>8 DEF Leidos
<1> DEFINE r(k) == P[k]
<1>12. r(1) = [pagina |-> p, offset |-> o, tamanio |-> IF c = 1 THEN n ELSE T - o]
  <2>1. 1 \in 1..c /\ p + 1 - 1 = p
    BY <1>2, <1>7
  <2> QED
    BY <1>6, <1>8, <1>10, <2>1
<1>13. c >= 2 => r(2) = [pagina |-> p + 1, offset |-> 0, tamanio |-> n - (T - o)]
  <2>1. c >= 2 => 2 \in 1..c /\ p + 2 - 1 = p + 1
    BY <1>2, <1>7
  <2> QED
    BY <1>6, <1>9, <2>1
<1>14. c = 3 => r(3) = [pagina |-> p + 2, offset |-> 0, tamanio |-> n - (T - o)]
  <2>1. c = 3 => 3 \in 1..c /\ p + 3 - 1 = p + 2
    BY <1>2, <1>7
  <2> QED
    BY <1>6, <1>9, <2>1
<1> HIDE DEF c, P
<1>15. Trae(i, 0)
  <2>1. r(1).offset + r(1).tamanio <= T /\ r(1).tamanio \in Nat /\ r(1).tamanio <= n
    BY <1>3, <1>5, <1>12
  <2>2. Primero(r(1)) = s
    <3>1. p * T + o = s
      BY <1>4, <1>a
    <3> QED
      BY <1>0, <1>12, <3>1 DEF Primero
  <2>3. Leidos(i, 1) = 0 + r(1).tamanio
    BY <1>5, <1>11, <1>12
  <2>4. 0 + 1 = 1 /\ s + 0 = s /\ 0 + r(1).tamanio <= n
    BY <2>1
  <2> QED
    BY <1>0, <1>11, <2>1, <2>2, <2>3, <2>4 DEF Trae, P
<1>16. c >= 2 => Trae(i, 1)
  <2> SUFFICES ASSUME c >= 2 PROVE Trae(i, 1)
    OBVIOUS
  <2>1. r(2) = [pagina |-> p + 1, offset |-> 0, tamanio |-> n - (T - o)]
    BY <1>13
  <2>2. /\ n - (T - o) \in Nat /\ 0 + (n - (T - o)) <= T /\ Leidos(i, 1) = T - o /\ T - o \in Nat
        /\ n = (T - o) + (n - (T - o)) /\ (T - o) + (n - (T - o)) <= n
    BY <1>3, <1>5, <1>11
  <2>3. (p + 1) * T + 0 = s + (T - o)
    <3>1. (p + 1) * T = x + T
      BY <1>a
    <3> QED
      BY <1>4, <3>1
  <2>4. 1 + 1 = 2
    OBVIOUS
  <2>5. PICK y \in Nat : y = n - (T - o)
    BY <2>2
  <2>6. PICK rr : rr = P[1 + 1]
    OBVIOUS
  <2>7. rr.tamanio = y /\ rr.offset = 0 /\ Primero(rr) = s + Leidos(i, 1)
    <3>1. rr = [pagina |-> p + 1, offset |-> 0, tamanio |-> y]
      BY <2>1, <2>4, <2>5, <2>6
    <3>2. Primero(rr) = (p + 1) * T + 0
      BY <1>0, <3>1 DEF Primero
    <3> QED
      BY <2>2, <2>3, <3>1, <3>2
  <2>8. Leidos(i, 1 + 1) = Leidos(i, 1) + y /\ Leidos(i, 1) \in Nat /\ Leidos(i, 1) + y <= n
    BY <1>11, <2>2, <2>4, <2>5
  <2>9. 0 + y <= T
    BY <2>2, <2>5
  <2> QED
    BY <1>0, <2>6, <2>7, <2>8, <2>9 DEF Trae, P
<1>17. c = 3 => Trae(i, 2)
  <2> SUFFICES ASSUME c = 3 PROVE Trae(i, 2)
    OBVIOUS
  <2>1. r(3) = [pagina |-> p + 2, offset |-> 0, tamanio |-> n - (T - o)]
    BY <1>14
  <2>2. n - (T - o) = 0 /\ 0 + 0 <= T /\ Leidos(i, 2) = n /\ n \in Nat /\ n + 0 = n /\ n <= n
    BY <1>3, <1>5, <1>11
  <2>3. 2 + 1 = 3 /\ ~(0 > 0) /\ 0 \in Nat
    OBVIOUS
  <2>4. PICK rr : rr = P[2 + 1]
    OBVIOUS
  <2>5. rr.tamanio = 0 /\ rr.offset = 0
    BY <2>1, <2>2, <2>3, <2>4
  <2>6. Leidos(i, 2 + 1) = Leidos(i, 2) + 0 /\ Leidos(i, 2) \in Nat /\ Leidos(i, 2) + 0 <= n
    BY <1>11, <2>2, <2>3
  <2>7. 0 + 0 <= T
    BY <2>2
  <2> QED
    BY <1>0, <2>3, <2>4, <2>5, <2>6, <2>7 DEF Trae, P
<1>18. Leidos(i, c) = n
  BY <1>5, <1>11
<1>19. \A j \in 0..(c - 1) : j = 0 \/ (j = 1 /\ c >= 2) \/ (j = 2 /\ c = 3)
  BY <1>7
<1> QED
  BY <1>0, <1>7, <1>11, <1>15, <1>16, <1>17, <1>18, <1>19 DEF P

(***************************************************************************)
(* Ints that are one after the other from some address on stay apart where *)
(* calcula_pagina moves them, when a page is a whole number of ints.       *)
(***************************************************************************)
LEMMA Apartados ==
  ASSUME NEW c \in Nat, NEW d \in Nat, c + Corrida(c) = d + Corrida(d)
  PROVE  c = d
<1>1. PICK T \in Nat \ {0} : T = TamanioPagina
  BY TamaniosAssumption
<1>2. ASSUME NEW x \in Nat, NEW y \in Nat, x + T = y, x % T = 0
      PROVE  y % T = 0
  <2>1. PICK q \in Nat : q = x \div T
    BY Division
  <2>2. x = T * q + 0
    BY <1>2, <2>1, Division
  <2>3. y = T * (q + 1) + 0 /\ q + 1 \in Nat /\ 0 \in 0..(T - 1)
    <3>1. T * (q + 1) = T * q + T
      OBVIOUS
    <3> QED
      BY <1>2, <2>2, <3>1
  <2> QED
    BY <2>3, DivisionUnica
<1>3. /\ Corrida(c) = (IF c % T = 0 THEN T ELSE 0)
      /\ Corrida(d) = (IF d % T = 0 THEN T ELSE 0)
  BY <1>1 DEF Corrida, CalculaOffset
<1>4. CASE c % T = 0 /\ d % T # 0
  <2>1. c + T = d
    BY <1>3, <1>4
  <2> QED
    BY <1>2, <1>4, <2>1
<1>5. CASE c % T # 0 /\ d % T = 0
  <2>1. d + T = c
    BY <1>3, <1>5
  <2> QED
    BY <1>2, <1>5, <2>1
<1> QED
  BY <1>3, <1>4, <1>5

(* Two variables of the stack, at two multiples of the size of an int from *)
(* its start, share no byte when that size divides the page: then a place  *)
(* that slides to the next page keeps being at a multiple.                 *)
LEMMA Separadas ==
  ASSUME TamanioPagina % SizeofInt = 0,
         NEW p \in Nat, NEW j \in Nat, NEW k \in Nat, j # k,
         NEW a, a = Direccion(Lugar(p + SizeofInt * j)),
         NEW b, b = Direccion(Lugar(p + SizeofInt * k))
  PROVE  a + SizeofInt <= b \/ b + SizeofInt <= a
<1>1. PICK n \in Nat : n = SizeofInt /\ n # 0
  BY TamaniosAssumption
<1>2. PICK u \in Nat : TamanioPagina = n * u
  <2>1. PICK q \in Nat : q = TamanioPagina \div n
    BY <1>1, TamaniosAssumption, Division
  <2>2. TamanioPagina = n * q + 0
    BY <1>1, <2>1, TamaniosAssumption, Division
  <2> QED
    BY <2>2
<1>3. ASSUME NEW x \in Nat
      PROVE  \E v \in Nat : Direccion(Lugar(p + n * x)) = p + n * v
                            /\ p + n * v = (p + n * x) + Corrida(p + n * x)
  <2>1. PICK y \in Nat : y = p + n * x
    OBVIOUS
  <2>2. Direccion(Lugar(y)) = y + Corrida(y)
    BY LugarBien
  <2>3. PICK w \in Nat : Corrida(y) = n * w
    <3>1. n * 0 = 0
      OBVIOUS
    <3> QED
      BY <1>2, <3>1 DEF Corrida
  <2>4. n * (x + w) = n * x + n * w
    OBVIOUS
  <2>5. p + n * (x + w) = y + Corrida(y) /\ x + w \in Nat
    BY <2>1, <2>3, <2>4
  <2> QED
    BY <2>1, <2>2, <2>5
<1>4. PICK v \in Nat : a = p + n * v /\ p + n * v = (p + n * j) + Corrida(p + n * j)
  BY <1>1, <1>3
<1>5. PICK w \in Nat : b = p + n * w /\ p + n * w = (p + n * k) + Corrida(p + n * k)
  BY <1>1, <1>3
<1>6. v # w
  <2> SUFFICES ASSUME v = w PROVE FALSE
    OBVIOUS
  <2>1. p + n * j = p + n * k
    BY <1>4, <1>5, Apartados
  <2>2. n * j = n * k
    BY <2>1
  <2>3. ASSUME NEW x \in Nat, NEW y \in Nat, x < y PROVE n * x < n * y
    <3>1. y - x \in Nat /\ y - x >= 1
      BY <2>3
    <3>2. n * (y - x) >= n
      BY <3>1
    <3>3. n * (y - x) = n * y - n * x
      OBVIOUS
    <3>4. n * x \in Nat /\ n * y \in Nat
      OBVIOUS
    <3> QED
      BY <1>1, <3>2, <3>3, <3>4
  <2>4. j < k \/ k < j
    OBVIOUS
  <2>5. n * j \in Nat /\ n * k \in Nat
    OBVIOUS
  <2> QED
    BY <2>2, <2>3, <2>4, <2>5
<1>7. ASSUME NEW x \in Nat, NEW y \in Nat, x < y PROVE n * x + n <= n * y
  <2>1. y - x \in Nat /\ y - x >= 1
    BY <1>7
  <2>2. n * (y - x) >= n
    BY <2>1
  <2>3. n * (y - x) = n * y - n * x
    OBVIOUS
  <2>4. n * x \in Nat /\ n * y \in Nat
    OBVIOUS
  <2> QED
    BY <1>1, <2>2, <2>3, <2>4
<1>8. n * v \in Nat /\ n * w \in Nat
  OBVIOUS
<1>9. n * v + n <= n * w \/ n * w + n <= n * v
  BY <1>6, <1>7
<1> QED
  BY <1>1, <1>4, <1>5, <1>8, <1>9

-----------------------------------------------------------------------------
(* The stack.                                                              *)

(***************************************************************************)
(* A set of positions of a sequence has a last one.                        *)
(***************************************************************************)
LEMMA HayUltimo ==
  ASSUME NEW n \in Nat, NEW I \in SUBSET (1..n), I # {}
  PROVE  Max(I) \in I
<1> DEFINE D == {i..n : i \in I}
<1>1. IsWellFoundedOn(StrictSubsetOrdering(1..n), SUBSET (1..n))
  <2>1. IsFiniteSet(1..n)
    BY FS_Interval
  <2> QED
    BY <2>1, FS_StrictSubsetOrderingWellFounded, FS_FiniteSubsetsOfFinite
<1>2. D \subseteq SUBSET (1..n) /\ D # {}
  <2>1. \A i \in I : i..n \subseteq 1..n
    <3> SUFFICES ASSUME NEW i \in I, NEW a \in i..n PROVE a \in 1..n
      OBVIOUS
    <3>1. i \in 1..n
      OBVIOUS
    <3> QED
      BY <3>1
  <2> QED
    BY <2>1
<1> HIDE DEF D
<1>3. PICK x \in D : \A y \in D : <<y, x>> \notin StrictSubsetOrdering(1..n)
  BY <1>1, <1>2, WFMin
<1>4. PICK i \in I : x = i..n
  BY DEF D
<1>5. ASSUME NEW j \in I PROVE i >= j
  <2> SUFFICES ASSUME j > i PROVE FALSE
    OBVIOUS
  <2>1. j..n \in D /\ j..n \subseteq 1..n /\ i..n \subseteq 1..n
    BY DEF D
  <2>2. i \in Nat /\ j \in Nat /\ i <= n
    OBVIOUS
  <2>3. j..n \subseteq i..n /\ i \in i..n /\ i \notin j..n
    BY <2>2
  <2> QED
    BY <1>3, <1>4, <2>1, <2>3 DEF StrictSubsetOrdering
<1> QED
  BY <1>5 DEF Max

(***************************************************************************)
(* A name that is defined is that of a variable of the current context,    *)
(* and its address is that of its place (ansisop_obtener_posicion_         *)
(* variable).                                                              *)
(***************************************************************************)
LEMMA ContextoBien ==
  ASSUME TypeOK, Pila, NEW k \in Vivos
  PROVE  /\ k \in 1..Len(Contextos) /\ Contextos[k] \in IndicesDeStack
         /\ Len(Contextos[k].variables) \in Nat
         /\ \A i \in 1..Len(Contextos[k].variables) : LugarDe(k, i) \in Lugares
<1>1. Contextos \in Seq(IndicesDeStack \cup {SinIniciar}) /\ pcb.contexto_actual \in Nat
  BY DEF TypeOK, Pcbs, Contextos
<1>2. k \in 1..Len(Contextos)
  BY <1>1 DEF Pila, Vivos
<1>3. Contextos[k] \in IndicesDeStack
  <2>1. Contextos[k] \in IndicesDeStack \cup {SinIniciar}
    BY <1>1, <1>2
  <2> QED
    BY <2>1 DEF Pila
<1>4. Contextos[k].variables \in Seq(VariablesStack)
  BY <1>3 DEF IndicesDeStack
<1>5. Len(Contextos[k].variables) \in Nat /\ \A i \in 1..Len(Contextos[k].variables) :
        Contextos[k].variables[i] \in VariablesStack
  BY <1>4
<1> QED
  BY <1>2, <1>3, <1>4, <1>5 DEF LugarDe, VariablesStack

(* A variable that is alive is past the text of the program.               *)
LEMMA LugarVivo ==
  ASSUME TypeOK, Pila, NEW k \in Vivos, NEW i \in 1..Len(Contextos[k].variables)
  PROVE  /\ Direccion(LugarDe(k, i)) \in Nat
         /\ Direccion(LugarDe(k, i)) >= programa.largo
         /\ LugarDe(k, i).size = SizeofInt
<1>1. programa.largo \in Nat /\ SizeofInt \in Nat
  BY ProgramasAssumption, TamaniosAssumption DEF TypeOK
<1>2. PICK m \in Nat : Repartidas(m)
  BY DEF Pila
<1>3. PICK j \in 1..m : LugarDe(k, i) = Lugar(programa.largo + SizeofInt * j)
  BY <1>2 DEF Repartidas
<1>4. PICK d \in Nat : d = programa.largo + SizeofInt * j /\ d >= programa.largo
  <2>1. SizeofInt * j \in Nat
    BY <1>1
  <2> QED
    BY <1>1, <2>1
<1>5. Direccion(Lugar(d)) = d + Corrida(d) /\ Corrida(d) \in Nat
  BY LugarBien
<1> QED
  BY <1>1, <1>3, <1>4, <1>5 DEF Lugar

(* A name that is defined has an address past the text of the program.     *)
LEMMA PosicionBien ==
  ASSUME TypeOK, Pila, NEW nombre, Definida(nombre)
  PROVE  ObtenerPosicion(nombre) \in Nat /\ ObtenerPosicion(nombre) >= programa.largo
<1> DEFINE k == pcb.contexto_actual + 1
           n == Len(ContextoActual.variables)
           I == {i \in 1..n : ContextoActual.variables[i].id = nombre}
<1>1. k \in Vivos /\ ContextoActual = Contextos[k]
  BY SMTT(30) DEF Vivos, ContextoActual, TypeOK, Pcbs
<1>2. n \in Nat /\ ContextoActual.variables \in Seq(VariablesStack)
  BY <1>1, ContextoBien DEF IndicesDeStack
<1>3. SelectLastInSeq(ContextoActual.variables, LAMBDA v : v.id = nombre)
        = (IF I # {} THEN Max(I) ELSE 0)
  BY DEF SelectLastInSeq
<1>4. PICK i : i = SelectLastInSeq(ContextoActual.variables, LAMBDA v : v.id = nombre)
  OBVIOUS
<1>5. ObtenerPosicion(nombre)
        = IF i = 0 THEN -1 ELSE Direccion(ContextoActual.variables[i].posicion_memoria)
  BY <1>4 DEF ObtenerPosicion
<1>6. i # 0
  BY <1>5 DEF Definida
<1>7. i \in 1..n
  BY <1>2, <1>3, <1>4, <1>6, HayUltimo
<1>8. ObtenerPosicion(nombre) = Direccion(LugarDe(k, i))
  BY <1>1, <1>5, <1>6 DEF LugarDe
<1> QED
  BY <1>1, <1>7, <1>8, LugarVivo

-----------------------------------------------------------------------------
(* What a step leaves as it is.                                            *)

(***************************************************************************)
(* The thread between two requests.                                        *)
(***************************************************************************)
LEMMA QuietoBien ==
  ASSUME NEW e \in Etapas
  PROVE  /\ Quieto(e) \in Hilos /\ Quieto(e).etapa = e /\ Quieto(e).espera = NULO
         /\ Quieto(e).pedidos = <<>> /\ Quieto(e).leido = <<>>
         /\ \A s \in BOOLEAN : LET q == [Quieto(e) EXCEPT !.salto = s]
                               IN q \in Hilos /\ q.etapa = e /\ q.espera = NULO
<1>1. PICK q : q = Quieto(e)
  OBVIOUS
<1>2. q = [etapa |-> e, espera |-> NULO, pedidos |-> <<>>, leido |-> <<>>, escrito |-> 0,
           direccion |-> 0, valor |-> NULO, salto |-> FALSE]
  BY <1>1 DEF Quieto
<1>3. q \in Hilos
  <2>1. <<>> \in Seq(Trozos) /\ <<>> \in Seq(Contenidos)
    OBVIOUS
  <2> QED
    BY <1>2, <2>1 DEF Hilos
<1>4. ASSUME NEW s \in BOOLEAN
      PROVE  /\ [q EXCEPT !.salto = s] \in Hilos
             /\ [q EXCEPT !.salto = s].etapa = e /\ [q EXCEPT !.salto = s].espera = NULO
  BY <1>2, <1>3 DEF Hilos
<1> QED
  BY <1>1, <1>2, <1>3, <1>4

(***************************************************************************)
(* The stack is what the PCB says, and nothing else.                       *)
(***************************************************************************)
LEMMA PilaSigue ==
  ASSUME Pila, UNCHANGED <<programa, pcb>>
  PROVE  Pila'
BY DEF Pila, Vivos, Repartidas, LugarDe, Contextos

(* The PCB keeps being of the program when no step changes it, and the     *)
(* thread does not go back to the fetch with the pc before the first line. *)
LEMMA DelProgramaSigue ==
  ASSUME DelPrograma, UNCHANGED <<programa, pcb>>,
         hilo'.etapa \in {"afuera", "codigo"} => hilo.etapa \in {"afuera", "codigo"}
  PROVE  DelPrograma'
BY DEF DelPrograma, Lineas, Contextos

(***************************************************************************)
(* While nobody writes, and nothing more is asked to write.                *)
(***************************************************************************)
LEMMA FueraSigue ==
  ASSUME FueraDelTexto, UNCHANGED <<programa, pcb, memoria>>,
         pedido' = pedido \/ pedido' = NULO \/ pedido'.op = "leer",
         hilo'.etapa = "asignar" => hilo.etapa = "asignar" /\ hilo'.pedidos = hilo.pedidos
  PROVE  FueraDelTexto'
BY DEF FueraDelTexto, Primero, Direccion, Contextos

(***************************************************************************)
(* How much there is of each thing: the request, its answer and the units. *)
(***************************************************************************)
LEMMA Cuantas ==
  ASSUME TypeOK, UnaRespuesta
  PROVE  /\ hilo.espera = NULO =>
              pedido = NULO /\ respuesta = NULO /\ \A s \in Semaforos : semaforos[s] = 0
         /\ hilo.espera # NULO =>
              \/ /\ pedido # NULO /\ respuesta = NULO /\ \A s \in Semaforos : semaforos[s] = 0
              \/ /\ pedido = NULO /\ respuesta # NULO /\ \A s \in Semaforos : semaforos[s] = 0
              \/ /\ pedido = NULO /\ respuesta = NULO
                 /\ \E s \in Semaforos :
                      semaforos[s] = 1 /\ \A r \in Semaforos \ {s} : semaforos[r] = 0
<1>1. \A s \in Semaforos : semaforos[s] \in Nat
  BY DEF TypeOK
<1>2. PICK a \in Nat, b \in Nat, c \in Nat :
        /\ a = semaforos["s_codigo"] /\ b = semaforos["s_variable_stack"]
        /\ c = semaforos["s_escribir_pagina"]
  BY <1>1 DEF Semaforos
<1>3. a + b + c + (IF pedido = NULO THEN 0 ELSE 1) + (IF respuesta = NULO THEN 0 ELSE 1)
        = (IF hilo.espera = NULO THEN 0 ELSE 1)
  BY <1>2 DEF UnaRespuesta
<1>4. CASE hilo.espera = NULO
  <2>1. a = 0 /\ b = 0 /\ c = 0 /\ pedido = NULO /\ respuesta = NULO
    BY <1>3, <1>4
  <2> QED
    BY <1>2, <1>4, <2>1 DEF Semaforos
<1>5. CASE hilo.espera # NULO
  <2>1. \/ pedido # NULO /\ respuesta = NULO /\ a = 0 /\ b = 0 /\ c = 0
        \/ pedido = NULO /\ respuesta # NULO /\ a = 0 /\ b = 0 /\ c = 0
        \/ pedido = NULO /\ respuesta = NULO
           /\ ((a = 1 /\ b = 0 /\ c = 0) \/ (a = 0 /\ b = 1 /\ c = 0) \/ (a = 0 /\ b = 0 /\ c = 1))
    <3>1. PICK x \in Nat : x = (IF pedido = NULO THEN 0 ELSE 1)
      OBVIOUS
    <3>2. PICK y \in Nat : y = (IF respuesta = NULO THEN 0 ELSE 1)
      OBVIOUS
    <3>3. a + b + c + x + y = 1
      BY <1>3, <1>5, <3>1, <3>2
    <3>4. \/ x = 1 /\ y = 0 /\ a = 0 /\ b = 0 /\ c = 0
          \/ x = 0 /\ y = 1 /\ a = 0 /\ b = 0 /\ c = 0
          \/ x = 0 /\ y = 0
             /\ ((a = 1 /\ b = 0 /\ c = 0) \/ (a = 0 /\ b = 1 /\ c = 0) \/ (a = 0 /\ b = 0 /\ c = 1))
      BY <3>3
    <3>5. (x = 1 <=> pedido # NULO) /\ (x = 0 <=> pedido = NULO)
      BY <3>1
    <3>6. (y = 1 <=> respuesta # NULO) /\ (y = 0 <=> respuesta = NULO)
      BY <3>2
    <3> QED
      BY <3>4, <3>5, <3>6
  <2>2. Semaforos = {"s_codigo", "s_variable_stack", "s_escribir_pagina"}
    BY DEF Semaforos
  <2>3. CASE pedido = NULO /\ respuesta = NULO
    <3>1. \E s \in Semaforos : semaforos[s] = 1 /\ \A r \in Semaforos \ {s} : semaforos[r] = 0
      <4>1. CASE a = 1
        <5>1. semaforos["s_codigo"] = 1 /\ \A r \in Semaforos \ {"s_codigo"} : semaforos[r] = 0
          BY <1>2, <2>1, <2>2, <2>3, <4>1
        <5> QED
          BY <2>2, <5>1
      <4>2. CASE b = 1
        <5>1. semaforos["s_variable_stack"] = 1
              /\ \A r \in Semaforos \ {"s_variable_stack"} : semaforos[r] = 0
          BY <1>2, <2>1, <2>2, <2>3, <4>2
        <5> QED
          BY <2>2, <5>1
      <4>3. CASE c = 1
        <5>1. semaforos["s_escribir_pagina"] = 1
              /\ \A r \in Semaforos \ {"s_escribir_pagina"} : semaforos[r] = 0
          BY <1>2, <2>1, <2>2, <2>3, <4>3
        <5> QED
          BY <2>2, <5>1
      <4> QED
        BY <2>1, <2>3, <4>1, <4>2, <4>3
    <3> QED
      BY <1>5, <2>3, <3>1
  <2>4. CASE ~(pedido = NULO /\ respuesta = NULO)
    <3>1. \A s \in Semaforos : semaforos[s] = 0
      BY <1>2, <2>1, <2>2, <2>4
    <3> QED
      BY <1>5, <2>1, <2>4, <3>1
  <2> QED
    BY <2>3, <2>4
<1> QED
  BY <1>4, <1>5

(***************************************************************************)
(* A request that is sent, and an answer that is taken.                    *)
(***************************************************************************)
LEMMA SePide ==
  ASSUME TypeOK, UnaRespuesta, hilo.espera = NULO, pedido' # NULO, hilo'.espera # NULO,
         UNCHANGED <<semaforos, respuesta>>
  PROVE  UnaRespuesta'
<1>1. pedido = NULO /\ respuesta = NULO /\ \A s \in Semaforos : semaforos[s] = 0
  BY Cuantas
<1> QED
  BY <1>1 DEF UnaRespuesta, Semaforos

(* After an answer is taken there is nothing left, neither a request nor   *)
(* an answer nor a unit.                                                   *)
LEMMA SeRecibe ==
  ASSUME TypeOK, UnaRespuesta, NEW s \in Semaforos, Esperar(s), Bajar(s), hilo'.espera = NULO,
         UNCHANGED <<pedido, respuesta>>
  PROVE  /\ UnaRespuesta' /\ semaforos' \in [Semaforos -> Nat]
         /\ pedido = NULO /\ respuesta = NULO
<1>1. hilo.espera # NULO /\ semaforos[s] # 0
  BY NuloAssumption DEF Esperar, TypeOK
<1>2. /\ pedido = NULO /\ respuesta = NULO
      /\ semaforos[s] = 1 /\ \A r \in Semaforos \ {s} : semaforos[r] = 0
  BY <1>1, Cuantas
<1>3. semaforos' = [r \in Semaforos |-> 0]
  <2>1. semaforos' = [semaforos EXCEPT ![s] = semaforos[s] - 1] /\ semaforos \in [Semaforos -> Nat]
    BY DEF Bajar, TypeOK
  <2>2. \A r \in Semaforos : semaforos'[r] = 0
    BY <1>2, <2>1
  <2>3. semaforos' = [r \in Semaforos |-> semaforos'[r]]
    BY <2>1
  <2> QED
    BY <2>2, <2>3
<1> QED
  BY <1>2, <1>3 DEF UnaRespuesta, Semaforos

(* A thread that goes on waiting, or that does not wait, with the same     *)
(* things on their way.                                                    *)
LEMMA SeQueda ==
  ASSUME UnaRespuesta, hilo'.espera = hilo.espera, UNCHANGED <<semaforos, pedido, respuesta>>
  PROVE  UnaRespuesta'
BY DEF UnaRespuesta

(***************************************************************************)
(* The types, after a step of the thread that does not touch the PCB or of *)
(* the one that reads the socket.                                          *)
(***************************************************************************)
LEMMA TiposSiguen ==
  ASSUME TypeOK, UNCHANGED <<programa, pcb, memoria>>,
         hilo' \in Hilos, semaforos' \in [Semaforos -> Nat],
         pagina_es_codigo' \in BOOLEAN, excepcion_umc' \in BOOLEAN, indefinido' \in BOOLEAN,
         valor_pagina' \in Seq(Contenidos),
         pedido' \in PedidosUmc \cup {NULO}, respuesta' \in RespuestasUmc \cup {NULO}
  PROVE  TypeOK'
BY DEF TypeOK, Direccionables

(***************************************************************************)
(* The instruction is one of the program, and its text is in the memory.   *)
(***************************************************************************)
LEMMA InstruccionBien ==
  ASSUME TypeOK, DelPrograma, hilo.etapa \in {"afuera", "codigo"}
  PROVE  /\ Instruccion \in Instrucciones
         /\ Instruccion.start + Instruccion.offset <= programa.largo
         /\ PedidosDeInstruccion(Instruccion) \in Seq(Trozos)
         /\ Len(PedidosDeInstruccion(Instruccion)) \in Nat
<1>1. PICK s \in Seq(Instrucciones) : s = programa.instrucciones /\ Len(s) \in Nat
  BY ProgramasAssumption DEF TypeOK
<1>2. PICK k \in 1..Len(s) : k = pcb.pc + 1
  <2>1. pcb.pc \in -1..(Len(s) - 1) /\ pcb.pc # -1
    BY <1>1 DEF DelPrograma, Lineas
  <2> QED
    BY <1>1, <2>1
<1>3. Instruccion = s[k] /\ s[k] \in Instrucciones
  BY <1>1, <1>2 DEF Instruccion, DelPrograma
<1>4. s[k].start + s[k].offset <= programa.largo
  <2>1. k \in DOMAIN s
    BY <1>1, <1>2
  <2> QED
    BY <1>1, <2>1, ProgramasAssumption DEF TypeOK
<1>5. PICK a \in Nat, b \in Nat : a = Instruccion.start /\ b = Instruccion.offset
  BY <1>3 DEF Instrucciones
<1>6. PedidosDeInstruccion(Instruccion) = Pedidos(a, b) /\ Pedidos(a, b) \in Seq(Trozos)
  BY <1>5, PedidosBien DEF PedidosDeInstruccion
<1>7. \A q \in Seq(Trozos) : Len(q) \in Nat
  OBVIOUS
<1> QED
  BY <1>3, <1>4, <1>6, <1>7

-----------------------------------------------------------------------------
(* The fetch of an instruction.                                            *)

(***************************************************************************)
(* It begins with all its requests to send and nothing read                *)
(* (devuelve_instruccion_a_ejecutar).                                      *)
(***************************************************************************)
LEMMA SigueEmpezar ==
  ASSUME Inv, EmpezarInstruccion
  PROVE  Inv'
<1>1. TypeOK /\ hilo.etapa = "afuera" /\ hilo.espera = NULO
  BY DEF Inv, EmpezarInstruccion, Etapa
<1>2. PICK i \in Instrucciones : i = Instruccion /\ PedidosDeInstruccion(i) \in Seq(Trozos)
                                 /\ Len(PedidosDeInstruccion(i)) \in Nat
  BY <1>1, InstruccionBien DEF Inv
<1>3. PICK P \in Seq(Trozos) : P = PedidosDeInstruccion(i) /\ Len(P) \in Nat
  BY <1>2
<1>4. \/ /\ hilo'.etapa = "fin" /\ hilo' \in Hilos /\ hilo'.espera = NULO
      \/ /\ hilo'.etapa = "codigo" /\ hilo' \in Hilos /\ hilo'.espera = NULO
         /\ hilo'.pedidos = P /\ hilo'.leido = <<>>
  <2>1. CASE excepcion_umc
    BY <2>1, QuietoBien DEF EmpezarInstruccion, Etapas
  <2>2. CASE ~excepcion_umc
    <3>1. PICK q \in Hilos : q = Quieto("codigo") /\ q.etapa = "codigo" /\ q.espera = NULO
                             /\ q.leido = <<>>
      BY QuietoBien DEF Etapas
    <3>2. hilo' = [q EXCEPT !.pedidos = P]
      BY <1>2, <1>3, <2>2, <3>1 DEF EmpezarInstruccion
    <3> QED
      BY <3>1, <3>2 DEF Hilos
  <2> QED
    BY <2>1, <2>2
<1>5. TypeOK'
  BY <1>1, <1>4, TiposSiguen DEF EmpezarInstruccion, umc, TypeOK
<1>6. DelPrograma'
  BY <1>1, <1>4, DelProgramaSigue DEF Inv, EmpezarInstruccion
<1>7. Etapa'
  BY <1>4, NuloAssumption DEF Etapa, Semaforos
<1>8. UnaRespuesta'
  BY <1>1, <1>4, SeQueda DEF Inv, EmpezarInstruccion, umc
<1>9. FueraDelTexto'
  BY <1>4, FueraSigue DEF Inv, EmpezarInstruccion, umc
<1>10. Pila'
  BY PilaSigue DEF Inv, EmpezarInstruccion
<1>11. LecturaDelCodigo'
  <2> SUFFICES ASSUME hilo'.etapa = "codigo"
               PROVE  0 \in 0..Len(P) /\ Lectura(i, 0)'
    <3>1. Instruccion' = i
      BY <1>2 DEF EmpezarInstruccion, Instruccion
    <3> QED
      BY <1>3, <3>1 DEF LecturaDelCodigo
  <2>1. 0 \in 0..Len(P)
    BY <1>3
  <2>2. LoQueFalta(P, 0)'
    BY <1>3, <1>4 DEF LoQueFalta
  <2>3. Trecho(i.start, Leidos(i, 0)) = <<>>
    BY DEF Trecho, Leidos
  <2> QED
    BY <1>3, <1>4, <2>1, <2>2, <2>3 DEF Lectura
<1> QED
  BY <1>5, <1>6, <1>7, <1>8, <1>9, <1>10, <1>11 DEF Inv

(***************************************************************************)
(* What is asked is the first of the requests that are left, whoever asks  *)
(* (leo_instruccion_desde_UMC, leo_variable_desde_UMC).                    *)
(***************************************************************************)
Piden(etapa, esCodigo, semaforo) ==
  \/ etapa = "codigo" /\ esCodigo = TRUE /\ semaforo = "s_codigo"
  \/ etapa = "derefenciar" /\ esCodigo = FALSE /\ semaforo = "s_variable_stack"

(* A request that is sent is the first of the ones that are left           *)
(* (leo_instruccion_desde_UMC, leo_variable_desde_UMC).                    *)
LEMMA SiguePedir ==
  ASSUME Inv, NEW e, NEW c, NEW s, Piden(e, c, s), PedirPagina(e, c, s)
  PROVE  Inv'
<1>1. /\ TypeOK /\ hilo.etapa = e /\ hilo.espera = NULO /\ hilo \in Hilos
      /\ hilo.pedidos \in Seq(Trozos) /\ hilo.pedidos # <<>>
      /\ s \in Semaforos /\ c \in BOOLEAN
  BY DEF Inv, TypeOK, PedirPagina, Hilos, Piden, Semaforos
<1>2. PICK h \in Trozos : h = Head(hilo.pedidos) /\ h = hilo.pedidos[1]
  BY <1>1
<1>3. /\ pedido' = [op |-> "leer", donde |-> h, bytes |-> <<>>] /\ pedido' \in PedidosUmc
      /\ pedido' # NULO /\ pedido'.op = "leer" /\ pedido'.donde = h
  <2>1. pedido' = [op |-> "leer", donde |-> h, bytes |-> <<>>]
    BY <1>2 DEF PedirPagina
  <2>2. <<>> \in Seq(Contenidos)
    OBVIOUS
  <2>3. pedido' \in PedidosUmc
    BY <2>1, <2>2 DEF PedidosUmc
  <2> QED
    BY <2>1, <2>3, NuloAssumption
<1>4. /\ hilo' = [hilo EXCEPT !.espera = s] /\ hilo' \in Hilos /\ hilo'.espera = s
      /\ hilo'.etapa = e /\ hilo'.pedidos = hilo.pedidos /\ hilo'.leido = hilo.leido
  BY <1>1 DEF PedirPagina, Hilos
<1>5. s # NULO /\ pedido = NULO /\ respuesta = NULO
  <2>1. pedido = NULO /\ respuesta = NULO
    BY <1>1, Cuantas DEF Inv
  <2> QED
    BY <1>1, <2>1, NuloAssumption
<1>6. TypeOK'
  BY <1>1, <1>3, <1>4, TiposSiguen DEF PedirPagina, TypeOK
<1>7. DelPrograma'
  BY <1>1, <1>4, DelProgramaSigue DEF Inv, PedirPagina
<1>8. Etapa'
  BY <1>1, <1>4, NuloAssumption DEF Etapa, Semaforos, Piden
<1>9. UnaRespuesta'
  BY <1>1, <1>3, <1>4, <1>5, SePide DEF Inv, PedirPagina
<1>10. FueraDelTexto'
  BY <1>1, <1>3, <1>4, FueraSigue DEF Inv, PedirPagina, Piden
<1>11. Pila'
  BY PilaSigue DEF Inv, PedirPagina
<1>12. LecturaDelCodigo'
  <2> SUFFICES ASSUME hilo'.etapa = "codigo" PROVE LecturaDelCodigo'
    BY DEF LecturaDelCodigo
  <2>1. hilo.etapa = "codigo"
    BY <1>1, <1>4
  <2>2. PICK i \in Instrucciones : i = Instruccion /\ PedidosDeInstruccion(i) \in Seq(Trozos)
                                   /\ Len(PedidosDeInstruccion(i)) \in Nat
    BY <1>1, <2>1, InstruccionBien DEF Inv
  <2>3. PICK P \in Seq(Trozos) : P = PedidosDeInstruccion(i) /\ Len(P) \in Nat
    BY <2>2
  <2>4. Instruccion' = i
    BY <2>2 DEF PedirPagina, Instruccion
  <2>5. PICK j \in 0..Len(P) : Lectura(i, j)
    BY <2>1, <2>2, <2>3 DEF Inv, LecturaDelCodigo
  <2>6. LoQueFalta(P, j)
    BY <2>3, <2>5 DEF Lectura
  <2>7. LoQueFalta(P, j)' /\ h = P[j + 1]
    <3>1. Len(hilo.pedidos) \in Nat /\ 1 \in 1..Len(hilo.pedidos)
      BY <1>1
    <3> QED
      BY <1>2, <1>4, <2>6, <3>1 DEF LoQueFalta
  <2>8. Lectura(i, j)'
    BY <1>1, <1>3, <1>4, <1>5, <2>3, <2>5, <2>7 DEF Lectura, PedirPagina
  <2> QED
    BY <2>3, <2>4, <2>8 DEF LecturaDelCodigo
<1> QED
  BY <1>6, <1>7, <1>8, <1>9, <1>10, <1>11, <1>12 DEF Inv

(***************************************************************************)
(* Two stretches of the text, one after the other, are one.                *)
(***************************************************************************)
Letras == {Codigo} \X Nat

(* A stretch of the text, byte by byte.                                    *)
LEMMA TrechoBien ==
  ASSUME NEW a \in Nat, NEW n \in Nat
  PROVE  /\ Trecho(a, n) \in Seq(Letras) /\ Len(Trecho(a, n)) = n
         /\ \A b \in 1..n : Trecho(a, n)[b] = <<Codigo, a + b - 1>>
<1>1. \A b \in 1..n : a + b - 1 \in Nat
  OBVIOUS
<1>2. \A b \in 1..n : <<Codigo, a + b - 1>> \in Letras
  BY <1>1 DEF Letras
<1> QED
  BY <1>2 DEF Trecho

(* Two stretches of the text, one after the other, are one.                *)
LEMMA TrechosJuntos ==
  ASSUME NEW a \in Nat, NEW m \in Nat, NEW n \in Nat
  PROVE  Trecho(a, m) \o Trecho(a + m, n) = Trecho(a, m + n)
<1>1. PICK c \in Nat : c = a + m
  OBVIOUS
<1>2. PICK l \in Nat : l = m + n
  OBVIOUS
<1>3. PICK s \in Seq(Letras) :
        s = Trecho(a, m) /\ Len(s) = m /\ \A b \in 1..m : s[b] = <<Codigo, a + b - 1>>
  BY TrechoBien
<1>4. PICK t \in Seq(Letras) :
        t = Trecho(c, n) /\ Len(t) = n /\ \A b \in 1..n : t[b] = <<Codigo, c + b - 1>>
  BY TrechoBien
<1>5. PICK u \in Seq(Letras) :
        u = Trecho(a, l) /\ Len(u) = l /\ \A b \in 1..l : u[b] = <<Codigo, a + b - 1>>
  BY TrechoBien
<1>6. /\ s \o t \in Seq(Letras) /\ Len(s \o t) = m + n
      /\ \A b \in 1..(m + n) : (s \o t)[b] = IF b <= m THEN s[b] ELSE t[b - m]
  <2>1. s \o t \in Seq(Letras) /\ Len(s \o t) = Len(s) + Len(t)
    BY ConcatProperties
  <2>2. \A b \in 1..(Len(s) + Len(t)) : (s \o t)[b] = IF b <= Len(s) THEN s[b] ELSE t[b - Len(s)]
    BY ConcatProperties
  <2> QED
    BY <1>3, <1>4, <2>1, <2>2
<1>7. \A b \in 1..Len(s \o t) : (s \o t)[b] = u[b]
  <2> SUFFICES ASSUME NEW b \in 1..l PROVE (s \o t)[b] = u[b]
    BY <1>2, <1>6
  <2>1. b \in 1..(m + n) /\ b \in Nat
    BY <1>2
  <2>2. CASE b <= m
    <3>1. b \in 1..m /\ (s \o t)[b] = s[b]
      BY <1>6, <2>1, <2>2
    <3> QED
      BY <1>3, <1>5, <3>1
  <2>3. CASE ~(b <= m)
    <3>1. b - m \in 1..n /\ c + (b - m) - 1 = a + b - 1
      BY <1>1, <2>1, <2>3
    <3>2. t[b - m] = <<Codigo, c + (b - m) - 1>>
      BY <1>4, <3>1
    <3> QED
      BY <1>5, <1>6, <2>1, <2>3, <3>1, <3>2
  <2> QED
    BY <2>2, <2>3
<1>8. s \o t = u
  BY <1>2, <1>5, <1>6, <1>7, SeqEqual
<1> QED
  BY <1>1, <1>2, <1>3, <1>4, <1>5, <1>8

(***************************************************************************)
(* What the thread has after an answer with a page: one request less to    *)
(* send, and its bytes after the ones it had.                              *)
(***************************************************************************)
LEMMA HiloRecibe ==
  ASSUME hilo \in Hilos, valor_pagina \in Seq(Contenidos), hilo.pedidos # <<>>, NEW h,
         h = [hilo EXCEPT !.espera = NULO, !.leido = hilo.leido \o valor_pagina,
                          !.pedidos = Tail(hilo.pedidos)]
  PROVE  /\ h \in Hilos /\ h.espera = NULO /\ h.etapa = hilo.etapa
         /\ h.leido = hilo.leido \o valor_pagina
         /\ Len(h.pedidos) = Len(hilo.pedidos) - 1
         /\ \A i \in 1..Len(h.pedidos) : h.pedidos[i] = hilo.pedidos[i + 1]
<1>1. PICK a \in Seq(Contenidos) : a = hilo.leido
  BY DEF Hilos
<1>2. PICK p \in Seq(Trozos) : p = hilo.pedidos
  BY DEF Hilos
<1>3. a \o valor_pagina \in Seq(Contenidos)
  BY ConcatProperties
<1>4. Tail(p) \in Seq(Trozos) /\ Len(Tail(p)) = Len(p) - 1
  BY <1>2, HeadTailProperties
<1>5. \A i \in 1..Len(Tail(p)) : Tail(p)[i] = p[i + 1]
  BY <1>2, HeadTailProperties
<1>6. h = [hilo EXCEPT !.espera = NULO, !.leido = a \o valor_pagina, !.pedidos = Tail(p)]
  BY <1>1, <1>2
<1>7. h.leido = a \o valor_pagina /\ h.pedidos = Tail(p) /\ h.espera = NULO /\ h.etapa = hilo.etapa
  BY <1>6 DEF Hilos
<1>8. h \in Hilos
  BY <1>3, <1>4, <1>6 DEF Hilos
<1> QED
  BY <1>1, <1>2, <1>4, <1>5, <1>7, <1>8

(* The bytes of a page of the text go after the ones the thread had: one   *)
(* request more has brought its stretch.                                   *)
LEMMA SigueRecibirCodigo ==
  ASSUME Inv, RecibirCodigo
  PROVE  Inv'
<1>1. /\ TypeOK /\ hilo \in Hilos /\ hilo.espera = "s_codigo" /\ hilo.etapa = "codigo"
      /\ hilo.pedidos # <<>> /\ valor_pagina \in Seq(Contenidos) /\ "s_codigo" \in Semaforos
  BY DEF Inv, TypeOK, RecibirCodigo, Esperar, Etapa, Semaforos
<1>2. PICK h \in Hilos :
        /\ h = [hilo EXCEPT !.espera = NULO, !.leido = hilo.leido \o valor_pagina,
                            !.pedidos = Tail(hilo.pedidos)]
        /\ h.espera = NULO /\ h.etapa = "codigo"
        /\ h.leido = hilo.leido \o valor_pagina
        /\ Len(h.pedidos) = Len(hilo.pedidos) - 1
        /\ \A i \in 1..Len(h.pedidos) : h.pedidos[i] = hilo.pedidos[i + 1]
  BY <1>1, HiloRecibe
<1>3. /\ hilo' = IF excepcion_umc THEN Quieto("fin") ELSE h
      /\ hilo' \in Hilos /\ hilo'.espera = NULO /\ hilo'.etapa \in {"codigo", "fin"}
  <2>1. hilo' = IF excepcion_umc THEN Quieto("fin") ELSE h
    BY <1>2 DEF RecibirCodigo
  <2> QED
    BY <1>2, <2>1, QuietoBien DEF Etapas
<1>4. Esperar("s_codigo") /\ Bajar("s_codigo")
  BY DEF RecibirCodigo
<1>5. /\ UnaRespuesta' /\ semaforos' \in [Semaforos -> Nat] /\ pedido = NULO /\ respuesta = NULO
  BY <1>1, <1>3, <1>4, SeRecibe DEF Inv, RecibirCodigo, umc
<1>6. TypeOK'
  <2>1. indefinido' \in BOOLEAN /\ valor_pagina' \in Seq(Contenidos)
    BY DEF RecibirCodigo
  <2> QED
    BY <1>1, <1>3, <1>5, <2>1, TiposSiguen DEF RecibirCodigo, TypeOK, umc
<1>7. DelPrograma'
  BY <1>1, <1>3, DelProgramaSigue DEF Inv, RecibirCodigo
<1>8. Etapa'
  BY <1>3, NuloAssumption DEF Etapa, Semaforos
<1>9. FueraDelTexto'
  BY <1>3, FueraSigue DEF Inv, RecibirCodigo, umc
<1>10. Pila'
  BY PilaSigue DEF Inv, RecibirCodigo
<1>11. LecturaDelCodigo'
  <2> SUFFICES ASSUME hilo'.etapa = "codigo" PROVE LecturaDelCodigo'
    BY DEF LecturaDelCodigo
  <2>1. ~excepcion_umc /\ hilo' = h
    BY <1>3, QuietoBien DEF Etapas
  <2>2. PICK i \in Instrucciones : i = Instruccion /\ PedidosDeInstruccion(i) \in Seq(Trozos)
                                   /\ Len(PedidosDeInstruccion(i)) \in Nat
    BY <1>1, InstruccionBien DEF Inv
  <2>3. PICK P \in Seq(Trozos) : P = PedidosDeInstruccion(i) /\ Len(P) \in Nat
    BY <2>2
  <2>4. Instruccion' = i
    BY <2>2 DEF RecibirCodigo, Instruccion
  <2>5. PICK j \in 0..Len(P) : Lectura(i, j)
    BY <1>1, <2>2, <2>3 DEF Inv, LecturaDelCodigo
  <2>6. LoQueFalta(P, j) /\ Len(hilo.pedidos) \in Nat \ {0}
    BY <1>1, <2>3, <2>5 DEF Lectura, Hilos
  <2>7. j + 1 \in 0..Len(P) /\ j \in 0..(Len(P) - 1) /\ j \in Nat
    BY <2>3, <2>6 DEF LoQueFalta
  <2>8. LoQueFalta(P, j + 1)'
    <3>1. Len(h.pedidos) = Len(P) - (j + 1)
      BY <1>2, <2>3, <2>6, <2>7 DEF LoQueFalta
    <3>2. ASSUME NEW k \in 1..Len(h.pedidos) PROVE h.pedidos[k] = P[(j + 1) + k]
      <4>1. k + 1 \in 1..Len(hilo.pedidos) /\ j + (k + 1) = (j + 1) + k
        <5>1. PICK z \in Nat : z = Len(hilo.pedidos) /\ Len(h.pedidos) = z - 1
          BY <1>2, <2>6
        <5>2. k \in 1..(z - 1) /\ j \in Nat
          BY <2>7, <5>1
        <5> QED
          BY <5>1, <5>2
      <4>2. hilo.pedidos[k + 1] = P[j + (k + 1)]
        BY <2>6, <4>1 DEF LoQueFalta
      <4> QED
        BY <1>2, <4>1, <4>2
    <3> QED
      BY <2>1, <3>1, <3>2 DEF LoQueFalta
  <2>9. ASSUME Leible(i.start, i.offset)
        PROVE  hilo'.leido = Trecho(i.start, Leidos(i, j + 1))
    <3>1. Trae(i, j)
      BY <2>3, <2>7, <2>9, PedidosLeibles
    <3>2. PICK a \in Nat, m \in Nat, n \in Nat :
            /\ a = i.start /\ m = Leidos(i, j) /\ n = P[j + 1].tamanio
            /\ Leidos(i, j + 1) = m + n
      BY <2>3, <3>1 DEF Trae, Instrucciones
    <3>3. hilo.leido = Trecho(a, m)
      BY <2>5, <2>9, <3>2 DEF Lectura
    <3>4. Bien(i, valor_pagina, j)
      BY <1>1, <1>5, <2>1, <2>5, NuloAssumption DEF Lectura
    <3>5. valor_pagina = Trecho(a + m, n)
      BY <2>3, <2>9, <3>2, <3>4 DEF Bien
    <3>6. Trecho(a, m) \o Trecho(a + m, n) = Trecho(a, m + n)
      BY TrechosJuntos
    <3> QED
      BY <1>2, <2>1, <3>2, <3>3, <3>5, <3>6
  <2>10. Lectura(i, j + 1)'
    BY <1>3, <2>3, <2>8, <2>9 DEF Lectura
  <2> QED
    BY <2>3, <2>4, <2>7, <2>10 DEF LecturaDelCodigo
<1> QED
  BY <1>5, <1>6, <1>7, <1>8, <1>9, <1>10, <1>11 DEF Inv

(***************************************************************************)
(* The parser takes the text.                                              *)
(***************************************************************************)
LEMMA SigueAnalizarLinea ==
  ASSUME Inv, AnalizarLinea
  PROVE  Inv'
<1>1. TypeOK /\ hilo.espera = NULO
  BY DEF Inv, AnalizarLinea, CodigoRecibido
<1>2. hilo' \in Hilos /\ hilo'.espera = NULO /\ hilo'.etapa \in {"analiza", "perdido"}
  BY QuietoBien DEF AnalizarLinea, Etapas
<1>3. TypeOK'
  BY <1>1, <1>2, TiposSiguen DEF AnalizarLinea, TypeOK, umc
<1>4. DelPrograma'
  BY <1>2, DelProgramaSigue DEF Inv, AnalizarLinea
<1>5. Etapa'
  BY <1>2, NuloAssumption DEF Etapa, Semaforos
<1>6. UnaRespuesta'
  BY <1>1, <1>2, SeQueda DEF Inv, AnalizarLinea, umc
<1>7. FueraDelTexto'
  BY <1>2, FueraSigue DEF Inv, AnalizarLinea, umc
<1>8. Pila'
  BY PilaSigue DEF Inv, AnalizarLinea
<1>9. LecturaDelCodigo'
  BY <1>2 DEF LecturaDelCodigo
<1> QED
  BY <1>3, <1>4, <1>5, <1>6, <1>7, <1>8, <1>9 DEF Inv

-----------------------------------------------------------------------------
(* The UMC and the thread that reads its socket.                           *)

(***************************************************************************)
(* The bytes of a value, and the addresses of a request that does not go   *)
(* past its page.                                                          *)
(***************************************************************************)
LEMMA BytesBien ==
  ASSUME NEW v \in Valores \cup {Codigo, Basura, NULO}, NEW n \in Int
  PROVE  Bytes(v, 0, n) \in Seq(Contenidos) /\ DOMAIN Bytes(v, 0, n) = 1..n
<1>1. PICK m \in Nat : 1..n = 1..m
  <2>1. CASE n >= 0
    BY <2>1
  <2>2. CASE n < 0
    <3>1. 1..n = 1..0
      BY <2>2
    <3> QED
      BY <3>1
  <2> QED
    BY <2>1, <2>2
<1>2. \A b \in 1..m : <<v, 0 + b - 1>> \in Contenidos
  <2>1. \A b \in 1..m : 0 + b - 1 \in Int
    OBVIOUS
  <2> QED
    BY <2>1 DEF Contenidos
<1>3. Bytes(v, 0, n) = [b \in 1..m |-> <<v, 0 + b - 1>>]
  BY <1>1 DEF Bytes
<1> HIDE DEF Contenidos
<1> QED
  BY <1>1, <1>2, <1>3

(* The pages of a program hold its text                                    *)
(* (obtener_cantidad_paginas_codigo_stack).                                *)
LEMMA PaginasDeUnPrograma ==
  ASSUME programa \in Programas
  PROVE  /\ CantPaginas(programa.largo) \in Nat
         /\ programa.largo <= TamanioPagina * CantPaginas(programa.largo)
<1>1. PICK T \in Nat \ {0}, l \in Nat : T = TamanioPagina /\ l = programa.largo
  <2>1. programa.largo \in Nat
    BY ProgramasAssumption
  <2>2. TamanioPagina \in Nat \ {0}
    BY TamaniosAssumption
  <2> QED
    BY <2>1, <2>2
<1>2. PICK p \in Nat, o \in 0..(T - 1) : p = l \div T /\ o = l % T /\ l = T * p + o
  BY Division
<1>3. PICK c \in Nat : c = CantPaginas(l) /\ c = p + (IF o = 0 THEN 0 ELSE 1) + STACK_SIZE
  <2>1. CantPaginas(l) = p + (IF o = 0 THEN 0 ELSE 1) + STACK_SIZE
    BY <1>1, <1>2 DEF CantPaginas
  <2>2. p + (IF o = 0 THEN 0 ELSE 1) + STACK_SIZE \in Nat
    BY CpuAssumption
  <2> QED
    BY <2>1, <2>2
<1>4. l <= T * c
  <2>1. ASSUME NEW d \in Nat, c = p + d PROVE T * c = T * p + T * d /\ T * d \in Nat
    BY <2>1
  <2>2. CASE o = 0
    <3>1. T * c = T * p + T * STACK_SIZE /\ T * STACK_SIZE \in Nat
      BY <1>3, <2>1, <2>2, CpuAssumption
    <3>2. T * p \in Nat
      OBVIOUS
    <3> QED
      BY <1>2, <2>2, <3>1, <3>2
  <2>3. CASE o # 0
    <3>1. T * c = T * p + T * (STACK_SIZE + 1)
      BY <1>3, <2>1, <2>3, CpuAssumption
    <3>2. T * (STACK_SIZE + 1) = T * STACK_SIZE + T /\ T * STACK_SIZE \in Nat /\ T * p \in Nat
      BY CpuAssumption
    <3> QED
      BY <1>2, <3>1, <3>2
  <2> QED
    BY <2>2, <2>3
<1> QED
  BY <1>1, <1>3, <1>4

(* The same of the program that is executed.                               *)
LEMMA PaginasDelPrograma ==
  ASSUME TypeOK
  PROVE  /\ CantPaginas(programa.largo) \in Nat
         /\ programa.largo <= TamanioPagina * CantPaginas(programa.largo)
BY PaginasDeUnPrograma DEF TypeOK

(* The addresses of a request that does not go past its page, nor past the *)
(* pages of the process, are of its memory.                                *)
LEMMA DireccionesBien ==
  ASSUME TypeOK, NEW d \in Trozos, d.pagina < CantPaginas(programa.largo), ~Sobra(d)
  PROVE  /\ DOMAIN Direcciones(d) = 1..d.tamanio
         /\ \A b \in 1..d.tamanio : /\ Direcciones(d)[b] = Primero(d) + b - 1
                                    /\ Direcciones(d)[b] \in Direccionables
         /\ Primero(d) \in Nat
<1>1. PICK T \in Nat \ {0}, c \in Nat : T = TamanioPagina /\ c = CantPaginas(programa.largo)
  BY TamaniosAssumption, PaginasDelPrograma
<1>2. PICK p \in Nat, o \in Nat, n \in Int : p = d.pagina /\ o = d.offset /\ n = d.tamanio
  BY DEF Trozos
<1>3. p < c /\ o + n <= T
  BY <1>1, <1>2 DEF Sobra
<1>4. PICK x \in Nat : x = p * T
  OBVIOUS
<1>5. x + T <= T * c
  <2>1. PICK e \in Nat : c = p + 1 + e
    <3>1. c - (p + 1) \in Nat /\ c = p + 1 + (c - (p + 1))
      BY <1>3
    <3> QED
      BY <3>1
  <2>2. T * (p + 1 + e) = p * T + T + T * e /\ T * e \in Nat
    OBVIOUS
  <2> QED
    BY <1>4, <2>1, <2>2
<1>6. PICK f \in Nat : f = x + o /\ f = Primero(d)
  BY <1>1, <1>2, <1>4 DEF Primero
<1>7. Direcciones(d) = [b \in 1..n |-> x + o + b - 1]
  BY <1>1, <1>2, <1>4 DEF Direcciones
<1>8. PICK z \in Nat : z = T * c
  OBVIOUS
<1>9. \A b \in 1..n : f + b - 1 \in 0..(z - 1)
  BY <1>3, <1>5, <1>6, <1>8
<1>10. Direccionables = 0..(z - 1)
  BY <1>1, <1>8 DEF Direccionables
<1> QED
  BY <1>2, <1>6, <1>7, <1>9, <1>10

(***************************************************************************)
(* The UMC reads or writes what the request says; what it writes is never  *)
(* the text of the program, and what it reads for an instruction is.       *)
(***************************************************************************)
LEMMA SigueAtenderPedido ==
  ASSUME Inv, AtenderPedido
  PROVE  Inv'
<1>1. /\ TypeOK /\ pedido # NULO /\ pedido \in PedidosUmc /\ hilo.espera # NULO
      /\ respuesta = NULO /\ \A s \in Semaforos : semaforos[s] = 0
  <2>1. TypeOK /\ UnaRespuesta /\ pedido # NULO
    BY DEF Inv, AtenderPedido
  <2>2. hilo.espera # NULO /\ respuesta = NULO /\ \A s \in Semaforos : semaforos[s] = 0
    BY <2>1, Cuantas
  <2> QED
    BY <2>1, <2>2 DEF TypeOK
<1>2. PICK d \in Trozos : d = pedido.donde
  BY <1>1 DEF PedidosUmc
<1>3. pcb.cant_paginas_codigo_stack = CantPaginas(programa.largo)
  BY DEF Inv, DelPrograma
<1> DEFINE Error == /\ respuesta' = [op |-> pedido.op, error |-> TRUE, bytes |-> <<>>]
                    /\ UNCHANGED <<memoria, indefinido>>
           Lee == /\ d.pagina < CantPaginas(programa.largo)
                  /\ pedido.op = "leer"
                  /\ respuesta' = [op |-> "leer", error |-> FALSE,
                                   bytes |-> IF Sobra(d) THEN Bytes(Basura, 0, d.tamanio)
                                             ELSE [b \in 1..d.tamanio |-> memoria[Direcciones(d)[b]]]]
                  /\ UNCHANGED <<memoria, indefinido>>
           Escribe == /\ d.pagina < CantPaginas(programa.largo)
                      /\ pedido.op = "escribir"
                      /\ respuesta' = [op |-> "escribir", error |-> FALSE, bytes |-> <<>>]
                      /\ \/ indefinido' = TRUE /\ UNCHANGED memoria
                         \/ /\ ~Sobra(d) /\ UNCHANGED indefinido
                            /\ memoria' = [a \in DOMAIN memoria |->
                                             IF a \in ToSet(Direcciones(d))
                                               THEN pedido.bytes[a - Direcciones(d)[1] + 1]
                                               ELSE memoria[a]]
<1>4. Error \/ Lee \/ Escribe
  BY <1>2, <1>3 DEF AtenderPedido
<1>5. pedido' = NULO /\ UNCHANGED <<programa, pcb, hilo, semaforos, pagina_es_codigo, valor_pagina,
                                    excepcion_umc>>
  BY DEF AtenderPedido
<1>6. <<>> \in Seq(Contenidos) /\ memoria \in [Direccionables -> Contenidos]
  BY <1>1 DEF TypeOK
<1>7. respuesta' \in RespuestasUmc
  <2>1. CASE Error
    BY <1>1, <1>6, <2>1 DEF RespuestasUmc, PedidosUmc
  <2>2. CASE Lee
    <3>1. Bytes(Basura, 0, d.tamanio) \in Seq(Contenidos)
      BY BytesBien DEF Trozos
    <3>2. ASSUME ~Sobra(d)
          PROVE  [b \in 1..d.tamanio |-> memoria[Direcciones(d)[b]]] \in Seq(Contenidos)
      <4>1. PICK m \in Nat : 1..d.tamanio = 1..m
        <5>1. PICK n \in Int : n = d.tamanio
          BY DEF Trozos
        <5>2. CASE n >= 0
          BY <5>1, <5>2
        <5>3. CASE n < 0
          <6>1. 1..n = 1..0
            BY <5>3
          <6> QED
            BY <5>1, <6>1
        <5> QED
          BY <5>2, <5>3
      <4>2. \A b \in 1..m : memoria[Direcciones(d)[b]] \in Contenidos
        BY <1>1, <1>6, <2>2, <3>2, <4>1, DireccionesBien
      <4>3. [b \in 1..m |-> memoria[Direcciones(d)[b]]] \in Seq(Contenidos)
        BY <4>2
      <4> QED
        BY <4>1, <4>3
    <3> QED
      BY <2>2, <3>1, <3>2 DEF RespuestasUmc
  <2>3. CASE Escribe
    BY <1>6, <2>3 DEF RespuestasUmc
  <2> QED
    BY <1>4, <2>1, <2>2, <2>3
<1>8. respuesta' # NULO /\ respuesta'.op = pedido.op
  BY <1>4, <1>7, NuloAssumption
<1>9. /\ memoria' \in [Direccionables -> Contenidos]
      /\ \A b \in 0..(programa.largo - 1) : memoria'[b] = <<Codigo, b>>
  <2>1. \A b \in 0..(programa.largo - 1) : memoria[b] = <<Codigo, b>>
    BY DEF Inv, FueraDelTexto
  <2>2. CASE memoria' = memoria
    BY <1>6, <2>1, <2>2
  <2>3. CASE Escribe /\ ~Sobra(d) /\ memoria' # memoria
    <3>1. Primero(d) >= programa.largo /\ DOMAIN pedido.bytes = 1..d.tamanio
      BY <1>1, <1>2, <2>3 DEF Inv, FueraDelTexto
    <3>2. /\ DOMAIN Direcciones(d) = 1..d.tamanio /\ Primero(d) \in Nat
          /\ \A b \in 1..d.tamanio : /\ Direcciones(d)[b] = Primero(d) + b - 1
                                     /\ Direcciones(d)[b] \in Direccionables
      BY <1>1, <2>3, DireccionesBien
    <3>3. memoria' = [a \in Direccionables |->
                        IF a \in ToSet(Direcciones(d)) THEN pedido.bytes[a - Direcciones(d)[1] + 1]
                                                       ELSE memoria[a]]
      BY <1>6, <2>3
    <3>4. PICK n \in Int, f \in Nat, l \in Nat :
            n = d.tamanio /\ f = Primero(d) /\ l = programa.largo /\ f >= l
      <4>1. d.tamanio \in Int
        BY DEF Trozos
      <4>2. programa.largo \in Nat
        BY <1>1, ProgramasAssumption DEF TypeOK
      <4> QED
        BY <3>1, <3>2, <4>1, <4>2
    <3>5. ASSUME NEW a \in ToSet(Direcciones(d))
          PROVE  a >= l /\ pedido.bytes[a - Direcciones(d)[1] + 1] \in Contenidos
      <4>1. PICK b \in 1..n : a = Direcciones(d)[b]
        BY <3>2, <3>4 DEF ToSet
      <4>2. b \in Nat /\ 1 \in 1..n /\ a = f + b - 1 /\ Direcciones(d)[1] = f
        <5>1. b \in Nat /\ 1 \in 1..n /\ f + 1 - 1 = f
          BY <3>4
        <5> QED
          BY <3>2, <3>4, <4>1, <5>1
      <4>3. a - Direcciones(d)[1] + 1 = b /\ a >= l
        BY <3>4, <4>2
      <4>4. pedido.bytes[b] \in Contenidos
        <5>1. pedido.bytes \in Seq(Contenidos)
          BY <1>1 DEF PedidosUmc
        <5>2. PICK s \in Seq(Contenidos) : s = pedido.bytes
          BY <5>1
        <5>3. b \in 1..Len(s)
          BY <3>1, <3>4, <4>1, <5>2, LenProperties
        <5> QED
          BY <5>2, <5>3, ElementOfSeq
      <4> QED
        BY <4>3, <4>4
    <3>6. \A a \in Direccionables : memoria'[a] \in Contenidos
      BY <1>6, <3>3, <3>5
    <3>7. memoria' \in [Direccionables -> Contenidos]
      BY <3>3, <3>6
    <3>8. ASSUME NEW b \in 0..(l - 1) PROVE memoria'[b] = <<Codigo, b>>
      <4>1. b \notin ToSet(Direcciones(d))
        BY <3>4, <3>5
      <4>2. b \in Direccionables
        <5>1. PICK z \in Nat : z = TamanioPagina * CantPaginas(programa.largo) /\ l <= z
          <6>1. TamanioPagina \in Nat
            BY TamaniosAssumption
          <6> QED
            BY <1>1, <3>4, <6>1, PaginasDelPrograma
        <5> QED
          BY <3>4, <5>1 DEF Direccionables
      <4> QED
        BY <2>1, <3>3, <3>4, <4>1, <4>2
    <3> QED
      BY <3>4, <3>7, <3>8
  <2> QED
    BY <1>4, <2>2, <2>3
<1>10. TypeOK'
  <2>1. indefinido' \in BOOLEAN
    BY <1>1, <1>4 DEF TypeOK
  <2> QED
    BY <1>1, <1>5, <1>7, <1>9, <2>1 DEF TypeOK, Direccionables
<1>11. DelPrograma'
  BY <1>5, DelProgramaSigue DEF Inv
<1>12. Etapa'
  BY <1>5 DEF Inv, Etapa
<1>13. UnaRespuesta'
  BY <1>1, <1>5, <1>8 DEF UnaRespuesta, Semaforos
<1>14. FueraDelTexto'
  BY <1>5, <1>9 DEF Inv, FueraDelTexto, Contextos, Primero, Direccion
<1>15. Pila'
  BY <1>5, PilaSigue DEF Inv
<1>16. LecturaDelCodigo'
  <2> SUFFICES ASSUME hilo'.etapa = "codigo" PROVE LecturaDelCodigo'
    BY DEF LecturaDelCodigo
  <2>1. hilo.etapa = "codigo" /\ hilo.espera = "s_codigo" /\ hilo.pedidos # <<>>
    <3>1. hilo.espera \in Semaforos
      BY <1>1 DEF TypeOK, Hilos
    <3> QED
      BY <1>5, <3>1 DEF Inv, Etapa, Semaforos
  <2>2. PICK i \in Instrucciones : i = Instruccion /\ PedidosDeInstruccion(i) \in Seq(Trozos)
                                   /\ Len(PedidosDeInstruccion(i)) \in Nat
                                   /\ i.start + i.offset <= programa.largo
    BY <1>1, <2>1, InstruccionBien DEF Inv
  <2>3. PICK P \in Seq(Trozos) : P = PedidosDeInstruccion(i) /\ Len(P) \in Nat
    BY <2>2
  <2>4. Instruccion' = i
    BY <1>5, <2>2 DEF Instruccion
  <2>5. PICK j \in 0..Len(P) : Lectura(i, j)
    BY <2>1, <2>2, <2>3 DEF Inv, LecturaDelCodigo
  <2>6. LoQueFalta(P, j) /\ Len(hilo.pedidos) \in Nat \ {0}
    BY <1>1, <2>1, <2>3, <2>5 DEF Lectura, Hilos, TypeOK
  <2>7. j \in 0..(Len(P) - 1) /\ j \in Nat
    BY <2>3, <2>6 DEF LoQueFalta
  <2>8. LoQueFalta(P, j)'
    BY <1>5, <2>6 DEF LoQueFalta
  <2>9. pedido.op = "leer" /\ d = P[j + 1]
    BY <1>1, <1>2, <2>3, <2>5 DEF Lectura
  <2>10. ASSUME ~respuesta'.error, Leible(i.start, i.offset)
         PROVE  respuesta'.bytes = Trecho(i.start + Leidos(i, j), P[j + 1].tamanio)
    <3>1. Lee
      BY <1>4, <2>9, <2>10
    <3>2. Trae(i, j)
      BY <2>3, <2>7, <2>10, PedidosLeibles
    <3>3. PICK a \in Nat, m \in Nat, n \in Nat, l \in Nat :
            /\ a = i.start /\ m = Leidos(i, j) /\ n = d.tamanio /\ l = programa.largo
            /\ a + m + n <= l
      <4>1. i.start \in Nat /\ i.offset \in Nat
        BY DEF Instrucciones
      <4>2. programa.largo \in Nat
        BY <1>1, ProgramasAssumption DEF TypeOK
      <4>3. PICK n \in Nat, m \in Nat : n = d.tamanio /\ m = Leidos(i, j) /\ m + n <= i.offset
        BY <2>3, <2>9, <3>2 DEF Trae
      <4>4. i.start + m + n <= programa.largo
        BY <2>2, <4>1, <4>2, <4>3, SMTT(30)
      <4> QED
        BY <4>1, <4>2, <4>3, <4>4
    <3>4. ~Sobra(d)
      BY <2>3, <2>9, <3>2, <3>3, TamaniosAssumption, SMTT(30) DEF Trae, Sobra, Trozos
    <3>5. respuesta'.bytes = [b \in 1..n |-> memoria[Direcciones(d)[b]]]
      BY <3>1, <3>3, <3>4
    <3>6. ASSUME NEW b \in 1..n
          PROVE  memoria[Direcciones(d)[b]] = <<Codigo, (a + m) + b - 1>>
      <4>1. Direcciones(d)[b] = Primero(d) + b - 1
        BY <1>1, <3>1, <3>3, <3>4, DireccionesBien
      <4>2. Primero(d) = a + m
        <5>1. n > 0
          OBVIOUS
        <5> QED
          BY <2>3, <2>9, <3>2, <3>3, <5>1 DEF Trae
      <4>3. (a + m) + b - 1 \in 0..(l - 1)
        <5>1. a + m + n <= l
          BY <3>3
        <5>2. b \in Nat /\ b >= 1 /\ b <= n
          OBVIOUS
        <5> QED
          BY <5>1, <5>2
      <4>4. \A x \in 0..(l - 1) : memoria[x] = <<Codigo, x>>
        BY <3>3 DEF Inv, FueraDelTexto
      <4> QED
        BY <4>1, <4>2, <4>3, <4>4
    <3> QED
      BY <2>9, <3>3, <3>5, <3>6 DEF Trecho
  <2>11. Lectura(i, j)'
    BY <1>5, <1>8, <2>3, <2>5, <2>8, <2>9, <2>10 DEF Lectura, Bien
  <2> QED
    BY <2>3, <2>4, <2>11 DEF LecturaDelCodigo
<1> QED
  BY <1>10, <1>11, <1>12, <1>13, <1>14, <1>15, <1>16 DEF Inv

(***************************************************************************)
(* The answer becomes one unit of one semaphore (atender_umc).             *)
(***************************************************************************)
LEMMA SigueAtenderUmc ==
  ASSUME Inv, AtenderUmc
  PROVE  Inv'
<1>1. /\ TypeOK /\ respuesta # NULO /\ respuesta \in RespuestasUmc /\ hilo.espera # NULO
      /\ pedido = NULO /\ \A s \in Semaforos : semaforos[s] = 0
  <2>1. TypeOK /\ UnaRespuesta /\ respuesta # NULO
    BY DEF Inv, AtenderUmc
  <2>2. hilo.espera # NULO /\ pedido = NULO /\ \A s \in Semaforos : semaforos[s] = 0
    BY <2>1, Cuantas
  <2> QED
    BY <2>1, <2>2 DEF TypeOK
<1>2. /\ respuesta' = NULO /\ excepcion_umc' = (excepcion_umc \/ respuesta.error)
      /\ valor_pagina' = IF respuesta.op = "leer" /\ ~respuesta.error THEN respuesta.bytes ELSE valor_pagina
      /\ UNCHANGED <<programa, pcb, hilo, pagina_es_codigo, pedido, memoria, indefinido>>
  BY DEF AtenderUmc
<1>3. PICK x \in Semaforos : SemaforosDe(respuesta) = {x}
  BY DEF SemaforosDe, Semaforos
<1>4. semaforos' = [s \in Semaforos |-> IF s = x THEN 1 ELSE 0]
  <2>1. semaforos' = [s \in Semaforos |-> semaforos[s] + (IF s \in SemaforosDe(respuesta) THEN 1 ELSE 0)]
    BY DEF AtenderUmc
  <2>2. \A s \in Semaforos : semaforos[s] + (IF s \in SemaforosDe(respuesta) THEN 1 ELSE 0)
                               = IF s = x THEN 1 ELSE 0
    BY <1>1, <1>3
  <2> QED
    BY <2>1, <2>2
<1>5. TypeOK'
  <2>1. semaforos' \in [Semaforos -> Nat]
    BY <1>4
  <2>2. valor_pagina' \in Seq(Contenidos) /\ excepcion_umc' \in BOOLEAN
    BY <1>1, <1>2 DEF TypeOK, RespuestasUmc
  <2> QED
    BY <1>1, <1>2, <2>1, <2>2, TiposSiguen DEF TypeOK
<1>6. DelPrograma'
  BY <1>2, DelProgramaSigue DEF Inv
<1>7. Etapa'
  BY <1>2 DEF Inv, Etapa
<1>8. UnaRespuesta'
  <2>1. semaforos'["s_codigo"] + semaforos'["s_variable_stack"] + semaforos'["s_escribir_pagina"] = 1
    BY <1>4 DEF Semaforos
  <2> QED
    BY <1>1, <1>2, <2>1 DEF UnaRespuesta
<1>9. FueraDelTexto'
  BY <1>2, FueraSigue DEF Inv
<1>10. Pila'
  BY <1>2, PilaSigue DEF Inv
<1>11. LecturaDelCodigo'
  <2> SUFFICES ASSUME hilo'.etapa = "codigo" PROVE LecturaDelCodigo'
    BY DEF LecturaDelCodigo
  <2>1. PICK i : i = Instruccion /\ i = Instruccion'
    BY <1>2 DEF Instruccion
  <2>2. PICK j \in 0..Len(PedidosDeInstruccion(i)) : Lectura(i, j)
    BY <1>2, <2>1 DEF Inv, LecturaDelCodigo
  <2>3. LoQueFalta(PedidosDeInstruccion(i), j)'
    BY <1>2, <2>2 DEF Lectura, LoQueFalta
  <2>4. respuesta.op = "leer" /\ (~respuesta.error => Bien(i, respuesta.bytes, j))
    BY <1>1, <2>2 DEF Lectura
  <2>5. ~excepcion_umc' => Bien(i, valor_pagina', j)
    BY <1>2, <2>4
  <2>6. Lectura(i, j)'
    BY <1>1, <1>2, <2>2, <2>3, <2>5 DEF Lectura, Bien
  <2> QED
    BY <2>1, <2>2, <2>6 DEF LecturaDelCodigo
<1> QED
  BY <1>5, <1>6, <1>7, <1>8, <1>9, <1>10, <1>11 DEF Inv

-----------------------------------------------------------------------------
(* The primitives on variables.                                            *)

(***************************************************************************)
(* What is left to prove when a step of a primitive changes only what the  *)
(* thread does.                                                            *)
(***************************************************************************)
LEMMA SigueElHilo ==
  ASSUME Inv, UNCHANGED <<programa, pcb, semaforos, pagina_es_codigo, excepcion_umc, umc, indefinido>>,
         valor_pagina' \in Seq(Contenidos),
         hilo' \in Hilos, hilo'.espera = hilo.espera, Etapa',
         hilo'.etapa \notin {"afuera", "codigo"},
         hilo'.etapa = "asignar" =>
           \A i \in DOMAIN hilo'.pedidos : Primero(hilo'.pedidos[i]) >= programa.largo
  PROVE  Inv'
<1>1. TypeOK'
  BY TiposSiguen DEF Inv, TypeOK, umc
<1>2. DelPrograma'
  BY DelProgramaSigue DEF Inv
<1>3. UnaRespuesta'
  BY SeQueda DEF Inv, umc
<1>4. FueraDelTexto'
  BY DEF Inv, FueraDelTexto, Primero, Direccion, Contextos, umc
<1>5. Pila'
  BY PilaSigue DEF Inv
<1>6. LecturaDelCodigo'
  BY DEF LecturaDelCodigo
<1> QED
  BY <1>1, <1>2, <1>3, <1>4, <1>5, <1>6 DEF Inv

(* A read of a variable starts with the requests of its address            *)
(* (ansisop_derefenciar).                                                  *)
LEMMA SigueDerefenciar ==
  ASSUME Inv, NEW nombre, Derefenciar(nombre)
  PROVE  Inv'
<1>1. PICK d \in Nat : d = ObtenerPosicion(nombre)
  BY PosicionBien DEF Inv, Derefenciar
<1>2. PedidosDeVariable(d) \in Seq(Trozos)
  BY PedidosBien, TamaniosAssumption DEF PedidosDeVariable
<1>3. hilo \in Hilos /\ hilo.espera = NULO /\ valor_pagina \in Seq(Contenidos)
  BY DEF Inv, TypeOK, Derefenciar, Analiza, Etapa
<1>4. hilo' = [hilo EXCEPT !.etapa = "derefenciar", !.leido = <<>>, !.pedidos = PedidosDeVariable(d)]
  BY <1>1 DEF Derefenciar
<1>5. hilo' \in Hilos /\ hilo'.etapa = "derefenciar" /\ hilo'.espera = NULO
  <2>1. <<>> \in Seq(Contenidos) /\ "derefenciar" \in Etapas
    BY DEF Etapas
  <2>2. PICK p \in Seq(Trozos) : p = PedidosDeVariable(d)
    BY <1>2
  <2>3. hilo' = [hilo EXCEPT !.etapa = "derefenciar", !.leido = <<>>, !.pedidos = p]
    BY <1>4, <2>2
  <2> QED
    BY <1>3, <2>1, <2>3 DEF Hilos
<1>6. Etapa'
  BY <1>5, NuloAssumption DEF Etapa, Semaforos
<1> QED
  BY <1>3, <1>5, <1>6, SigueElHilo DEF Derefenciar

(* And ends when there is none left.                                       *)
LEMMA SigueFinDerefenciar ==
  ASSUME Inv, FinDerefenciar
  PROVE  Inv'
<1>1. hilo.espera = NULO /\ hilo.salto \in BOOLEAN /\ valor_pagina \in Seq(Contenidos)
  BY DEF Inv, TypeOK, FinDerefenciar, Hilos
<1>2. hilo' \in Hilos /\ hilo'.etapa = "analiza" /\ hilo'.espera = NULO
  BY <1>1, QuietoBien DEF FinDerefenciar, Etapas
<1>3. Etapa'
  BY <1>2, NuloAssumption DEF Etapa, Semaforos
<1> QED
  BY <1>1, <1>2, <1>3, SigueElHilo DEF FinDerefenciar

(* An assignment has requests only for what is past the text, the          *)
(* addresses of a variable of the stack (ansisop_asignar).                 *)
LEMMA SigueAsignar ==
  ASSUME Inv, NEW nombre, NEW valor \in Valores, Asignar(nombre, valor)
  PROVE  Inv'
<1>1. PICK d \in Nat : d = ObtenerPosicion(nombre) /\ d >= programa.largo
  BY PosicionBien DEF Inv, Asignar
<1>2. PICK p \in Seq(Trozos) : p = PedidosDeVariable(d) /\ \A i \in DOMAIN p : Primero(p[i]) >= d
  BY PedidosBien, TamaniosAssumption DEF PedidosDeVariable
<1>3. hilo \in Hilos /\ hilo.espera = NULO /\ hilo.etapa = "analiza" /\ valor_pagina \in Seq(Contenidos)
  BY DEF Inv, TypeOK, Asignar, Analiza, Etapa
<1>4. hilo' = IF p = <<>> THEN hilo
              ELSE [hilo EXCEPT !.etapa = "asignar", !.direccion = d, !.valor = valor, !.pedidos = p]
  BY <1>1, <1>2 DEF Asignar
<1>5. CASE p = <<>>
  <2>1. hilo' = hilo
    BY <1>4, <1>5
  <2>2. Etapa'
    BY <2>1 DEF Inv, Etapa
  <2> QED
    BY <1>3, <2>1, <2>2, SigueElHilo DEF Asignar
<1>6. CASE p # <<>>
  <2>1. hilo' \in Hilos /\ hilo'.etapa = "asignar" /\ hilo'.espera = NULO /\ hilo'.pedidos = p
    <3>1. "asignar" \in Etapas /\ d \in Int
      BY DEF Etapas
    <3>2. hilo' = [hilo EXCEPT !.etapa = "asignar", !.direccion = d, !.valor = valor, !.pedidos = p]
      BY <1>4, <1>6
    <3> QED
      BY <1>3, <3>1, <3>2 DEF Hilos
  <2>2. Etapa'
    BY <1>6, <2>1, NuloAssumption DEF Etapa, Semaforos
  <2>3. programa.largo \in Nat
    BY ProgramasAssumption DEF Inv, TypeOK
  <2>4. \A i \in DOMAIN p : Primero(p[i]) \in Int
    <3>1. \A i \in DOMAIN p : p[i] \in Trozos
      BY ElementOfSeq, LenProperties
    <3> QED
      BY <3>1, TamaniosAssumption DEF Trozos, Primero
  <2>5. \A i \in DOMAIN p : Primero(p[i]) >= programa.largo
    BY <1>1, <1>2, <2>3, <2>4
  <2> QED
    BY <1>3, <2>1, <2>2, <2>5, SigueElHilo DEF Asignar
<1> QED
  BY <1>5, <1>6

(* The end of the program (ansisop_finalizar).                             *)
LEMMA SigueFinalizar ==
  ASSUME Inv, Finalizar
  PROVE  Inv'
<1>1. hilo.espera = NULO /\ valor_pagina \in Seq(Contenidos)
  BY DEF Inv, TypeOK, Finalizar, Etapa
<1>2. hilo' \in Hilos /\ hilo'.etapa = "fin" /\ hilo'.espera = NULO
  BY QuietoBien DEF Finalizar, Etapas
<1>3. Etapa'
  BY <1>2, NuloAssumption DEF Etapa, Semaforos
<1> QED
  BY <1>1, <1>2, <1>3, SigueElHilo DEF Finalizar

(***************************************************************************)
(* The same when the step takes the unit that the thread waited for.       *)
(***************************************************************************)
LEMMA SigueLaEspera ==
  ASSUME Inv, UNCHANGED <<programa, pcb, pagina_es_codigo, excepcion_umc, umc, indefinido>>,
         NEW s \in Semaforos, Esperar(s), Bajar(s),
         valor_pagina' \in Seq(Contenidos),
         hilo' \in Hilos, hilo'.espera = NULO, Etapa',
         hilo'.etapa \notin {"afuera", "codigo"},
         hilo'.etapa = "asignar" =>
           \A i \in DOMAIN hilo'.pedidos : Primero(hilo'.pedidos[i]) >= programa.largo
  PROVE  Inv'
<1>1. UnaRespuesta' /\ semaforos' \in [Semaforos -> Nat]
  BY SeRecibe DEF Inv, umc
<1>2. TypeOK'
  BY <1>1, TiposSiguen DEF Inv, TypeOK, umc
<1>3. DelPrograma'
  BY DelProgramaSigue DEF Inv
<1>4. FueraDelTexto'
  BY DEF Inv, FueraDelTexto, Primero, Direccion, Contextos, umc
<1>5. Pila'
  BY PilaSigue DEF Inv
<1>6. LecturaDelCodigo'
  BY DEF LecturaDelCodigo
<1> QED
  BY <1>1, <1>2, <1>3, <1>4, <1>5, <1>6 DEF Inv

(* The bytes of a variable go after the ones the thread had.               *)
LEMMA SigueRecibirVariable ==
  ASSUME Inv, RecibirVariable
  PROVE  Inv'
<1>1. /\ hilo \in Hilos /\ hilo.etapa = "derefenciar" /\ hilo.pedidos # <<>>
      /\ valor_pagina \in Seq(Contenidos) /\ "s_variable_stack" \in Semaforos
      /\ Esperar("s_variable_stack") /\ Bajar("s_variable_stack")
  BY DEF Inv, TypeOK, RecibirVariable, Esperar, Etapa, Semaforos
<1>2. hilo' = [hilo EXCEPT !.espera = NULO, !.leido = hilo.leido \o valor_pagina,
                           !.pedidos = Tail(hilo.pedidos)]
  BY DEF RecibirVariable
<1>3. hilo' \in Hilos /\ hilo'.espera = NULO /\ hilo'.etapa = "derefenciar"
  BY <1>1, <1>2, HiloRecibe
<1>4. Etapa'
  BY <1>3, NuloAssumption DEF Etapa, Semaforos
<1>5. valor_pagina' \in Seq(Contenidos)
  BY DEF RecibirVariable
<1> QED
  BY <1>1, <1>3, <1>4, <1>5, SigueLaEspera DEF RecibirVariable

(* After a write the next request is still past the text, or there is none *)
(* and the instruction goes on.                                            *)
LEMMA SigueRecibirEscritura ==
  ASSUME Inv, RecibirEscritura
  PROVE  Inv'
<1>1. /\ hilo \in Hilos /\ hilo.etapa \in {"asignar", "retornar"} /\ hilo.salto \in BOOLEAN
      /\ hilo.etapa = "asignar" => hilo.pedidos # <<>>
      /\ valor_pagina \in Seq(Contenidos) /\ "s_escribir_pagina" \in Semaforos
      /\ Esperar("s_escribir_pagina") /\ Bajar("s_escribir_pagina")
  BY DEF Inv, TypeOK, RecibirEscritura, Esperar, Etapa, Semaforos, Hilos
<1>2. CASE hilo.etapa = "retornar" \/ excepcion_umc \/ Len(hilo.pedidos) = 1
  <2>1. hilo' = [Quieto("analiza") EXCEPT !.salto = hilo.salto]
    BY <1>2 DEF RecibirEscritura
  <2>2. hilo' \in Hilos /\ hilo'.etapa = "analiza" /\ hilo'.espera = NULO
    BY <1>1, <2>1, QuietoBien DEF Etapas
  <2>3. Etapa'
    BY <2>2, NuloAssumption DEF Etapa, Semaforos
  <2> QED
    BY <1>1, <2>2, <2>3, SigueLaEspera DEF RecibirEscritura
<1>3. CASE ~(hilo.etapa = "retornar" \/ excepcion_umc \/ Len(hilo.pedidos) = 1)
  <2>1. hilo' = [hilo EXCEPT !.espera = NULO, !.pedidos = Tail(hilo.pedidos)]
    BY <1>3 DEF RecibirEscritura
  <2>2. PICK p \in Seq(Trozos) : p = hilo.pedidos /\ p # <<>> /\ Len(p) # 1
    BY <1>1, <1>3 DEF Hilos
  <2>3. Len(p) \in Nat /\ Len(p) # 0 /\ DOMAIN p = 1..Len(p)
    BY <2>2, EmptySeq, LenProperties
  <2>4. PICK q \in Seq(Trozos) : q = Tail(p) /\ Len(q) = Len(p) - 1 /\ \A i \in 1..Len(q) : q[i] = p[i + 1]
    <3>1. Tail(p) \in Seq(Trozos)
      BY <2>2, HeadTailProperties
    <3>2. Len(Tail(p)) = Len(p) - 1
      BY <2>2, HeadTailProperties
    <3>3. \A i \in 1..Len(Tail(p)) : Tail(p)[i] = p[i + 1]
      BY <2>2, HeadTailProperties
    <3> QED
      BY <3>1, <3>2, <3>3
  <2>5. Len(q) \in Nat /\ Len(q) # 0 /\ DOMAIN q = 1..Len(q) /\ q # <<>>
    <3>1. Len(q) \in Nat /\ Len(q) # 0
      BY <2>2, <2>3, <2>4
    <3> QED
      BY <3>1, EmptySeq, LenProperties
  <2>6. hilo' \in Hilos /\ hilo'.espera = NULO /\ hilo'.etapa = "asignar" /\ hilo'.pedidos = q
    <3>1. hilo' = [hilo EXCEPT !.espera = NULO, !.pedidos = q]
      BY <2>1, <2>2, <2>4
    <3> QED
      BY <1>1, <1>3, <3>1 DEF Hilos
  <2>7. Etapa'
    BY <2>5, <2>6, NuloAssumption DEF Etapa, Semaforos
  <2>8. \A i \in DOMAIN q : Primero(q[i]) >= programa.largo
    <3>1. \A i \in DOMAIN p : Primero(p[i]) >= programa.largo
      BY <1>1, <1>3, <2>2 DEF Inv, FueraDelTexto
    <3> SUFFICES ASSUME NEW i \in 1..Len(q) PROVE Primero(q[i]) >= programa.largo
      BY <2>5
    <3>2. i + 1 \in 1..Len(p)
      BY <2>3, <2>4
    <3> QED
      BY <2>3, <2>4, <3>1, <3>2
  <2> QED
    BY <1>1, <2>6, <2>7, <2>8, SigueLaEspera DEF RecibirEscritura
<1> QED
  BY <1>2, <1>3

(* A piece of the variable goes where its request says                     *)
(* (escribo_variable_a_UMC).                                               *)
LEMMA SigueEscribo ==
  ASSUME Inv, EscriboVariableAUmc
  PROVE  Inv'
<1>1. /\ TypeOK /\ hilo \in Hilos /\ hilo.etapa = "asignar" /\ hilo.espera = NULO
      /\ hilo.pedidos \in Seq(Trozos) /\ hilo.pedidos # <<>> /\ hilo.escrito \in Int
      /\ hilo.valor \in Valores \cup {NULO}
  BY DEF Inv, TypeOK, EscriboVariableAUmc, Hilos, Etapa
<1>2. PICK d \in Trozos : d = Head(hilo.pedidos) /\ d = hilo.pedidos[1] /\ 1 \in DOMAIN hilo.pedidos
  BY <1>1
<1>3. d.tamanio \in Int
  BY DEF Trozos
<1>4. PICK v \in Valores \cup {Codigo, Basura, NULO} : v = IF hilo.escrito = 0 THEN hilo.valor ELSE Basura
  BY <1>1
<1>5. PICK b \in Seq(Contenidos) : b = Bytes(v, 0, d.tamanio) /\ DOMAIN b = 1..d.tamanio
  BY <1>3, BytesBien
<1>6. /\ pedido' = [op |-> "escribir", donde |-> d, bytes |-> b] /\ pedido' \in PedidosUmc
      /\ pedido' # NULO
  <2>1. pedido' = [op |-> "escribir", donde |-> d, bytes |-> b]
    BY <1>2, <1>4, <1>5 DEF EscriboVariableAUmc
  <2>2. pedido' \in PedidosUmc
    BY <2>1 DEF PedidosUmc
  <2> QED
    BY <2>1, <2>2, NuloAssumption
<1>7. /\ hilo' \in Hilos /\ hilo'.etapa = "asignar" /\ hilo'.espera = "s_escribir_pagina"
      /\ hilo'.pedidos = hilo.pedidos
  <2>1. PICK e \in Int : e = hilo.escrito + d.tamanio
    BY <1>1, <1>3
  <2>2. hilo' = [hilo EXCEPT !.espera = "s_escribir_pagina", !.escrito = e]
    BY <1>2, <2>1 DEF EscriboVariableAUmc
  <2>3. "s_escribir_pagina" \in Semaforos
    BY DEF Semaforos
  <2> QED
    BY <1>1, <2>2, <2>3 DEF Hilos
<1>8. TypeOK'
  BY <1>1, <1>6, <1>7, TiposSiguen DEF EscriboVariableAUmc, TypeOK
<1>9. DelPrograma'
  BY <1>7, DelProgramaSigue DEF Inv, EscriboVariableAUmc
<1>10. Etapa'
  BY <1>1, <1>7, NuloAssumption DEF Etapa, Semaforos
<1>11. UnaRespuesta'
  <2>1. hilo'.espera # NULO
    BY <1>7, NuloAssumption DEF Semaforos
  <2> QED
    BY <1>1, <1>6, <2>1, SePide DEF Inv, EscriboVariableAUmc
<1>12. FueraDelTexto'
  <2>1. \A i \in DOMAIN hilo.pedidos : Primero(hilo.pedidos[i]) >= programa.largo
    BY <1>1 DEF Inv, FueraDelTexto
  <2>2. Primero(d) >= programa.largo
    BY <1>2, <2>1
  <2>3. pedido'.donde = d /\ pedido'.bytes = b
    BY <1>6
  <2> QED
    BY <1>5, <1>7, <2>1, <2>2, <2>3
       DEF Inv, FueraDelTexto, EscriboVariableAUmc, Primero, Direccion, Contextos
<1>13. Pila'
  BY PilaSigue DEF Inv, EscriboVariableAUmc
<1>14. LecturaDelCodigo'
  BY <1>7 DEF LecturaDelCodigo
<1> QED
  BY <1>8, <1>9, <1>10, <1>11, <1>12, <1>13, <1>14 DEF Inv

-----------------------------------------------------------------------------
(* The primitives that change the PCB.                                     *)

(***************************************************************************)
(* The types, after a step that changes the PCB.                           *)
(***************************************************************************)
LEMMA TiposConPcb ==
  ASSUME TypeOK, UNCHANGED <<programa, semaforos, pagina_es_codigo, valor_pagina, excepcion_umc,
                             memoria, indefinido>>,
         pcb' \in Pcbs, hilo' \in Hilos,
         pedido' \in PedidosUmc \cup {NULO}, respuesta' \in RespuestasUmc \cup {NULO}
  PROVE  TypeOK'
BY DEF TypeOK, Direccionables

(***************************************************************************)
(* A line other than the current one (ansisop_ir_a_label, and the end of   *)
(* an instruction): the stack is the same.                                 *)
(***************************************************************************)
LEMMA CambiaElPc ==
  ASSUME Inv, NEW n \in Lineas, pcb' = [pcb EXCEPT !.pc = n],
         UNCHANGED <<programa, semaforos, pagina_es_codigo, valor_pagina, excepcion_umc, umc, indefinido>>,
         hilo' \in Hilos, hilo'.espera = hilo.espera, Etapa',
         hilo'.etapa \notin {"codigo", "asignar"}, hilo'.etapa = "afuera" => n # -1
  PROVE  Inv'
<1>1. /\ pcb' \in Pcbs /\ pcb'.pc = n
      /\ pcb'.instrucciones = pcb.instrucciones /\ pcb'.stack_position = pcb.stack_position
      /\ pcb'.cant_paginas_codigo_stack = pcb.cant_paginas_codigo_stack
      /\ pcb'.etiquetas = pcb.etiquetas /\ pcb'.etiquetas_size = pcb.etiquetas_size
      /\ pcb'.indice_stack = pcb.indice_stack /\ pcb'.contexto_actual = pcb.contexto_actual
      /\ pcb'.stack_pointer = pcb.stack_pointer
  <2>1. pcb \in Pcbs /\ n \in Int
    BY DEF Inv, TypeOK, Lineas
  <2> QED
    BY <2>1 DEF Pcbs
<1>2. TypeOK'
  BY <1>1, TiposConPcb DEF Inv, TypeOK, umc
<1>3. DelPrograma'
  BY <1>1 DEF Inv, DelPrograma, Lineas, Contextos
<1>4. UnaRespuesta'
  BY SeQueda DEF Inv, umc
<1>5. FueraDelTexto'
  BY <1>1 DEF Inv, FueraDelTexto, Primero, Direccion, Contextos, umc
<1>6. Pila'
  BY <1>1 DEF Inv, Pila, Vivos, Repartidas, LugarDe, Contextos
<1>7. LecturaDelCodigo'
  BY DEF LecturaDelCodigo
<1> QED
  BY <1>2, <1>3, <1>4, <1>5, <1>6, <1>7 DEF Inv

(***************************************************************************)
(* The program has lines, and its PCB has the same.                        *)
(***************************************************************************)
LEMMA LineasBien ==
  ASSUME TypeOK, DelPrograma, NEW linea \in 0..(Len(pcb.instrucciones) - 1)
  PROVE  linea - 1 \in Lineas
<1>1. Len(programa.instrucciones) \in Nat
  BY ProgramasAssumption, LenProperties DEF TypeOK
<1> QED
  BY <1>1 DEF DelPrograma, Lineas

(* A jump leaves the pc one before a line of the program.                  *)
LEMMA SigueIrALabel ==
  ASSUME Inv, NEW linea \in 0..(Len(pcb.instrucciones) - 1), IrALabel(linea)
  PROVE  Inv'
<1>1. PICK n \in Lineas : n = linea - 1
  BY LineasBien DEF Inv
<1>2. pcb' = [pcb EXCEPT !.pc = n]
  BY <1>1 DEF IrALabel
<1>3. hilo \in Hilos /\ hilo.espera = NULO /\ hilo.etapa = "analiza"
  BY DEF Inv, TypeOK, IrALabel, Analiza, Etapa
<1>4. hilo' \in Hilos /\ hilo'.espera = NULO /\ hilo'.etapa = "analiza"
  BY <1>3 DEF IrALabel, Hilos
<1>5. Etapa'
  BY <1>4, NuloAssumption DEF Etapa, Semaforos
<1> QED
  BY <1>2, <1>3, <1>4, <1>5, CambiaElPc DEF IrALabel

(* The next instruction is one of the program, because the last one ends   *)
(* it.                                                                     *)
LEMMA SigueFinInstruccion ==
  ASSUME Inv, FinInstruccion
  PROVE  Inv'
<1>1. PICK n \in Lineas : n = pcb.pc + 1 /\ n # -1
  <2>1. Len(programa.instrucciones) \in Nat
    BY ProgramasAssumption, LenProperties DEF Inv, TypeOK
  <2>2. pcb.pc \in -1..(Len(programa.instrucciones) - 1)
    BY DEF Inv, DelPrograma, Lineas
  <2>3. pcb.pc # Len(programa.instrucciones) - 1
    BY DEF Inv, DelPrograma, FinInstruccion, Analiza
  <2> QED
    BY <2>1, <2>2, <2>3 DEF Lineas
<1>2. pcb' = [pcb EXCEPT !.pc = n]
  BY <1>1 DEF FinInstruccion
<1>3. hilo.espera = NULO
  BY DEF Inv, FinInstruccion, Analiza, Etapa
<1>4. hilo' \in Hilos /\ hilo'.espera = NULO /\ hilo'.etapa = "afuera"
  BY QuietoBien DEF FinInstruccion, Etapas
<1>5. Etapa'
  BY <1>4, NuloAssumption DEF Etapa, Semaforos
<1> QED
  BY <1>1, <1>2, <1>3, <1>4, <1>5, CambiaElPc DEF FinInstruccion

(***************************************************************************)
(* A sequence with one more element, and with another one in a position.   *)
(***************************************************************************)
LEMMA UnoMas ==
  ASSUME NEW S, NEW s \in Seq(S), NEW e \in S
  PROVE  /\ Append(s, e) \in Seq(S) /\ Len(Append(s, e)) = Len(s) + 1
         /\ Append(s, e)[Len(s) + 1] = e
         /\ \A i \in 1..Len(s) : Append(s, e)[i] = s[i]
BY AppendProperties

(* The same with another element in a position it had.                     *)
LEMMA OtroElemento ==
  ASSUME NEW S, NEW s \in Seq(S), NEW k \in 1..Len(s), NEW e \in S
  PROVE  LET t == [s EXCEPT ![k] = e]
         IN /\ t \in Seq(S) /\ Len(t) = Len(s) /\ t[k] = e
            /\ \A i \in 1..Len(s) : i # k => t[i] = s[i]
BY ExceptSeq

(***************************************************************************)
(* A definition puts one more variable in the current context, after all   *)
(* the ones of the stack (ansisop_definir_variable).                       *)
(***************************************************************************)
LEMMA SigueDefinirVariable ==
  ASSUME Inv, NEW nombre \in Nombres, DefinirVariable(nombre)
  PROVE  Inv'
<1>1. /\ TypeOK /\ Pila /\ pcb \in Pcbs /\ programa.largo \in Nat /\ SizeofInt \in Nat \ {0}
      /\ hilo \in Hilos /\ hilo.espera = NULO /\ hilo.etapa = "analiza"
  BY ProgramasAssumption, TamaniosAssumption DEF Inv, TypeOK, DefinirVariable, Analiza, Etapa
<1>2. PICK m \in Nat : Repartidas(m)
  BY DEF Inv, Pila
<1>3. PICK largo \in Nat, S \in Nat : largo = programa.largo /\ S = SizeofInt /\ S # 0
  BY <1>1
<1>4. PICK puntero \in Nat : puntero = Siguiente(pcb.stack_pointer) /\ puntero = largo + S * (m + 1)
  <2>1. S * (m + 1) = S * m + S /\ S * m \in Nat
    OBVIOUS
  <2>2. pcb.stack_pointer = largo + S * m
    BY <1>2, <1>3 DEF Repartidas
  <2>3. largo + S * (m + 1) = (largo + S * m) + S
    BY <2>1
  <2> QED
    BY <1>3, <2>1, <2>2, <2>3 DEF Siguiente
<1>5. PICK v \in VariablesStack : v = [id |-> nombre, posicion_memoria |-> Lugar(puntero)]
                                  /\ v.posicion_memoria = Lugar(puntero)
  <2>1. Lugar(puntero) \in Lugares
    BY LugarBien
  <2>2. [id |-> nombre, posicion_memoria |-> Lugar(puntero)] \in VariablesStack
    BY <2>1 DEF VariablesStack
  <2> QED
    BY <2>2
<1>6. PICK k \in Vivos : k = pcb.contexto_actual + 1
  <2>1. pcb.contexto_actual \in Nat
    BY <1>1 DEF Pcbs
  <2> QED
    BY <2>1 DEF Vivos
<1>7. PICK C : C = Contextos /\ C \in Seq(IndicesDeStack \cup {SinIniciar})
  BY <1>1 DEF Pcbs, Contextos
<1>8. k \in 1..Len(C) /\ C[k] \in IndicesDeStack
  BY <1>1, <1>7, ContextoBien
<1>vs. PICK vs : vs = C[k].variables
  OBVIOUS
<1>9. PICK n \in Nat : vs = C[k].variables /\ n = Len(vs) /\ vs \in Seq(VariablesStack)
  <2>1. C[k].variables \in Seq(VariablesStack)
    BY <1>8 DEF IndicesDeStack
  <2>2. Len(C[k].variables) \in Nat
    BY <2>1, LenProperties
  <2> QED
    BY <1>vs, <2>1, <2>2
<1>10. PICK ws :
         /\ ws = Append(vs, v) /\ Len(ws) = n + 1 /\ ws[n + 1] = v
         /\ \A i \in 1..n : ws[i] = vs[i]
         /\ ws \in Seq(VariablesStack)
  BY <1>9, UnoMas, ZenonT(30)
<1>11. PICK c \in IndicesDeStack :
         /\ c = [C[k] EXCEPT !.variables = ws] /\ c.variables = ws
         /\ c.posicion_retorno = C[k].posicion_retorno
         /\ c.posicion_variable_retorno = C[k].posicion_variable_retorno
  <2>1. PICK x \in IndicesDeStack : x = C[k]
    BY <1>8
  <2>2. [x EXCEPT !.variables = ws] \in IndicesDeStack
    BY <1>10 DEF IndicesDeStack
  <2>3. /\ [x EXCEPT !.variables = ws].variables = ws
        /\ [x EXCEPT !.variables = ws].posicion_retorno = x.posicion_retorno
        /\ [x EXCEPT !.variables = ws].posicion_variable_retorno = x.posicion_variable_retorno
    BY DEF IndicesDeStack
  <2> QED
    BY <2>1, <2>2, <2>3
<1>12. PICK D :
         /\ D = [C EXCEPT ![k] = c] /\ Len(D) = Len(C) /\ D[k] = c
         /\ \A l \in 1..Len(C) : l # k => D[l] = C[l]
         /\ D \in Seq(IndicesDeStack \cup {SinIniciar})
  <2>1. PICK X : X = IndicesDeStack \cup {SinIniciar} /\ C \in Seq(X) /\ c \in X
    BY <1>7
  <2>2. PICK D : D = [C EXCEPT ![k] = c]
    OBVIOUS
  <2>3. D \in Seq(X) /\ Len(D) = Len(C) /\ D[k] = c /\ \A l \in 1..Len(C) : l # k => D[l] = C[l]
    BY <1>8, <2>1, <2>2, OtroElemento
  <2> QED
    BY <2>1, <2>2, <2>3
<1>13. pcb' = [pcb EXCEPT !.stack_pointer = puntero, !.indice_stack = D]
  <2>1. pcb' = [pcb EXCEPT !.stack_pointer = puntero,
                           !.indice_stack = [pcb.indice_stack EXCEPT
                               ![k] = [pcb.indice_stack[k] EXCEPT
                                         !.variables = Append(pcb.indice_stack[k].variables, v)]]]
    BY <1>4, <1>5, <1>6 DEF DefinirVariable
  <2>2. pcb.indice_stack = C
    BY <1>7 DEF Contextos
  <2> QED
    BY <1>9, <1>10, <1>11, <1>12, <2>1, <2>2
<1>14. /\ pcb' \in Pcbs /\ Contextos' = D /\ pcb'.stack_pointer = puntero
       /\ pcb'.contexto_actual = pcb.contexto_actual /\ pcb'.pc = pcb.pc
       /\ pcb'.instrucciones = pcb.instrucciones /\ pcb'.stack_position = pcb.stack_position
       /\ pcb'.cant_paginas_codigo_stack = pcb.cant_paginas_codigo_stack
       /\ pcb'.etiquetas = pcb.etiquetas /\ pcb'.etiquetas_size = pcb.etiquetas_size
  <2>1. pcb'.indice_stack = D /\ pcb'.stack_pointer = puntero
    BY <1>1, <1>13 DEF Pcbs
  <2>2. pcb' \in Pcbs
    BY <1>1, <1>12, <1>13 DEF Pcbs
  <2> QED
    BY <1>1, <1>13, <2>1, <2>2 DEF Pcbs, Contextos
<1>15. UNCHANGED <<programa, hilo, semaforos, pagina_es_codigo, valor_pagina, excepcion_umc,
                   pedido, respuesta, memoria, indefinido>>
  BY DEF DefinirVariable, umc
<1>16. Vivos' = Vivos /\ Vivos \subseteq 1..Len(C)
  <2>1. Vivos' = Vivos
    BY <1>14 DEF Vivos
  <2>2. \A l \in Vivos : l \in 1..Len(C)
    BY <1>1, <1>7, ContextoBien
  <2> QED
    BY <2>1, <2>2
<1>17. TypeOK'
  BY <1>1, <1>14, <1>15, TiposConPcb DEF TypeOK
<1>18. DelPrograma'
  <2>1. \A l \in 1..Len(D) : D[l] # SinIniciar => D[l].posicion_retorno \in Lineas
    <3> SUFFICES ASSUME NEW l \in 1..Len(D), D[l] # SinIniciar PROVE D[l].posicion_retorno \in Lineas
      OBVIOUS
    <3>1. \A h \in 1..Len(C) : C[h] # SinIniciar => C[h].posicion_retorno \in Lineas
      BY <1>7 DEF Inv, DelPrograma
    <3>2. C[k] # SinIniciar
      BY <1>8, NuloAssumption
    <3> QED
      BY <1>8, <1>11, <1>12, <3>1, <3>2
  <2> QED
    BY <1>14, <1>15, <2>1 DEF Inv, DelPrograma, Lineas
<1>19. Etapa' /\ UnaRespuesta'
  BY <1>15, SeQueda DEF Inv, Etapa
<1>20. FueraDelTexto'
  <2>1. \A l \in 2..(pcb.contexto_actual + 1) :
          D[l].posicion_variable_retorno = C[l].posicion_variable_retorno
    <3> SUFFICES ASSUME NEW l \in 2..(pcb.contexto_actual + 1)
                 PROVE  D[l].posicion_variable_retorno = C[l].posicion_variable_retorno
      OBVIOUS
    <3>1. pcb.contexto_actual \in Nat
      BY <1>1 DEF Pcbs
    <3>2. l \in 1..(pcb.contexto_actual + 1)
      BY <3>1
    <3>3. l \in 1..Len(C)
      BY <1>16, <3>2 DEF Vivos
    <3> QED
      BY <1>11, <1>12, <3>3
  <2>2. \A l \in 2..(pcb.contexto_actual + 1) :
          Direccion(D[l].posicion_variable_retorno) >= programa.largo
    BY <1>7, <2>1 DEF Inv, FueraDelTexto
  <2> QED
    BY <1>14, <1>15, <2>2 DEF Inv, FueraDelTexto, Primero, Direccion
<1>21. LecturaDelCodigo'
  BY <1>1, <1>15 DEF LecturaDelCodigo
<1>22. ASSUME NEW l \in Vivos
       PROVE  /\ D[l] # SinIniciar
              /\ \A i \in 1..Len(D[l].variables) :
                   \/ i \in 1..Len(C[l].variables) /\ D[l].variables[i] = C[l].variables[i]
                   \/ l = k /\ i = n + 1 /\ D[l].variables[i] = v
  <2>1. CASE l = k
    <3>1. c # SinIniciar
      BY NuloAssumption
    <3>2. \A i \in 1..(n + 1) : i \in 1..n \/ i = n + 1
      OBVIOUS
    <3> QED
      BY <1>9, <1>10, <1>11, <1>12, <2>1, <3>1, <3>2
  <2>2. CASE l # k
    <3>1. D[l] = C[l] /\ C[l] # SinIniciar
      BY <1>1, <1>7, <1>12, <1>16, <2>2 DEF Pila
    <3> QED
      BY <3>1
  <2> QED
    BY <2>1, <2>2
<1>23. ASSUME NEW l \in Vivos, NEW i \in 1..Len(C[l].variables)
       PROVE  \E j \in 1..m : C[l].variables[i].posicion_memoria = Lugar(largo + S * j)
  BY <1>2, <1>3, <1>7 DEF Repartidas, LugarDe
<1>24. ASSUME NEW j \in 1..m PROVE Lugar(largo + S * j) # Lugar(puntero)
  <2>1. PICK e \in Nat : m + 1 = j + 1 + e
    <3>1. m - j \in Nat /\ m + 1 = j + 1 + (m - j)
      OBVIOUS
    <3> QED
      BY <3>1
  <2>2. S * (m + 1) = S * j + S + S * e /\ S * j \in Nat /\ S * e \in Nat
    BY <2>1
  <2>3. PICK x \in Nat, y \in Nat : x = S * j /\ y = S * e
    BY <2>2
  <2>4. puntero = largo + (x + S + y)
    BY <1>4, <2>2, <2>3
  <2>5. largo + x # puntero /\ S \in Nat
    BY <1>3, <2>4
  <2>6. PICK z \in Nat : z = largo + S * j /\ z # puntero
    BY <2>3, <2>5
  <2> QED
    BY <2>6, LugaresDistintos
<1>25. Repartidas(m + 1)'
  <2>1. ASSUME NEW l \in Vivos, NEW i \in 1..Len(D[l].variables)
        PROVE  \E j \in 1..(m + 1) : D[l].variables[i].posicion_memoria = Lugar(largo + S * j)
    <3>1. CASE i \in 1..Len(C[l].variables) /\ D[l].variables[i] = C[l].variables[i]
      <4>1. PICK j \in 1..m : C[l].variables[i].posicion_memoria = Lugar(largo + S * j)
        BY <1>23, <3>1
      <4>2. j \in 1..(m + 1)
        OBVIOUS
      <4> QED
        BY <3>1, <4>1, <4>2
    <3>2. CASE D[l].variables[i] = v
      <4>1. m + 1 \in 1..(m + 1)
        OBVIOUS
      <4> QED
        BY <1>4, <1>5, <3>2, <4>1
    <3> QED
      BY <1>22, <3>1, <3>2
  <2> QED
    BY <1>3, <1>4, <1>14, <1>15, <1>16, <2>1 DEF Repartidas, LugarDe
<1>26. ASSUME NEW l \in Vivos, NEW h \in Vivos,
              NEW i \in 1..Len(D[l].variables), NEW g \in 1..Len(D[h].variables),
              D[l].variables[i].posicion_memoria = D[h].variables[g].posicion_memoria
       PROVE  l = h /\ i = g
  <2>1. CASE /\ i \in 1..Len(C[l].variables) /\ D[l].variables[i] = C[l].variables[i]
             /\ g \in 1..Len(C[h].variables) /\ D[h].variables[g] = C[h].variables[g]
    <3>1. C[l].variables[i].posicion_memoria = C[h].variables[g].posicion_memoria
      BY <1>26, <2>1
    <3>2. \A x \in 1..Len(C[l].variables), y \in 1..Len(C[h].variables) :
            C[l].variables[x].posicion_memoria = C[h].variables[y].posicion_memoria => l = h /\ x = y
      BY <1>1, <1>7 DEF Pila, LugarDe
    <3> QED
      BY <2>1, <3>1, <3>2
  <2>2. ASSUME i \in 1..Len(C[l].variables), D[l].variables[i] = C[l].variables[i]
        PROVE  D[l].variables[i].posicion_memoria # v.posicion_memoria
    BY <1>5, <1>23, <1>24, <2>2
  <2>3. ASSUME g \in 1..Len(C[h].variables), D[h].variables[g] = C[h].variables[g]
        PROVE  D[h].variables[g].posicion_memoria # v.posicion_memoria
    BY <1>5, <1>23, <1>24, <2>3
  <2> QED
    BY <1>22, <1>26, <2>1, <2>2, <2>3
<1>27. Pila'
  <2>1. pcb'.contexto_actual < Len(D)
    BY <1>1, <1>7, <1>12, <1>14 DEF Pila
  <2>2. \E x \in Nat : Repartidas(x)'
    <3>1. m + 1 \in Nat
      OBVIOUS
    <3> QED
      BY <1>25, <3>1
  <2>3. \A l \in Vivos : D[l] # SinIniciar
    BY <1>22
  <2>4. \A l \in Vivos, h \in Vivos :
          \A i \in 1..Len(D[l].variables), g \in 1..Len(D[h].variables) :
            D[l].variables[i].posicion_memoria = D[h].variables[g].posicion_memoria => l = h /\ i = g
    BY <1>26
  <2> QED
    BY <1>14, <1>16, <2>1, <2>2, <2>3, <2>4, SMTT(30) DEF Pila, LugarDe
<1> QED
  BY <1>17, <1>18, <1>19, <1>20, <1>21, <1>27 DEF Inv

(***************************************************************************)
(* A call puts a context without variables after the current one           *)
(* (ansisop_llamar_con_retorno).                                           *)
(***************************************************************************)
LEMMA SigueLlamarConRetorno ==
  ASSUME Inv, NEW nombre, NEW linea \in 0..(Len(pcb.instrucciones) - 1),
         LlamarConRetorno(linea, nombre)
  PROVE  Inv'
<1>1. /\ TypeOK /\ Pila /\ pcb \in Pcbs /\ programa.largo \in Nat
      /\ hilo \in Hilos /\ hilo.espera = NULO /\ hilo.etapa = "analiza"
  BY ProgramasAssumption DEF Inv, TypeOK, LlamarConRetorno, Analiza, Etapa
<1>2. PICK n \in Lineas : n = linea - 1
  BY LineasBien DEF Inv
<1>3. PICK d \in Nat : d = ObtenerPosicion(nombre) /\ d >= programa.largo
  BY <1>1, PosicionBien DEF LlamarConRetorno
<1>4. PICK a \in Nat : a = pcb.contexto_actual + 1
  BY <1>1 DEF Pcbs
<1>5. PICK C : C = Contextos /\ C \in Seq(IndicesDeStack \cup {SinIniciar})
  BY <1>1 DEF Pcbs, Contextos
<1>6. Len(C) \in Nat /\ a <= Len(C) /\ pcb.contexto_actual = a - 1
  <2>1. Len(C) \in Nat
    BY <1>5, LenProperties
  <2>2. pcb.contexto_actual \in Nat /\ pcb.contexto_actual < Len(C)
    BY <1>1, <1>5 DEF Pila, Pcbs
  <2> QED
    BY <1>4, <2>1, <2>2
<1>7. PICK c \in IndicesDeStack :
        /\ c = Contexto(pcb.pc, Lugar(d)) /\ c.posicion_retorno = pcb.pc
        /\ c.posicion_variable_retorno = Lugar(d) /\ c.variables = <<>>
  <2>1. pcb.pc \in Int /\ Lugar(d) \in Lugares /\ <<>> \in Seq(VariablesStack)
    BY <1>1, LugarBien DEF Pcbs
  <2>2. Contexto(pcb.pc, Lugar(d)) = [posicion_retorno |-> pcb.pc,
                                      posicion_variable_retorno |-> Lugar(d), variables |-> <<>>]
    BY DEF Contexto
  <2>3. Contexto(pcb.pc, Lugar(d)) \in IndicesDeStack
    BY <2>1, <2>2 DEF IndicesDeStack
  <2> QED
    BY <2>2, <2>3
<1>8. PICK E :
        /\ E = Crecer(C) /\ Len(E) = Len(C) + 1 /\ E[Len(C) + 1] = SinIniciar
        /\ \A l \in 1..Len(C) : E[l] = C[l]
        /\ E \in Seq(IndicesDeStack \cup {SinIniciar})
  BY <1>5, UnoMas DEF Crecer
<1>9. PICK nuevo \in Nat : nuevo = a + 1 /\ nuevo \in 1..Len(E)
  <2>1. a + 1 \in 1..(Len(C) + 1)
    BY <1>6
  <2> QED
    BY <1>8, <2>1
<1>10. PICK D :
         /\ D = [E EXCEPT ![a + 1] = c] /\ Len(D) = Len(C) + 1 /\ D[a + 1] = c
         /\ \A l \in 1..(Len(C) + 1) : l # a + 1 => D[l] = E[l]
         /\ D \in Seq(IndicesDeStack \cup {SinIniciar})
  <2>1. PICK X : X = IndicesDeStack \cup {SinIniciar} /\ E \in Seq(X) /\ c \in X
    BY <1>8
  <2>2. PICK D : D = [E EXCEPT ![nuevo] = c]
    OBVIOUS
  <2>3. D \in Seq(X) /\ Len(D) = Len(E) /\ D[nuevo] = c /\ \A l \in 1..Len(E) : l # nuevo => D[l] = E[l]
    BY <1>9, <2>1, <2>2, OtroElemento
  <2> QED
    BY <1>8, <1>9, <2>1, <2>2, <2>3
<1>11. pcb' = [pcb EXCEPT !.contexto_actual = a, !.indice_stack = D, !.pc = n]
  <2>1. pcb.indice_stack = C
    BY <1>5 DEF Contextos
  <2> QED
    BY <1>2, <1>3, <1>4, <1>7, <1>8, <1>10, <2>1 DEF LlamarConRetorno
<1>12. /\ pcb' \in Pcbs /\ Contextos' = D /\ pcb'.stack_pointer = pcb.stack_pointer
       /\ pcb'.contexto_actual = a /\ pcb'.pc = n
       /\ pcb'.instrucciones = pcb.instrucciones /\ pcb'.stack_position = pcb.stack_position
       /\ pcb'.cant_paginas_codigo_stack = pcb.cant_paginas_codigo_stack
       /\ pcb'.etiquetas = pcb.etiquetas /\ pcb'.etiquetas_size = pcb.etiquetas_size
  <2>1. n \in Int
    BY <1>2 DEF Lineas
  <2> QED
    <3>1. pcb'.indice_stack = D /\ pcb'.contexto_actual = a /\ pcb'.pc = n
      BY <1>1, <1>11 DEF Pcbs
    <3>2. pcb' \in Pcbs
      BY <1>1, <1>10, <1>11, <2>1 DEF Pcbs
    <3> QED
      BY <1>1, <1>11, <3>1, <3>2 DEF Pcbs, Contextos
<1>13. /\ UNCHANGED <<programa, semaforos, pagina_es_codigo, valor_pagina, excepcion_umc,
                      pedido, respuesta, memoria, indefinido>>
       /\ hilo' = [hilo EXCEPT !.salto = TRUE]
  BY DEF LlamarConRetorno, umc
<1>14. hilo' \in Hilos /\ hilo'.espera = NULO /\ hilo'.etapa = "analiza"
  BY <1>1, <1>13 DEF Hilos
<1>15. Vivos' = 1..(a + 1) /\ Vivos = 1..a
  BY <1>1, <1>4, <1>12 DEF Vivos
<1>16. \A l \in 1..a : D[l] = C[l] /\ D[l] # SinIniciar
  <2> SUFFICES ASSUME NEW l \in 1..a PROVE D[l] = C[l] /\ D[l] # SinIniciar
    OBVIOUS
  <2>1. l \in 1..Len(C) /\ l \in 1..(Len(C) + 1) /\ l # a + 1
    BY <1>6
  <2>2. D[l] = C[l]
    BY <1>8, <1>10, <2>1
  <2> QED
    BY <1>1, <1>5, <1>15, <2>2 DEF Pila
<1>17. \A l \in 1..(a + 1) : l \in 1..a \/ l = a + 1
  OBVIOUS
<1>18. TypeOK'
  BY <1>1, <1>12, <1>13, <1>14, TiposConPcb DEF TypeOK
<1>19. DelPrograma'
  <2>1. \A l \in 1..Len(D) : D[l] # SinIniciar => D[l].posicion_retorno \in Lineas
    <3> SUFFICES ASSUME NEW l \in 1..Len(D), D[l] # SinIniciar PROVE D[l].posicion_retorno \in Lineas
      OBVIOUS
    <3>1. \A h \in 1..Len(C) : C[h] # SinIniciar => C[h].posicion_retorno \in Lineas
      BY <1>5 DEF Inv, DelPrograma
    <3>2. pcb.pc \in Lineas
      BY DEF Inv, DelPrograma
    <3>3. CASE l = a + 1
      BY <1>7, <1>10, <3>2, <3>3
    <3>4. CASE l # a + 1
      <4>1. D[l] = E[l] /\ l \in 1..(Len(C) + 1)
        BY <1>10, <3>4
      <4>2. l \in 1..Len(C)
        <5>1. l \in Int /\ l <= Len(C) + 1 /\ l >= 1
          BY <1>6, <4>1
        <5>2. l = Len(C) + 1 => D[l] = SinIniciar
          BY <1>8, <4>1
        <5>3. l # Len(C) + 1
          BY <5>2
        <5> QED
          BY <1>6, <5>1, <5>3
      <4> QED
        BY <1>8, <3>1, <4>1, <4>2
    <3> QED
      BY <3>3, <3>4
  <2> QED
    BY <1>12, <1>13, <1>14, <2>1 DEF Inv, DelPrograma, Lineas
<1>20. Etapa' /\ UnaRespuesta'
  BY <1>1, <1>13, <1>14, SeQueda, NuloAssumption DEF Inv, Etapa, Semaforos
<1>21. FueraDelTexto'
  <2>1. ASSUME NEW l \in 2..(a + 1) PROVE Direccion(D[l].posicion_variable_retorno) >= programa.largo
    <3>1. CASE l = a + 1
      <4>1. Direccion(Lugar(d)) = d + Corrida(d) /\ Corrida(d) \in Nat
        BY LugarBien
      <4> QED
        BY <1>1, <1>3, <1>7, <1>10, <3>1, <4>1
    <3>2. CASE l # a + 1
      <4>1. l \in 2..(pcb.contexto_actual + 1) /\ l \in 1..a
        BY <1>4, <3>2
      <4> QED
        BY <1>5, <1>16, <4>1 DEF Inv, FueraDelTexto
    <3> QED
      BY <3>1, <3>2
  <2> QED
    BY <1>12, <1>13, <1>14, <2>1 DEF Inv, FueraDelTexto, Primero, Direccion
<1>22. LecturaDelCodigo'
  BY <1>14 DEF LecturaDelCodigo
<1>23. Pila'
  <2>1. a < Len(D)
    BY <1>6, <1>10
  <2>2. Len(D[a + 1].variables) = 0 /\ D[a + 1] # SinIniciar
    BY <1>7, <1>10, NuloAssumption
  <2>3. PICK m \in Nat : Repartidas(m)
    BY <1>1 DEF Pila
  <2>4. Repartidas(m)'
    <3>1. ASSUME NEW l \in 1..(a + 1), NEW i \in 1..Len(D[l].variables)
          PROVE  \E j \in 1..m : D[l].variables[i].posicion_memoria = Lugar(programa.largo + SizeofInt * j)
      <4>1. l \in 1..a
        BY <1>17, <2>2
      <4>2. \A x \in 1..Len(C[l].variables) :
              \E j \in 1..m : C[l].variables[x].posicion_memoria = Lugar(programa.largo + SizeofInt * j)
        BY <1>5, <1>15, <2>3, <4>1 DEF Repartidas, LugarDe
      <4> QED
        BY <1>16, <4>1, <4>2
    <3> QED
      BY <1>12, <1>13, <1>15, <2>3, <3>1 DEF Repartidas, LugarDe
  <2>5. ASSUME NEW l \in 1..(a + 1), NEW h \in 1..(a + 1),
               NEW i \in 1..Len(D[l].variables), NEW g \in 1..Len(D[h].variables),
               D[l].variables[i].posicion_memoria = D[h].variables[g].posicion_memoria
        PROVE  l = h /\ i = g
    <3>1. l \in 1..a /\ h \in 1..a
      BY <1>17, <2>2
    <3>2. \A x \in 1..Len(C[l].variables), y \in 1..Len(C[h].variables) :
            C[l].variables[x].posicion_memoria = C[h].variables[y].posicion_memoria => l = h /\ x = y
      BY <1>1, <1>5, <1>15, <3>1, SMTT(30) DEF Pila, LugarDe
    <3>3. D[l] = C[l] /\ D[h] = C[h]
      BY <1>16, <3>1
    <3> QED
      BY <2>5, <3>2, <3>3
  <2>6. \A l \in 1..(a + 1) : D[l] # SinIniciar
    BY <1>16, <1>17, <2>2
  <2>7. \A l \in 1..(a + 1), h \in 1..(a + 1) :
          \A i \in 1..Len(D[l].variables), g \in 1..Len(D[h].variables) :
            D[l].variables[i].posicion_memoria = D[h].variables[g].posicion_memoria => l = h /\ i = g
    BY <2>5
  <2> QED
    BY <1>12, <1>15, <2>1, <2>4, <2>6, <2>7, SMTT(30) DEF Pila, LugarDe
<1> QED
  BY <1>18, <1>19, <1>20, <1>21, <1>22, <1>23 DEF Inv

(***************************************************************************)
(* A return goes back to the line and to the context of the caller, and    *)
(* asks to write outside of the text (ansisop_retornar).                   *)
(***************************************************************************)
LEMMA SigueRetornar ==
  ASSUME Inv, NEW valor \in Valores, Retornar(valor)
  PROVE  Inv'
<1>1. /\ TypeOK /\ Pila /\ pcb \in Pcbs /\ hilo \in Hilos
      /\ hilo.espera = NULO /\ hilo.etapa = "analiza"
  BY DEF Inv, TypeOK, Retornar, Analiza, Etapa
<1>2. PICK a \in Nat : a = pcb.contexto_actual - 1 /\ pcb.contexto_actual = a + 1
  <2>1. pcb.contexto_actual \in Nat /\ pcb.contexto_actual > 0
    BY <1>1 DEF Pcbs, Retornar
  <2> QED
    BY <2>1
<1>3. PICK C : C = Contextos
  OBVIOUS
<1>4. PICK k \in Vivos : k = pcb.contexto_actual + 1 /\ k = a + 2 /\ k \in 1..Len(C)
  <2>1. pcb.contexto_actual + 1 \in Vivos /\ pcb.contexto_actual + 1 = a + 2
    BY <1>2 DEF Vivos
  <2> QED
    BY <1>1, <1>3, <2>1, ContextoBien
<1>5. PICK c \in IndicesDeStack : c = C[k] /\ c = ContextoActual
  BY <1>1, <1>3, <1>4, ContextoBien DEF ContextoActual
<1>6. PICK lugar \in Lugares : lugar = c.posicion_variable_retorno
  BY DEF IndicesDeStack
<1>7. PICK d \in Trozos :
        d = [pagina |-> lugar.pagina, offset |-> lugar.offset, tamanio |-> lugar.size]
        /\ d.tamanio \in Int /\ Primero(d) = Direccion(lugar)
  <2>1. PICK x \in Trozos :
          x = [pagina |-> lugar.pagina, offset |-> lugar.offset, tamanio |-> lugar.size]
    <3>1. lugar.pagina \in Nat /\ lugar.offset \in Nat /\ lugar.size \in Int
      BY DEF Lugares
    <3>2. [pagina |-> lugar.pagina, offset |-> lugar.offset, tamanio |-> lugar.size] \in Trozos
      BY <3>1 DEF Trozos
    <3> QED
      BY <3>2
  <2>2. x.tamanio \in Int /\ Primero(x) = Direccion(lugar)
    BY <2>1 DEF Primero, Direccion, Trozos
  <2> QED
    BY <2>1, <2>2
<1>8. PICK b : b = Bytes(valor, 0, d.tamanio) /\ b \in Seq(Contenidos) /\ DOMAIN b = 1..d.tamanio
  <2>1. PICK v \in Valores \cup {Codigo, Basura, NULO} : v = valor
    OBVIOUS
  <2> QED
    BY <1>7, <2>1, BytesBien
<1>9. PICK n \in Lineas : n = c.posicion_retorno
  <2>1. c # SinIniciar
    BY NuloAssumption
  <2> QED
    BY <1>3, <1>4, <1>5, <2>1 DEF Inv, DelPrograma
<1>10. PICK direccion \in Int : direccion = Direccion(lugar)
  BY TamaniosAssumption DEF Lugares, Direccion
<1>11. /\ pedido' = [op |-> "escribir", donde |-> d, bytes |-> b] /\ pedido' \in PedidosUmc
       /\ pedido' # NULO /\ pedido'.donde = d /\ pedido'.bytes = b
  <2>1. pedido' = [op |-> "escribir", donde |-> d, bytes |-> b]
    BY <1>5, <1>6, <1>7, <1>8 DEF Retornar
  <2>2. pedido' \in PedidosUmc
    BY <1>8, <2>1 DEF PedidosUmc
  <2> QED
    BY <2>1, <2>2, NuloAssumption
<1>12. /\ hilo' \in Hilos /\ hilo'.etapa = "retornar" /\ hilo'.espera = "s_escribir_pagina"
       /\ hilo'.espera # NULO
  <2>1. hilo' = [hilo EXCEPT !.etapa = "retornar", !.espera = "s_escribir_pagina",
                             !.direccion = direccion, !.valor = valor, !.salto = TRUE]
    BY <1>5, <1>6, <1>10 DEF Retornar
  <2>2. "s_escribir_pagina" \in Semaforos /\ "retornar" \in Etapas
    BY DEF Semaforos, Etapas
  <2>3. hilo' \in Hilos
    BY <1>1, <2>1, <2>2 DEF Hilos
  <2> QED
    BY <1>1, <2>1, <2>2, <2>3, NuloAssumption DEF Hilos
<1>13. pcb' = [pcb EXCEPT !.pc = n, !.contexto_actual = a]
  BY <1>2, <1>5, <1>9 DEF Retornar
<1>14. /\ pcb' \in Pcbs /\ Contextos' = C /\ pcb'.stack_pointer = pcb.stack_pointer
       /\ pcb'.contexto_actual = a /\ pcb'.pc = n
       /\ pcb'.instrucciones = pcb.instrucciones /\ pcb'.stack_position = pcb.stack_position
       /\ pcb'.cant_paginas_codigo_stack = pcb.cant_paginas_codigo_stack
       /\ pcb'.etiquetas = pcb.etiquetas /\ pcb'.etiquetas_size = pcb.etiquetas_size
  <2>1. n \in Int
    BY DEF Lineas
  <2>2. pcb' \in Pcbs
    BY <1>1, <1>13, <2>1 DEF Pcbs
  <2> QED
    BY <1>1, <1>3, <1>13, <2>2 DEF Pcbs, Contextos
<1>15. UNCHANGED <<programa, semaforos, pagina_es_codigo, valor_pagina, excepcion_umc,
                   respuesta, memoria, indefinido>>
  BY DEF Retornar
<1>16. Vivos' \subseteq Vivos
  BY <1>2, <1>14 DEF Vivos
<1>17. TypeOK'
  BY <1>1, <1>11, <1>12, <1>14, <1>15, TiposConPcb DEF TypeOK
<1>18. DelPrograma'
  BY <1>3, <1>12, <1>14, <1>15 DEF Inv, DelPrograma, Lineas
<1>19. Etapa'
  BY <1>12, NuloAssumption DEF Etapa, Semaforos
<1>20. UnaRespuesta'
  BY <1>1, <1>11, <1>12, <1>15, SePide DEF Inv
<1>21. FueraDelTexto'
  <2>1. \A l \in 2..(a + 2) : Direccion(C[l].posicion_variable_retorno) >= programa.largo
    BY <1>2, <1>3, <1>4 DEF Inv, FueraDelTexto
  <2>2. Primero(d) >= programa.largo
    <3>1. k \in 2..(a + 2)
      BY <1>4
    <3> QED
      BY <1>5, <1>6, <1>7, <2>1, <3>1
  <2>3. \A l \in 2..(a + 1) : l \in 2..(a + 2)
    OBVIOUS
  <2> QED
    BY <1>8, <1>11, <1>12, <1>14, <1>15, <2>1, <2>2, <2>3 DEF Inv, FueraDelTexto, Primero, Direccion
<1>22. LecturaDelCodigo'
  BY <1>12 DEF LecturaDelCodigo
<1>23. Pila'
  <2>1. a < Len(C)
    <3>1. k \in 1..Len(C) /\ k = a + 2
      BY <1>4
    <3>2. Len(C) \in Nat
      BY <1>1, <1>3, LenProperties DEF Pcbs, Contextos
    <3> QED
      BY <3>1, <3>2
  <2>2. PICK m \in Nat : Repartidas(m)
    BY <1>1 DEF Pila
  <2>3. Repartidas(m)'
    BY <1>3, <1>14, <1>15, <1>16, <2>2 DEF Repartidas, LugarDe
  <2> QED
    BY <1>1, <1>3, <1>14, <1>16, <2>1, <2>3 DEF Pila, LugarDe
<1> QED
  BY <1>17, <1>18, <1>19, <1>20, <1>21, <1>22, <1>23 DEF Inv

-----------------------------------------------------------------------------
(* The journey of the PCB.  Both modules have their own instance of        *)
(* SerializacionPcb, with the same sizes.                                  *)
Viaje == INSTANCE SerializacionPruebas

(***************************************************************************)
(* The two instances write the same buffer, read the same PCB and reserve  *)
(* the same bytes.                                                         *)
(***************************************************************************)
LEMMA MismoMensaje ==
  ASSUME NEW p
  PROVE  /\ Mensaje!Serializar(p) = Viaje!Serializar(p)
         /\ Mensaje!Deserializar(p) = Viaje!Deserializar(p)
         /\ Mensaje!EntraEnElBuffer(p) = Viaje!EntraEnElBuffer(p)
<1>1. Mensaje!Serializar(p) = Viaje!Serializar(p)
  BY DEF Mensaje!Enteros, Viaje!Enteros, Mensaje!Entero, Viaje!Entero, Mensaje!Caracter,
      Viaje!Caracter, Mensaje!EscribirLugar, Viaje!EscribirLugar, Mensaje!EscribirVariable,
      Viaje!EscribirVariable, Mensaje!EscribirVariables, Viaje!EscribirVariables,
      Mensaje!EscribirContexto, Viaje!EscribirContexto, Mensaje!EscribirContextos,
      Viaje!EscribirContextos, Mensaje!EscribirEtiquetas, Viaje!EscribirEtiquetas,
      Mensaje!EscribirInstruccion, Viaje!EscribirInstruccion, Mensaje!EscribirInstrucciones,
      Viaje!EscribirInstrucciones, Mensaje!EscribirEnteros, Viaje!EscribirEnteros,
      Mensaje!EscribirEncabezado, Viaje!EscribirEncabezado, Mensaje!Inicios, Viaje!Inicios,
      Mensaje!Longitud, Viaje!Longitud, Mensaje!Contenido, Viaje!Contenido, Mensaje!Serializar,
      Viaje!Serializar, Mensaje!FlattenSeq, Viaje!FlattenSeq
<1>2. Mensaje!Deserializar(p) = Viaje!Deserializar(p)
  BY DEF Mensaje!Enteros, Viaje!Enteros, Mensaje!LeerLugar, Viaje!LeerLugar,
      Mensaje!LargoVariable, Viaje!LargoVariable, Mensaje!LeerVariable, Viaje!LeerVariable,
      Mensaje!LeerVariables, Viaje!LeerVariables, Mensaje!LeerContexto, Viaje!LeerContexto,
      Mensaje!LeerContextos, Viaje!LeerContextos, Mensaje!LeerInstrucciones,
      Viaje!LeerInstrucciones, Mensaje!LeerEnteros, Viaje!LeerEnteros, Mensaje!Deserializar,
      Viaje!Deserializar, Mensaje!ToSet, Viaje!ToSet
<1>3. Mensaje!EntraEnElBuffer(p) = Viaje!EntraEnElBuffer(p)
  BY DEF Mensaje!Enteros, Viaje!Enteros, Mensaje!Entero, Viaje!Entero, Mensaje!Caracter,
      Viaje!Caracter, Mensaje!EscribirLugar, Viaje!EscribirLugar, Mensaje!EscribirVariable,
      Viaje!EscribirVariable, Mensaje!EscribirVariables, Viaje!EscribirVariables,
      Mensaje!EscribirContexto, Viaje!EscribirContexto, Mensaje!EscribirContextos,
      Viaje!EscribirContextos, Mensaje!EscribirEtiquetas, Viaje!EscribirEtiquetas,
      Mensaje!EscribirInstruccion, Viaje!EscribirInstruccion, Mensaje!EscribirInstrucciones,
      Viaje!EscribirInstrucciones, Mensaje!EscribirEnteros, Viaje!EscribirEnteros,
      Mensaje!EscribirEncabezado, Viaje!EscribirEncabezado, Mensaje!Inicios, Viaje!Inicios,
      Mensaje!Longitud, Viaje!Longitud, Mensaje!ReservaInicial, Viaje!ReservaInicial,
      Mensaje!ReservaDelContexto, Viaje!ReservaDelContexto, Mensaje!EntraEnElBuffer,
      Viaje!EntraEnElBuffer, Mensaje!FlattenSeq, Viaje!FlattenSeq
<1> QED
  BY <1>1, <1>2, <1>3

(***************************************************************************)
(* A sequence is of what its elements are.                                 *)
(***************************************************************************)
LEMMA SecuenciaDe ==
  ASSUME NEW S, NEW T, NEW s \in Seq(S), \A i \in 1..Len(s) : s[i] \in T
  PROVE  s \in Seq(T)
<1>1. Len(s) \in Nat /\ s \in [1..Len(s) -> S]
  BY LenProperties
<1>2. s \in [1..Len(s) -> T]
  BY <1>1
<1> QED
  BY <1>1, <1>2

(* And it is of whatever includes them.                                    *)
LEMMA SecuenciaEn ==
  ASSUME NEW S, NEW T, NEW s \in Seq(S), \A x \in S : x \in T
  PROVE  s \in Seq(T)
<1>1. \A i \in 1..Len(s) : s[i] \in S
  BY ElementOfSeq
<1> QED
  BY <1>1, SecuenciaDe

(***************************************************************************)
(* A PCB whose contexts are all initialised is one that can travel.        *)
(***************************************************************************)
Datos == Int \cup Nombres \cup {Codigo}

(* With its fields taken from Int, the names and the content of the text.  *)
LEMMA PuedeViajar ==
  ASSUME TypeOK, DelPrograma, SinIniciar \notin ToSet(Contextos)
  PROVE  pcb \in Viaje!PcbsDe(Datos)
<1>1. PICK V : V = Datos
  OBVIOUS
<1>2. (\A n \in Int : n \in V) /\ (\A n \in Nat : n \in V) /\ (\A n \in Nombres : n \in V) /\ Codigo \in V
  BY <1>1 DEF Datos
<1>3. ASSUME NEW x \in Lugares PROVE x \in Viaje!LugaresDe(V)
  BY <1>2 DEF Lugares, Viaje!LugaresDe
<1>4. ASSUME NEW x \in VariablesStack PROVE x \in Viaje!VariablesDe(V)
  BY <1>2, <1>3 DEF VariablesStack, Viaje!VariablesDe
<1>5. ASSUME NEW x \in IndicesDeStack PROVE x \in Viaje!ContextosDe(V)
  <2>1. x.variables \in Seq(VariablesStack)
    BY DEF IndicesDeStack
  <2>2. x.variables \in Seq(Viaje!VariablesDe(V))
    BY <1>4, <2>1, SecuenciaEn
  <2> QED
    BY <1>2, <1>3, <2>2 DEF IndicesDeStack, Viaje!ContextosDe
<1>6. ASSUME NEW x \in Instrucciones PROVE x \in Viaje!InstruccionesDe(V)
  BY <1>2 DEF Instrucciones, Viaje!InstruccionesDe
<1>7. /\ pcb \in Pcbs /\ Contextos = pcb.indice_stack
      /\ pcb.indice_stack \in Seq(IndicesDeStack \cup {SinIniciar})
      /\ pcb.instrucciones \in Seq(Instrucciones) /\ pcb.etiquetas \in Seq({Codigo})
      /\ Len(pcb.etiquetas) = pcb.etiquetas_size
  BY DEF TypeOK, DelPrograma, Pcbs, Contextos
<1>8. pcb.indice_stack \in Seq(Viaje!ContextosDe(V))
  <2>1. \A k \in 1..Len(pcb.indice_stack) : pcb.indice_stack[k] # SinIniciar
    <3>1. DOMAIN pcb.indice_stack = 1..Len(pcb.indice_stack)
      BY <1>7, LenProperties
    <3> QED
      BY <1>7, <3>1 DEF ToSet
  <2>2. \A k \in 1..Len(pcb.indice_stack) : pcb.indice_stack[k] \in IndicesDeStack \cup {SinIniciar}
    BY <1>7, ElementOfSeq
  <2>3. \A k \in 1..Len(pcb.indice_stack) : pcb.indice_stack[k] \in Viaje!ContextosDe(V)
    BY <1>5, <2>1, <2>2
  <2> QED
    BY <1>7, <2>3, SecuenciaDe
<1>9. pcb.instrucciones \in Seq(Viaje!InstruccionesDe(V))
  BY <1>6, <1>7, SecuenciaEn
<1>10. pcb.etiquetas \in Seq(V)
  BY <1>2, <1>7, SecuenciaEn
<1>11. pcb \in [quantum : V, pid : V, pc : V, cant_paginas_codigo_stack : V, estado : V,
                contexto_actual : V, stack_size_fisico : V, stack_position : V, stack_pointer : V,
                etiquetas_size : Nat, etiquetas : Seq(V),
                instrucciones : Seq(Viaje!InstruccionesDe(V)),
                indice_stack : Seq(Viaje!ContextosDe(V))]
  BY <1>2, <1>7, <1>8, <1>9, <1>10 DEF Pcbs
<1> QED
  BY <1>1, <1>7, <1>11 DEF Viaje!PcbsDe

(***************************************************************************)
(* The reader gets the PCB that was written, and it fits in the buffer.    *)
(***************************************************************************)
LEMMA ElPcbVuelve ==
  ASSUME TypeOK, DelPrograma, SinIniciar \notin ToSet(Contextos)
  PROVE  /\ Mensaje!EntraEnElBuffer(pcb)
         /\ Mensaje!Deserializar(Mensaje!Serializar(pcb)) = pcb
<1>1. PICK V : V = Datos /\ Nat \subseteq V
  <2>1. \A n \in Nat : n \in Datos
    BY DEF Datos
  <2> QED
    BY <2>1
<1>2. Viaje!Tamanios
  BY TamaniosAssumption, CpuAssumption DEF Viaje!Tamanios
<1>3. PICK p \in Viaje!PcbsDe(V) : p = pcb
  BY <1>1, PuedeViajar
<1>4. Viaje!EntraEnElBuffer(p) /\ Viaje!Deserializar(Viaje!Serializar(p)) = p
  BY <1>1, <1>2, Viaje!IdaYVuelta, Viaje!EntraSiempre
<1> QED
  BY <1>3, <1>4, MismoMensaje

(* The PCB is the same in the other CPU, or nobody knows what the program  *)
(* does from then on (enviar_PCB, recibo_PCB).                             *)
LEMMA SiguePasarDeCpu ==
  ASSUME Inv, PasarDeCpu
  PROVE  Inv'
<1>1. UNCHANGED <<programa, hilo, semaforos, pagina_es_codigo, valor_pagina, excepcion_umc,
                  pedido, respuesta, memoria>>
  BY DEF PasarDeCpu, umc
<1>2. pcb' = pcb /\ indefinido' \in BOOLEAN
  <2>1. CASE SinIniciar \in ToSet(Contextos)
    BY <2>1 DEF PasarDeCpu
  <2>2. CASE SinIniciar \notin ToSet(Contextos)
    BY <2>2, ElPcbVuelve DEF PasarDeCpu, Inv, TypeOK
  <2> QED
    BY <2>1, <2>2
<1>3. TypeOK'
  BY <1>1, <1>2, TiposSiguen DEF Inv, TypeOK
<1>4. DelPrograma' /\ Pila'
  BY <1>1, <1>2, DelProgramaSigue, PilaSigue DEF Inv
<1>5. Etapa' /\ UnaRespuesta'
  BY <1>1, SeQueda DEF Inv, Etapa
<1>6. FueraDelTexto'
  BY <1>1, <1>2, FueraSigue DEF Inv
<1>7. LecturaDelCodigo'
  BY DEF LecturaDelCodigo, PasarDeCpu
<1> QED
  BY <1>3, <1>4, <1>5, <1>6, <1>7 DEF Inv

-----------------------------------------------------------------------------
(* The invariant of the specification.                                     *)

(***************************************************************************)
(* It holds at the start: the PCB is the one of crear_PCB, and the memory  *)
(* of the process has its text.                                            *)
(***************************************************************************)
LEMMA Inicial ==
  ASSUME Init
  PROVE  Inv
<1>1. /\ programa \in Programas /\ pcb = CrearPcb(programa) /\ hilo = Quieto("afuera")
      /\ semaforos = [s \in Semaforos |-> 0] /\ pagina_es_codigo = FALSE /\ valor_pagina = <<>>
      /\ excepcion_umc = FALSE /\ pedido = NULO /\ respuesta = NULO /\ indefinido = FALSE
  BY DEF Init
<1>2. PICK l \in Nat, e \in Nat, P \in Nat :
        l = programa.largo /\ e = programa.etiquetas_size /\ P = CantPaginas(programa.largo)
  BY <1>1, ProgramasAssumption, PaginasDeUnPrograma
<1>3. PICK I : I = programa.instrucciones /\ I \in Seq(Instrucciones) /\ Len(I) \in Nat /\ Len(I) # 0
  <2>1. PICK I : I = programa.instrucciones /\ I \in Seq(Instrucciones) /\ I # <<>>
    BY <1>1, ProgramasAssumption
  <2> QED
    BY <2>1, EmptySeq, LenProperties
<1>4. hilo \in Hilos /\ hilo.etapa = "afuera" /\ hilo.espera = NULO
  BY <1>1, QuietoBien DEF Etapas
<1>5. PICK C : C = <<Contexto(0, SinLugar)>>
  OBVIOUS
<1>6. PICK c \in IndicesDeStack : c = Contexto(0, SinLugar) /\ c.variables = <<>> /\ c.posicion_retorno = 0
  <2>1. SinLugar \in Lugares /\ <<>> \in Seq(VariablesStack)
    BY DEF SinLugar, Lugares
  <2>2. Contexto(0, SinLugar) = [posicion_retorno |-> 0, posicion_variable_retorno |-> SinLugar,
                                 variables |-> <<>>]
    BY DEF Contexto
  <2>3. Contexto(0, SinLugar) \in IndicesDeStack
    <3>1. PICK z \in Int : z = 0
      OBVIOUS
    <3>2. PICK x \in Lugares : x = SinLugar
      BY <2>1
    <3>3. PICK y : y = <<>> /\ y \in Seq(VariablesStack)
      BY <2>1
    <3>4. [posicion_retorno |-> z, posicion_variable_retorno |-> x, variables |-> y] \in IndicesDeStack
      BY <3>3 DEF IndicesDeStack
    <3> QED
      BY <2>2, <3>1, <3>2, <3>3, <3>4
  <2> QED
    BY <2>2, <2>3
<1>7. C \in Seq(IndicesDeStack \cup {SinIniciar}) /\ Len(C) = 1 /\ C[1] = c
  BY <1>5, <1>6
<1>8. PICK E : E = [i \in 1..e |-> Codigo] /\ E \in Seq({Codigo}) /\ Len(E) = e
  <2>1. [i \in 1..e |-> Codigo] \in Seq({Codigo}) /\ Len([i \in 1..e |-> Codigo]) = e
    OBVIOUS
  <2> QED
    BY <2>1
<1>9. pcb = [quantum |-> 1, pid |-> 1, pc |-> 0, cant_paginas_codigo_stack |-> P, estado |-> 0,
             contexto_actual |-> 0, stack_size_fisico |-> STACK_SIZE,
             stack_position |-> l, stack_pointer |-> l, etiquetas_size |-> e, etiquetas |-> E,
             instrucciones |-> I, indice_stack |-> C]
  BY <1>1, <1>2, <1>3, <1>5, <1>8 DEF CrearPcb
<1>10. pcb \in Pcbs
  BY <1>3, <1>7, <1>8, <1>9, CpuAssumption DEF Pcbs
<1>11. /\ memoria \in [Direccionables -> Contenidos]
       /\ \A b \in 0..(l - 1) : memoria[b] = <<Codigo, b>>
  <2>1. PICK n \in Nat : n = TamanioPagina * P /\ l <= n
    <3>1. TamanioPagina * P \in Nat
      BY TamaniosAssumption
    <3> QED
      BY <1>1, <1>2, <3>1, PaginasDeUnPrograma
  <2>2. memoria = [b \in 0..(n - 1) |-> IF b < l THEN <<Codigo, b>> ELSE <<Basura, 0>>]
    BY <1>2, <2>1 DEF Init
  <2>3. Direccionables = 0..(n - 1)
    BY <1>2, <2>1 DEF Direccionables
  <2>4. <<Basura, 0>> \in Contenidos /\ \A b \in 0..(n - 1) : <<Codigo, b>> \in Contenidos
    BY DEF Contenidos
  <2>5. \A b \in 0..(l - 1) : b \in 0..(n - 1) /\ b < l
    BY <2>1
  <2> QED
    BY <2>2, <2>3, <2>4, <2>5
<1>12. TypeOK
  <2>1. semaforos \in [Semaforos -> Nat] /\ <<>> \in Seq(Contenidos)
    BY <1>1
  <2> QED
    BY <1>1, <1>4, <1>10, <1>11, <2>1 DEF TypeOK
<1>13. DelPrograma
  <2>1. 0 \in Lineas
    BY <1>3 DEF Lineas
  <2>2. \A k \in 1..Len(C) : C[k].posicion_retorno \in Lineas
    BY <1>6, <1>7, <2>1
  <2> QED
    BY <1>2, <1>3, <1>4, <1>8, <1>9, <2>1, <2>2 DEF DelPrograma, Contextos
<1>14. Etapa
  BY <1>4, NuloAssumption DEF Etapa, Semaforos
<1>15. UnaRespuesta
  BY <1>1, <1>4 DEF UnaRespuesta, Semaforos
<1>16. FueraDelTexto
  <2>1. pcb.contexto_actual = 0
    BY <1>9
  <2> QED
    BY <1>1, <1>2, <1>4, <1>11, <2>1 DEF FueraDelTexto
<1>17. LecturaDelCodigo
  BY <1>4 DEF LecturaDelCodigo
<1>18. Pila
  <2>1. Contextos = C /\ pcb.contexto_actual = 0 /\ pcb.stack_pointer = l
    BY <1>9 DEF Contextos
  <2>2. Vivos = {1}
    BY <2>1 DEF Vivos
  <2>3. Len(C[1].variables) = 0 /\ C[1] # SinIniciar
    BY <1>6, <1>7, NuloAssumption
  <2>4. Repartidas(0)
    <3>1. SizeofInt * 0 = 0
      BY TamaniosAssumption
    <3>2. pcb.stack_pointer = programa.largo + SizeofInt * 0
      BY <1>2, <2>1, <3>1
    <3> QED
      BY <2>1, <2>2, <2>3, <3>2 DEF Repartidas
  <2>5. \E m \in Nat : Repartidas(m)
    BY <2>4
  <2>6. \A k \in Vivos : Contextos[k] # SinIniciar /\ 1..Len(Contextos[k].variables) = {}
    BY <2>1, <2>2, <2>3
  <2>7. pcb.contexto_actual < Len(Contextos)
    <3>1. Len(C) = 1
      BY <1>7
    <3> QED
      BY <2>1, <3>1
  <2> QED
    BY <2>5, <2>6, <2>7 DEF Pila
<1> QED
  BY <1>12, <1>13, <1>14, <1>15, <1>16, <1>17, <1>18 DEF Inv

(***************************************************************************)
(* Every step keeps it.                                                    *)
(***************************************************************************)
LEMMA Paso ==
  ASSUME Inv, [Next]_vars
  PROVE  Inv'
<1>1. CASE UNCHANGED vars
  <2>1. UNCHANGED <<programa, pcb, hilo, semaforos, pagina_es_codigo, valor_pagina, excepcion_umc,
                    pedido, respuesta, memoria, indefinido>>
    BY <1>1 DEF vars, umc
  <2>2. TypeOK'
    BY <2>1, TiposSiguen DEF Inv, TypeOK
  <2>3. DelPrograma' /\ Pila'
    BY <2>1, DelProgramaSigue, PilaSigue DEF Inv
  <2>4. Etapa' /\ UnaRespuesta'
    BY <2>1, SeQueda DEF Inv, Etapa
  <2>5. FueraDelTexto'
    BY <2>1, FueraSigue DEF Inv
  <2>6. LecturaDelCodigo'
    BY <2>1 DEF Inv, LecturaDelCodigo, Lectura, LoQueFalta, Bien, Instruccion
  <2> QED
    BY <2>2, <2>3, <2>4, <2>5, <2>6 DEF Inv
<1>2. CASE Avanzar
  <2>1. CASE LeoInstruccionDesdeUmc
    BY <2>1, SiguePedir DEF LeoInstruccionDesdeUmc, Piden
  <2>2. CASE LeoVariableDesdeUmc
    BY <2>2, SiguePedir DEF LeoVariableDesdeUmc, Piden
  <2> QED
    BY <1>2, <2>1, <2>2, SigueEmpezar, SigueRecibirCodigo, SigueAnalizarLinea, SigueRecibirVariable,
       SigueFinDerefenciar, SigueEscribo, SigueRecibirEscritura DEF Avanzar
<1>3. CASE Primitiva
  <2>1. ASSUME NEW nombre \in Nombres, DefinirVariable(nombre) PROVE Inv'
    BY <2>1, SigueDefinirVariable
  <2>2. ASSUME NEW nombre \in Nombres, Derefenciar(nombre) PROVE Inv'
    BY <2>2, SigueDerefenciar
  <2>3. ASSUME NEW nombre \in Nombres, NEW valor \in Valores, Asignar(nombre, valor) PROVE Inv'
    BY <2>3, SigueAsignar
  <2>4. ASSUME NEW nombre \in Nombres, NEW linea \in 0..(Len(pcb.instrucciones) - 1),
               LlamarConRetorno(linea, nombre)
        PROVE  Inv'
    BY <2>4, SigueLlamarConRetorno
  <2>5. ASSUME NEW linea \in 0..(Len(pcb.instrucciones) - 1), IrALabel(linea) PROVE Inv'
    BY <2>5, SigueIrALabel
  <2>6. ASSUME NEW valor \in Valores, Retornar(valor) PROVE Inv'
    BY <2>6, SigueRetornar
  <2> QED
    BY <1>3, <2>1, <2>2, <2>3, <2>4, <2>5, <2>6 DEF Primitiva
<1> QED
  BY <1>1, <1>2, <1>3, SigueFinInstruccion, SigueFinalizar, SiguePasarDeCpu, SigueAtenderPedido,
     SigueAtenderUmc DEF Next

(***************************************************************************)
(* The inductive invariant, with every program, page size and size of int. *)
(***************************************************************************)
THEOREM Invariante == Spec => []Inv
<1>1. Init => Inv
  BY Inicial
<1>2. Inv /\ [Next]_vars => Inv'
  BY Paso
<1> QED
  BY <1>1, <1>2, PTL DEF Spec

(***************************************************************************)
(* The PCB, the thread, the requests and the memory always have the types  *)
(* of the structs of serializaciones_cpu.h.                                *)
(***************************************************************************)
THEOREM TiposDeLaCpu == Spec => []TypeOK
<1>1. Inv => TypeOK
  BY DEF Inv
<1> QED
  BY <1>1, Invariante, PTL

(***************************************************************************)
(* A request, its answer and the unit of the semaphore are never two at    *)
(* once (atender_umc, pagina_es_codigo).                                   *)
(***************************************************************************)
THEOREM SiempreUnaRespuesta == Spec => []UnaRespuesta
<1>1. Inv => UnaRespuesta
  BY DEF Inv
<1> QED
  BY <1>1, Invariante, PTL

(***************************************************************************)
(* The first elements of a sequence.                                       *)
(***************************************************************************)
LEMMA ElPrincipio ==
  ASSUME NEW s, NEW n \in Nat
  PROVE  SubSeq(s, 1, n) = [i \in 1..n |-> s[i]]
<1>1. SubSeq(s, 1, n) = [i \in 1..(n - 1 + 1) |-> s[1 + i - 1]]
  BY SMTT(60) DEF SubSeq
<1>2. 1..(n - 1 + 1) = 1..n /\ \A i \in 1..n : 1 + i - 1 = i
  OBVIOUS
<1>3. \A i \in 1..n : s[1 + i - 1] = s[i]
  BY <1>2
<1> QED
  BY <1>1, <1>2, <1>3

(***************************************************************************)
(* The fetch gives the text of the instruction, for every page size and    *)
(* every instruction that starts after the first byte of a page and ends   *)
(* before the last one of the next page (devuelve_instruccion_a_ejecutar). *)
(***************************************************************************)
THEOREM TextoSiempreCorrecto == Spec => []TextoCorrecto
<1>1. ASSUME Inv, CodigoRecibido, Leible(Instruccion.start, Instruccion.offset)
      PROVE  TextoBueno
  <2>1. PICK i \in Instrucciones : i = Instruccion
    BY <1>1, InstruccionBien DEF Inv, CodigoRecibido
  <2>2. PICK n \in Nat : n = Len(PedidosDeInstruccion(i)) /\ Leidos(i, n) = i.offset
    BY <1>1, <2>1, PedidosLeibles
  <2>3. PICK j \in 0..n : Lectura(i, j)
    BY <1>1, <2>1, <2>2 DEF Inv, LecturaDelCodigo, CodigoRecibido
  <2>4. j = n
    <3>1. Len(hilo.pedidos) = 0 /\ Len(hilo.pedidos) = n - j
      BY <1>1, <2>2, <2>3 DEF CodigoRecibido, Lectura, LoQueFalta
    <3> QED
      BY <3>1
  <2>5. PICK a \in Nat, m \in Nat : a = i.start /\ m = i.offset /\ m # 0
    BY DEF Instrucciones
  <2>6. hilo.leido = Trecho(a, m)
    BY <1>1, <2>1, <2>2, <2>3, <2>4, <2>5 DEF Lectura
  <2>7. Len(hilo.leido) = m /\ hilo.leido = [b \in 1..m |-> <<Codigo, a + b - 1>>]
    BY <2>6, TrechoBien DEF Trecho
  <2>8. Texto(hilo.leido, m) = [b \in 1..(m - 1) |-> <<Codigo, a + b - 1>>]
    <3>1. PICK q \in Nat : q = m - 1 /\ \A b \in 1..q : b \in 1..m
      BY <2>5
    <3>2. SubSeq(hilo.leido, 1, q) = [b \in 1..q |-> hilo.leido[b]]
      BY ElPrincipio
    <3>3. \A b \in 1..q : hilo.leido[b] = <<Codigo, a + b - 1>>
      BY <2>7, <3>1
    <3> QED
      BY <3>1, <3>2, <3>3 DEF Texto
  <2> QED
    BY <2>1, <2>5, <2>7, <2>8 DEF TextoBueno, TextoDeLaInstruccion
<1>2. Inv => TextoCorrecto
  BY <1>1 DEF TextoCorrecto
<1> QED
  BY <1>2, Invariante, PTL

(***************************************************************************)
(* A PCB whose contexts are all initialised fits in the buffer and is the  *)
(* same at the other end, whatever it has (serializar_pcb_quantum,         *)
(* deserializar_pcb_quantum).                                              *)
(***************************************************************************)
THEOREM ElViajeNoCambiaNada == Spec => []ViajeDelPcb
<1>1. Inv => ViajeDelPcb
  BY ElPcbVuelve DEF Inv, ViajeDelPcb
<1> QED
  BY <1>1, Invariante, PTL

(***************************************************************************)
(* The contexts that are alive exist and their variables share no byte     *)
(* among them nor with the text, when an int divides the page, as it does  *)
(* with every MARCO_SIZE of the configurations (ansisop_definir_variable,  *)
(* ansisop_llamar_con_retorno, ansisop_retornar).                          *)
(***************************************************************************)
THEOREM PilaSiempreEnOrden ==
  ASSUME TamanioPagina % SizeofInt = 0
  PROVE  Spec => []PilaEnOrden
<1>1. ASSUME Inv PROVE PilaEnOrden
  <2> DEFINE primero(k, i) == Direccion(Contextos[k].variables[i].posicion_memoria)
  <2>1. /\ TypeOK /\ Pila /\ Vivos = 1..(pcb.contexto_actual + 1)
        /\ programa.largo \in Nat /\ SizeofInt \in Nat
    BY <1>1, ProgramasAssumption, TamaniosAssumption DEF Inv, TypeOK, Vivos
  <2>2. PICK m \in Nat : Repartidas(m)
    BY <1>1 DEF Inv, Pila
  <2>3. \A k \in Vivos : DOMAIN Contextos[k].variables = 1..Len(Contextos[k].variables)
    <3> SUFFICES ASSUME NEW k \in Vivos
                 PROVE  DOMAIN Contextos[k].variables = 1..Len(Contextos[k].variables)
      OBVIOUS
    <3>1. Contextos[k].variables \in Seq(VariablesStack)
      BY <2>1, ContextoBien DEF IndicesDeStack
    <3> QED
      BY <3>1, LenProperties
  <2>4. ASSUME NEW k \in Vivos, NEW i \in 1..Len(Contextos[k].variables)
        PROVE  /\ primero(k, i) \in Nat /\ primero(k, i) >= programa.largo
               /\ Ocupa(Contextos[k].variables[i]) = primero(k, i)..(primero(k, i) + SizeofInt - 1)
    BY <2>1, LugarVivo DEF LugarDe, Ocupa
  <2>5. ASSUME NEW k \in Vivos, NEW i \in 1..Len(Contextos[k].variables),
               NEW b \in Ocupa(Contextos[k].variables[i])
        PROVE  b >= programa.largo
    BY <2>1, <2>4
  <2>6. ASSUME NEW k \in Vivos, NEW i \in 1..Len(Contextos[k].variables),
               NEW l \in Vivos, NEW h \in 1..Len(Contextos[l].variables), <<k, i>> # <<l, h>>
        PROVE  Ocupa(Contextos[k].variables[i]) \cap Ocupa(Contextos[l].variables[h]) = {}
    <3>1. PICK x \in 1..m : LugarDe(k, i) = Lugar(programa.largo + SizeofInt * x)
      BY <2>2 DEF Repartidas
    <3>2. PICK y \in 1..m : LugarDe(l, h) = Lugar(programa.largo + SizeofInt * y)
      BY <2>2 DEF Repartidas
    <3>3. x # y
      BY <2>1, <2>6, <3>1, <3>2 DEF Pila
    <3>4. PICK p \in Nat, u \in Nat, v \in Nat : p = programa.largo /\ u = x /\ v = y /\ u # v
      BY <2>1, <3>3
    <3>5. PICK a \in Nat, b \in Nat, S \in Nat :
            a = primero(k, i) /\ b = primero(l, h) /\ S = SizeofInt
      BY <2>1, <2>4
    <3>6. a = Direccion(Lugar(p + SizeofInt * u)) /\ b = Direccion(Lugar(p + SizeofInt * v))
      BY <3>1, <3>2, <3>4, <3>5 DEF LugarDe
    <3>7. a + S <= b \/ b + S <= a
      BY <3>4, <3>5, <3>6, Separadas
    <3>8. (a..(a + S - 1)) \cap (b..(b + S - 1)) = {}
      BY <3>7
    <3> QED
      BY <2>4, <3>5, <3>8
  <2>7. pcb.contexto_actual < Len(Contextos) /\ \A k \in Vivos : Contextos[k] # SinIniciar
    BY <2>1 DEF Pila
  <2>8. \A k \in Vivos : \A i \in DOMAIN Contextos[k].variables :
          /\ \A b \in Ocupa(Contextos[k].variables[i]) : b >= programa.largo
          /\ \A l \in Vivos : \A h \in DOMAIN Contextos[l].variables :
               <<k, i>> # <<l, h>> =>
                 Ocupa(Contextos[k].variables[i]) \cap Ocupa(Contextos[l].variables[h]) = {}
    <3> SUFFICES ASSUME NEW k \in Vivos, NEW i \in DOMAIN Contextos[k].variables
                 PROVE  /\ \A b \in Ocupa(Contextos[k].variables[i]) : b >= programa.largo
                        /\ \A l \in Vivos : \A h \in DOMAIN Contextos[l].variables :
                             <<k, i>> # <<l, h>> =>
                               Ocupa(Contextos[k].variables[i]) \cap Ocupa(Contextos[l].variables[h]) = {}
      OBVIOUS
    <3>1. i \in 1..Len(Contextos[k].variables)
      BY <2>3
    <3>2. \A b \in Ocupa(Contextos[k].variables[i]) : b >= programa.largo
      BY <2>5, <3>1
    <3>3. ASSUME NEW l \in Vivos, NEW h \in DOMAIN Contextos[l].variables, <<k, i>> # <<l, h>>
          PROVE  Ocupa(Contextos[k].variables[i]) \cap Ocupa(Contextos[l].variables[h]) = {}
      <4>1. h \in 1..Len(Contextos[l].variables)
        BY <2>3
      <4> QED
        BY <2>6, <3>1, <3>3, <4>1
    <3> QED
      BY <3>2, <3>3
  <2> DEFINE vivos == 1..(pcb.contexto_actual + 1)
  <2>9. \A k \in vivos : Contextos[k] # SinIniciar
    BY <2>1, <2>7
  <2>10. \A k \in vivos : \A i \in DOMAIN Contextos[k].variables :
           /\ \A b \in Ocupa(Contextos[k].variables[i]) : b >= programa.largo
           /\ \A l \in vivos : \A h \in DOMAIN Contextos[l].variables :
                <<k, i>> # <<l, h>> =>
                  Ocupa(Contextos[k].variables[i]) \cap Ocupa(Contextos[l].variables[h]) = {}
    <3> HIDE DEF vivos
    <3>1. vivos = Vivos
      BY <2>1 DEF vivos
    <3> QED
      BY <2>8, <3>1
  <2> QED
    BY <2>7, <2>9, <2>10, Zenon DEF PilaEnOrden
<1> QED
  BY <1>1, Invariante, PTL
=============================================================================
