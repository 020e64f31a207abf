----------------------------- MODULE Paginacion -----------------------------
(***************************************************************************)
(* How the CPU cuts a stretch of the memory of its process into requests   *)
(* to the UMC (funciones_comunes.c and the calcula_* functions of cpu.c    *)
(* and primitivas_ansisop.c).  A stretch is an address and a length; a     *)
(* request is a page, an offset and a length, the fields of                *)
(* t_pagina_pedido.                                                        *)
(*                                                                         *)
(* calcula_pagina gives the page after the right one when the address is   *)
(* the first of its page.  Everything here follows from that.              *)
(***************************************************************************)
EXTENDS Naturals, Sequences

CONSTANTS TamanioPagina,  (* tamanio_pagina, from the handshake of the UMC *)
          SizeofInt       (* sizeof(int)                                   *)

ASSUME TamaniosAssumption ==
  /\ SizeofInt \in Nat \ {0}
  /\ TamanioPagina \in Nat /\ TamanioPagina > SizeofInt

CalculaPagina(direccion) ==
  direccion \div TamanioPagina + (IF direccion % TamanioPagina = 0 THEN 1 ELSE 0)

CalculaOffset(direccion) == direccion % TamanioPagina

(* Mutant of OffsetDelPedido: every request has it.                        *)
OffsetDeTodos(direccion, i) == CalculaOffset(direccion)

(* Only the first request has an offset.                                   *)
OffsetDelPedido(direccion, i) == IF i = 1 THEN CalculaOffset(direccion) ELSE 0

(* From the page of the first byte to the page of the one AFTER the last.  *)
CantidadDePaginas(direccion, tamanio) ==
  CalculaPagina(direccion + tamanio) + 1 - CalculaPagina(direccion)

(* The length of the i-th request: the second and the third have the same, *)
(* what is left after the first page.                                      *)
TamanioDelPedido(direccion, tamanio, i) ==
  IF i = 1 /\ CantidadDePaginas(direccion, tamanio) = 1
    THEN tamanio
    ELSE LET enLaPrimera == TamanioPagina - CalculaOffset(direccion)
         IN IF i = 1 THEN enLaPrimera ELSE tamanio - enLaPrimera

Pedidos(direccion, tamanio) ==
  [i \in 1..CantidadDePaginas(direccion, tamanio) |->
     [pagina  |-> CalculaPagina(direccion) + i - 1,
      offset  |-> OffsetDelPedido(direccion, i),
      tamanio |-> TamanioDelPedido(direccion, tamanio, i)]]

(* The variables are ints, whatever position they have in their page.      *)
PedidosDeVariable(direccion) == Pedidos(direccion, SizeofInt)

(* instruccion: its start and its length, which the parser calls offset.   *)
PedidosDeInstruccion(instruccion) == Pedidos(instruccion.start, instruccion.offset)

-----------------------------------------------------------------------------
(* The stretches that these requests cover byte by byte: the ones that do  *)
(* not start on a page boundary and end before the second one.             *)
Leible(direccion, tamanio) ==
  /\ CalculaOffset(direccion) # 0
  /\ CalculaOffset(direccion) + tamanio < 2 * TamanioPagina

(* A variable that keeps what is written in it: it does not start on a     *)
(* page boundary and it does not cross one.                                *)
Fija(direccion) ==
  /\ CalculaOffset(direccion) # 0
  /\ CalculaOffset(direccion) + SizeofInt <= TamanioPagina
=============================================================================
