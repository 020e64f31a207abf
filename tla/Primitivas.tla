----------------------------- MODULE Primitivas -----------------------------
(***************************************************************************)
(* The execution of one ANSISOP program by the CPU (cpu.c and              *)
(* primitivas_ansisop.c), as far as its memory goes: the fetch of an       *)
(* instruction, the variables of the stack, the calls and the returns,     *)
(* through requests to the UMC that another thread answers.                *)
(*                                                                         *)
(* Two threads of the CPU share its globals: the one that executes         *)
(* instructions (ejecuto_instrucciones), which sends a request and waits   *)
(* on a semaphore, and the one that reads the socket of the UMC            *)
(* (atender_umc), which leaves the answer in valor_pagina and posts it.    *)
(* The parser of ANSISOP is external: an instruction is any sequence of    *)
(* primitives.  The byte offset of page p, TamanioPagina * p + offset, is  *)
(* the address of the memory the UMC keeps.                                *)
(***************************************************************************)
EXTENDS Paginacion, Integers, FiniteSetsExt, SequencesExt

CONSTANTS SizeofChar,
          Programas,       (* [instrucciones, largo, etiquetas_size], and  *)
                           (* llamadas, a bound: the calls it makes        *)
          STACK_SIZE,      (* the pages of stack, of the Nucleo's config   *)
          Nombres, Valores,
          Codigo,          (* the content of the bytes of the program      *)
          Basura,          (* the content of a byte nobody knows           *)
          SinIniciar,      (* an element of indice_stack never written     *)
          NULO,
          MaxDefiniciones  (* bound: variables a program defines           *)

VARIABLES
  programa,       (* the program, chosen at the start                      *)
  pcb,            (* pcb_quantum                                           *)
  hilo,           (* the instruction thread:                               *)
                  (*   etapa     where it is: "afuera" of an instruction,  *)
                  (*             "codigo", "analiza", "derefenciar",       *)
                  (*             "asignar", "retornar", "fin"; "perdido"   *)
                  (*             when what it fetched is not the program   *)
                  (*   espera    the semaphore it waits for, or NULO       *)
                  (*   pedidos   the requests still to send                *)
                  (*   leido     the bytes read so far                     *)
                  (*   escrito   posicion_variable: the bytes written      *)
                  (*   direccion, valor   the arguments of the primitive   *)
                  (*   salto     the instruction has changed the pc        *)
  semaforos,      (* s_codigo, s_variable_stack, s_escribir_pagina         *)
  pagina_es_codigo,
  valor_pagina,   (* the size_pagina bytes of the last page; forgotten     *)
                  (* once the thread has copied them                       *)
  excepcion_umc,
  pedido,         (* the request the UMC has not answered, or NULO         *)
  respuesta,      (* the answer the CPU has not read, or NULO              *)
  memoria,        (* the memory of the process in the UMC, byte by byte    *)
  resultado,      (* the last value of ansisop_derefenciar                 *)
  llamadas,       (* calls made, for the bound                             *)
  indefinido      (* the code has read or written what is not its own:     *)
                  (* C says nothing of what follows                        *)

Mensaje == INSTANCE SerializacionPcb

umc == <<pedido, respuesta, memoria>>
vars == <<programa, pcb, hilo, semaforos, pagina_es_codigo, valor_pagina, excepcion_umc,
          umc, resultado, llamadas, indefinido>>

Semaforos == {"s_codigo", "s_variable_stack", "s_escribir_pagina"}

-----------------------------------------------------------------------------
(* obtener_cantidad_paginas_codigo_stack.                                  *)
CantPaginas(largo) ==
  largo \div TamanioPagina + (IF largo % TamanioPagina = 0 THEN 0 ELSE 1) + STACK_SIZE

SinLugar == [offset |-> 0, pagina |-> 0, size |-> 0]
Lugar(direccion) ==
  [offset |-> CalculaOffset(direccion), pagina |-> CalculaPagina(direccion), size |-> SizeofInt]

(* The address a place stands for, as the primitives compute it.           *)
Direccion(lugar) == lugar.pagina * TamanioPagina + lugar.offset

Contexto(vuelve, lugar) ==
  [posicion_retorno |-> vuelve, posicion_variable_retorno |-> lugar, variables |-> <<>>]

(* crear_PCB.  The texts of the instance begin at their first instruction. *)
CrearPcb(p) ==
  [quantum |-> 1, pid |-> 1, pc |-> 0,
   cant_paginas_codigo_stack |-> CantPaginas(p.largo), estado |-> 0,
   contexto_actual |-> 0, stack_size_fisico |-> STACK_SIZE,
   stack_position |-> p.largo, stack_pointer |-> p.largo,
   etiquetas_size |-> p.etiquetas_size, etiquetas |-> [i \in 1..p.etiquetas_size |-> Codigo],
   instrucciones |-> p.instrucciones,
   indice_stack |-> <<Contexto(0, SinLugar)>>]

-----------------------------------------------------------------------------
(* What there is in the variables: the structs of the code.                *)
Lugares == [offset : Nat, pagina : Nat, size : Nat]
VariablesStack == [id : Nombres, posicion_memoria : Lugares]
IndicesDeStack ==
  [posicion_retorno : Int, posicion_variable_retorno : Lugares, variables : Seq(VariablesStack)]
Instrucciones == [start : Nat, offset : Nat \ {0}]
Trozos == [pagina : Nat, offset : Nat, tamanio : Int]        (* t_pagina_pedido *)
Contenidos == (Valores \cup {Codigo, Basura, NULO}) \X Int
PedidosUmc == [op : {"leer", "escribir"}, donde : Trozos, bytes : Seq(Contenidos)]
RespuestasUmc == [op : {"leer", "escribir"}, error : BOOLEAN, bytes : Seq(Contenidos)]

ASSUME CpuAssumption == SizeofChar \in Nat \ {0} /\ STACK_SIZE \in Nat

(* The instructions of a program are stretches of its text.                *)
ASSUME ProgramasAssumption ==
  \A p \in Programas :
    /\ p.largo \in Nat /\ p.etiquetas_size \in Nat
    /\ p.instrucciones \in Seq(Instrucciones) /\ p.instrucciones # <<>>
    /\ \A i \in DOMAIN p.instrucciones :
         p.instrucciones[i].start + p.instrucciones[i].offset <= p.largo

ASSUME NuloAssumption ==
  /\ NULO \notin Semaforos /\ NULO \notin PedidosUmc /\ NULO \notin RespuestasUmc
  /\ SinIniciar \notin IndicesDeStack

-----------------------------------------------------------------------------
Quieto(etapa) ==
  [etapa |-> etapa, espera |-> NULO, pedidos |-> <<>>, leido |-> <<>>, escrito |-> 0,
   direccion |-> 0, valor |-> NULO, salto |-> FALSE]

Init ==
  /\ programa \in Programas
  /\ pcb = CrearPcb(programa)
  /\ hilo = Quieto("afuera")
  /\ semaforos = [s \in Semaforos |-> 0]
  /\ pagina_es_codigo = FALSE
  /\ valor_pagina = <<>>
  /\ excepcion_umc = FALSE
  /\ pedido = NULO /\ respuesta = NULO
  /\ memoria = [b \in 0..(TamanioPagina * CantPaginas(programa.largo) - 1) |->
                  IF b < programa.largo THEN <<Codigo, b>> ELSE <<Basura, 0>>]
  /\ resultado = Basura
  /\ llamadas = 0
  /\ indefinido = FALSE

-----------------------------------------------------------------------------
(* Helpers.                                                                *)
Instruccion == pcb.instrucciones[pcb.pc + 1]
Contextos == pcb.indice_stack
ContextoActual == Contextos[pcb.contexto_actual + 1]     (* posiciono_indice_stack *)

(* Mutant of ObtenerPosicion: the first one.                               *)
ObtenerPrimeraPosicion(nombre) ==
  LET i == SelectInSeq(ContextoActual.variables, LAMBDA v : v.id = nombre)
  IN IF i = 0 THEN -1 ELSE Direccion(ContextoActual.variables[i].posicion_memoria)

(* ansisop_obtener_posicion_variable: the last variable with the name.     *)
ObtenerPosicion(nombre) ==
  LET i == SelectLastInSeq(ContextoActual.variables, LAMBDA v : v.id = nombre)
  IN IF i = 0 THEN -1 ELSE Direccion(ContextoActual.variables[i].posicion_memoria)
Definida(nombre) == ObtenerPosicion(nombre) # -1

(* The bytes of an int, and the int some bytes make.                       *)
Bytes(valor, desde, tamanio) == [b \in 1..tamanio |-> <<valor, desde + b - 1>>]
Decodificar(bytes) ==
  IF \E v \in Valores : bytes = Bytes(v, 0, SizeofInt)
    THEN CHOOSE v \in Valores : bytes = Bytes(v, 0, SizeofInt)
    ELSE Basura

Esperar(semaforo) == hilo.espera = semaforo /\ semaforos[semaforo] > 0
Bajar(semaforo) == semaforos' = [semaforos EXCEPT ![semaforo] = @ - 1]

(* The thread has an instruction to run primitives of; end is the last one *)
(* of a program.                                                           *)
Analiza == hilo.etapa = "analiza" /\ pcb.pc # Len(pcb.instrucciones) - 1
-----------------------------------------------------------------------------
(* The fetch: devuelve_instruccion_a_ejecutar.                             *)

(* ejecuto_instrucciones: the loop goes on unless the UMC failed (the      *)
(* other reasons to leave it are those of module Cpu).                     *)
EmpezarInstruccion ==
  /\ hilo.etapa = "afuera"
  /\ hilo' = IF excepcion_umc
               THEN Quieto("fin")
               ELSE [Quieto("codigo") EXCEPT !.pedidos = PedidosDeInstruccion(Instruccion)]
  /\ UNCHANGED <<programa, pcb, semaforos, pagina_es_codigo, valor_pagina, excepcion_umc,
                 umc, resultado, llamadas, indefinido>>

(* leo_instruccion_desde_UMC and leo_variable_desde_UMC: each says in      *)
(* pagina_es_codigo who the answer is for.                                 *)
PedirPagina(etapa, esCodigo, semaforo) ==
  /\ hilo.etapa = etapa /\ hilo.espera = NULO
  /\ hilo.pedidos # <<>>
  /\ pedido' = [op |-> "leer", donde |-> Head(hilo.pedidos), bytes |-> <<>>]
  /\ pagina_es_codigo' = esCodigo
  /\ hilo' = [hilo EXCEPT !.espera = semaforo]
  /\ UNCHANGED <<programa, pcb, semaforos, valor_pagina, excepcion_umc, respuesta, memoria,
                 resultado, llamadas, indefinido>>

LeoInstruccionDesdeUmc == PedirPagina("codigo", TRUE, "s_codigo")
LeoVariableDesdeUmc == PedirPagina("derefenciar", FALSE, "s_variable_stack")

(* The instruction has room for its own bytes.  After an error the loop of *)
(* ejecuto_instrucciones is left too, and the PCB goes to the Nucleo.      *)
RecibirCodigo ==
  /\ Esperar("s_codigo")
  /\ Bajar("s_codigo")
  /\ hilo' = IF excepcion_umc
               THEN Quieto("fin")
               ELSE [hilo EXCEPT !.espera = NULO, !.leido = @ \o valor_pagina, !.pedidos = Tail(@)]
  /\ indefinido' = (~excepcion_umc /\ Len(hilo.leido) + Len(valor_pagina) > Instruccion.offset)
  /\ valor_pagina' = <<>>
  /\ UNCHANGED <<programa, pcb, pagina_es_codigo, excepcion_umc, umc,
                 resultado, llamadas>>

(* The last byte makes way for the end of the string.                      *)
Texto(bytes, largo) == SubSeq(bytes, 1, largo - 1)
TextoDeLaInstruccion ==
  [b \in 1..(Instruccion.offset - 1) |-> <<Codigo, Instruccion.start + b - 1>>]
CodigoRecibido == hilo.etapa = "codigo" /\ hilo.espera = NULO /\ hilo.pedidos = <<>>
TextoBueno ==
  /\ Len(hilo.leido) >= Instruccion.offset - 1
  /\ Texto(hilo.leido, Instruccion.offset) = TextoDeLaInstruccion

(* analizadorLinea takes the text.                                         *)
AnalizarLinea ==
  /\ CodigoRecibido
  /\ hilo' = Quieto(IF TextoBueno THEN "analiza" ELSE "perdido")
  /\ UNCHANGED <<programa, pcb, semaforos, pagina_es_codigo, valor_pagina, excepcion_umc,
                 umc, resultado, llamadas, indefinido>>

-----------------------------------------------------------------------------
(* The primitives.  A program defines its variables before it uses them.   *)

(* Mutant of Siguiente: it moves one byte.                                 *)
SiguienteByte(puntero) == puntero + 1

(* ansisop_definir_variable: the pointer moves first.                      *)
Siguiente(puntero) == puntero + SizeofInt

DefinirVariable(nombre) ==
  /\ Analiza
  /\ pcb.stack_pointer < pcb.stack_position + MaxDefiniciones * SizeofInt
  /\ LET puntero == Siguiente(pcb.stack_pointer)
         variable == [id |-> nombre, posicion_memoria |-> Lugar(puntero)]
     IN pcb' = [pcb EXCEPT !.stack_pointer = puntero,
                           !.indice_stack[pcb.contexto_actual + 1].variables = Append(@, variable)]
  /\ UNCHANGED <<programa, hilo, semaforos, pagina_es_codigo, valor_pagina, excepcion_umc,
                 umc, resultado, llamadas, indefinido>>

(* ansisop_derefenciar of ansisop_obtener_posicion_variable.               *)
Derefenciar(nombre) ==
  /\ Analiza
  /\ Definida(nombre)
  /\ hilo' = [hilo EXCEPT !.etapa = "derefenciar", !.leido = <<>>,
                          !.pedidos = PedidosDeVariable(ObtenerPosicion(nombre))]
  /\ UNCHANGED <<programa, pcb, semaforos, pagina_es_codigo, valor_pagina, excepcion_umc,
                 umc, resultado, llamadas, indefinido>>

(* Nobody looks at excepcion_umc here.                                     *)
RecibirVariable ==
  /\ Esperar("s_variable_stack")
  /\ Bajar("s_variable_stack")
  /\ hilo' = [hilo EXCEPT !.espera = NULO, !.leido = @ \o valor_pagina, !.pedidos = Tail(@)]
  /\ valor_pagina' = <<>>
  /\ UNCHANGED <<programa, pcb, pagina_es_codigo, excepcion_umc, umc,
                 resultado, llamadas, indefinido>>

(* With no request at all the value is what malloc left.                   *)
FinDerefenciar ==
  /\ hilo.etapa = "derefenciar" /\ hilo.espera = NULO /\ hilo.pedidos = <<>>
  /\ resultado' = Decodificar(hilo.leido)
  /\ hilo' = [Quieto("analiza") EXCEPT !.salto = hilo.salto]
  /\ UNCHANGED <<programa, pcb, semaforos, pagina_es_codigo, valor_pagina, excepcion_umc,
                 umc, llamadas, indefinido>>

(* ansisop_asignar: with no request there is nothing to wait for.          *)
Asignar(nombre, valor) ==
  /\ Analiza
  /\ Definida(nombre)
  /\ LET direccion == ObtenerPosicion(nombre)
         pedidos == PedidosDeVariable(direccion)
     IN hilo' = IF pedidos = <<>>
                  THEN hilo
                  ELSE [hilo EXCEPT !.etapa = "asignar", !.direccion = direccion,
                                    !.valor = valor, !.pedidos = pedidos]
  /\ UNCHANGED <<programa, pcb, semaforos, pagina_es_codigo, valor_pagina, excepcion_umc,
                 umc, resultado, llamadas, indefinido>>

(* escribo_variable_a_UMC: valor is an int *, so valor + posicion is only  *)
(* the value when posicion is 0.                                           *)
EscriboVariableAUmc ==
  /\ hilo.etapa = "asignar" /\ hilo.espera = NULO
  /\ LET donde == Head(hilo.pedidos)
     IN pedido' = [op |-> "escribir", donde |-> donde,
                   bytes |-> Bytes(IF hilo.escrito = 0 THEN hilo.valor ELSE Basura, 0, donde.tamanio)]
  /\ hilo' = [hilo EXCEPT !.espera = "s_escribir_pagina", !.escrito = @ + Head(hilo.pedidos).tamanio]
  /\ UNCHANGED <<programa, pcb, semaforos, pagina_es_codigo, valor_pagina, excepcion_umc,
                 respuesta, memoria, resultado, llamadas, indefinido>>

RecibirEscritura ==
  /\ Esperar("s_escribir_pagina")
  /\ Bajar("s_escribir_pagina")
  /\ hilo' = IF hilo.etapa = "retornar" \/ excepcion_umc \/ Len(hilo.pedidos) = 1
               THEN [Quieto("analiza") EXCEPT !.salto = hilo.salto]
               ELSE [hilo EXCEPT !.espera = NULO, !.pedidos = Tail(@)]
  /\ UNCHANGED <<programa, pcb, pagina_es_codigo, valor_pagina, excepcion_umc, umc,
                 resultado, llamadas, indefinido>>

(* ansisop_ir_a_label.  An instruction jumps, calls or returns once.       *)
IrALabel(linea) ==
  /\ Analiza /\ ~hilo.salto
  /\ pcb' = [pcb EXCEPT !.pc = linea - 1]
  /\ hilo' = [hilo EXCEPT !.salto = TRUE]
  /\ UNCHANGED <<programa, semaforos, pagina_es_codigo, valor_pagina, excepcion_umc,
                 umc, resultado, llamadas, indefinido>>

(* ansisop_llamar_con_retorno: indice_stack grows by one from stack_size,  *)
(* and the new context goes after the current one.                         *)
Crecer(indice) == Append(indice, SinIniciar)

LlamarConRetorno(linea, nombre) ==
  /\ Analiza /\ ~hilo.salto
  /\ Definida(nombre)
  /\ llamadas < programa.llamadas
  /\ LET nuevo == pcb.contexto_actual + 1
     IN pcb' = [pcb EXCEPT
          !.contexto_actual = nuevo,
          !.indice_stack = [Crecer(@) EXCEPT
            ![nuevo + 1] = Contexto(pcb.pc, Lugar(ObtenerPosicion(nombre)))],
          !.pc = linea - 1]
  /\ hilo' = [hilo EXCEPT !.salto = TRUE]
  /\ llamadas' = llamadas + 1
  /\ UNCHANGED <<programa, semaforos, pagina_es_codigo, valor_pagina, excepcion_umc,
                 umc, resultado, indefinido>>

(* ansisop_retornar: one request for the whole int, and the context is the *)
(* caller's before the UMC answers.  The stack keeps its size.             *)
Retornar(valor) ==
  /\ Analiza /\ ~hilo.salto
  /\ pcb.contexto_actual > 0
  /\ LET lugar == ContextoActual.posicion_variable_retorno
     IN /\ pedido' = [op |-> "escribir",
                      donde |-> [pagina |-> lugar.pagina, offset |-> lugar.offset,
                                 tamanio |-> lugar.size],
                      bytes |-> Bytes(valor, 0, lugar.size)]
        /\ hilo' = [hilo EXCEPT !.etapa = "retornar", !.espera = "s_escribir_pagina",
                                !.direccion = Direccion(lugar), !.valor = valor, !.salto = TRUE]
  /\ pcb' = [pcb EXCEPT !.pc = ContextoActual.posicion_retorno, !.contexto_actual = @ - 1]
  /\ UNCHANGED <<programa, semaforos, pagina_es_codigo, valor_pagina, excepcion_umc,
                 respuesta, memoria, resultado, llamadas, indefinido>>

(* The end of an instruction that is not the last of its program.          *)
FinInstruccion ==
  /\ Analiza
  /\ pcb' = [pcb EXCEPT !.pc = @ + 1]
  /\ hilo' = Quieto("afuera")
  /\ UNCHANGED <<programa, semaforos, pagina_es_codigo, valor_pagina, excepcion_umc,
                 umc, resultado, llamadas, indefinido>>

(* ansisop_finalizar.                                                      *)
Finalizar ==
  /\ hilo.etapa = "analiza" /\ pcb.pc = Len(pcb.instrucciones) - 1
  /\ hilo' = Quieto("fin")
  /\ UNCHANGED <<programa, pcb, semaforos, pagina_es_codigo, valor_pagina, excepcion_umc,
                 umc, resultado, llamadas, indefinido>>

(* enviar_PCB and recibo_PCB: between two instructions the process goes to *)
(* the Nucleo and from there to this CPU or another.  The serializer       *)
(* follows the pointers of every element up to stack_size.                 *)
PasarDeCpu ==
  /\ hilo.etapa = "afuera" /\ ~excepcion_umc
  /\ IF SinIniciar \in ToSet(Contextos)
       THEN indefinido' = TRUE /\ UNCHANGED pcb
       ELSE pcb' = Mensaje!Deserializar(Mensaje!Serializar(pcb)) /\ UNCHANGED indefinido
  /\ UNCHANGED <<programa, hilo, semaforos, pagina_es_codigo, valor_pagina, excepcion_umc,
                 umc, resultado, llamadas>>

-----------------------------------------------------------------------------
(* The UMC and the thread that reads its socket.                           *)

(* The UMC answers with an error when the process has no such page, and    *)
(* may do so for any page it has no frame for.  It copies the bytes it is  *)
(* asked from the start of the frame plus the offset, however many.        *)
Sobra(donde) == donde.offset + donde.tamanio > TamanioPagina

Direcciones(donde) ==
  [b \in 1..donde.tamanio |-> donde.pagina * TamanioPagina + donde.offset + b - 1]

AtenderPedido ==
  /\ pedido # NULO
  /\ pedido' = NULO
  /\ LET donde == pedido.donde
         direcciones == Direcciones(donde)
     IN \/ /\ respuesta' = [op |-> pedido.op, error |-> TRUE, bytes |-> <<>>]
           /\ UNCHANGED <<memoria, indefinido>>
        \/ /\ donde.pagina < pcb.cant_paginas_codigo_stack
           /\ pedido.op = "leer"
           /\ respuesta' = [op |-> "leer", error |-> FALSE,
                            bytes |-> IF Sobra(donde)
                                        THEN Bytes(Basura, 0, donde.tamanio)
                                        ELSE [b \in 1..donde.tamanio |-> memoria[direcciones[b]]]]
           /\ UNCHANGED <<memoria, indefinido>>
        \/ /\ donde.pagina < pcb.cant_paginas_codigo_stack
           /\ pedido.op = "escribir"
           /\ respuesta' = [op |-> "escribir", error |-> FALSE, bytes |-> <<>>]
           /\ IF Sobra(donde)
                THEN indefinido' = TRUE /\ UNCHANGED memoria
                ELSE /\ memoria' = [a \in DOMAIN memoria |->
                                      IF a \in ToSet(direcciones)
                                        THEN pedido.bytes[a - direcciones[1] + 1]
                                        ELSE memoria[a]]
                     /\ UNCHANGED indefinido
  /\ UNCHANGED <<programa, pcb, hilo, semaforos, pagina_es_codigo, valor_pagina, excepcion_umc,
                 resultado, llamadas>>

(* Mutants of SemaforosDe: a read that fails posts both; any error posts   *)
(* s_codigo.                                                               *)
SemaforosDeAmbos(r) ==
  IF r.op = "escribir" THEN {"s_escribir_pagina"}
  ELSE IF r.error THEN {"s_codigo", "s_variable_stack"}
  ELSE IF pagina_es_codigo THEN {"s_codigo"} ELSE {"s_variable_stack"}
SemaforosDeCodigo(r) ==
  IF r.error THEN {"s_codigo"}
  ELSE IF r.op = "escribir" THEN {"s_escribir_pagina"}
  ELSE IF pagina_es_codigo THEN {"s_codigo"} ELSE {"s_variable_stack"}

(* What the answer posts.  A read that fails posts s_codigo, whoever asked *)
(* for it.                                                                 *)
SemaforosDe(r) ==
  IF r.op = "escribir" THEN {"s_escribir_pagina"}
  ELSE IF r.error \/ pagina_es_codigo THEN {"s_codigo"}
  ELSE {"s_variable_stack"}

(* atender_umc and respuesta_leer_pagina.                                  *)
AtenderUmc ==
  /\ respuesta # NULO
  /\ respuesta' = NULO
  /\ excepcion_umc' = (excepcion_umc \/ respuesta.error)
  /\ valor_pagina' = IF respuesta.op = "leer" /\ ~respuesta.error THEN respuesta.bytes ELSE valor_pagina
  /\ semaforos' = [s \in Semaforos |->
                     semaforos[s] + (IF s \in SemaforosDe(respuesta) THEN 1 ELSE 0)]
  /\ UNCHANGED <<programa, pcb, hilo, pagina_es_codigo, pedido, memoria, resultado, llamadas,
                 indefinido>>

-----------------------------------------------------------------------------
Primitiva ==
  \/ \E nombre \in Nombres :
       \/ DefinirVariable(nombre) \/ Derefenciar(nombre)
       \/ \E valor \in Valores : Asignar(nombre, valor)
       \/ \E linea \in 0..(Len(pcb.instrucciones) - 1) : LlamarConRetorno(linea, nombre)
  \/ \E linea \in 0..(Len(pcb.instrucciones) - 1) : IrALabel(linea)
  \/ \E valor \in Valores : Retornar(valor)

(* What the instruction thread does without the parser.                    *)
Avanzar ==
  \/ EmpezarInstruccion \/ LeoInstruccionDesdeUmc \/ RecibirCodigo \/ AnalizarLinea
  \/ LeoVariableDesdeUmc \/ RecibirVariable \/ FinDerefenciar
  \/ EscriboVariableAUmc \/ RecibirEscritura

Next ==
  /\ ~indefinido
  /\ \/ Avanzar \/ Primitiva \/ FinInstruccion \/ Finalizar \/ PasarDeCpu
     \/ AtenderPedido \/ AtenderUmc

(* The threads run and the UMC answers; what the program does next is up   *)
(* to it.                                                                  *)
Equidad == WF_vars(~indefinido /\ Avanzar) /\ WF_vars(~indefinido /\ AtenderPedido)
             /\ WF_vars(~indefinido /\ AtenderUmc)

Spec == Init /\ [][Next]_vars /\ Equidad

-----------------------------------------------------------------------------
(* Properties.                                                             *)

(* A fetch whose instruction neither starts on a page boundary nor goes    *)
(* past two pages gives the text of that instruction, however it is cut    *)
(* and whatever the program has written in its pages of stack              *)
(* (devuelve_instruccion_a_ejecutar).                                      *)
TextoCorrecto ==
  CodigoRecibido /\ Leible(Instruccion.start, Instruccion.offset) => TextoBueno

(* The contexts from the first to the current one exist, and no two        *)
(* variables of theirs, nor a variable and the text of the program, share  *)
(* a byte of the memory, after any sequence of definitions, calls and      *)
(* returns.                                                                *)
Ocupa(variable) ==
  LET primero == Direccion(variable.posicion_memoria)
  IN primero..(primero + variable.posicion_memoria.size - 1)
PilaEnOrden ==
  LET vivos == 1..(pcb.contexto_actual + 1)
      variables(k) == Contextos[k].variables
  IN /\ pcb.contexto_actual < Len(Contextos)
     /\ \A k \in vivos : Contextos[k] # SinIniciar
     /\ \A k \in vivos : \A i \in DOMAIN variables(k) :
          /\ \A b \in Ocupa(variables(k)[i]) : b >= programa.largo
          /\ \A l \in vivos : \A h \in DOMAIN variables(l) :
               <<k, i>> # <<l, h>> => Ocupa(variables(k)[i]) \cap Ocupa(variables(l)[h]) = {}

(* A request, its answer and the unit of the semaphore are never two at    *)
(* once: the thread that waits gets the answer of its own request, and     *)
(* one that does not wait has left no unit for the next who does           *)
(* (atender_umc, pagina_es_codigo).                                        *)
UnaRespuesta ==
  LET unidades == semaforos["s_codigo"] + semaforos["s_variable_stack"] + semaforos["s_escribir_pagina"]
  IN unidades + (IF pedido = NULO THEN 0 ELSE 1) + (IF respuesta = NULO THEN 0 ELSE 1)
       = (IF hilo.espera = NULO THEN 0 ELSE 1)

(* A PCB that can leave the CPU, and whose contexts are all initialised,   *)
(* fits in the buffer while it is written, and the reader at the other end *)
(* gets the same PCB (serializar_pcb_quantum, deserializar_pcb_quantum).   *)
ViajeDelPcb ==
  hilo.etapa = "afuera" /\ SinIniciar \notin ToSet(Contextos) =>
    /\ Mensaje!EntraEnElBuffer(pcb)
    /\ Mensaje!Deserializar(Mensaje!Serializar(pcb)) = pcb

(* A thread that waits for the UMC goes on, also when the answer is an     *)
(* error; but that of a read of a variable posts s_codigo, which is not    *)
(* what the thread waits for (atender_umc).                                *)
EsperaTermina ==
  \A s \in Semaforos :
    hilo.espera = s ~>
      hilo.espera # s \/ indefinido \/ (s = "s_variable_stack" /\ semaforos["s_codigo"] > 0)

-----------------------------------------------------------------------------
(* The abstract stack.  A variable that keeps its value has the one its    *)
(* bytes make; the write that the UMC has not made yet is pending.         *)
LineasDeProgramas == UNION {0..(Len(p.instrucciones) - 1) : p \in Programas}

VariableAbstracta(variable) ==
  LET direccion == Direccion(variable.posicion_memoria)
  IN [id |-> variable.id, fija |-> Fija(direccion),
      valor |-> IF Fija(direccion) /\ variable.posicion_memoria.pagina < pcb.cant_paginas_codigo_stack
                  THEN Decodificar([b \in 1..SizeofInt |-> memoria[direccion + b - 1]])
                  ELSE Basura]

(* Which variable of a context an address is of.                           *)
VariableEn(contexto, direccion) ==
  CHOOSE i \in DOMAIN contexto.variables :
    Direccion(contexto.variables[i].posicion_memoria) = direccion

DondeAbstracto(k) ==
  LET direccion == Direccion(Contextos[k].posicion_variable_retorno)
  IN IF k > 1 /\ Fija(direccion) THEN VariableEn(Contextos[k - 1], direccion) ELSE NULO

PilaDelPcb ==
  [k \in 1..(pcb.contexto_actual + 1) |->
     [variables |-> [i \in DOMAIN Contextos[k].variables |->
                       VariableAbstracta(Contextos[k].variables[i])],
      vuelve |-> Contextos[k].posicion_retorno,
      donde |-> DondeAbstracto(k)]]

PorEscribir ==
  /\ hilo.etapa \in {"asignar", "retornar"}
  /\ Fija(hilo.direccion)
  /\ hilo.espera = NULO => hilo.escrito = 0
  /\ respuesta = NULO
  /\ semaforos["s_escribir_pagina"] = 0

Abstracta == INSTANCE PilaAbstracta WITH
  pc <- pcb.pc,
  pila <- PilaDelPcb,
  pendiente <- IF PorEscribir
                 THEN [variable |-> VariableEn(ContextoActual, hilo.direccion),
                       valor |-> hilo.valor]
                 ELSE NULO,
  Lineas <- LineasDeProgramas

(* The primitives implement the abstract stack: calls and returns nest,    *)
(* each context sees its own variables, and a variable that neither starts *)
(* on a page boundary nor crosses one gives back the last value assigned   *)
(* to it or returned into it, on whatever CPU the process goes on.         *)
ImplementaPila == Abstracta!Spec
=============================================================================
