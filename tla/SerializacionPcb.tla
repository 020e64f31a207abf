-------------------------- MODULE SerializacionPcb --------------------------
(***************************************************************************)
(* How a PCB travels between the CPU and the Nucleo: serializar_pcb_       *)
(* quantum and deserializar_pcb_quantum, of which serializaciones_cpu.c    *)
(* and atiendo_cpu.c have the same copy.  The writer gives the fields one  *)
(* after the other, each with the bytes it takes; the reader finds a field *)
(* by the byte where it should start, advancing by the sizes it expects.   *)
(***************************************************************************)
EXTENDS Naturals, SequencesExt

CONSTANTS SizeofInt, SizeofChar

(* The fields that are ints, in the order of the buffer.  stack_size is    *)
(* the length of indice_stack, and instrucciones_size that of              *)
(* instrucciones.                                                          *)
Enteros == <<"quantum", "pid", "pc", "cant_paginas_codigo_stack", "estado", "contexto_actual",
             "stack_size_fisico", "stack_position", "stack_pointer", "etiquetas_size">>

-----------------------------------------------------------------------------
(* The writer.                                                             *)
Entero(n) == <<[tamanio |-> SizeofInt, valor |-> n]>>
Caracter(c) == <<[tamanio |-> SizeofChar, valor |-> c]>>

EscribirLugar(lugar) == Entero(lugar.offset) \o Entero(lugar.pagina) \o Entero(lugar.size)

EscribirVariable(variable) ==
  Caracter(variable.id) \o EscribirLugar(variable.posicion_memoria)

EscribirVariables(variables) ==
  FlattenSeq([i \in DOMAIN variables |-> EscribirVariable(variables[i])])

EscribirContexto(contexto) ==
  Entero(contexto.posicion_retorno) \o EscribirLugar(contexto.posicion_variable_retorno)
    \o Entero(Len(contexto.variables)) \o EscribirVariables(contexto.variables)

EscribirContextos(indice_stack) ==
  FlattenSeq([k \in DOMAIN indice_stack |-> EscribirContexto(indice_stack[k])])

(* memcpy: the labels are etiquetas_size bytes as they are.                *)
EscribirEtiquetas(pcb) ==
  [i \in 1..pcb.etiquetas_size |-> [tamanio |-> 1, valor |-> pcb.etiquetas[i]]]

EscribirInstruccion(instruccion) == Entero(instruccion.start) \o Entero(instruccion.offset)

EscribirInstrucciones(instrucciones) ==
  FlattenSeq([i \in DOMAIN instrucciones |-> EscribirInstruccion(instrucciones[i])])

EscribirEnteros(pcb) == [i \in DOMAIN Enteros |-> Entero(pcb[Enteros[i]])[1]]

EscribirEncabezado(pcb) ==
  EscribirEnteros(pcb) \o EscribirEtiquetas(pcb)
    \o Entero(Len(pcb.instrucciones)) \o EscribirInstrucciones(pcb.instrucciones)
    \o Entero(Len(pcb.indice_stack))

(* The byte where each field starts, and where the next one would.         *)
Inicios(campos) ==
  LET inicio[i \in 1..(Len(campos) + 1)] ==
        IF i = 1 THEN 0 ELSE inicio[i - 1] + campos[i - 1].tamanio
  IN inicio
Longitud(campos) == Inicios(campos)[Len(campos) + 1]

(* What there is at the byte where each field starts.                      *)
Contenido(campos) ==
  LET inicio == Inicios(campos)
  IN [p \in {inicio[i] : i \in DOMAIN campos} |->
        campos[CHOOSE i \in DOMAIN campos : inicio[i] = p].valor]

(* The buffer.                                                             *)
Serializar(pcb) ==
  LET campos == EscribirEncabezado(pcb) \o EscribirContextos(pcb.indice_stack)
  IN [longitud |-> Longitud(campos), en |-> Contenido(campos)]

-----------------------------------------------------------------------------
(* What is allocated: all but the variables at the start, and room for the *)
(* variables of a context when the writer gets to it.                      *)
ReservaInicial(pcb) ==
  (Len(Enteros) + 2) * SizeofInt + pcb.etiquetas_size
    + Len(pcb.instrucciones) * 2 * SizeofInt + Len(pcb.indice_stack) * 5 * SizeofInt

(* Mutant of ReservaDelContexto: the name of the variable is left out.     *)
ReservaSinNombres(contexto) == Len(contexto.variables) * 3 * SizeofInt

ReservaDelContexto(contexto) == Len(contexto.variables) * (SizeofChar + 3 * SizeofInt)

(* No field is written past what is allocated at that moment: the writer   *)
(* has allocated the variables of the first k contexts, and is at the end  *)
(* of the k-th.                                                            *)
EntraEnElBuffer(pcb) ==
  LET reservado[k \in 0..Len(pcb.indice_stack)] ==
        IF k = 0 THEN ReservaInicial(pcb)
                 ELSE reservado[k - 1] + ReservaDelContexto(pcb.indice_stack[k])
  IN \A k \in DOMAIN reservado :
       Longitud(EscribirEncabezado(pcb)) + Longitud(EscribirContextos(SubSeq(pcb.indice_stack, 1, k)))
         <= reservado[k]

-----------------------------------------------------------------------------
(* The reader.                                                             *)
LeerLugar(en, p) ==
  [offset |-> en[p], pagina |-> en[p + SizeofInt], size |-> en[p + 2 * SizeofInt]]

LargoVariable == SizeofChar + 3 * SizeofInt

LeerVariable(en, p) == [id |-> en[p], posicion_memoria |-> LeerLugar(en, p + SizeofChar)]

LeerVariables(en, p, cantidad) ==
  [i \in 1..cantidad |-> LeerVariable(en, p + (i - 1) * LargoVariable)]

LeerContexto(en, p) ==
  [posicion_retorno |-> en[p],
   posicion_variable_retorno |-> LeerLugar(en, p + SizeofInt),
   variables |-> LeerVariables(en, p + 5 * SizeofInt, en[p + 4 * SizeofInt])]

(* stack_size contexts from byte p on; each ends where its variables do.   *)
LeerContextos(en, p, stack_size) ==
  LET inicio[k \in 1..stack_size] ==
        IF k = 1 THEN p
                 ELSE inicio[k - 1] + 5 * SizeofInt
                        + en[inicio[k - 1] + 4 * SizeofInt] * LargoVariable
  IN [k \in 1..stack_size |-> LeerContexto(en, inicio[k])]

LeerInstrucciones(en, p, instrucciones_size) ==
  [i \in 1..instrucciones_size |->
     [start |-> en[p + (i - 1) * 2 * SizeofInt], offset |-> en[p + (i - 1) * 2 * SizeofInt + SizeofInt]]]

LeerEnteros(en) ==
  [nombre \in ToSet(Enteros) |->
     en[((CHOOSE i \in DOMAIN Enteros : Enteros[i] = nombre) - 1) * SizeofInt]]

Deserializar(buffer) ==
  LET en == buffer.en
      enteros == LeerEnteros(en)
      etiquetas == Len(Enteros) * SizeofInt
      cantidad == etiquetas + enteros.etiquetas_size
      instrucciones == cantidad + SizeofInt
      stack_size == instrucciones + en[cantidad] * 2 * SizeofInt
  IN [quantum |-> enteros.quantum, pid |-> enteros.pid, pc |-> enteros.pc,
      cant_paginas_codigo_stack |-> enteros.cant_paginas_codigo_stack,
      estado |-> enteros.estado, contexto_actual |-> enteros.contexto_actual,
      stack_size_fisico |-> enteros.stack_size_fisico, stack_position |-> enteros.stack_position,
      stack_pointer |-> enteros.stack_pointer, etiquetas_size |-> enteros.etiquetas_size,
      etiquetas |-> [i \in 1..enteros.etiquetas_size |-> en[etiquetas + i - 1]],
      instrucciones |-> LeerInstrucciones(en, instrucciones, en[cantidad]),
      indice_stack |-> LeerContextos(en, stack_size + SizeofInt, en[stack_size])]
=============================================================================
