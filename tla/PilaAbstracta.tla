--------------------------- MODULE PilaAbstracta ---------------------------
(***************************************************************************)
(* What the memory primitives promise to an ANSISOP program: a stack of    *)
(* contexts, each with its variables, and a variable gives back what was   *)
(* last assigned to it.  The promise is made of the variables that are     *)
(* "fija" (module Primitivas says which ones are); of the others nothing   *)
(* is known.  There are no pages, requests, semaphores or CPUs here.       *)
(***************************************************************************)
EXTENDS Integers, SequencesExt

CONSTANTS Nombres, Valores,
          Basura,     (* a value nobody assigned                           *)
          NULO,
          Lineas      (* the instructions a program may jump to            *)

VARIABLES pc,         (* the instruction                                   *)
          pila,       (* the contexts, the current one last                *)
          pendiente,  (* the assignment the memory has not answered yet    *)
          resultado   (* the last value read                               *)

vars == <<pc, pila, pendiente, resultado>>

Contexto(vuelve, donde) == [variables |-> <<>>, vuelve |-> vuelve, donde |-> donde]

Init ==
  /\ pc = 0
  /\ pila = <<Contexto(0, NULO)>>
  /\ pendiente = NULO
  /\ resultado = Basura

(* The last definition of a name hides the ones before.                    *)
Variables == Last(pila).variables
Posicion(nombre) == SelectLastInSeq(Variables, LAMBDA v : v.id = nombre)
Variable(nombre) == Variables[Posicion(nombre)]
Definida(nombre) == Posicion(nombre) # 0

Definir(nombre) ==
  /\ UNCHANGED <<pc, pendiente, resultado>>
  /\ \E fija \in BOOLEAN :
       pila' = [pila EXCEPT ![Len(pila)].variables =
                  Append(@, [id |-> nombre, fija |-> fija, valor |-> Basura])]

Leer(nombre) ==
  /\ Definida(nombre)
  /\ UNCHANGED <<pc, pendiente, pila>>
  /\ resultado' \in IF Variable(nombre).fija THEN {Variable(nombre).valor} ELSE Valores \cup {Basura}

(* The variable of the current context a value goes to, when it keeps it.  *)
Destino(nombre) == IF Variable(nombre).fija THEN Posicion(nombre) ELSE NULO
Pendiente(variable, valor) ==
  IF variable = NULO THEN NULO ELSE [variable |-> variable, valor |-> valor]

Asignar(nombre, valor) ==
  /\ Definida(nombre)
  /\ UNCHANGED <<pc, resultado>>
  /\ pendiente' = Pendiente(Destino(nombre), valor)
  /\ UNCHANGED pila

Guardar ==
  /\ pendiente' = NULO
  /\ UNCHANGED <<pc, resultado>>
  /\ pila' = [pila EXCEPT ![Len(pila)].variables[pendiente.variable].valor = pendiente.valor]

(* The memory may refuse: the variable keeps the value it had.             *)
Fallar ==
  /\ pendiente' = NULO
  /\ UNCHANGED <<pc, pila, resultado>>

Ir(linea) ==
  /\ pc' = linea - 1
  /\ UNCHANGED <<pila, pendiente, resultado>>

Llamar(linea, nombre) ==
  /\ Definida(nombre)
  /\ pc' = linea - 1
  /\ pila' = Append(pila, Contexto(pc, Destino(nombre)))
  /\ UNCHANGED <<pendiente, resultado>>

(* The caller goes on where it called, with its own variables, and the     *)
(* value goes to the one it named.                                         *)
Retornar(valor) ==
  /\ Len(pila) > 1
  /\ pc' = Last(pila).vuelve
  /\ pila' = Front(pila)
  /\ pendiente' = Pendiente(Last(pila).donde, valor)
  /\ UNCHANGED resultado

Avanzar ==
  /\ pc' = pc + 1
  /\ UNCHANGED <<pila, pendiente, resultado>>

Next ==
  \/ /\ pendiente = NULO
     /\ \/ \E nombre \in Nombres :
             \/ Definir(nombre) \/ Leer(nombre)
             \/ \E valor \in Valores : Asignar(nombre, valor)
             \/ \E linea \in Lineas : Llamar(linea, nombre)
        \/ \E linea \in Lineas : Ir(linea)
        \/ \E valor \in Valores : Retornar(valor)
        \/ Avanzar
  \/ /\ pendiente # NULO
     /\ Guardar \/ Fallar

Spec == Init /\ [][Next]_vars
=============================================================================
