---------------------------- MODULE MCPrimitivas ----------------------------
(***************************************************************************)
(* Module Primitivas for TLC: pages of 12 bytes and ints of 4.  The first  *)
(* variables of each text fall in the places that the code tells apart: a  *)
(* page boundary, the inside of a page, the end of one, across two.  In    *)
(* one text an instruction starts on a page boundary, and in another it is *)
(* longer than a page.                                                     *)
(***************************************************************************)
EXTENDS Primitivas

Texto3(primera, segunda, tercera, largo, cuantas) ==
  [instrucciones |-> <<[start |-> primera, offset |-> segunda - primera],
                       [start |-> segunda, offset |-> tercera - segunda],
                       [start |-> tercera, offset |-> largo - tercera]>>,
   largo |-> largo, etiquetas_size |-> 5, llamadas |-> cuantas]

UnTexto == {Texto3(2, 8, 17, 21, 2)}
CuatroTextos ==
  UnTexto \cup {Texto3(2, 8, 17, 20, 1), Texto3(2, 12, 17, 24, 1), Texto3(2, 8, 25, 37, 1)}
=============================================================================
