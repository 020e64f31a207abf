------------------------------ MODULE MCTramas ------------------------------
(***************************************************************************)
(* Module Tramas for TLC: a message without payload, as most answers, and  *)
(* two of different length.                                                *)
(***************************************************************************)
EXTENDS Tramas

CONSTANTS vacio, corto, largo

LongitudDePrueba == vacio :> 0 @@ corto :> 1 @@ largo :> 3
=============================================================================
