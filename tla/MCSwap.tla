------------------------------- MODULE MCSwap -------------------------------
(***************************************************************************)
(* Swap on a small file: three programs, of which one writes, and bytes of *)
(* five bits.                                                              *)
(***************************************************************************)
EXTENDS Swap, TLC

CONSTANTS p1, p2, p3, Dato

EscribeMC == p1 :> {Dato} @@ p2 :> {} @@ p3 :> {}
=============================================================================
