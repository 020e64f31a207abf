--------------------------- MODULE MCCompartidas ---------------------------
(***************************************************************************)
(* Module Compartidas for TLC: more processes than CPUs, so that they wait *)
(* and change CPU inside the critical section, and one that comes back.    *)
(***************************************************************************)
EXTENDS Compartidas

CONSTANTS p1, p2, p3

Repite == [p \in {p1, p2, p3} |-> IF p = p1 THEN 2 ELSE 1]
=============================================================================
