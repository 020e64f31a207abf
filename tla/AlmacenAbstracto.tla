--------------------------- MODULE AlmacenAbstracto ---------------------------
(***************************************************************************)
(* What the SWAP promises to the UMC: each program that was accepted has   *)
(* its own pages, and a page gives back what was last written in it.       *)
(* Nothing is promised of a page nobody wrote.  There is no bitmap, no     *)
(* file and no compaction here: module Swap shows that they do not show.   *)
(***************************************************************************)
EXTENDS Naturals, FiniteSets, Functions

CONSTANTS Programas, MaxPaginas, Valores,
          Total,       (* the pages of the store                           *)
          Indefinida,  (* the content of a page nobody wrote               *)
          Exito, Error (* answers that carry no content                    *)

VARIABLES memoria,     (* per program that exists, its pages               *)
          respuesta    (* the last answer: the content read, Exito or Error*)

vars == <<memoria, respuesta>>

Init ==
  /\ memoria = << >>
  /\ respuesta = Exito

Existe(p) == p \in DOMAIN memoria

(* How many pages the programs have, all together.                         *)
Ocupadas == Cardinality(UNION {{p} \X DOMAIN memoria[p] : p \in DOMAIN memoria})

(* A program that exists is accepted again, and keeps its pages; another   *)
(* one is accepted exactly when its pages fit in what is left.             *)
Iniciar(p, n) ==
  /\ respuesta' = Exito
  /\ \/ Existe(p) /\ UNCHANGED memoria
     \/ /\ ~Existe(p) /\ Ocupadas + n <= Total
        /\ memoria' = [q \in DOMAIN memoria \cup {p} |->
                         IF q = p THEN [i \in 0..(n - 1) |-> Indefinida] ELSE memoria[q]]
Rechazar(p, n) ==
  /\ ~Existe(p) /\ Ocupadas + n > Total
  /\ respuesta' = Error
  /\ UNCHANGED memoria

Leer(p, i) ==
  /\ \/ /\ memoria[p][i] # Indefinida
        /\ respuesta' = memoria[p][i]
     \/ /\ memoria[p][i] = Indefinida
        /\ \/ \E v \in Valores : respuesta' = v
           \/ respuesta' = Error
  /\ UNCHANGED memoria

Escribir(p, i, v) ==
  /\ memoria' = [memoria EXCEPT ![p][i] = v]
  /\ respuesta' = Exito

(* The code of a program, in its first pages.                              *)
EscribirNueva(p, hasta, v) ==
  /\ memoria' = [memoria EXCEPT ![p] = [i \in DOMAIN @ |-> IF i < hasta THEN v ELSE @[i]]]
  /\ respuesta' = Exito

Finalizar(p) ==
  \/ /\ Existe(p)
     /\ memoria' = Restrict(memoria, DOMAIN memoria \ {p})
     /\ respuesta' = Exito
  \/ /\ ~Existe(p)
     /\ respuesta' = Error
     /\ UNCHANGED memoria

Next ==
  \E p \in Programas :
    \/ \E n \in 1..MaxPaginas : Iniciar(p, n) \/ Rechazar(p, n)
    \/ Finalizar(p)
    \/ /\ Existe(p)
       /\ \/ \E i \in DOMAIN memoria[p] : Leer(p, i) \/ \E v \in Valores : Escribir(p, i, v)
          \/ \E hasta \in 0..MaxPaginas, v \in Valores : EscribirNueva(p, hasta, v)

Spec == Init /\ [][Next]_vars
=============================================================================
