------------------------------- MODULE MCUmc -------------------------------
(***************************************************************************)
(* Module Umc for TLC: two programs, pages of one or two words.            *)
(***************************************************************************)
EXTENDS Umc

CONSTANTS c1, c2

Leer(i, w) == [op |-> "leer", pagina |-> i, palabra |-> w, dato |-> 0]
Escribir(i, w, d) == [op |-> "escribir", pagina |-> i, palabra |-> w, dato |-> d]

DosProgramas == 1..2

PaginasMC == <<3, 1>>
AccesosMC ==
  <<{Leer(0, 0), Escribir(1, 0, 1), Leer(2, 1)}, {Leer(0, 0), Escribir(0, 1, 1)}>>
CpusSimetricas == Permutations(Cpus)

PaginasReloj == <<3, 4>>
CodigoReloj == <<2, 1>>
AccesosReloj ==
  <<{Leer(0, 0), Leer(1, 0), Escribir(2, 0, 1), Leer(3, 0)}, {}>>

CodigoCero == [w \in Palabras |-> 0]
=============================================================================
