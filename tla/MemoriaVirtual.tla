--------------------------- MODULE MemoriaVirtual ---------------------------
(***************************************************************************)
(* What the UMC promises to the CPUs: each program has its own pages and   *)
(* reads what it last wrote in them.  An access that fails changes nothing.*)
(* Nothing is promised of a page nobody wrote.  There are no frames, no    *)
(* TLB, no replacement and no SWAP here: module Umc shows that they do not *)
(* show.                                                                   *)
(***************************************************************************)
EXTENDS Naturals, Functions

CONSTANTS Programas, Cpus, MaxPaginas,
          Palabras, Datos,   (* a page has a datum per word                *)
          Indefinida,        (* the content of a page nobody wrote         *)
          Exito, Error, NULO

VARIABLES memoria,    (* per program that exists, its pages                *)
          pedido,     (* per CPU, the access it waits for, or NULO         *)
          respuesta   (* the last answer: a datum, Exito, Error or NULO    *)

vars == <<memoria, pedido, respuesta>>

Contenidos == [Palabras -> Datos]
Pedidos == [pid : Programas, op : {"leer", "escribir"}, pagina : 0..MaxPaginas,
            palabra : Palabras, dato : Datos]

Init ==
  /\ memoria = << >>
  /\ pedido = [c \in Cpus |-> NULO]
  /\ respuesta = NULO

-----------------------------------------------------------------------------
Existe(p) == p \in DOMAIN memoria

Crear(p, n) ==
  /\ ~Existe(p)
  /\ memoria' = [q \in DOMAIN memoria \cup {p} |->
                   IF q = p THEN [i \in 0..(n - 1) |-> Indefinida] ELSE memoria[q]]
  /\ UNCHANGED <<pedido, respuesta>>

(* Pages nobody wrote may take any content.                                *)
Indefinidas(p) == {i \in DOMAIN memoria[p] : memoria[p][i] = Indefinida}
Determinar(p) ==
  /\ Existe(p)
  /\ \E S \in SUBSET Indefinidas(p) : \E v \in [S -> Contenidos] :
       memoria' = [memoria EXCEPT ![p] =
                     [i \in DOMAIN @ |-> IF i \in S THEN v[i] ELSE @[i]]]
  /\ UNCHANGED <<pedido, respuesta>>

(* The code of a program, in its first pages, before anything is in them.  *)
Cargar(p, hasta, v) ==
  /\ Existe(p) /\ Indefinidas(p) = DOMAIN memoria[p]
  /\ memoria' = [memoria EXCEPT ![p] = [i \in DOMAIN @ |-> IF i < hasta THEN v ELSE @[i]]]
  /\ UNCHANGED <<pedido, respuesta>>

Destruir(p) ==
  /\ Existe(p)
  /\ \A c \in Cpus : pedido[c] # NULO => pedido[c].pid # p
  /\ memoria' = Restrict(memoria, DOMAIN memoria \ {p})
  /\ UNCHANGED <<pedido, respuesta>>

-----------------------------------------------------------------------------
(* An access to a page the program does not have fails at once.            *)
Pedir(c, a) ==
  /\ pedido[c] = NULO
  /\ Existe(a.pid) /\ a.pagina \in DOMAIN memoria[a.pid]
  /\ pedido' = [pedido EXCEPT ![c] = a]
  /\ respuesta' = NULO
  /\ UNCHANGED memoria
Rechazar(c, a) ==
  /\ pedido[c] = NULO
  /\ Existe(a.pid) /\ a.pagina \notin DOMAIN memoria[a.pid]
  /\ respuesta' = Error
  /\ UNCHANGED <<memoria, pedido>>

Pagina(c) == memoria[pedido[c].pid][pedido[c].pagina]
Contesta(c, op) ==
  /\ pedido[c] # NULO /\ pedido[c].op = op
  /\ pedido' = [pedido EXCEPT ![c] = NULO]

Leer(c) ==
  /\ Contesta(c, "leer")
  /\ \/ Pagina(c) = Indefinida /\ respuesta' \in Datos
     \/ Pagina(c) # Indefinida /\ respuesta' = Pagina(c)[pedido[c].palabra]
  /\ UNCHANGED memoria

Escribir(c) ==
  /\ Contesta(c, "escribir")
  /\ \E v \in Contenidos :
       /\ Pagina(c) # Indefinida => v = Pagina(c)
       /\ memoria' = [memoria EXCEPT ![pedido[c].pid][pedido[c].pagina] =
                        [v EXCEPT ![pedido[c].palabra] = pedido[c].dato]]
  /\ respuesta' = Exito

Fallar(c) ==
  /\ \E op \in {"leer", "escribir"} : Contesta(c, op)
  /\ respuesta' = Error
  /\ UNCHANGED memoria

-----------------------------------------------------------------------------
Next ==
  \/ \E p \in Programas :
       \/ Destruir(p) \/ Determinar(p)
       \/ \E n \in 1..MaxPaginas : Crear(p, n)
       \/ \E hasta \in 0..MaxPaginas, v \in Contenidos : Cargar(p, hasta, v)
  \/ \E c \in Cpus :
       \/ \E a \in Pedidos : Pedir(c, a) \/ Rechazar(c, a)
       \/ Leer(c) \/ Escribir(c) \/ Fallar(c)

Spec == Init /\ [][Next]_vars
=============================================================================
