-------------------------------- MODULE Swap --------------------------------
(***************************************************************************)
(* The SWAP (swap.c, utilidades_swap.c): every program has consecutive     *)
(* pages of one file, a bitmap says which pages are taken, and when the    *)
(* free pages are enough but not together the programs are moved towards   *)
(* the beginning of the file.                                              *)
(*                                                                         *)
(* The SWAP serves one connection, the UMC's, and one message at a time: a *)
(* handler is one step, except that each iteration of compactar_swap that  *)
(* does something is a step of its own.                                    *)
(***************************************************************************)
EXTENDS Integers, FiniteSets, Functions

CONSTANTS Programas,         (* the pids of the UMC                        *)
          CantidadPaginas,   (* CANTIDAD_PAGINAS: the pages of the file    *)
          BitsPorByte,       (* CHAR_BIT                                   *)
          MaxPaginas,        (* bound: pages a program asks for            *)
          Valores, Cero,     (* contents of a page; the file starts as Cero*)
          Escribe,           (* bound: what each program writes            *)
          Indefinida,        (* see AlmacenAbstracto                       *)
          Exito, Error,      (* the answers RESPUESTA_... and ERROR_...    *)
          NULO

(* bitarray_get_max_bit: main reserves whole bytes for the bitmap.         *)
Bits == IF CantidadPaginas % BitsPorByte = 0
          THEN (CantidadPaginas \div BitsPorByte) * BitsPorByte
          ELSE (CantidadPaginas \div BitsPorByte + 1) * BitsPorByte
Paginas == 0..(Bits - 1)

ASSUME SupuestoSwap ==
  /\ CantidadPaginas \in Nat \ {0}
  /\ BitsPorByte \in Nat \ {0}
  /\ MaxPaginas \in Nat
  /\ Cero \in Valores
  /\ Escribe \in [Programas -> SUBSET Valores]
  /\ Indefinida \notin Valores

VARIABLES
  paginas_bitmap,   (* the pages whose bit is 1                            *)
  lista_programas,  (* per program in the list, its t_program_info         *)
  archivo,          (* the content of each page of the file                *)
  largo,            (* the pages the file has: writing may extend it       *)
  compactacion,     (* the request that compacts, and the loop's variables *)
  respuesta,        (* the last answer to the UMC: a content, Exito, Error *)
  escritas          (* history: per program, the pages written in the file *)

vars == <<paginas_bitmap, lista_programas, archivo, largo, compactacion,
          respuesta, escritas>>

Parada == [activa |-> FALSE, programa |-> NULO, paginas |-> 0, index |-> 0,
           contador_ceros |-> 0]

Init ==
  /\ paginas_bitmap = {}
  /\ lista_programas = << >>
  /\ archivo = [i \in Paginas |-> Cero]
  /\ largo = CantidadPaginas
  /\ compactacion = Parada
  /\ respuesta = Exito
  /\ escritas = << >>

-----------------------------------------------------------------------------
Existe(p) == p \in DOMAIN lista_programas

(* The pages of a row of the list.                                         *)
Region(fila) == fila.pagina_inicial_swap ..
                  (fila.pagina_inicial_swap + fila.cantidad_paginas - 1)

(* Nothing is modelled after a program was placed at page -1.              *)
Desbordado == \E p \in DOMAIN lista_programas : lista_programas[p].pagina_inicial_swap = -1
Atiende == ~compactacion.activa /\ ~Desbordado

(* hay_espacio_total_disponible.                                           *)
HayEspacio(n) == Cardinality(Paginas \ paginas_bitmap) >= n

(* encontrar_ubicacion_libre: the first run of n free pages, or -1.        *)
HuecosHastaElFinal(n) == {i \in Paginas : i + n - 1 <= Bits
                                          /\ i..(i + n - 1) \cap paginas_bitmap = {}}
Huecos(n) == {i \in Paginas : i + n - 1 \in Paginas
                              /\ i..(i + n - 1) \cap paginas_bitmap = {}}
EncontrarUbicacionSinReiniciar(n) ==
  IF ~HayEspacio(n) THEN -1
  ELSE 1 - n + CHOOSE i \in Paginas \ paginas_bitmap :
                 Cardinality((0..i) \ paginas_bitmap) = n
EncontrarUbicacion(n) ==
  IF Huecos(n) = {} THEN -1 ELSE CHOOSE i \in Huecos(n) : \A j \in Huecos(n) : i <= j

(* The end of inicializar_programa: reservar_lugar_para_el_programa and    *)
(* the new row.  At -1 the bits 0 to n - 2 are set, whoever has those      *)
(* pages; what a negative bit does is undefined, and here it does nothing. *)
Ubicar(p, n, donde) ==
  LET fila == [pagina_inicial_swap |-> donde, cantidad_paginas |-> n] IN
    /\ paginas_bitmap' = paginas_bitmap \cup (Region(fila) \ {-1})
    /\ lista_programas' = [q \in DOMAIN lista_programas \cup {p} |->
                             IF q = p THEN fila ELSE lista_programas[q]]
    /\ escritas' = [q \in DOMAIN lista_programas \cup {p} |->
                      IF q = p THEN {} ELSE escritas[q]]
    /\ respuesta' = Exito
    /\ UNCHANGED <<archivo, largo>>

(* inicializar_programa.  A program that exists gives -2, which atender_UMC*)
(* answers as a success.                                                   *)
IniciarExistente(p) ==
  /\ Atiende /\ Existe(p)
  /\ respuesta' = Exito
  /\ UNCHANGED <<paginas_bitmap, lista_programas, archivo, largo, compactacion, escritas>>
IniciarRechazado(p, n) ==
  /\ Atiende /\ ~Existe(p)
  /\ ~HayEspacio(n)
  /\ respuesta' = Error
  /\ UNCHANGED <<paginas_bitmap, lista_programas, archivo, largo, compactacion, escritas>>
IniciarDirecto(p, n) ==
  /\ Atiende /\ ~Existe(p)
  /\ HayEspacio(n)
  /\ EncontrarUbicacion(n) # -1
  /\ Ubicar(p, n, EncontrarUbicacion(n))
  /\ UNCHANGED compactacion
IniciarCompacta(p, n) ==
  /\ Atiende /\ ~Existe(p)
  /\ HayEspacio(n)
  /\ EncontrarUbicacion(n) = -1
  /\ compactacion' = [activa |-> TRUE, programa |-> p, paginas |-> n, index |-> 0,
                      contador_ceros |-> 0]
  /\ UNCHANGED <<paginas_bitmap, lista_programas, archivo, largo, respuesta, escritas>>

-----------------------------------------------------------------------------
(* compactar_swap: the for over the bits.                                  *)
EnBucle == compactacion.activa /\ compactacion.index < Bits
EsUno == compactacion.index \in paginas_bitmap

ContarCero ==
  /\ EnBucle /\ ~EsUno
  /\ compactacion' = [compactacion EXCEPT !.index = @ + 1, !.contador_ceros = @ + 1]
  /\ UNCHANGED <<paginas_bitmap, lista_programas, archivo, largo, respuesta, escritas>>

(* A page taken with no free pages before it: the loop goes on.            *)
PasarUno ==
  /\ EnBucle /\ EsUno
  /\ compactacion.contador_ceros = 0
  /\ compactacion' = [compactacion EXCEPT !.index = @ + 1]
  /\ UNCHANGED <<paginas_bitmap, lista_programas, archivo, largo, respuesta, escritas>>

(* reescribir_programa: the whole program is read, its bits are cleared,   *)
(* it is written k pages before and its new bits are set.                  *)
MoverReservaAntes(p, k) ==
  LET fila == lista_programas[p]
      nueva == [fila EXCEPT !.pagina_inicial_swap = @ - k] IN
    /\ paginas_bitmap' = (paginas_bitmap \cup Region(nueva)) \ Region(fila)
    /\ lista_programas' = [lista_programas EXCEPT ![p] = nueva]
    /\ archivo' = [i \in Paginas |-> IF i \in Region(nueva) THEN archivo[i + k] ELSE archivo[i]]
MoverSinEscribir(p, k) ==
  LET fila == lista_programas[p]
      nueva == [fila EXCEPT !.pagina_inicial_swap = @ - k] IN
    /\ paginas_bitmap' = (paginas_bitmap \ Region(fila)) \cup Region(nueva)
    /\ lista_programas' = [lista_programas EXCEPT ![p] = nueva]
    /\ UNCHANGED archivo
Mover(p, k) ==
  LET fila == lista_programas[p]
      nueva == [fila EXCEPT !.pagina_inicial_swap = @ - k] IN
    /\ paginas_bitmap' = (paginas_bitmap \ Region(fila)) \cup Region(nueva)
    /\ lista_programas' = [lista_programas EXCEPT ![p] = nueva]
    /\ archivo' = [i \in Paginas |-> IF i \in Region(nueva) THEN archivo[i + k] ELSE archivo[i]]

(* buscar_programa_por_pagina_inicial.                                     *)
EmpiezaEn(p, i) == lista_programas[p].pagina_inicial_swap = i

(* After a program the index is set to the page after it, and the for adds *)
(* one.                                                                    *)
ReposicionarSinReiniciar(p, inicial) ==
  compactacion' = [compactacion EXCEPT
    !.index = inicial + lista_programas[p].cantidad_paginas + 1]
ReposicionarAlPrincipio(p, inicial) ==
  compactacion' = [compactacion EXCEPT !.contador_ceros = 0, !.index = 0]
Reposicionar(p, inicial) ==
  compactacion' = [compactacion EXCEPT !.contador_ceros = 0,
    !.index = inicial + lista_programas[p].cantidad_paginas + 1]

(* A page taken after free ones: the program that begins there is moved.   *)
(* When the program cannot be read (it is not all in the file) it stays.   *)
CorreAlguno == EnBucle /\ EsUno /\ compactacion.contador_ceros > 0
EstaEnElArchivo(p) ==
  lista_programas[p].pagina_inicial_swap + lista_programas[p].cantidad_paginas <= largo

Correr(p) ==
  LET i == compactacion.index  k == compactacion.contador_ceros IN
    /\ CorreAlguno /\ EmpiezaEn(p, i)
    /\ EstaEnElArchivo(p)
    /\ Mover(p, k)
    /\ Reposicionar(p, i - k)
    /\ UNCHANGED <<largo, respuesta, escritas>>
NoCorrer(p) ==
  /\ CorreAlguno /\ EmpiezaEn(p, compactacion.index)
  /\ ~EstaEnElArchivo(p)
  /\ Reposicionar(p, compactacion.index)
  /\ UNCHANGED <<paginas_bitmap, lista_programas, archivo, largo, respuesta, escritas>>

(* The rest of inicializar_programa after compactar_swap.                  *)
IniciarCompactado ==
  /\ compactacion.activa /\ compactacion.index >= Bits
  /\ Ubicar(compactacion.programa, compactacion.paginas,
            EncontrarUbicacion(compactacion.paginas))
  /\ compactacion' = Parada

Compactar == ContarCero \/ PasarUno \/ IniciarCompactado
               \/ \E p \in DOMAIN lista_programas : Correr(p) \/ NoCorrer(p)

-----------------------------------------------------------------------------
Posicion(p, i) == lista_programas[p].pagina_inicial_swap + i
Mayor(a, b) == IF a > b THEN a ELSE b

(* leer_bytes_swap, also for MENSAJE_LEER_PAGINA_PARA_ESCRIBIR.  The UMC   *)
(* asks for whole pages of programs that exist.                            *)
LeerPagina(p, i) ==
  /\ Atiende
  /\ i < lista_programas[p].cantidad_paginas
  /\ \/ /\ Posicion(p, i) < largo
        /\ respuesta' = archivo[Posicion(p, i)]
     \/ /\ Posicion(p, i) >= largo
        /\ respuesta' = Error
  /\ UNCHANGED <<paginas_bitmap, lista_programas, archivo, largo, compactacion, escritas>>

(* escribir_bytes_swap with a whole page.                                  *)
EscribirPagina(p, i, v) ==
  /\ Atiende
  /\ i < lista_programas[p].cantidad_paginas
  /\ archivo' = [archivo EXCEPT ![Posicion(p, i)] = v]
  /\ largo' = Mayor(largo, Posicion(p, i) + 1)
  /\ escritas' = [escritas EXCEPT ![p] = @ \cup {i}]
  /\ respuesta' = Exito
  /\ UNCHANGED <<paginas_bitmap, lista_programas, compactacion>>

(* escribir_bytes_swap with the code of a new program, n pages of which    *)
(* the last one need not be whole: then the file may end inside it.        *)
EscribirPaginaNueva(p, n, v) ==
  /\ Atiende
  /\ n <= lista_programas[p].cantidad_paginas
  /\ archivo' = [j \in Paginas |->
       IF j \in Posicion(p, 0)..Posicion(p, n - 1) THEN v ELSE archivo[j]]
  /\ \E enteras \in {n - 1, n} : largo' = Mayor(largo, Posicion(p, enteras))
  /\ escritas' = [escritas EXCEPT ![p] = @ \cup {i \in 0..(n - 1) : Posicion(p, i) < largo'}]
  /\ respuesta' = Exito
  /\ UNCHANGED <<paginas_bitmap, lista_programas, compactacion>>

(* finalizar_programa: the bits are cleared, the content stays.            *)
FinalizarPrograma(p) ==
  /\ Atiende
  /\ \/ /\ Existe(p)
        /\ paginas_bitmap' = paginas_bitmap \ Region(lista_programas[p])
        /\ lista_programas' = Restrict(lista_programas, DOMAIN lista_programas \ {p})
        /\ escritas' = Restrict(escritas, DOMAIN lista_programas \ {p})
        /\ respuesta' = Exito
     \/ /\ ~Existe(p)
        /\ respuesta' = Error
        /\ UNCHANGED <<paginas_bitmap, lista_programas, escritas>>
  /\ UNCHANGED <<archivo, largo, compactacion>>

-----------------------------------------------------------------------------
Iniciar(p, n) == IniciarRechazado(p, n) \/ IniciarDirecto(p, n) \/ IniciarCompacta(p, n)

Pedido(p) ==
  \/ \E n \in 1..MaxPaginas : Iniciar(p, n)
  \/ IniciarExistente(p)
  \/ FinalizarPrograma(p)
  \/ /\ Existe(p)
     /\ \/ \E i \in 0..(MaxPaginas - 1) : LeerPagina(p, i)
        \/ \E i \in 0..(MaxPaginas - 1), v \in Escribe[p] : EscribirPagina(p, i, v)
        \/ \E n \in 1..MaxPaginas, v \in Escribe[p] : EscribirPaginaNueva(p, n, v)

Next == Compactar \/ \E p \in Programas : Pedido(p)

(* The thread of the SWAP does not stop in the middle of a compaction.     *)
Spec == Init /\ [][Next]_vars
SpecJusta == Spec /\ WF_vars(Compactar)

-----------------------------------------------------------------------------
Filas == [pagina_inicial_swap : Paginas \cup {-1}, cantidad_paginas : 1..MaxPaginas]

(* Type invariant of the SWAP; a moving program never leaves the file, and *)
(* the bitmap has no page past its last bit.                               *)
TypeOK ==
  /\ paginas_bitmap \subseteq Paginas
  /\ DOMAIN lista_programas \subseteq Programas
  /\ lista_programas \in [DOMAIN lista_programas -> Filas]
  /\ archivo \in [Paginas -> Valores]
  /\ largo \in CantidadPaginas..Bits
  /\ compactacion \in [activa : BOOLEAN, programa : Programas \cup {NULO},
                       paginas : 0..MaxPaginas, index : Nat, contador_ceros : Nat]
  /\ compactacion.contador_ceros <= compactacion.index
  /\ respuesta \in Valores \cup {Exito, Error}
  /\ escritas \in [DOMAIN lista_programas -> SUBSET (0..(MaxPaginas - 1))]

(* No page belongs to two programs, before, after and in the middle of a   *)
(* compaction.                                                             *)
RegionesDisjuntas ==
  ~Desbordado =>
    \A p, q \in DOMAIN lista_programas :
      p # q => Region(lista_programas[p]) \cap Region(lista_programas[q]) = {}

(* The bitmap and the list agree.                                          *)
BitmapExacto ==
  ~Desbordado =>
    paginas_bitmap = UNION {Region(lista_programas[p]) : p \in DOMAIN lista_programas}

(* compactar_swap uses the program it finds without looking for NULL: a    *)
(* page taken after a free one is always the first one of a program, and   *)
(* there are as many free pages before it as it will be moved.             *)
CorreUnPrograma ==
  LET i == compactacion.index  k == compactacion.contador_ceros IN
    CorreAlguno =>
      /\ \E p \in DOMAIN lista_programas : EmpiezaEn(p, i)
      /\ (i - k)..(i - 1) \subseteq Paginas \ paginas_bitmap

(* A compaction ends, though it sets its index back when the free pages    *)
(* before a program are more than its own.                                 *)
CompactacionTermina == compactacion.activa ~> ~compactacion.activa

Almacen == INSTANCE AlmacenAbstracto WITH
  Total <- Bits,
  memoria <- [p \in DOMAIN lista_programas |->
    [i \in 0..(lista_programas[p].cantidad_paginas - 1) |->
       IF i \in escritas[p] THEN archivo[Posicion(p, i)] ELSE Indefinida]]

(* What a program wrote is what it reads, however it was moved; a program  *)
(* is rejected only when its pages do not fit in what is left.             *)
ImplementaAlmacen == Almacen!Spec
=============================================================================
