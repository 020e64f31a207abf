---------------------------- MODULE SwapPruebas ----------------------------
(***************************************************************************)
(* Proofs about the SWAP, for every size of the file and of the byte, every*)
(* set of programs and every number of pages.                              *)
(***************************************************************************)
EXTENDS Swap, FiniteSetTheorems, WellFoundedInduction, TLAPS

(* A program that was placed ends inside the bitmap.                       *)
EnLosLimites ==
  ~Desbordado =>
    \A p \in DOMAIN lista_programas :
      lista_programas[p].pagina_inicial_swap + lista_programas[p].cantidad_paginas <= Bits

(* What compactar_swap keeps while it goes over the bits: the pages its    *)
(* counter counts are the free ones just before the index, and the program *)
(* it works for is not in the list yet and is not larger than the bitmap.  *)
Compactando ==
  compactacion.activa =>
    /\ ~Desbordado
    /\ compactacion.programa \in Programas \ DOMAIN lista_programas
    /\ compactacion.paginas \in 1..MaxPaginas
    /\ compactacion.paginas <= Bits
    /\ \A i \in (compactacion.index - compactacion.contador_ceros)..(compactacion.index - 1) :
         i \notin paginas_bitmap

(* The bitmap and the regions only make sense together: a program is moved *)
(* over pages that the bitmap calls free, which must belong to nobody.     *)
Inv ==
  /\ TypeOK
  /\ RegionesDisjuntas
  /\ BitmapExacto
  /\ EnLosLimites
  /\ Compactando

-----------------------------------------------------------------------------
(* The bitmap has a bit for each page of the file at least.                *)
LEMMA BitsSuficientes == Bits \in Nat /\ CantidadPaginas <= Bits /\ Bits >= 1
<1> DEFINE q == CantidadPaginas \div BitsPorByte
           r == CantidadPaginas % BitsPorByte
<1>1. /\ CantidadPaginas \in Nat /\ CantidadPaginas >= 1
      /\ BitsPorByte \in Nat /\ BitsPorByte > 0
  BY SupuestoSwap
<1>2. q \in Int /\ r \in 0..(BitsPorByte - 1) /\ CantidadPaginas = q * BitsPorByte + r
  BY <1>1
<1>3. Bits = IF r = 0 THEN q * BitsPorByte ELSE (q + 1) * BitsPorByte
  BY DEF Bits
<1> HIDE DEF q, r
<1>4. (q + 1) * BitsPorByte = q * BitsPorByte + BitsPorByte
  BY <1>1, <1>2
<1>5. q * BitsPorByte \in Int
  BY <1>1, <1>2
<1> QED
  BY <1>1, <1>2, <1>3, <1>4, <1>5

(* A set of pages that is not empty has a first one: the intervals that    *)
(* begin at 0 are well founded by inclusion.                               *)
LEMMA PrimeraPagina ==
  ASSUME NEW S \in SUBSET Paginas, S # {}
  PROVE  \E i \in S : \A j \in S : i <= j
<1> DEFINE T == {0..i : i \in S}
<1>1. IsWellFoundedOn(StrictSubsetOrdering(Paginas), SUBSET Paginas)
  <2>1. IsFiniteSet(Paginas)
    BY BitsSuficientes, FS_Interval DEF Paginas
  <2> QED
    BY <2>1, FS_StrictSubsetOrderingWellFounded, FS_FiniteSubsetsOfFinite
<1>2. \A i \in S : i \in Nat /\ 0..i \in T /\ 0..i \in SUBSET Paginas
  BY BitsSuficientes DEF Paginas
<1>3. T \subseteq SUBSET Paginas /\ T # {}
  BY <1>2
<1> HIDE DEF T
<1>4. PICK x \in T : \A y \in T : <<y, x>> \notin StrictSubsetOrdering(Paginas)
  BY <1>1, <1>3, WFMin
<1>5. PICK i \in S : x = 0..i
  BY DEF T
<1>6. \A j \in S : ~(j < i)
  <2> SUFFICES ASSUME NEW j \in S, j < i
               PROVE  FALSE
    OBVIOUS
  <2>1. 0..j \subseteq 0..i
    BY <1>2
  <2>2. i \in 0..i /\ i \notin 0..j
    BY <1>2
  <2> QED
    BY <2>1, <2>2, <1>2, <1>4, <1>5 DEF StrictSubsetOrdering
<1> QED
  BY <1>2, <1>6

(* encontrar_ubicacion_libre gives the first page of a run of free pages.  *)
LEMMA UbicacionLibre ==
  ASSUME NEW n \in Nat, Huecos(n) # {}
  PROVE  EncontrarUbicacion(n) \in Huecos(n)
<1>1. Huecos(n) \in SUBSET Paginas
  BY DEF Huecos
<1>2. \E i \in Huecos(n) : \A j \in Huecos(n) : i <= j
  BY <1>1, PrimeraPagina
<1> QED
  BY <1>2 DEF EncontrarUbicacion

(* What fits in the free pages is not larger than the bitmap.              *)
LEMMA CabeEnElBitmap ==
  ASSUME NEW n \in Nat, HayEspacio(n)
  PROVE  n <= Bits
<1>1. IsFiniteSet(Paginas) /\ Cardinality(Paginas) = Bits
  BY BitsSuficientes, FS_Interval DEF Paginas
<1>2. /\ IsFiniteSet(Paginas \ paginas_bitmap)
      /\ Cardinality(Paginas \ paginas_bitmap) <= Cardinality(Paginas)
  BY <1>1, FS_Subset
<1>3. Cardinality(Paginas \ paginas_bitmap) \in Nat
  BY <1>2, FS_CardinalityType
<1> QED
  BY <1>1, <1>2, <1>3, BitsSuficientes DEF HayEspacio

-----------------------------------------------------------------------------
(* What the invariants say of a page of a program.                         *)
LEMMA PaginasDe ==
  ASSUME Inv, ~Desbordado, NEW p \in DOMAIN lista_programas
  PROVE  /\ lista_programas[p] \in Filas
         /\ lista_programas[p].pagina_inicial_swap \in Nat
         /\ lista_programas[p].cantidad_paginas \in Nat
         /\ lista_programas[p].cantidad_paginas >= 1
         /\ lista_programas[p].cantidad_paginas <= MaxPaginas
         /\ Region(lista_programas[p]) \subseteq paginas_bitmap
         /\ lista_programas[p].pagina_inicial_swap
              + lista_programas[p].cantidad_paginas <= Bits
<1>1. lista_programas[p] \in Filas
  BY DEF Inv, TypeOK
<1>2. lista_programas[p].pagina_inicial_swap # -1
  BY DEF Desbordado
<1> QED
  BY <1>1, <1>2, BitsSuficientes, SupuestoSwap
  DEF Inv, BitmapExacto, EnLosLimites, Filas, Paginas

LEMMA InvInicial == Init => Inv
<1> SUFFICES ASSUME Init
             PROVE  Inv
  OBVIOUS
<1>1. DOMAIN lista_programas = {} /\ DOMAIN escritas = {}
  BY DEF Init
<1>2. TypeOK
  BY <1>1, BitsSuficientes, SupuestoSwap DEF Init, TypeOK, Parada
<1>3. RegionesDisjuntas /\ BitmapExacto /\ EnLosLimites
  BY <1>1 DEF Init, RegionesDisjuntas, BitmapExacto, EnLosLimites
<1>4. Compactando
  BY DEF Init, Parada, Compactando
<1> QED
  BY <1>2, <1>3, <1>4 DEF Inv

(* The requests that move no program, and the steps of the loop that only  *)
(* count, leave the list and the bitmap alone.                             *)
LEMMA InvSinMover ==
  ASSUME Inv, TypeOK', Compactando',
         UNCHANGED <<paginas_bitmap, lista_programas>>
  PROVE  Inv'
BY DEF Inv, RegionesDisjuntas, BitmapExacto, EnLosLimites, Desbordado, Region

(* A program that is placed gets pages that were nobody's; when there is no*)
(* run of free pages nothing is claimed any more.                          *)
LEMMA InvUbicar ==
  ASSUME Inv, ~Desbordado,
         NEW p \in Programas \ DOMAIN lista_programas,
         NEW n \in 1..MaxPaginas, n <= Bits,
         Ubicar(p, n, EncontrarUbicacion(n)),
         compactacion' = Parada \/ (~compactacion.activa /\ UNCHANGED compactacion)
  PROVE  Inv'
<1> DEFINE donde == EncontrarUbicacion(n)
           fila == [pagina_inicial_swap |-> donde, cantidad_paginas |-> n]
<1>1. n \in Nat /\ n >= 1
  BY SupuestoSwap
<1>2. \/ donde = -1
      \/ donde \in Huecos(n)
  BY <1>1, UbicacionLibre DEF EncontrarUbicacion
<1>3. donde \in Paginas \cup {-1}
  BY <1>2 DEF Huecos
<1>4. fila \in Filas
  BY <1>3 DEF Filas
<1>5. Region(fila) = donde..(donde + n - 1)
  BY DEF Region
<1>6. Region(fila) \ {-1} \subseteq Paginas
  BY <1>1, <1>2, <1>5, BitsSuficientes DEF Huecos, Paginas
<1>7. /\ paginas_bitmap' = paginas_bitmap \cup (Region(fila) \ {-1})
      /\ lista_programas' = [q \in DOMAIN lista_programas \cup {p} |->
                               IF q = p THEN fila ELSE lista_programas[q]]
      /\ escritas' = [q \in DOMAIN lista_programas \cup {p} |->
                        IF q = p THEN {} ELSE escritas[q]]
      /\ respuesta' = Exito
      /\ UNCHANGED <<archivo, largo>>
  BY DEF Ubicar
<1> HIDE DEF donde, fila
<1>8. compactacion' \in [activa : BOOLEAN, programa : Programas \cup {NULO},
                         paginas : 0..MaxPaginas, index : Nat, contador_ceros : Nat]
        /\ compactacion'.contador_ceros <= compactacion'.index
        /\ ~compactacion'.activa
  <2>1. CASE compactacion' = Parada
    <3>1. /\ Parada.activa = FALSE /\ Parada.contador_ceros = 0 /\ Parada.index = 0
          /\ Parada \in [activa : BOOLEAN, programa : Programas \cup {NULO},
                         paginas : 0..MaxPaginas, index : Nat, contador_ceros : Nat]
      BY SupuestoSwap DEF Parada
    <3> QED
      BY <2>1, <3>1
  <2>2. CASE ~compactacion.activa /\ UNCHANGED compactacion
    BY <2>2 DEF Inv, TypeOK
  <2> QED
    BY <2>1, <2>2
<1>9. TypeOK'
  <2>1. paginas_bitmap' \subseteq Paginas
    BY <1>6, <1>7 DEF Inv, TypeOK
  <2>2. DOMAIN lista_programas' \subseteq Programas
          /\ lista_programas' \in [DOMAIN lista_programas' -> Filas]
    BY <1>4, <1>7 DEF Inv, TypeOK
  <2>3. escritas' \in [DOMAIN lista_programas' -> SUBSET (0..(MaxPaginas - 1))]
    BY <1>7 DEF Inv, TypeOK
  <2> QED
    BY <1>7, <1>8, <2>1, <2>2, <2>3 DEF Inv, TypeOK
<1>10. Compactando'
  BY <1>8 DEF Compactando
<1>11. CASE donde = -1
  <2>1. lista_programas'[p].pagina_inicial_swap = -1 /\ p \in DOMAIN lista_programas'
    BY <1>7, <1>11 DEF fila
  <2>2. Desbordado'
    BY <2>1 DEF Desbordado
  <2> QED
    BY <1>9, <1>10, <2>2 DEF Inv, RegionesDisjuntas, BitmapExacto, EnLosLimites
<1>12. CASE donde \in Huecos(n)
  <2>1. /\ donde \in Nat /\ donde + n - 1 \in Paginas
        /\ Region(fila) \cap paginas_bitmap = {}
        /\ -1 \notin Region(fila)
    BY <1>1, <1>5, <1>12, BitsSuficientes DEF Huecos, Paginas
  <2>2. \A q \in DOMAIN lista_programas :
          q # p /\ lista_programas'[q] = lista_programas[q]
            /\ Region(lista_programas[q]) \subseteq paginas_bitmap
    BY <1>7, PaginasDe
  <2>3. /\ lista_programas'[p] = fila
        /\ DOMAIN lista_programas' = DOMAIN lista_programas \cup {p}
        /\ paginas_bitmap' = paginas_bitmap \cup Region(fila)
    BY <1>7, <2>1
  <2>4. \A q, r \in DOMAIN lista_programas' :
          q # r => Region(lista_programas'[q]) \cap Region(lista_programas'[r]) = {}
    BY <2>1, <2>2, <2>3 DEF Inv, RegionesDisjuntas
  <2>5. paginas_bitmap' =
          UNION {Region(lista_programas'[q]) : q \in DOMAIN lista_programas'}
    <3>1. paginas_bitmap =
            UNION {Region(lista_programas[q]) : q \in DOMAIN lista_programas}
      BY DEF Inv, BitmapExacto
    <3> QED
      BY <2>2, <2>3, <3>1
  <2>6. \A q \in DOMAIN lista_programas' :
          lista_programas'[q].pagina_inicial_swap
            + lista_programas'[q].cantidad_paginas <= Bits
    <3>1. fila.pagina_inicial_swap + fila.cantidad_paginas <= Bits
      BY <1>1, <2>1, BitsSuficientes DEF fila, Paginas
    <3> QED
      BY <2>2, <2>3, <3>1, PaginasDe
  <2>7. RegionesDisjuntas'
    BY <2>4 DEF RegionesDisjuntas, Region
  <2>8. BitmapExacto'
    BY <2>5 DEF BitmapExacto, Region
  <2>9. EnLosLimites'
    BY <2>6 DEF EnLosLimites
  <2> QED
    BY <1>9, <1>10, <2>7, <2>8, <2>9 DEF Inv
<1> QED
  BY <1>2, <1>11, <1>12

-----------------------------------------------------------------------------
(* A page taken after a free one is the first page of its program: if it   *)
(* were not, the page before it would be taken too.                        *)
LEMMA CorrePrimeraPagina ==
  ASSUME Inv, CorreAlguno
  PROVE  CorreUnPrograma
<1> DEFINE i == compactacion.index
           k == compactacion.contador_ceros
<1>1. /\ i \in Nat /\ k \in Nat /\ k <= i /\ k > 0 /\ i < Bits
      /\ i \in paginas_bitmap /\ ~Desbordado
      /\ \A j \in (i - k)..(i - 1) : j \notin paginas_bitmap
  BY DEF CorreAlguno, EnBucle, EsUno, Inv, TypeOK, Compactando
<1> HIDE DEF i, k
<1>2. PICK p \in DOMAIN lista_programas : i \in Region(lista_programas[p])
  BY <1>1 DEF Inv, BitmapExacto
<1>3. i - 1 \notin Region(lista_programas[p])
  BY <1>1, PaginasDe
<1>4. lista_programas[p].pagina_inicial_swap = i
  BY <1>1, <1>2, <1>3, PaginasDe DEF Region
<1>5. (i - k)..(i - 1) \subseteq Paginas \ paginas_bitmap
  BY <1>1, BitsSuficientes DEF Paginas
<1> QED
  BY <1>4, <1>5 DEF CorreUnPrograma, EmpiezaEn, i, k

(* A program moved over the free pages before it stays inside the bitmap   *)
(* and touches no other program.                                           *)
LEMMA InvCorrer ==
  ASSUME Inv, NEW p \in DOMAIN lista_programas, Correr(p)
  PROVE  Inv'
<1> DEFINE i == compactacion.index
           k == compactacion.contador_ceros
           fila == lista_programas[p]
           c == fila.cantidad_paginas
           nueva == [fila EXCEPT !.pagina_inicial_swap = @ - k]
<1>1. /\ i \in Nat /\ k \in Nat /\ k <= i /\ k > 0 /\ i < Bits
      /\ compactacion.activa /\ i \in paginas_bitmap /\ ~Desbordado
      /\ \A j \in (i - k)..(i - 1) : j \notin paginas_bitmap
      /\ fila.pagina_inicial_swap = i
  BY DEF Correr, CorreAlguno, EmpiezaEn, EnBucle, EsUno, Inv, TypeOK, Compactando
<1>2. fila \in Filas /\ c \in Nat /\ c >= 1 /\ c <= MaxPaginas /\ i + c <= Bits
  BY <1>1, PaginasDe
<1>3. /\ nueva \in Filas
      /\ nueva.pagina_inicial_swap = i - k /\ nueva.cantidad_paginas = c
  BY <1>1, <1>2, BitsSuficientes DEF Filas, Paginas
<1>4. /\ Region(fila) = i..(i + c - 1)
      /\ Region(nueva) = (i - k)..(i - k + c - 1)
  BY <1>1, <1>3 DEF Region
<1>5. /\ paginas_bitmap' = (paginas_bitmap \ Region(fila)) \cup Region(nueva)
      /\ lista_programas' = [lista_programas EXCEPT ![p] = nueva]
      /\ archivo' = [j \in Paginas |->
                       IF j \in Region(nueva) THEN archivo[j + k] ELSE archivo[j]]
      /\ compactacion' = [compactacion EXCEPT !.contador_ceros = 0,
                            !.index = i - k + c + 1]
      /\ UNCHANGED <<largo, respuesta, escritas>>
  BY DEF Correr, Mover, Reposicionar
<1>6. Region(nueva) \subseteq Paginas
  BY <1>1, <1>2, <1>4, BitsSuficientes DEF Paginas
<1>7. \A j \in Region(nueva) : j + k \in Paginas
  BY <1>1, <1>2, <1>4, BitsSuficientes, SMTT(30) DEF Paginas
<1> HIDE DEF i, k, fila, c, nueva
<1>8. /\ DOMAIN lista_programas' = DOMAIN lista_programas
      /\ lista_programas'[p] = nueva
      /\ \A q \in DOMAIN lista_programas : q # p => lista_programas'[q] = lista_programas[q]
      /\ lista_programas' \in [DOMAIN lista_programas -> Filas]
  BY <1>3, <1>5 DEF Inv, TypeOK
<1>9. /\ compactacion' \in [activa : BOOLEAN, programa : Programas \cup {NULO},
                            paginas : 0..MaxPaginas, index : Nat, contador_ceros : Nat]
      /\ compactacion'.contador_ceros = 0 /\ compactacion'.index = i - k + c + 1
      /\ compactacion'.activa = compactacion.activa
      /\ compactacion'.programa = compactacion.programa
      /\ compactacion'.paginas = compactacion.paginas
  <2>1. i - k + c + 1 \in Nat
    BY <1>1, <1>2
  <2> QED
    BY <1>5, <2>1 DEF Inv, TypeOK
<1>10. TypeOK'
  <2>1. archivo' \in [Paginas -> Valores]
    BY <1>5, <1>7 DEF Inv, TypeOK
  <2>2. paginas_bitmap' \subseteq Paginas
    BY <1>5, <1>6 DEF Inv, TypeOK
  <2>3. compactacion'.contador_ceros <= compactacion'.index
    BY <1>1, <1>2, <1>9
  <2> QED
    BY <1>5, <1>8, <1>9, <2>1, <2>2, <2>3 DEF Inv, TypeOK
<1>11. \A q \in DOMAIN lista_programas : q # p =>
         /\ Region(lista_programas[q]) \cap Region(fila) = {}
         /\ Region(lista_programas[q]) \cap Region(nueva) = {}
  <2> SUFFICES ASSUME NEW q \in DOMAIN lista_programas, q # p
               PROVE  /\ Region(lista_programas[q]) \cap Region(fila) = {}
                      /\ Region(lista_programas[q]) \cap Region(nueva) = {}
    OBVIOUS
  <2>1. Region(lista_programas[q]) \cap Region(fila) = {}
    BY <1>1 DEF Inv, RegionesDisjuntas, fila
  <2>2. Region(lista_programas[q]) \subseteq paginas_bitmap
    BY <1>1, PaginasDe
  <2>3. Region(nueva) \subseteq (i - k)..(i - 1) \cup Region(fila)
    BY <1>1, <1>2, <1>4
  <2> QED
    BY <1>1, <2>1, <2>2, <2>3
<1>12. RegionesDisjuntas'
  <2>1. \A q, r \in DOMAIN lista_programas' :
          q # r => Region(lista_programas'[q]) \cap Region(lista_programas'[r]) = {}
    BY <1>1, <1>8, <1>11 DEF Inv, RegionesDisjuntas
  <2> QED
    BY <2>1 DEF RegionesDisjuntas, Region
<1>13. BitmapExacto'
  <2>1. paginas_bitmap =
          UNION {Region(lista_programas[q]) : q \in DOMAIN lista_programas}
    BY <1>1 DEF Inv, BitmapExacto
  <2>2. \A j : j \in paginas_bitmap' <=>
          \E q \in DOMAIN lista_programas' : j \in Region(lista_programas'[q])
    <3> SUFFICES ASSUME NEW j
                 PROVE  j \in paginas_bitmap' <=>
                   \E q \in DOMAIN lista_programas' : j \in Region(lista_programas'[q])
      OBVIOUS
    <3>1. CASE j \in Region(nueva)
      BY <1>5, <1>8, <3>1
    <3>2. CASE j \notin Region(nueva)
      <4>1. j \in paginas_bitmap' <=> j \in paginas_bitmap /\ j \notin Region(fila)
        BY <1>5, <3>2
      <4>2. j \in paginas_bitmap <=>
              \E q \in DOMAIN lista_programas : j \in Region(lista_programas[q])
        BY <2>1
      <4> QED
        BY <4>1, <4>2, <1>8, <1>11, <3>2 DEF fila
    <3> QED
      BY <3>1, <3>2
  <2>3. paginas_bitmap' =
          UNION {Region(lista_programas'[q]) : q \in DOMAIN lista_programas'}
    BY <2>2
  <2> QED
    BY <2>3 DEF BitmapExacto, Region
<1>14. \A q \in DOMAIN lista_programas' : lista_programas'[q].pagina_inicial_swap # -1
  BY <1>1, <1>3, <1>8, PaginasDe
<1>15. EnLosLimites'
  <2>1. nueva.pagina_inicial_swap + nueva.cantidad_paginas <= Bits
    BY <1>1, <1>2, <1>3, BitsSuficientes
  <2> QED
    BY <1>1, <1>8, <2>1, PaginasDe DEF EnLosLimites
<1>16. Compactando'
  <2>1. \A j \in (compactacion'.index - compactacion'.contador_ceros)
                  ..(compactacion'.index - 1) : j \notin paginas_bitmap'
    BY <1>1, <1>2, <1>9
  <2> QED
    BY <1>1, <1>8, <1>9, <1>14, <2>1 DEF Inv, Compactando, Desbordado
<1> QED
  BY <1>10, <1>12, <1>13, <1>15, <1>16 DEF Inv

-----------------------------------------------------------------------------
(* inicializar_programa, with and without compaction.                      *)
LEMMA InvIniciar ==
  ASSUME Inv, NEW p \in Programas, NEW n \in 1..MaxPaginas, Iniciar(p, n)
  PROVE  Inv'
<1>1. CASE IniciarRechazado(p, n)
  <2>1. TypeOK' /\ Compactando'
    BY <1>1 DEF Inv, TypeOK, Compactando, Desbordado, IniciarRechazado
  <2> QED
    BY <1>1, <2>1, InvSinMover DEF IniciarRechazado
<1>2. CASE IniciarDirecto(p, n)
  <2>1. n \in Nat /\ n <= Bits
    BY <1>2, CabeEnElBitmap, SupuestoSwap DEF IniciarDirecto
  <2> QED
    BY <1>2, <2>1, InvUbicar DEF IniciarDirecto, Atiende, Existe
<1>3. CASE IniciarCompacta(p, n)
  <2>1. n \in Nat /\ n <= Bits
    BY <1>3, CabeEnElBitmap, SupuestoSwap DEF IniciarCompacta
  <2>2. ~Desbordado /\ p \notin DOMAIN lista_programas
    BY <1>3 DEF IniciarCompacta, Atiende, Existe
  <2>3. /\ compactacion' = [activa |-> TRUE, programa |-> p, paginas |-> n, index |-> 0,
                            contador_ceros |-> 0]
        /\ UNCHANGED <<paginas_bitmap, lista_programas, archivo, largo, respuesta, escritas>>
    BY <1>3 DEF IniciarCompacta
  <2>4. TypeOK'
    BY <2>1, <2>3 DEF Inv, TypeOK
  <2>5. Compactando'
    BY <2>1, <2>2, <2>3 DEF Compactando, Desbordado
  <2> QED
    BY <2>3, <2>4, <2>5, InvSinMover
<1> QED
  BY <1>1, <1>2, <1>3 DEF Iniciar

(* The steps of compactar_swap and the end of inicializar_programa.        *)
LEMMA InvCompactar ==
  ASSUME Inv, Compactar
  PROVE  Inv'
<1>1. CASE ContarCero
  <2>1. /\ compactacion.index + 1 \in Nat /\ compactacion.contador_ceros + 1 \in Nat
        /\ compactacion.contador_ceros + 1 <= compactacion.index + 1
        /\ compactacion.index \notin paginas_bitmap
    BY <1>1 DEF ContarCero, EsUno, Inv, TypeOK
  <2>2. /\ compactacion' = [compactacion EXCEPT !.index = @ + 1, !.contador_ceros = @ + 1]
        /\ UNCHANGED <<paginas_bitmap, lista_programas, archivo, largo, respuesta, escritas>>
    BY <1>1 DEF ContarCero
  <2>3. /\ compactacion' \in [activa : BOOLEAN, programa : Programas \cup {NULO},
                           paginas : 0..MaxPaginas, index : Nat, contador_ceros : Nat]
        /\ compactacion'.index = compactacion.index + 1
        /\ compactacion'.contador_ceros = compactacion.contador_ceros + 1
        /\ compactacion'.activa = compactacion.activa
        /\ compactacion'.programa = compactacion.programa
        /\ compactacion'.paginas = compactacion.paginas
    BY <2>1, <2>2 DEF Inv, TypeOK
  <2>4. TypeOK'
    BY <2>1, <2>2, <2>3 DEF Inv, TypeOK
  <2>5. Compactando'
    BY <2>1, <2>2, <2>3 DEF Inv, TypeOK, Compactando, Desbordado
  <2> QED
    BY <2>2, <2>4, <2>5, InvSinMover
<1>2. CASE PasarUno
  <2>1. /\ compactacion.index \in Nat /\ compactacion.contador_ceros = 0
        /\ compactacion' = [compactacion EXCEPT !.index = @ + 1]
        /\ UNCHANGED <<paginas_bitmap, lista_programas, archivo, largo, respuesta, escritas>>
    BY <1>2 DEF PasarUno, Inv, TypeOK
  <2>2. TypeOK'
    BY <2>1 DEF Inv, TypeOK
  <2>3. Compactando'
    BY <2>1 DEF Inv, TypeOK, Compactando, Desbordado
  <2> QED
    BY <2>1, <2>2, <2>3, InvSinMover
<1>3. CASE \E p \in DOMAIN lista_programas : Correr(p)
  BY <1>3, InvCorrer
<1>4. ASSUME NEW p \in DOMAIN lista_programas, NoCorrer(p)
      PROVE  Inv'
  <2> DEFINE c == lista_programas[p].cantidad_paginas
  <2>1. compactacion.activa /\ ~Desbordado
    BY <1>4 DEF NoCorrer, CorreAlguno, EnBucle, Inv, Compactando
  <2>2. compactacion.index + c + 1 \in Nat
    BY <2>1, PaginasDe DEF Inv, TypeOK
  <2>3. /\ compactacion' = [compactacion EXCEPT !.contador_ceros = 0,
                             !.index = compactacion.index + c + 1]
        /\ UNCHANGED <<paginas_bitmap, lista_programas, archivo, largo, respuesta, escritas>>
    BY <1>4 DEF NoCorrer, Reposicionar
  <2> HIDE DEF c
  <2>4. /\ compactacion' \in [activa : BOOLEAN, programa : Programas \cup {NULO},
                           paginas : 0..MaxPaginas, index : Nat, contador_ceros : Nat]
        /\ compactacion'.index = compactacion.index + c + 1
        /\ compactacion'.contador_ceros = 0
        /\ compactacion'.activa = compactacion.activa
        /\ compactacion'.programa = compactacion.programa
        /\ compactacion'.paginas = compactacion.paginas
    BY <2>2, <2>3 DEF Inv, TypeOK
  <2>5. compactacion'.contador_ceros <= compactacion'.index
    BY <2>2, <2>4
  <2>6. TypeOK'
    BY <2>3, <2>4, <2>5 DEF Inv, TypeOK
  <2>7. Compactando'
    BY <2>2, <2>3, <2>4 DEF Inv, TypeOK, Compactando, Desbordado
  <2> QED
    BY <2>3, <2>6, <2>7, InvSinMover
<1>5. CASE IniciarCompactado
  <2>1. /\ ~Desbordado
        /\ compactacion.programa \in Programas \ DOMAIN lista_programas
        /\ compactacion.paginas \in 1..MaxPaginas /\ compactacion.paginas <= Bits
    BY <1>5 DEF IniciarCompactado, Inv, Compactando
  <2> QED
    BY <1>5, <2>1, InvUbicar DEF IniciarCompactado
<1> QED
  BY <1>1, <1>2, <1>3, <1>4, <1>5 DEF Compactar

(* A program that ends gives back its pages and nobody else's.             *)
LEMMA InvFinalizar ==
  ASSUME Inv, NEW p \in Programas, FinalizarPrograma(p)
  PROVE  Inv'
<1>1. ~Desbordado /\ ~compactacion.activa /\ UNCHANGED <<archivo, largo, compactacion>>
  BY DEF FinalizarPrograma, Atiende
<1>2. Compactando'
  BY <1>1 DEF Compactando
<1>3. CASE ~Existe(p)
  <2>1. TypeOK'
    BY <1>1, <1>3 DEF FinalizarPrograma, Inv, TypeOK
  <2> QED
    BY <1>2, <1>3, <2>1, InvSinMover DEF FinalizarPrograma
<1>4. CASE Existe(p)
  <2>1. /\ p \in DOMAIN lista_programas
        /\ paginas_bitmap' = paginas_bitmap \ Region(lista_programas[p])
        /\ lista_programas' =
             [q \in DOMAIN lista_programas \ {p} |-> lista_programas[q]]
        /\ escritas' = [q \in DOMAIN lista_programas \ {p} |-> escritas[q]]
        /\ respuesta' = Exito
    BY <1>4 DEF FinalizarPrograma, Existe, Restrict
  <2>2. TypeOK'
    BY <1>1, <2>1 DEF Inv, TypeOK
  <2>3. \A q \in DOMAIN lista_programas' :
          q \in DOMAIN lista_programas /\ q # p /\ lista_programas'[q] = lista_programas[q]
    BY <2>1
  <2>4. \A q, r \in DOMAIN lista_programas :
          q # r => Region(lista_programas[q]) \cap Region(lista_programas[r]) = {}
    BY <1>1 DEF Inv, RegionesDisjuntas
  <2>5. RegionesDisjuntas'
    <3>1. \A q, r \in DOMAIN lista_programas' :
            q # r => Region(lista_programas'[q]) \cap Region(lista_programas'[r]) = {}
      BY <2>3, <2>4
    <3> QED
      BY <3>1 DEF RegionesDisjuntas, Region
  <2>6. BitmapExacto'
    <3>1. paginas_bitmap =
            UNION {Region(lista_programas[q]) : q \in DOMAIN lista_programas}
      BY <1>1 DEF Inv, BitmapExacto
    <3>2. DOMAIN lista_programas' = DOMAIN lista_programas \ {p}
      BY <2>1
    <3>3. paginas_bitmap' =
            UNION {Region(lista_programas'[q]) : q \in DOMAIN lista_programas'}
      BY <2>1, <2>3, <2>4, <3>1, <3>2
    <3> QED
      BY <3>3 DEF BitmapExacto, Region
  <2>7. EnLosLimites'
    BY <1>1, <2>3, PaginasDe DEF EnLosLimites
  <2> QED
    BY <1>2, <2>2, <2>5, <2>6, <2>7 DEF Inv
<1> QED
  BY <1>3, <1>4

-----------------------------------------------------------------------------
(* Reading and writing change no page of the bitmap nor of the list; a     *)
(* write that makes the file longer stays inside the bitmap.               *)
LEMMA InvLeerPagina ==
  ASSUME Inv, NEW p \in DOMAIN lista_programas, NEW i \in 0..(MaxPaginas - 1),
         LeerPagina(p, i)
  PROVE  Inv'
<1>1. /\ ~compactacion.activa /\ ~Desbordado
      /\ UNCHANGED <<paginas_bitmap, lista_programas, archivo, largo, compactacion, escritas>>
  BY DEF LeerPagina, Atiende
<1>2. Posicion(p, i) \in Paginas
  BY <1>1, PaginasDe, SupuestoSwap, BitsSuficientes DEF LeerPagina, Posicion, Paginas
<1>3. respuesta' \in Valores \cup {Exito, Error}
  BY <1>2 DEF LeerPagina, Inv, TypeOK
<1>4. TypeOK'
  BY <1>1, <1>3 DEF Inv, TypeOK
<1> QED
  BY <1>1, <1>4, InvSinMover DEF Compactando

LEMMA InvEscribirPagina ==
  ASSUME Inv, NEW p \in DOMAIN lista_programas, NEW i \in 0..(MaxPaginas - 1),
         NEW v \in Escribe[p], EscribirPagina(p, i, v)
  PROVE  Inv'
<1>1. /\ ~compactacion.activa /\ ~Desbordado
      /\ i < lista_programas[p].cantidad_paginas
      /\ archivo' = [archivo EXCEPT ![Posicion(p, i)] = v]
      /\ largo' = Mayor(largo, Posicion(p, i) + 1)
      /\ escritas' = [escritas EXCEPT ![p] = @ \cup {i}]
      /\ respuesta' = Exito
      /\ UNCHANGED <<paginas_bitmap, lista_programas, compactacion>>
  BY DEF EscribirPagina, Atiende
<1>2. Posicion(p, i) \in Nat /\ Posicion(p, i) + 1 <= Bits
  BY <1>1, PaginasDe, SupuestoSwap, BitsSuficientes DEF Posicion
<1>3. v \in Valores
  BY SupuestoSwap DEF Inv, TypeOK
<1>4. archivo' \in [Paginas -> Valores] /\ largo' \in CantidadPaginas..Bits
  <2>1. largo \in CantidadPaginas..Bits
    BY DEF Inv, TypeOK
  <2>2. largo' \in CantidadPaginas..Bits
    BY <1>1, <1>2, <2>1, SupuestoSwap, BitsSuficientes DEF Mayor
  <2>3. archivo' \in [Paginas -> Valores]
    BY <1>1, <1>3 DEF Inv, TypeOK
  <2> QED
    BY <2>2, <2>3
<1>5. TypeOK'
  BY <1>1, <1>4 DEF Inv, TypeOK
<1> QED
  BY <1>1, <1>5, InvSinMover DEF Compactando

LEMMA InvEscribirPaginaNueva ==
  ASSUME Inv, NEW p \in DOMAIN lista_programas, NEW n \in 1..MaxPaginas,
         NEW v \in Escribe[p], EscribirPaginaNueva(p, n, v)
  PROVE  Inv'
<1>1. /\ ~compactacion.activa /\ ~Desbordado
      /\ n <= lista_programas[p].cantidad_paginas
      /\ archivo' = [j \in Paginas |->
           IF j \in Posicion(p, 0)..Posicion(p, n - 1) THEN v ELSE archivo[j]]
      /\ escritas' = [escritas EXCEPT ![p] =
           @ \cup {i \in 0..(n - 1) : Posicion(p, i) < largo'}]
      /\ respuesta' = Exito
      /\ UNCHANGED <<paginas_bitmap, lista_programas, compactacion>>
  BY DEF EscribirPaginaNueva, Atiende
<1>2. PICK enteras \in {n - 1, n} : largo' = Mayor(largo, Posicion(p, enteras))
  BY DEF EscribirPaginaNueva
<1>3. Posicion(p, enteras) \in Nat /\ Posicion(p, enteras) <= Bits
  BY <1>1, PaginasDe, SupuestoSwap, BitsSuficientes DEF Posicion
<1>4. v \in Valores
  BY SupuestoSwap DEF Inv, TypeOK
<1>5. archivo' \in [Paginas -> Valores]
  BY <1>1, <1>4 DEF Inv, TypeOK
<1>6. largo' \in CantidadPaginas..Bits
  BY <1>2, <1>3, SupuestoSwap, BitsSuficientes DEF Inv, TypeOK, Mayor
<1>7. escritas' \in [DOMAIN lista_programas -> SUBSET (0..(MaxPaginas - 1))]
  <2>1. {i \in 0..(n - 1) : Posicion(p, i) < largo'} \subseteq 0..(MaxPaginas - 1)
    BY SupuestoSwap
  <2> QED
    BY <1>1, <2>1 DEF Inv, TypeOK
<1>8. TypeOK'
  BY <1>1, <1>5, <1>6, <1>7 DEF Inv, TypeOK
<1> QED
  BY <1>1, <1>8, InvSinMover DEF Compactando

LEMMA InvPaso == Inv /\ [Next]_vars => Inv'
<1> SUFFICES ASSUME Inv, [Next]_vars
             PROVE  Inv'
  OBVIOUS
<1>1. CASE UNCHANGED vars
  <2>1. TypeOK' /\ Compactando'
    BY <1>1 DEF vars, Inv, TypeOK, Compactando, Desbordado
  <2> QED
    BY <1>1, <2>1, InvSinMover DEF vars
<1>2. CASE Compactar
  BY <1>2, InvCompactar
<1>3. ASSUME NEW p \in Programas, Pedido(p)
      PROVE  Inv'
  <2>1. CASE \E n \in 1..MaxPaginas : Iniciar(p, n)
    BY <2>1, InvIniciar
  <2>2. CASE IniciarExistente(p)
    <3>1. TypeOK' /\ Compactando'
      BY <2>2 DEF Inv, TypeOK, Compactando, Desbordado, IniciarExistente
    <3> QED
      BY <2>2, <3>1, InvSinMover DEF IniciarExistente
  <2>3. CASE FinalizarPrograma(p)
    BY <2>3, InvFinalizar
  <2>4. ASSUME Existe(p), NEW i \in 0..(MaxPaginas - 1), LeerPagina(p, i)
        PROVE  Inv'
    BY <2>4, InvLeerPagina DEF Existe
  <2>5. ASSUME Existe(p), NEW i \in 0..(MaxPaginas - 1), NEW v \in Escribe[p],
               EscribirPagina(p, i, v)
        PROVE  Inv'
    BY <2>5, InvEscribirPagina DEF Existe
  <2>6. ASSUME Existe(p), NEW n \in 1..MaxPaginas, NEW v \in Escribe[p],
               EscribirPaginaNueva(p, n, v)
        PROVE  Inv'
    BY <2>6, InvEscribirPaginaNueva DEF Existe
  <2> QED
    BY <1>3, <2>1, <2>2, <2>3, <2>4, <2>5, <2>6 DEF Pedido
<1> QED
  BY <1>1, <1>2, <1>3 DEF Next

-----------------------------------------------------------------------------
(* The inductive invariant of the SWAP holds in every reachable state.     *)
THEOREM InvarianteSwap == Spec => []Inv
BY InvInicial, InvPaso, PTL DEF Spec

(* inicializar_programa, compactar_swap and writes keep every number of the*)
(* control structures inside the bitmap and the file.                      *)
THEOREM TiposDelSwap == Spec => []TypeOK
<1>1. Inv => TypeOK
  BY DEF Inv
<1> QED
  BY InvarianteSwap, <1>1, PTL

(* No placement and no move of compactar_swap gives a page to two programs.*)
THEOREM PaginasDeUnSoloPrograma == Spec => []RegionesDisjuntas
<1>1. Inv => RegionesDisjuntas
  BY DEF Inv
<1> QED
  BY InvarianteSwap, <1>1, PTL

(* reservar_lugar_para_el_programa and liberar_lugar_del_programa keep the *)
(* bitmap equal to the pages of the list.                                  *)
THEOREM BitmapDeLaLista == Spec => []BitmapExacto
<1>1. Inv => BitmapExacto
  BY DEF Inv
<1> QED
  BY InvarianteSwap, <1>1, PTL

(* compactar_swap never dereferences NULL: there is a program at the index.*)
THEOREM SiempreCorreUnPrograma == Spec => []CorreUnPrograma
<1>1. Inv => CorreUnPrograma
  BY CorrePrimeraPagina DEF CorreUnPrograma
<1> QED
  BY InvarianteSwap, <1>1, PTL

-----------------------------------------------------------------------------
(* The SWAP implements the store of AlmacenAbstracto.  Besides Inv, what   *)
(* was written is in the file, so it can be read, and the pages a request  *)
(* asked for are still free when the compaction it waits for is over.      *)
EscritasEnArchivo ==
  \A p \in DOMAIN lista_programas :
    \A i \in escritas[p] : i < lista_programas[p].cantidad_paginas /\ Posicion(p, i) < largo

EspacioReservado == compactacion.activa => HayEspacio(compactacion.paginas)

InvRefina == Inv /\ EscritasEnArchivo /\ EspacioReservado

(* The memory of the abstract store, and the pages of a list of programs.  *)
Memoria ==
  [p \in DOMAIN lista_programas |->
    [i \in 0..(lista_programas[p].cantidad_paginas - 1) |->
       IF i \in escritas[p] THEN archivo[Posicion(p, i)] ELSE Indefinida]]
Paginado(lista) ==
  UNION {{p} \X (0..(lista[p].cantidad_paginas - 1)) : p \in DOMAIN lista}

(* When no two programs share a page, the pages of the programs are those  *)
(* of the bitmap, one by one.                                              *)
LEMMA PaginasDelBitmap ==
  ASSUME NEW lista, NEW bits \in SUBSET Paginas,
         \A p \in DOMAIN lista :
           lista[p].pagina_inicial_swap \in Nat /\ lista[p].cantidad_paginas \in Nat,
         \A p, q \in DOMAIN lista : p # q => Region(lista[p]) \cap Region(lista[q]) = {},
         bits = UNION {Region(lista[p]) : p \in DOMAIN lista}
  PROVE  /\ IsFiniteSet(bits)
         /\ Cardinality(Paginado(lista)) = Cardinality(bits)
<1> DEFINE f == [x \in Paginado(lista) |-> lista[x[1]].pagina_inicial_swap + x[2]]
<1>1. IsFiniteSet(bits)
  <2>1. IsFiniteSet(Paginas)
    BY BitsSuficientes, FS_Interval DEF Paginas
  <2> QED
    BY <2>1, FS_Subset
<1>2. \A x \in Paginado(lista) :
        /\ x = <<x[1], x[2]>> /\ x[1] \in DOMAIN lista /\ x[2] \in Nat
        /\ lista[x[1]].pagina_inicial_swap \in Nat
        /\ f[x] \in Region(lista[x[1]])
        /\ f[x] = lista[x[1]].pagina_inicial_swap + x[2]
  <2> SUFFICES ASSUME NEW p \in DOMAIN lista,
                      NEW i \in 0..(lista[p].cantidad_paginas - 1)
               PROVE  /\ i \in Nat /\ lista[p].pagina_inicial_swap \in Nat
                      /\ lista[p].pagina_inicial_swap + i \in Region(lista[p])
    BY DEF Paginado
  <2> QED
    BY DEF Region
<1>3. f \in [Paginado(lista) -> bits]
  BY <1>2
<1>4. \A x, y \in Paginado(lista) : f[x] = f[y] => x = y
  <2> SUFFICES ASSUME NEW x \in Paginado(lista), NEW y \in Paginado(lista), f[x] = f[y]
               PROVE  x = y
    OBVIOUS
  <2>1. x[1] = y[1]
    BY <1>2
  <2>2. x[2] = y[2]
    BY <1>2, <2>1
  <2> QED
    BY <1>2, <2>1, <2>2
<1>5. \A j \in bits : \E x \in Paginado(lista) : f[x] = j
  <2> SUFFICES ASSUME NEW j \in bits
               PROVE  \E x \in Paginado(lista) : f[x] = j
    OBVIOUS
  <2>1. PICK p \in DOMAIN lista : j \in Region(lista[p])
    OBVIOUS
  <2>2. j - lista[p].pagina_inicial_swap \in 0..(lista[p].cantidad_paginas - 1)
    BY <2>1 DEF Region
  <2>3. <<p, j - lista[p].pagina_inicial_swap>> \in Paginado(lista)
    BY <2>2 DEF Paginado
  <2>4. lista[p].pagina_inicial_swap + (j - lista[p].pagina_inicial_swap) = j
    BY <2>1 DEF Region
  <2> QED
    BY <2>3, <2>4
<1>6. f \in Injection(Paginado(lista), bits) /\ f \in Surjection(Paginado(lista), bits)
  BY <1>3, <1>4, <1>5 DEF Injection, Surjection, IsInjective
<1> QED
  BY <1>1, <1>6, FS_Injection

(* hay_espacio_total_disponible says whether the pages of a request, with  *)
(* those that are taken, are not more than the bits.                       *)
LEMMA PaginasLibres ==
  ASSUME NEW bits \in SUBSET Paginas, IsFiniteSet(bits), NEW n \in Nat
  PROVE  /\ Cardinality(bits) \in Nat
         /\ Cardinality(Paginas \ bits) >= n <=> Cardinality(bits) + n <= Bits
<1>1. IsFiniteSet(Paginas) /\ Cardinality(Paginas) = Bits
  BY BitsSuficientes, FS_Interval DEF Paginas
<1>2. /\ Cardinality(Paginas \ bits) = Cardinality(Paginas) - Cardinality(Paginas \cap bits)
      /\ Paginas \cap bits = bits
  BY <1>1, FS_Difference
<1>3. Cardinality(bits) \in Nat
  BY FS_CardinalityType
<1> QED
  BY <1>1, <1>2, <1>3, BitsSuficientes

(* Both modules count with the same operator.                              *)
LEMMA MismoCardinal ==
  ASSUME NEW S
  PROVE  Almacen!Cardinality(S) = Cardinality(S)
BY DEF Almacen!Cardinality, Cardinality

(* The pages are enough for the SWAP exactly when they are for the store.  *)
LEMMA EspacioDisponible ==
  ASSUME Inv, ~Desbordado, NEW n \in Nat
  PROVE  /\ Almacen!Ocupadas \in Nat
         /\ HayEspacio(n) <=> Almacen!Ocupadas + n <= Bits
<1>1. Almacen!Ocupadas = Cardinality(Paginado(lista_programas))
  <2>1. {{p} \X DOMAIN Memoria[p] : p \in DOMAIN Memoria}
          = {{p} \X (0..(lista_programas[p].cantidad_paginas - 1)) : p \in DOMAIN lista_programas}
    BY DEF Memoria
  <2>2. Almacen!Ocupadas
          = Almacen!Cardinality(UNION {{p} \X DOMAIN Memoria[p] : p \in DOMAIN Memoria})
    BY DEF Almacen!Ocupadas, Memoria
  <2> QED
    BY <2>1, <2>2, MismoCardinal DEF Paginado
<1>2. /\ IsFiniteSet(paginas_bitmap)
      /\ Cardinality(Paginado(lista_programas)) = Cardinality(paginas_bitmap)
  BY PaginasDelBitmap, PaginasDe DEF Inv, TypeOK, RegionesDisjuntas, BitmapExacto
<1>3. paginas_bitmap \in SUBSET Paginas
  BY DEF Inv, TypeOK
<1> QED
  BY <1>1, <1>2, <1>3, PaginasLibres DEF HayEspacio

-----------------------------------------------------------------------------
(* What a request or a step of the compaction does to the memory of the    *)
(* store.                                                                  *)
Paso == EscritasEnArchivo' /\ EspacioReservado' /\ [Almacen!Next]_(Almacen!vars)

(* Who moves and writes nothing is not seen, but for its answer.           *)
LEMMA MemoriaIgual ==
  ASSUME InvRefina, UNCHANGED <<lista_programas, escritas, archivo, largo>>
  PROVE  EscritasEnArchivo' /\ Memoria' = Memoria
BY DEF InvRefina, EscritasEnArchivo, Posicion, Memoria

(* A step that the store does not see.                                     *)
LEMMA PasoInvisible ==
  ASSUME Memoria' = Memoria, respuesta' = respuesta
  PROVE  [Almacen!Next]_(Almacen!vars)
BY DEF Almacen!vars, Memoria

(* A program that does not fit.                                            *)
LEMMA PasoIniciarRechazado ==
  ASSUME InvRefina, NEW p \in Programas, NEW n \in 1..MaxPaginas, IniciarRechazado(p, n)
  PROVE  Paso
<1>1. /\ ~Desbordado /\ ~compactacion.activa /\ p \notin DOMAIN lista_programas
      /\ ~HayEspacio(n) /\ respuesta' = Error
      /\ UNCHANGED <<paginas_bitmap, lista_programas, archivo, largo, compactacion, escritas>>
  BY DEF IniciarRechazado, Atiende, Existe
<1>2. n \in Nat /\ Almacen!Ocupadas \in Nat /\ Almacen!Ocupadas + n > Bits
  BY <1>1, EspacioDisponible, SupuestoSwap, BitsSuficientes DEF InvRefina
<1>3. EscritasEnArchivo' /\ Memoria' = Memoria /\ EspacioReservado'
  BY <1>1, MemoriaIgual DEF EspacioReservado
<1>4. p \notin DOMAIN Memoria
  BY <1>1 DEF Memoria
<1>5. Almacen!Rechazar(p, n)
  BY <1>1, <1>2, <1>3, <1>4 DEF Almacen!Rechazar, Almacen!Existe, Memoria
<1> QED
  BY <1>3, <1>5 DEF Paso, Almacen!Next

(* A program that exists.                                                  *)
LEMMA PasoIniciarExistente ==
  ASSUME InvRefina, NEW p \in Programas, NEW n \in 1..MaxPaginas, IniciarExistente(p)
  PROVE  Paso
<1>1. /\ ~compactacion.activa /\ p \in DOMAIN lista_programas /\ respuesta' = Exito
      /\ UNCHANGED <<paginas_bitmap, lista_programas, archivo, largo, compactacion, escritas>>
  BY DEF IniciarExistente, Atiende, Existe
<1>2. EscritasEnArchivo' /\ Memoria' = Memoria /\ EspacioReservado'
  BY <1>1, MemoriaIgual DEF EspacioReservado
<1>3. p \in DOMAIN Memoria
  BY <1>1 DEF Memoria
<1>4. Almacen!Iniciar(p, n)
  BY <1>1, <1>2, <1>3 DEF Almacen!Iniciar, Almacen!Existe, Memoria
<1> QED
  BY <1>2, <1>4 DEF Paso, Almacen!Next

(* A program that is placed: its pages have no content yet.                *)
LEMMA PasoUbicar ==
  ASSUME InvRefina, ~Desbordado, NEW p \in Programas \ DOMAIN lista_programas,
         NEW n \in 1..MaxPaginas, NEW donde, HayEspacio(n), Ubicar(p, n, donde),
         ~compactacion'.activa
  PROVE  Paso
<1> DEFINE fila == [pagina_inicial_swap |-> donde, cantidad_paginas |-> n]
<1>1. /\ lista_programas' = [q \in DOMAIN lista_programas \cup {p} |->
                               IF q = p THEN fila ELSE lista_programas[q]]
      /\ escritas' = [q \in DOMAIN lista_programas \cup {p} |->
                        IF q = p THEN {} ELSE escritas[q]]
      /\ respuesta' = Exito
      /\ UNCHANGED <<archivo, largo>>
  BY DEF Ubicar
<1>2. fila.cantidad_paginas = n
  OBVIOUS
<1> HIDE DEF fila
<1>3. /\ DOMAIN lista_programas' = DOMAIN lista_programas \cup {p}
      /\ lista_programas'[p].cantidad_paginas = n /\ escritas'[p] = {}
      /\ \A q \in DOMAIN lista_programas :
           q # p /\ lista_programas'[q] = lista_programas[q] /\ escritas'[q] = escritas[q]
  BY <1>1, <1>2
<1>4. EscritasEnArchivo'
  BY <1>1, <1>3 DEF InvRefina, EscritasEnArchivo, Posicion
<1>5. Memoria' = [q \in DOMAIN Memoria \cup {p} |->
                    IF q = p THEN [i \in 0..(n - 1) |-> Indefinida] ELSE Memoria[q]]
  <2>1. \A q \in DOMAIN lista_programas : Memoria'[q] = Memoria[q]
    BY <1>1, <1>3 DEF Memoria, Posicion
  <2>2. Memoria'[p] = [i \in 0..(n - 1) |-> Indefinida]
    BY <1>3 DEF Memoria
  <2>3. /\ Memoria' = [q \in DOMAIN lista_programas' |-> Memoria'[q]]
        /\ DOMAIN Memoria = DOMAIN lista_programas
    BY DEF Memoria
  <2> QED
    BY <1>3, <2>1, <2>2, <2>3
<1>6. p \notin DOMAIN Memoria
  BY DEF Memoria
<1>7. Almacen!Ocupadas + n <= Bits
  BY EspacioDisponible, SupuestoSwap DEF InvRefina
<1>8. Almacen!Iniciar(p, n)
  BY <1>1, <1>5, <1>6, <1>7 DEF Almacen!Iniciar, Almacen!Existe, Memoria
<1> QED
  BY <1>4, <1>8 DEF Paso, Almacen!Next, EspacioReservado

(* compactar_swap moves a program: its pages are elsewhere, with the same  *)
(* content, and the free pages are as many as before.                      *)
LEMMA PasoCorrer ==
  ASSUME InvRefina, Inv', NEW p \in DOMAIN lista_programas, Correr(p)
  PROVE  Paso
<1> DEFINE k == compactacion.contador_ceros
           fila == lista_programas[p]
           nueva == [fila EXCEPT !.pagina_inicial_swap = @ - k]
<1>1. /\ k \in Nat /\ compactacion.activa /\ ~Desbordado
      /\ EmpiezaEn(p, compactacion.index) /\ k <= compactacion.index
  BY DEF Correr, CorreAlguno, EnBucle, InvRefina, Inv, TypeOK, Compactando
<1>2. /\ fila \in Filas /\ fila.pagina_inicial_swap \in Nat
      /\ fila.cantidad_paginas \in Nat /\ k <= fila.pagina_inicial_swap
  BY <1>1, PaginasDe DEF InvRefina, EmpiezaEn
<1>3. /\ nueva.cantidad_paginas = fila.cantidad_paginas
      /\ nueva.pagina_inicial_swap = fila.pagina_inicial_swap - k
  BY <1>2 DEF Filas
<1>4. /\ lista_programas' = [lista_programas EXCEPT ![p] = nueva]
      /\ archivo' = [j \in Paginas |->
                       IF j \in Region(nueva) THEN archivo[j + k] ELSE archivo[j]]
      /\ compactacion'.activa = compactacion.activa
      /\ compactacion'.paginas = compactacion.paginas
      /\ UNCHANGED <<largo, respuesta, escritas>>
  BY DEF Correr, Mover, Reposicionar, InvRefina, Inv, TypeOK
<1> HIDE DEF k, fila, nueva
<1>5. /\ DOMAIN lista_programas' = DOMAIN lista_programas
      /\ lista_programas'[p] = nueva
      /\ \A q \in DOMAIN lista_programas : q # p => lista_programas'[q] = lista_programas[q]
      /\ \A q \in DOMAIN lista_programas :
           lista_programas'[q].cantidad_paginas = lista_programas[q].cantidad_paginas
  BY <1>3, <1>4 DEF fila
<1>6. ~Desbordado'
  BY <1>1, <1>4 DEF Inv, Compactando
<1>7. \A q \in DOMAIN lista_programas : \A i \in escritas[q] :
        /\ i \in Nat /\ i < lista_programas[q].cantidad_paginas
        /\ lista_programas[q].pagina_inicial_swap \in Nat
        /\ lista_programas[q].cantidad_paginas \in Nat
        /\ Posicion(q, i) < largo /\ Posicion(q, i) \in Region(lista_programas[q])
        /\ Posicion(q, i) = lista_programas[q].pagina_inicial_swap + i
  BY <1>1, PaginasDe, SupuestoSwap
  DEF InvRefina, EscritasEnArchivo, Inv, TypeOK, Posicion, Region
<1>8. /\ \A i : Posicion(p, i)' = nueva.pagina_inicial_swap + i
      /\ \A q \in DOMAIN lista_programas : q # p => \A i : Posicion(q, i)' = Posicion(q, i)
  BY <1>5 DEF Posicion
<1>9. EscritasEnArchivo'
  <2>1. largo \in Int
    BY SupuestoSwap, BitsSuficientes DEF InvRefina, Inv, TypeOK
  <2>2. \A i \in escritas[p] : Posicion(p, i)' < largo
    BY <1>1, <1>2, <1>3, <1>7, <1>8, <2>1 DEF fila
  <2> QED
    BY <1>4, <1>5, <1>7, <1>8, <2>2 DEF EscritasEnArchivo
<1>10. \A i \in escritas[p] : archivo'[Posicion(p, i)'] = archivo[Posicion(p, i)]
  <2> SUFFICES ASSUME NEW i \in escritas[p]
               PROVE  archivo'[Posicion(p, i)'] = archivo[Posicion(p, i)]
    OBVIOUS
  <2>1. Posicion(p, i)' \in Region(nueva) /\ Posicion(p, i)' + k = Posicion(p, i)
    BY <1>1, <1>2, <1>3, <1>7, <1>8 DEF Region, fila
  <2>2. Posicion(p, i)' \in Paginas
    BY <1>1, <1>2, <1>7, <2>1, BitsSuficientes, PaginasDe, <1>5, <1>3, <1>8 DEF Paginas, InvRefina, fila
  <2> QED
    BY <1>4, <2>1, <2>2
<1>11. \A q \in DOMAIN lista_programas : q # p =>
         \A i \in escritas[q] : archivo'[Posicion(q, i)'] = archivo[Posicion(q, i)]
  <2> SUFFICES ASSUME NEW q \in DOMAIN lista_programas, q # p, NEW i \in escritas[q]
               PROVE  archivo'[Posicion(q, i)'] = archivo[Posicion(q, i)]
    OBVIOUS
  <2>1. Region(lista_programas'[q]) \cap Region(lista_programas'[p]) = {}
    BY <1>5, <1>6 DEF Inv, RegionesDisjuntas, Region
  <2>2. Posicion(q, i) \notin Region(nueva)
    BY <1>5, <1>7, <2>1
  <2>3. Posicion(q, i) \in Paginas
    BY <1>1, <1>7, PaginasDe DEF InvRefina, Inv, TypeOK
  <2> QED
    BY <1>4, <1>8, <2>2, <2>3
<1>12. Memoria' = Memoria
  <2>1. \A q \in DOMAIN lista_programas : \A i \in escritas[q] :
          archivo'[Posicion(q, i)'] = archivo[Posicion(q, i)]
    BY <1>10, <1>11
  <2>2. ASSUME NEW q \in DOMAIN lista_programas
        PROVE  Memoria'[q] = Memoria[q]
    <3>1. Memoria[q] = [i \in 0..(lista_programas[q].cantidad_paginas - 1) |->
                          IF i \in escritas[q] THEN archivo[Posicion(q, i)] ELSE Indefinida]
      BY DEF Memoria
    <3>2. Memoria'[q] = [i \in 0..(lista_programas'[q].cantidad_paginas - 1) |->
                           IF i \in escritas'[q] THEN archivo'[Posicion(q, i)'] ELSE Indefinida]
      BY <1>5 DEF Memoria
    <3> QED
      BY <1>4, <1>5, <2>1, <3>1, <3>2, SMTT(30)
  <2> QED
    BY <1>5, <2>2 DEF Memoria
<1>13. EspacioReservado'
  <2>1. Paginado(lista_programas') = Paginado(lista_programas)
    BY <1>5 DEF Paginado
  <2>2. /\ IsFiniteSet(paginas_bitmap) /\ paginas_bitmap \in SUBSET Paginas
        /\ Cardinality(Paginado(lista_programas)) = Cardinality(paginas_bitmap)
    <3>1. paginas_bitmap \in SUBSET Paginas
      BY DEF InvRefina, Inv, TypeOK
    <3> QED
      BY <1>1, <3>1, PaginasDelBitmap, PaginasDe
      DEF InvRefina, Inv, RegionesDisjuntas, BitmapExacto
  <2>3. /\ IsFiniteSet(paginas_bitmap') /\ paginas_bitmap' \in SUBSET Paginas
        /\ Cardinality(Paginado(lista_programas')) = Cardinality(paginas_bitmap')
    <3>1. paginas_bitmap' \in SUBSET Paginas
      BY DEF Inv, TypeOK
    <3>2. \A q \in DOMAIN lista_programas' :
            /\ lista_programas'[q].pagina_inicial_swap \in Nat
            /\ lista_programas'[q].cantidad_paginas \in Nat
      BY <1>1, <1>2, <1>3, <1>5, PaginasDe DEF InvRefina, fila
    <3>3. \A q, r \in DOMAIN lista_programas' :
            q # r => Region(lista_programas'[q]) \cap Region(lista_programas'[r]) = {}
      BY <1>6 DEF Inv, RegionesDisjuntas, Region
    <3>4. paginas_bitmap' = UNION {Region(lista_programas'[q]) : q \in DOMAIN lista_programas'}
      BY <1>6 DEF Inv, BitmapExacto, Region
    <3> QED
      BY <3>1, <3>2, <3>3, <3>4, PaginasDelBitmap
  <2>4. compactacion.paginas \in Nat
    BY SupuestoSwap DEF InvRefina, Inv, TypeOK
  <2>5. HayEspacio(compactacion.paginas)
    BY <1>1 DEF InvRefina, EspacioReservado
  <2>6. Cardinality(Paginas \ paginas_bitmap') >= compactacion.paginas
    <3>1. Cardinality(paginas_bitmap) + compactacion.paginas <= Bits
      BY <2>2, <2>4, <2>5, PaginasLibres DEF HayEspacio
    <3> QED
      BY <2>1, <2>2, <2>3, <2>4, <3>1, PaginasLibres
  <2> QED
    BY <1>4, <2>6 DEF EspacioReservado, HayEspacio
<1> QED
  BY <1>4, <1>9, <1>12, <1>13, PasoInvisible DEF Paso

(* The rest of the compaction.                                             *)
LEMMA PasoCompactar ==
  ASSUME InvRefina, Inv', Compactar
  PROVE  Paso
<1>1. ASSUME NEW p \in DOMAIN lista_programas, Correr(p)
      PROVE  Paso
  BY <1>1, PasoCorrer
<1>2. CASE ContarCero \/ PasarUno \/ \E p \in DOMAIN lista_programas : NoCorrer(p)
  <2>1. /\ compactacion.activa /\ compactacion'.paginas = compactacion.paginas
        /\ UNCHANGED <<paginas_bitmap, lista_programas, archivo, largo, respuesta, escritas>>
    BY <1>2 DEF ContarCero, PasarUno, NoCorrer, CorreAlguno, EnBucle, Reposicionar,
                InvRefina, Inv, TypeOK
  <2>2. EspacioReservado'
    BY <2>1 DEF InvRefina, EspacioReservado, HayEspacio
  <2> QED
    BY <2>1, <2>2, MemoriaIgual, PasoInvisible DEF Paso
<1>3. CASE IniciarCompactado
  <2>1. /\ compactacion.activa /\ compactacion' = Parada
        /\ Ubicar(compactacion.programa, compactacion.paginas,
                  EncontrarUbicacion(compactacion.paginas))
    BY <1>3 DEF IniciarCompactado
  <2>2. /\ ~Desbordado /\ compactacion.programa \in Programas \ DOMAIN lista_programas
        /\ compactacion.paginas \in 1..MaxPaginas /\ HayEspacio(compactacion.paginas)
    BY <2>1 DEF InvRefina, Inv, Compactando, EspacioReservado
  <2>3. ~compactacion'.activa
    BY <2>1 DEF Parada
  <2> QED
    BY <2>1, <2>2, <2>3, PasoUbicar
<1> QED
  BY <1>1, <1>2, <1>3 DEF Compactar

(* inicializar_programa.                                                   *)
LEMMA PasoIniciar ==
  ASSUME InvRefina, NEW p \in Programas, NEW n \in 1..MaxPaginas, Iniciar(p, n)
  PROVE  Paso
<1>1. CASE IniciarRechazado(p, n)
  BY <1>1, PasoIniciarRechazado
<1>2. CASE IniciarDirecto(p, n)
  <2>1. /\ ~Desbordado /\ p \notin DOMAIN lista_programas /\ HayEspacio(n)
        /\ ~compactacion'.activa /\ Ubicar(p, n, EncontrarUbicacion(n))
    BY <1>2 DEF IniciarDirecto, Atiende, Existe
  <2> QED
    BY <2>1, PasoUbicar
<1>3. CASE IniciarCompacta(p, n)
  <2>1. /\ HayEspacio(n) /\ compactacion'.paginas = n
        /\ UNCHANGED <<paginas_bitmap, lista_programas, archivo, largo, respuesta, escritas>>
    BY <1>3 DEF IniciarCompacta
  <2>2. EspacioReservado'
    BY <2>1 DEF EspacioReservado, HayEspacio
  <2> QED
    BY <2>1, <2>2, MemoriaIgual, PasoInvisible DEF Paso
<1> QED
  BY <1>1, <1>2, <1>3 DEF Iniciar

(* leer_bytes_swap: a page that was written is in the file.                *)
LEMMA PasoLeerPagina ==
  ASSUME InvRefina, NEW p \in Programas, p \in DOMAIN lista_programas,
         NEW i \in 0..(MaxPaginas - 1), LeerPagina(p, i)
  PROVE  Paso
<1>1. /\ ~compactacion.activa /\ ~Desbordado
      /\ i < lista_programas[p].cantidad_paginas
      /\ UNCHANGED <<paginas_bitmap, lista_programas, archivo, largo, compactacion, escritas>>
  BY DEF LeerPagina, Atiende
<1>2. /\ EscritasEnArchivo' /\ Memoria' = Memoria /\ EspacioReservado'
  BY <1>1, MemoriaIgual DEF EspacioReservado
<1>3. /\ Posicion(p, i) \in Paginas /\ Posicion(p, i) \in Int /\ largo \in Int
      /\ i \in 0..(lista_programas[p].cantidad_paginas - 1)
  <2>1. largo \in Int
    BY SupuestoSwap, BitsSuficientes DEF InvRefina, Inv, TypeOK
  <2>2. /\ lista_programas[p].pagina_inicial_swap \in Nat
        /\ lista_programas[p].cantidad_paginas \in Nat /\ i \in Nat
        /\ lista_programas[p].pagina_inicial_swap + lista_programas[p].cantidad_paginas <= Bits
    BY <1>1, PaginasDe, SupuestoSwap DEF InvRefina
  <2> QED
    BY <1>1, <2>1, <2>2, BitsSuficientes DEF Posicion, Paginas
<1>4. archivo[Posicion(p, i)] \in Valores
  BY <1>3 DEF InvRefina, Inv, TypeOK
<1>5. /\ p \in DOMAIN Memoria /\ i \in DOMAIN Memoria[p]
      /\ Memoria[p][i] = IF i \in escritas[p] THEN archivo[Posicion(p, i)] ELSE Indefinida
  BY <1>3 DEF Memoria
<1>6. \/ Memoria[p][i] # Indefinida /\ respuesta' = Memoria[p][i]
      \/ /\ Memoria[p][i] = Indefinida
         /\ (\E v \in Valores : respuesta' = v) \/ respuesta' = Error
  <2>1. CASE i \in escritas[p]
    <3>1. Posicion(p, i) < largo
      BY <2>1 DEF InvRefina, EscritasEnArchivo
    <3> QED
      BY <1>3, <1>4, <1>5, <2>1, <3>1, SupuestoSwap DEF LeerPagina
  <2>2. CASE i \notin escritas[p]
    BY <1>4, <1>5, <2>2 DEF LeerPagina
  <2> QED
    BY <2>1, <2>2
<1>7. Almacen!Leer(p, i)
  BY <1>2, <1>6 DEF Almacen!Leer, Memoria
<1>8. Almacen!Next
  BY <1>5, <1>7 DEF Almacen!Next, Almacen!Existe, Memoria
<1> QED
  BY <1>2, <1>8 DEF Paso

(* escribir_bytes_swap: the page is in the file, and is nobody else's.     *)
LEMMA PasoEscribirPagina ==
  ASSUME InvRefina, NEW p \in Programas, p \in DOMAIN lista_programas,
         NEW i \in 0..(MaxPaginas - 1), NEW v \in Escribe[p], EscribirPagina(p, i, v)
  PROVE  Paso
<1>1. /\ ~compactacion.activa /\ ~Desbordado
      /\ i < lista_programas[p].cantidad_paginas
      /\ archivo' = [archivo EXCEPT ![Posicion(p, i)] = v]
      /\ largo' = Mayor(largo, Posicion(p, i) + 1)
      /\ escritas' = [escritas EXCEPT ![p] = @ \cup {i}]
      /\ respuesta' = Exito
      /\ UNCHANGED <<paginas_bitmap, lista_programas, compactacion>>
  BY DEF EscribirPagina, Atiende
<1>2. /\ v \in Valores /\ archivo \in [Paginas -> Valores] /\ largo \in Int
      /\ escritas \in [DOMAIN lista_programas -> SUBSET (0..(MaxPaginas - 1))]
  BY SupuestoSwap, BitsSuficientes DEF InvRefina, Inv, TypeOK
<1>3. \A q \in DOMAIN lista_programas : \A j \in 0..(lista_programas[q].cantidad_paginas - 1) :
        /\ Posicion(q, j) \in Int /\ Posicion(q, j) \in Paginas
        /\ Posicion(q, j) = Posicion(p, i) => q = p /\ j = i
  <2> SUFFICES ASSUME NEW q \in DOMAIN lista_programas,
                      NEW j \in 0..(lista_programas[q].cantidad_paginas - 1)
               PROVE  /\ Posicion(q, j) \in Int /\ Posicion(q, j) \in Paginas
                      /\ Posicion(q, j) = Posicion(p, i) => q = p /\ j = i
    OBVIOUS
  <2>1. /\ lista_programas[q].pagina_inicial_swap \in Nat
        /\ lista_programas[q].cantidad_paginas \in Nat
        /\ lista_programas[q].pagina_inicial_swap + lista_programas[q].cantidad_paginas <= Bits
        /\ lista_programas[p].pagina_inicial_swap \in Nat
        /\ lista_programas[p].cantidad_paginas \in Nat /\ i \in Nat /\ j \in Nat
    BY <1>1, PaginasDe, SupuestoSwap DEF InvRefina
  <2>2. Posicion(q, j) \in Int /\ Posicion(q, j) \in Paginas
    BY <2>1, BitsSuficientes DEF Posicion, Paginas
  <2>3. /\ Posicion(q, j) \in Region(lista_programas[q])
        /\ Posicion(p, i) \in Region(lista_programas[p])
    BY <1>1, <2>1 DEF Posicion, Region
  <2>4. Posicion(q, j) = Posicion(p, i) => q = p
    BY <1>1, <2>3 DEF InvRefina, Inv, RegionesDisjuntas
  <2> QED
    BY <2>1, <2>2, <2>4 DEF Posicion
<1>4. /\ \A q \in DOMAIN lista_programas : q # p => escritas'[q] = escritas[q]
      /\ escritas'[p] = escritas[p] \cup {i}
      /\ \A q, j : Posicion(q, j)' = Posicion(q, j)
      /\ p \in DOMAIN lista_programas
      /\ i \in 0..(lista_programas[p].cantidad_paginas - 1)
  <2>1. lista_programas[p].cantidad_paginas \in Nat /\ i \in Nat
    BY <1>1, PaginasDe, SupuestoSwap DEF InvRefina
  <2> QED
    BY <1>1, <1>2, <2>1 DEF Posicion
<1>5. EscritasEnArchivo'
  <2>1. \A q \in DOMAIN lista_programas : \A j \in escritas[q] :
          j \in 0..(lista_programas[q].cantidad_paginas - 1) /\ Posicion(q, j) < largo
    <3> SUFFICES ASSUME NEW q \in DOMAIN lista_programas, NEW j \in escritas[q]
                 PROVE  j \in 0..(lista_programas[q].cantidad_paginas - 1) /\ Posicion(q, j) < largo
      OBVIOUS
    <3>1. j < lista_programas[q].cantidad_paginas /\ Posicion(q, j) < largo
      BY DEF InvRefina, EscritasEnArchivo
    <3>2. j \in Nat /\ lista_programas[q].cantidad_paginas \in Nat
      BY <1>1, <1>2, PaginasDe, SupuestoSwap DEF InvRefina
    <3> QED
      BY <3>1, <3>2
  <2>2. \A q \in DOMAIN lista_programas : \A j \in escritas'[q] :
          j < lista_programas[q].cantidad_paginas /\ Posicion(q, j) < largo'
    <3> SUFFICES ASSUME NEW q \in DOMAIN lista_programas, NEW j \in escritas'[q]
                 PROVE  j < lista_programas[q].cantidad_paginas /\ Posicion(q, j) < largo'
      OBVIOUS
    <3>1. j \in escritas[q] \/ (q = p /\ j = i)
      BY <1>4
    <3>2. j \in 0..(lista_programas[q].cantidad_paginas - 1)
      BY <1>4, <2>1, <3>1
    <3>3. Posicion(q, j) \in Int /\ Posicion(p, i) \in Int
      BY <1>3, <1>4, <3>2
    <3>4. lista_programas[q].cantidad_paginas \in Nat
      BY <1>1, PaginasDe DEF InvRefina
    <3>5. largo' \in Int /\ largo <= largo' /\ Posicion(p, i) < largo'
      BY <1>1, <1>2, <3>3 DEF Mayor
    <3>6. Posicion(q, j) < largo'
      BY <1>2, <2>1, <3>1, <3>3, <3>5
    <3> QED
      BY <3>2, <3>4, <3>6
  <2> QED
    BY <1>1, <1>4, <2>2 DEF EscritasEnArchivo
<1>6. Memoria' = [Memoria EXCEPT ![p][i] = v]
  <2>1. ASSUME NEW q \in DOMAIN lista_programas
        PROVE  Memoria'[q] = [j \in 0..(lista_programas[q].cantidad_paginas - 1) |->
                                IF q = p /\ j = i THEN v ELSE Memoria[q][j]]
    <3>1. Memoria'[q] = [j \in 0..(lista_programas'[q].cantidad_paginas - 1) |->
                           IF j \in escritas'[q] THEN archivo'[Posicion(q, j)'] ELSE Indefinida]
      BY <1>1 DEF Memoria
    <3>2. ASSUME NEW j \in 0..(lista_programas[q].cantidad_paginas - 1)
          PROVE  (IF j \in escritas'[q] THEN archivo'[Posicion(q, j)'] ELSE Indefinida)
                   = IF q = p /\ j = i THEN v ELSE Memoria[q][j]
      <4>1. Memoria[q][j] = IF j \in escritas[q] THEN archivo[Posicion(q, j)] ELSE Indefinida
        BY DEF Memoria
      <4>2. CASE q = p /\ j = i
        BY <1>1, <1>2, <1>3, <1>4, <4>2
      <4>3. CASE ~(q = p /\ j = i)
        <5>1. j \in escritas'[q] <=> j \in escritas[q]
          BY <1>4, <4>3
        <5>2. archivo'[Posicion(q, j)'] = archivo[Posicion(q, j)]
          BY <1>1, <1>2, <1>3, <1>4, <4>3
        <5> QED
          BY <4>1, <4>3, <5>1, <5>2
      <4> QED
        BY <4>2, <4>3
    <3> QED
      BY <1>1, <3>1, <3>2
  <2>2. /\ Memoria = [q \in DOMAIN lista_programas |-> Memoria[q]]
        /\ Memoria' = [q \in DOMAIN lista_programas |-> Memoria'[q]]
        /\ \A q \in DOMAIN lista_programas :
             Memoria[q] = [j \in 0..(lista_programas[q].cantidad_paginas - 1) |-> Memoria[q][j]]
    BY <1>1 DEF Memoria
  <2>3. \A q \in DOMAIN lista_programas : q # p => Memoria'[q] = Memoria[q]
    BY <2>1, <2>2
  <2>4. Memoria'[p] = [Memoria[p] EXCEPT ![i] = v]
    BY <1>4, <2>1, <2>2
  <2> QED
    BY <1>4, <2>2, <2>3, <2>4
<1>7. p \in DOMAIN Memoria /\ i \in DOMAIN Memoria[p]
  BY <1>4 DEF Memoria
<1>8. Almacen!Escribir(p, i, v)
  BY <1>1, <1>6 DEF Almacen!Escribir, Memoria
<1>9. Almacen!Next
  BY <1>2, <1>7, <1>8 DEF Almacen!Next, Almacen!Existe, Memoria
<1> QED
  BY <1>1, <1>5, <1>9 DEF Paso, EspacioReservado

(* finalizar_programa: the others keep what they had.                      *)
LEMMA PasoFinalizar ==
  ASSUME InvRefina, NEW p \in Programas, FinalizarPrograma(p)
  PROVE  Paso
<1>1. ~compactacion.activa /\ UNCHANGED <<archivo, largo, compactacion>>
  BY DEF FinalizarPrograma, Atiende
<1>2. EspacioReservado'
  BY <1>1 DEF EspacioReservado
<1>3. CASE ~Existe(p)
  <2>1. /\ respuesta' = Error /\ p \notin DOMAIN lista_programas
        /\ UNCHANGED <<lista_programas, escritas>>
    BY <1>3 DEF FinalizarPrograma, Existe
  <2>2. EscritasEnArchivo' /\ Memoria' = Memoria
    BY <1>1, <2>1, MemoriaIgual
  <2>3. p \notin DOMAIN Memoria
    BY <2>1 DEF Memoria
  <2>4. Almacen!Finalizar(p)
    BY <2>1, <2>2, <2>3 DEF Almacen!Finalizar, Almacen!Existe, Memoria
  <2> QED
    BY <1>2, <2>2, <2>4 DEF Paso, Almacen!Next
<1>4. CASE Existe(p)
  <2>1. /\ p \in DOMAIN lista_programas /\ respuesta' = Exito
        /\ lista_programas' = [q \in DOMAIN lista_programas \ {p} |-> lista_programas[q]]
        /\ escritas' = [q \in DOMAIN lista_programas \ {p} |-> escritas[q]]
    BY <1>4 DEF FinalizarPrograma, Existe, Restrict
  <2>2. EscritasEnArchivo'
    BY <1>1, <2>1 DEF InvRefina, EscritasEnArchivo, Posicion
  <2>3. Memoria' = [q \in DOMAIN Memoria \ {p} |-> Memoria[q]]
    BY <1>1, <2>1 DEF Memoria, Posicion
  <2>4. Memoria' = Almacen!Restrict(Memoria, DOMAIN Memoria \ {p})
    BY <2>3 DEF Almacen!Restrict
  <2>5. p \in DOMAIN Memoria
    BY <2>1 DEF Memoria
  <2>6. Almacen!Finalizar(p)
    BY <2>1, <2>4, <2>5 DEF Almacen!Finalizar, Almacen!Existe, Memoria
  <2> QED
    BY <1>2, <2>2, <2>6 DEF Paso, Almacen!Next
<1> QED
  BY <1>3, <1>4

(* escribir_bytes_swap with the code of a program: the pages that are      *)
(* whole in the file are the first ones.                                   *)
LEMMA PasoEscribirPaginaNueva ==
  ASSUME InvRefina, NEW p \in Programas, p \in DOMAIN lista_programas,
         NEW n \in 1..MaxPaginas, NEW v \in Escribe[p], EscribirPaginaNueva(p, n, v)
  PROVE  Paso
<1>1. /\ ~compactacion.activa /\ ~Desbordado
      /\ n <= lista_programas[p].cantidad_paginas
      /\ archivo' = [j \in Paginas |->
           IF j \in Posicion(p, 0)..Posicion(p, n - 1) THEN v ELSE archivo[j]]
      /\ escritas' = [escritas EXCEPT ![p] =
           @ \cup {i \in 0..(n - 1) : Posicion(p, i) < largo'}]
      /\ respuesta' = Exito
      /\ UNCHANGED <<paginas_bitmap, lista_programas, compactacion>>
  BY DEF EscribirPaginaNueva, Atiende
<1>2. PICK enteras \in {n - 1, n} : largo' = Mayor(largo, Posicion(p, enteras))
  BY DEF EscribirPaginaNueva
<1>3. /\ v \in Valores /\ archivo \in [Paginas -> Valores] /\ largo \in Int
      /\ escritas \in [DOMAIN lista_programas -> SUBSET (0..(MaxPaginas - 1))]
      /\ n \in Nat /\ n >= 1
  BY SupuestoSwap, BitsSuficientes DEF InvRefina, Inv, TypeOK
<1>4. \A q \in DOMAIN lista_programas :
        /\ lista_programas[q].pagina_inicial_swap \in Nat
        /\ lista_programas[q].cantidad_paginas \in Nat
        /\ lista_programas[q].pagina_inicial_swap + lista_programas[q].cantidad_paginas <= Bits
        /\ Region(lista_programas[q]) = lista_programas[q].pagina_inicial_swap ..
             (lista_programas[q].pagina_inicial_swap + lista_programas[q].cantidad_paginas - 1)
  BY <1>1, PaginasDe DEF InvRefina, Region
<1>5. \A q \in DOMAIN lista_programas : \A j \in 0..(lista_programas[q].cantidad_paginas - 1) :
        /\ Posicion(q, j) \in Int /\ Posicion(q, j) \in Paginas
        /\ Posicion(q, j) \in Region(lista_programas[q])
        /\ Posicion(q, j) = lista_programas[q].pagina_inicial_swap + j
  BY <1>4, BitsSuficientes, SMTT(30) DEF Posicion, Paginas
<1>6. /\ Posicion(p, 0)..Posicion(p, n - 1) \subseteq Region(lista_programas[p])
      /\ Posicion(p, n - 1) \in Int /\ Posicion(p, n) \in Int
      /\ \A j \in Int : Posicion(p, j) = lista_programas[p].pagina_inicial_swap + j
  BY <1>1, <1>3, <1>4, SMTT(30) DEF Posicion
<1>7. /\ largo' \in Int /\ largo <= largo' /\ Posicion(p, n - 1) <= largo'
  BY <1>2, <1>3, <1>4, <1>6, SMTT(30) DEF Mayor
<1>8. PICK hasta \in {n - 1, n} : hasta = n <=> Posicion(p, n - 1) < largo'
  BY <1>3
<1>9. \A j \in Nat : j < hasta <=> j \in 0..(n - 1) /\ Posicion(p, j) < largo'
  BY <1>3, <1>4, <1>6, <1>7, <1>8, SMTT(30)
<1>10. /\ \A q \in DOMAIN lista_programas : q # p => escritas'[q] = escritas[q]
       /\ escritas'[p] = escritas[p] \cup {i \in 0..(n - 1) : Posicion(p, i) < largo'}
       /\ \A q, j : Posicion(q, j)' = Posicion(q, j)
  BY <1>1, <1>3 DEF Posicion
<1>11. \A q \in DOMAIN lista_programas : \A j \in escritas[q] :
         j \in 0..(lista_programas[q].cantidad_paginas - 1) /\ Posicion(q, j) < largo
  <2> SUFFICES ASSUME NEW q \in DOMAIN lista_programas, NEW j \in escritas[q]
               PROVE  j \in 0..(lista_programas[q].cantidad_paginas - 1) /\ Posicion(q, j) < largo
    OBVIOUS
  <2>1. j < lista_programas[q].cantidad_paginas /\ Posicion(q, j) < largo
    BY DEF InvRefina, EscritasEnArchivo
  <2>2. j \in Nat
    BY <1>3, SupuestoSwap
  <2> QED
    BY <1>4, <2>1, <2>2
<1>12. EscritasEnArchivo'
  <2>1. ASSUME NEW q \in DOMAIN lista_programas, NEW j \in escritas'[q]
        PROVE  j < lista_programas[q].cantidad_paginas /\ Posicion(q, j) < largo'
    <3>1. CASE j \in escritas[q]
      BY <1>3, <1>4, <1>5, <1>7, <1>11, <3>1
    <3>2. CASE j \notin escritas[q]
      BY <1>1, <1>3, <1>4, <1>10, <3>2
    <3> QED
      BY <3>1, <3>2
  <2> QED
    BY <1>1, <1>10, <2>1 DEF EscritasEnArchivo
<1>13. ASSUME NEW q \in DOMAIN lista_programas, q # p,
              NEW j \in 0..(lista_programas[q].cantidad_paginas - 1)
       PROVE  archivo'[Posicion(q, j)'] = archivo[Posicion(q, j)]
  <2>1. Region(lista_programas[q]) \cap Region(lista_programas[p]) = {}
    BY <1>1, <1>13 DEF InvRefina, Inv, RegionesDisjuntas
  <2>2. Posicion(q, j) \in Paginas /\ Posicion(q, j) \notin Posicion(p, 0)..Posicion(p, n - 1)
    BY <1>5, <1>6, <2>1
  <2> QED
    BY <1>1, <1>10, <2>2
<1>14. ASSUME NEW j \in 0..(lista_programas[p].cantidad_paginas - 1)
       PROVE  (IF j \in escritas'[p] THEN archivo'[Posicion(p, j)'] ELSE Indefinida)
                = IF j < hasta THEN v
                  ELSE IF j \in escritas[p] THEN archivo[Posicion(p, j)] ELSE Indefinida
  <2>1. j \in Nat /\ Posicion(p, j) \in Paginas
    BY <1>5
  <2>2. CASE j < hasta
    <3>1. j \in escritas'[p] /\ j \in 0..(n - 1)
      BY <1>9, <1>10, <2>1, <2>2
    <3>2. Posicion(p, j) \in Posicion(p, 0)..Posicion(p, n - 1)
      <4>1. /\ Posicion(p, j) = lista_programas[p].pagina_inicial_swap + j
            /\ Posicion(p, 0) = lista_programas[p].pagina_inicial_swap
            /\ Posicion(p, n - 1) = lista_programas[p].pagina_inicial_swap + (n - 1)
        BY <1>3, <1>4, <2>1 DEF Posicion
      <4> QED
        BY <1>3, <1>4, <3>1, <4>1
    <3> QED
      BY <1>1, <1>10, <2>1, <2>2, <3>1, <3>2
  <2>3. CASE ~(j < hasta)
    <3>1. j \in escritas'[p] <=> j \in escritas[p]
      BY <1>9, <1>10, <2>1, <2>3
    <3>2. ASSUME j \in escritas[p]
          PROVE  archivo'[Posicion(p, j)'] = archivo[Posicion(p, j)]
      <4>1. Posicion(p, j) < largo'
        BY <1>3, <1>5, <1>7, <1>11, <3>2
      <4>2. j \notin 0..(n - 1)
        BY <1>9, <2>1, <2>3, <4>1
      <4>3. Posicion(p, j) \notin Posicion(p, 0)..Posicion(p, n - 1)
        BY <1>3, <1>4, <1>6, <2>1, <4>2, SMTT(30)
      <4> QED
        BY <1>1, <1>10, <2>1, <4>3
    <3> QED
      BY <2>3, <3>1, <3>2
  <2> QED
    BY <2>2, <2>3
<1>15. Memoria' = [Memoria EXCEPT ![p] = [j \in DOMAIN @ |-> IF j < hasta THEN v ELSE @[j]]]
  <2>1. ASSUME NEW q \in DOMAIN lista_programas
        PROVE  /\ Memoria[q] = [j \in 0..(lista_programas[q].cantidad_paginas - 1) |->
                    IF j \in escritas[q] THEN archivo[Posicion(q, j)] ELSE Indefinida]
               /\ Memoria'[q] = [j \in 0..(lista_programas[q].cantidad_paginas - 1) |->
                    IF j \in escritas'[q] THEN archivo'[Posicion(q, j)'] ELSE Indefinida]
    BY <1>1 DEF Memoria
  <2>2. ASSUME NEW q \in DOMAIN lista_programas, q # p
        PROVE  Memoria'[q] = Memoria[q]
    <3>1. \A j \in 0..(lista_programas[q].cantidad_paginas - 1) :
            archivo'[Posicion(q, j)'] = archivo[Posicion(q, j)]
      BY <1>13, <2>2
    <3>2. escritas'[q] = escritas[q]
      BY <1>10, <2>2
    <3>3. /\ Memoria[q] = [j \in 0..(lista_programas[q].cantidad_paginas - 1) |->
               IF j \in escritas[q] THEN archivo[Posicion(q, j)] ELSE Indefinida]
          /\ Memoria'[q] = [j \in 0..(lista_programas[q].cantidad_paginas - 1) |->
               IF j \in escritas'[q] THEN archivo'[Posicion(q, j)'] ELSE Indefinida]
      BY <2>1
    <3> QED
      BY <3>1, <3>2, <3>3
  <2>3. Memoria'[p] = [j \in DOMAIN Memoria[p] |-> IF j < hasta THEN v ELSE Memoria[p][j]]
    <3>1. /\ DOMAIN Memoria[p] = 0..(lista_programas[p].cantidad_paginas - 1)
          /\ \A j \in DOMAIN Memoria[p] :
               Memoria[p][j] = IF j \in escritas[p] THEN archivo[Posicion(p, j)] ELSE Indefinida
      BY DEF Memoria
    <3>2. Memoria'[p] = [j \in DOMAIN Memoria[p] |->
                          IF j \in escritas'[p] THEN archivo'[Posicion(p, j)'] ELSE Indefinida]
      BY <1>1, <3>1 DEF Memoria
    <3>3. \A j \in DOMAIN Memoria[p] :
            (IF j \in escritas'[p] THEN archivo'[Posicion(p, j)'] ELSE Indefinida)
              = IF j < hasta THEN v ELSE Memoria[p][j]
      BY <1>14, <3>1
    <3> QED
      BY <3>2, <3>3
  <2>4. /\ Memoria = [q \in DOMAIN lista_programas |-> Memoria[q]]
        /\ Memoria' = [q \in DOMAIN lista_programas |-> Memoria'[q]]
    BY <1>1 DEF Memoria
  <2> QED
    BY <2>2, <2>3, <2>4
<1>16. Almacen!EscribirNueva(p, hasta, v)
  BY <1>1, <1>15 DEF Almacen!EscribirNueva, Memoria
<1>17. Almacen!Next
  <2>1. p \in DOMAIN Memoria
    BY DEF Memoria
  <2>2. hasta \in 0..MaxPaginas
    BY <1>3, <1>8, SupuestoSwap
  <2> QED
    BY <1>3, <1>16, <2>1, <2>2 DEF Almacen!Next, Almacen!Existe, Memoria
<1> QED
  BY <1>1, <1>12, <1>17 DEF Paso, EspacioReservado

(* Every step of the SWAP is a step of the store, or is not seen.          *)
LEMMA PasoDelAlmacen == InvRefina /\ Inv' /\ [Next]_vars => Paso
<1> SUFFICES ASSUME InvRefina, Inv', [Next]_vars
             PROVE  Paso
  OBVIOUS
<1>1. CASE UNCHANGED vars
  <2>1. /\ respuesta' = respuesta
        /\ UNCHANGED <<paginas_bitmap, compactacion>>
        /\ UNCHANGED <<lista_programas, escritas, archivo, largo>>
    BY <1>1 DEF vars
  <2>2. EspacioReservado'
    BY <2>1 DEF InvRefina, EspacioReservado, HayEspacio
  <2> QED
    BY <2>1, <2>2, MemoriaIgual, PasoInvisible DEF Paso
<1>2. CASE Compactar
  BY <1>2, PasoCompactar
<1>3. ASSUME NEW p \in Programas, Pedido(p)
      PROVE  Paso
  <2>1. CASE \E n \in 1..MaxPaginas : Iniciar(p, n)
    BY <2>1, PasoIniciar
  <2>2. CASE IniciarExistente(p)
    <3>1. p \in DOMAIN lista_programas
      BY <2>2 DEF IniciarExistente, Existe
    <3>2. lista_programas[p].cantidad_paginas \in 1..MaxPaginas
      BY <3>1 DEF InvRefina, Inv, TypeOK, Filas
    <3> QED
      BY <2>2, <3>2, PasoIniciarExistente
  <2>3. CASE FinalizarPrograma(p)
    BY <2>3, PasoFinalizar
  <2>4. ASSUME Existe(p), NEW i \in 0..(MaxPaginas - 1), LeerPagina(p, i)
        PROVE  Paso
    BY <2>4, PasoLeerPagina DEF Existe
  <2>5. ASSUME Existe(p), NEW i \in 0..(MaxPaginas - 1), NEW v \in Escribe[p],
               EscribirPagina(p, i, v)
        PROVE  Paso
    BY <2>5, PasoEscribirPagina DEF Existe
  <2>6. ASSUME Existe(p), NEW n \in 1..MaxPaginas, NEW v \in Escribe[p],
               EscribirPaginaNueva(p, n, v)
        PROVE  Paso
    BY <2>6, PasoEscribirPaginaNueva DEF Existe
  <2> QED
    BY <1>3, <2>1, <2>2, <2>3, <2>4, <2>5, <2>6 DEF Pedido
<1> QED
  BY <1>1, <1>2, <1>3 DEF Next

(* The store begins empty, as the SWAP does.                               *)
LEMMA InicioDelAlmacen == Init => Almacen!Init /\ InvRefina
<1> SUFFICES ASSUME Init
             PROVE  Almacen!Init /\ InvRefina
  OBVIOUS
<1>1. lista_programas = << >> /\ DOMAIN lista_programas = {} /\ respuesta = Exito
      /\ ~compactacion.activa
  BY DEF Init, Parada
<1>2. Memoria = << >>
  BY <1>1 DEF Memoria
<1>3. Almacen!Init
  BY <1>1, <1>2 DEF Almacen!Init, Memoria
<1>4. InvRefina
  BY <1>1, InvInicial DEF InvRefina, EscritasEnArchivo, EspacioReservado
<1> QED
  BY <1>3, <1>4

(* What was written can be read, and the place of a request that compacts  *)
(* is kept for it.                                                         *)
THEOREM InvarianteDeLoEscrito == Spec => []InvRefina
<1>1. Init => InvRefina
  BY InicioDelAlmacen
<1>2. InvRefina /\ [Next]_vars => InvRefina'
  BY InvPaso, PasoDelAlmacen DEF InvRefina, Paso
<1> QED
  BY <1>1, <1>2, PTL DEF Spec

(* The SWAP, with its bitmap, its file and its compaction, gives each      *)
(* program what it last wrote, and rejects only what does not fit.         *)
THEOREM RefinamientoDelAlmacen == Spec => ImplementaAlmacen
<1>1. Init => Almacen!Init
  BY InicioDelAlmacen
<1>2. InvRefina /\ InvRefina' /\ [Next]_vars => [Almacen!Next]_(Almacen!vars)
  BY PasoDelAlmacen DEF InvRefina, Paso
<1> QED
  BY <1>1, <1>2, InvarianteDeLoEscrito, PTL DEF Spec, Almacen!Spec, ImplementaAlmacen
=============================================================================
