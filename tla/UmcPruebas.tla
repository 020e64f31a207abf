----------------------------- MODULE UmcPruebas -----------------------------
(***************************************************************************)
(* Proofs about the UMC, for every set of CPUs and programs, every number  *)
(* of pages, frames and entries of the TLB, and both algorithms.           *)
(***************************************************************************)
EXTENDS Umc, FiniteSetTheorems, SequenceTheorems, WellFoundedInduction, TLAPS

(* The CPUs that serve a program.  Each program is served by one, and one  *)
(* that waits does it for an access of its program, to a page it has.      *)
Atiende(c) == hilo[c].en \in {"libre", "acceder", "swap", "muerto"}
Accede(c) == hilo[c].en \in {"acceder", "swap", "muerto"}
Servicio ==
  /\ \A c \in Cpus : hilo[c].en # "cerrado" => c \in DOMAIN lista_cpus
  /\ \A c \in Cpus : Atiende(c) =>
       /\ lista_cpus[c] \in Programas
       /\ proceso[lista_cpus[c]] = (IF hilo[c].en = "muerto" THEN "perdido" ELSE "exec")
  /\ \A c, d \in Cpus : Atiende(c) /\ Atiende(d) /\ lista_cpus[c] = lista_cpus[d] => c = d
  /\ \A c \in Cpus : Accede(c) => /\ hilo[c].acceso \in Accesos[lista_cpus[c]]
                                  /\ hilo[c].acceso.pagina \in PaginasDelPid(lista_cpus[c])
  /\ \A c \in Cpus : ~Accede(c) => hilo[c].acceso = NULO
  /\ \A c \in Cpus : hilo[c].en # "acceder" => hilo[c].marco = 0

(* Where the life of a program leaves its table and its pages in the SWAP, *)
(* and what the thread of the Nucleo has in its hands.                     *)
Vivos == {"listo", "exec", "perdido", "finalizar", "matar"}
Fases ==
  /\ \A p \in Programas :
       /\ proceso[p] = "no" => p \notin DOMAIN lista_tablas /\ p \notin DOMAIN almacen
       /\ proceso[p] \in Vivos \cup {"nuevo"} => p \in DOMAIN lista_tablas
       /\ proceso[p] \in Vivos => p \in DOMAIN almacen
  /\ nucleo # NULO =>
       /\ proceso[nucleo] \in {"matando", "finalizando"}
       /\ nucleo \in DOMAIN lista_tablas /\ nucleo \in DOMAIN almacen
       /\ nucleo \notin lista_procesos_activos
       /\ buffer_programas[nucleo] =
            [tipo |-> "mensaje", id |-> IF proceso[nucleo] = "matando" THEN "matar" ELSE "finalizar"]

(* What is true while a message is on its way, or in the hands of the      *)
(* thread that receives from the SWAP.                                     *)
Vigente(m) ==
  CASE m.id = "iniciar" ->
         proceso[m.pid] = "nuevo" /\ buffer_programas[m.pid] = [tipo |-> "codigo"]
    [] m.id = "nueva" -> proceso[m.pid] = "nuevo" /\ m.pid \in DOMAIN almacen
    [] m.id \in {"leer", "escribir"} ->
         /\ m.socket \in Cpus /\ hilo[m.socket].en \in {"swap", "muerto"}
         /\ lista_cpus[m.socket] = m.pid
         /\ hilo[m.socket].acceso.op = m.id /\ hilo[m.socket].acceso.pagina = m.pagina
         /\ buffer_programas[m.pid] = [tipo |-> "acceso", acceso |-> hilo[m.socket].acceso]
    [] m.id = "finalizar" ->
         /\ proceso[m.pid] \in {"matando", "finalizando"}
         /\ nucleo # m.pid /\ m.pid \notin DOMAIN lista_tablas
         /\ buffer_programas[m.pid] =
              [tipo |-> "mensaje", id |-> IF proceso[m.pid] = "matando" THEN "matar" ELSE "finalizar"]
    [] OTHER -> TRUE

(* A message the SWAP has not served, and one it has.                      *)
PorServir(m) ==
  CASE m.id = "iniciar" -> m.pid \notin DOMAIN almacen
    [] m.id = "nueva" -> m.valor \in Contenidos
    [] m.id = "guardar" -> /\ m.pid \in DOMAIN almacen /\ m.pagina \in PaginasDelPid(m.pid)
                           /\ m.valor \in Contenidos
    [] m.id = "finalizar" -> m.pid \in DOMAIN almacen
    [] OTHER -> ~Presente(m.pid, m.pagina)
Servido(m) ==
  CASE m.id = "iniciar" -> /\ m.valor \in {Exito, Error}
                           /\ m.valor = Exito <=> m.pid \in DOMAIN almacen
    [] m.id \in {"leer", "escribir"} ->
         m.valor \in Contenidos \cup {Error} /\ ~Presente(m.pid, m.pagina)
    [] m.id = "finalizar" -> m.pid \notin DOMAIN almacen
    [] OTHER -> TRUE

Pregunta(m) == m.id # "guardar"
EnManos(p) == servidor.en # "libre" /\ servidor.mensaje.pid = p

(* A program has one question at most between the UMC and the SWAP, and    *)
(* the one that ends it is the last message about it.                      *)
UnaPregunta ==
  /\ \A j, k \in DOMAIN aSwap :
       Pregunta(aSwap[j]) /\ Pregunta(aSwap[k]) /\ aSwap[j].pid = aSwap[k].pid => j = k
  /\ \A j, k \in DOMAIN deSwap :
       Pregunta(deSwap[j]) /\ Pregunta(deSwap[k]) /\ deSwap[j].pid = deSwap[k].pid => j = k
  /\ \A j \in DOMAIN aSwap, k \in DOMAIN deSwap :
       Pregunta(aSwap[j]) /\ Pregunta(deSwap[k]) => aSwap[j].pid # deSwap[k].pid
  /\ \A j \in DOMAIN aSwap : Pregunta(aSwap[j]) => ~EnManos(aSwap[j].pid)
  /\ \A j \in DOMAIN deSwap : Pregunta(deSwap[j]) => ~EnManos(deSwap[j].pid)
  /\ \A j, k \in DOMAIN aSwap :
       aSwap[j].id = "finalizar" /\ aSwap[j].pid = aSwap[k].pid => k <= j

Preguntas ==
  /\ \A k \in DOMAIN aSwap : Vigente(aSwap[k]) /\ PorServir(aSwap[k])
  /\ \A k \in DOMAIN deSwap : Vigente(deSwap[k]) /\ Servido(deSwap[k])

(* The thread that receives from the SWAP, between two looks at the frames *)
(* and when the page is in its frame.                                      *)
Servidor ==
  /\ servidor.en = "libre" => servidor.mensaje = NULO
  /\ servidor.en # "libre" =>
       /\ servidor.mensaje \in Mensajes /\ servidor.mensaje.id \in {"leer", "escribir"}
       /\ servidor.mensaje.valor \in Contenidos
       /\ Vigente(servidor.mensaje)
       /\ Presente(servidor.mensaje.pid, servidor.mensaje.pagina) <=> servidor.en = "responder"
  /\ servidor.en = "guardar" /\ servidor.habia => libres # {}

(* The TLB has nothing of a program that is being freed, nor of a page that*)
(* a thread is about to put in it.                                         *)
TlbLista ==
  /\ \A k \in DOMAIN lista_paginas_tlb : lista_paginas_tlb[k].pid # nucleo
  /\ \A c \in Cpus : hilo[c].en = "acceder" /\ hilo[c].marco = 0 =>
       \A k \in DOMAIN lista_paginas_tlb :
         ~ /\ lista_paginas_tlb[k].pid = lista_cpus[c]
           /\ lista_paginas_tlb[k].pagina = hilo[c].acceso.pagina
  /\ servidor.en = "responder" =>
       \A k \in DOMAIN lista_paginas_tlb :
         ~ /\ lista_paginas_tlb[k].pid = servidor.mensaje.pid
           /\ lista_paginas_tlb[k].pagina = servidor.mensaje.pagina

(* MarcosRepartidos, page by page.  A page in memory has a frame that is   *)
(* not free, and no other page has it; a frame that is not free has a page.*)
Reparto ==
  /\ \A p, q \in Programas : \A i, j \in 0..MaxPaginas :
       Presente(p, i) /\ Presente(q, j) /\ lista_tablas[p][i].frame = lista_tablas[q][j].frame
         => p = q /\ i = j
  /\ \A p \in Programas : \A i \in 0..MaxPaginas :
       Presente(p, i) => lista_tablas[p][i].frame \in Marcos \ libres
  /\ \A f \in Marcos \ libres : \E p \in Programas : \E i \in 0..MaxPaginas :
       Presente(p, i) /\ lista_tablas[p][i].frame = f

(* The list of the replacement of a program.                               *)
Lista(p) ==
  LET paginas == listas_algoritmo[p].paginas IN
    /\ \A k \in 1..Len(paginas) : Presente(p, paginas[k])
    /\ \A i \in PaginasDelPid(p) : Presente(p, i) => \E k \in 1..Len(paginas) : paginas[k] = i
    /\ \A j, k \in 1..Len(paginas) : paginas[j] = paginas[k] => j = k
    /\ Len(paginas) <= MARCO_X_PROC
    /\ listas_algoritmo[p].puntero <= (IF Len(paginas) = 0 THEN 0 ELSE Len(paginas) - 1)
Listas == \A p \in DOMAIN lista_tablas : Lista(p)

(* Only all together are they kept by every step.                          *)
Inv ==
  /\ TypeOK
  /\ Servicio /\ Fases /\ UnaPregunta /\ Preguntas /\ Servidor
  /\ Reparto /\ Listas
  /\ TlbDeLaTabla /\ TlbLista

-----------------------------------------------------------------------------
(* A set of naturals that is not empty has a first one: the intervals that *)
(* begin at 0 are well founded by inclusion.                               *)
LEMMA Minimo ==
  ASSUME NEW S \in SUBSET Nat, S # {}
  PROVE  Min(S) \in S /\ \A x \in S : Min(S) <= x
<1>1. PICK n \in S : TRUE
  OBVIOUS
<1> DEFINE T == {0..i : i \in {j \in S : j <= n}}
<1>2. IsWellFoundedOn(StrictSubsetOrdering(0..n), SUBSET (0..n))
  <2>1. IsFiniteSet(0..n)
    BY FS_Interval
  <2> QED
    BY <2>1, FS_StrictSubsetOrderingWellFounded, FS_FiniteSubsetsOfFinite
<1>3. T \subseteq SUBSET (0..n) /\ T # {}
  OBVIOUS
<1> HIDE DEF T
<1>4. PICK x \in T : \A y \in T : <<y, x>> \notin StrictSubsetOrdering(0..n)
  BY <1>2, <1>3, WFMin
<1>5. PICK i \in S : i <= n /\ x = 0..i
  BY DEF T
<1>6. \A j \in S : ~(j < i)
  <2> SUFFICES ASSUME NEW j \in S, j < i
               PROVE  FALSE
    OBVIOUS
  <2>1. 0..j \in T /\ 0..j \subseteq 0..n /\ 0..i \subseteq 0..n
    BY <1>5 DEF T
  <2>2. 0..j \subseteq 0..i /\ i \in 0..i /\ i \notin 0..j
    OBVIOUS
  <2> QED
    BY <2>1, <2>2, <1>4, <1>5 DEF StrictSubsetOrdering
<1>7. \E y \in S : \A z \in S : y =< z
  BY <1>6
<1> QED
  BY <1>7 DEF Min

(* The remainder, once around.                                             *)
LEMMA Vuelta ==
  ASSUME NEW n \in Nat, n > 0, NEW x \in Nat, x < 2 * n
  PROVE  x % n = IF x < n THEN x ELSE x - n
<1> DEFINE q == x \div n
           r == x % n
<1>1. q \in Int /\ r \in 0..(n - 1) /\ x = q * n + r
  OBVIOUS
<1> HIDE DEF q, r
<1>2. CASE q <= -1
  <2>1. q * n <= -n
    BY <1>1, <1>2
  <2> QED
    BY <2>1, <1>1
<1>3. CASE q = 0
  BY <1>1, <1>3 DEF r
<1>4. CASE q = 1
  BY <1>1, <1>4 DEF r
<1>5. CASE q >= 2
  <2>1. q * n >= 2 * n
    BY <1>1, <1>5
  <2> QED
    BY <2>1, <1>1
<1> QED
  BY <1>1, <1>2, <1>3, <1>4, <1>5

(* The elements of a sequence without repetitions are as many as its       *)
(* positions.                                                              *)
LEMMA CuantasPaginas ==
  ASSUME TypeOK, NEW p \in DOMAIN lista_tablas, Lista(p)
  PROVE  CantPagXProc(p) = Len(listas_algoritmo[p].paginas)
<1> DEFINE paginas == listas_algoritmo[p].paginas
           S == {i \in DOMAIN lista_tablas[p] : lista_tablas[p][i].presencia}
<1>1. paginas \in Seq(PaginasDelPid(p)) /\ DOMAIN lista_tablas[p] = PaginasDelPid(p)
  BY DEF TypeOK
<1>2. Len(paginas) \in Nat /\ paginas \in [1..Len(paginas) -> PaginasDelPid(p)]
  BY <1>1
<1>3. paginas \in Bijection(1..Len(paginas), S)
  BY <1>1, <1>2 DEF Lista, Presente, Bijection, Injection, Surjection, IsInjective
<1>4. ExistsBijection(1..Len(paginas), S)
  BY <1>3 DEF ExistsBijection
<1> QED
  BY <1>2, <1>4, FS_CountingElements DEF CantPagXProc

(* From any place, n steps reach every place once around.                  *)
LEMMA UnaVuelta ==
  ASSUME NEW n \in Nat, n > 0, NEW u \in 0..(n - 1)
  PROVE  /\ \A d \in 0..(n - 1) : (u + d) % n \in 0..(n - 1)
         /\ \A k \in 1..n : \E d \in 0..(n - 1) : (u + d) % n = k - 1
<1>1. ASSUME NEW d \in 0..(n - 1)
      PROVE  (u + d) % n = IF u + d < n THEN u + d ELSE u + d - n
  <2> DEFINE x == u + d
  <2>1. x \in Nat /\ x < 2 * n /\ n > 0
    OBVIOUS
  <2> HIDE DEF x
  <2>2. x % n = IF x < n THEN x ELSE x - n
    BY <2>1, Vuelta
  <2> QED
    BY <2>2 DEF x
<1>2. ASSUME NEW d \in 0..(n - 1)
      PROVE  (u + d) % n \in 0..(n - 1)
  <2>1. CASE u + d < n
    BY <1>1, <2>1
  <2>2. CASE ~(u + d < n)
    BY <1>1, <2>2
  <2> QED
    BY <2>1, <2>2
<1>3. ASSUME NEW k \in 1..n
      PROVE  \E d \in 0..(n - 1) : (u + d) % n = k - 1
  <2>1. CASE k - 1 >= u
    <3> DEFINE d == k - 1 - u
    <3>1. d \in 0..(n - 1) /\ u + d = k - 1 /\ u + d < n
      BY <2>1
    <3> QED
      BY <3>1, <1>1
  <2>2. CASE k - 1 < u
    <3> DEFINE d == k - 1 - u + n
    <3>1. d \in 0..(n - 1) /\ u + d - n = k - 1 /\ ~(u + d < n)
      BY <2>2
    <3> QED
      BY <3>1, <1>1
  <2> QED
    BY <2>1, <2>2
<1> QED
  BY <1>2, <1>3

-----------------------------------------------------------------------------
(* reemplazar_pagina.  The pages the puntero reaches are those of the list.*)
LEMMA AlcanzaLasPaginas ==
  ASSUME NEW lista, NEW n \in Nat, n > 0, n = Len(lista.paginas),
         lista.puntero \in 0..(n - 1)
  PROVE  /\ \A d \in 0..(n - 1) :
              /\ (lista.puntero + d) % n \in 0..(n - 1)
              /\ Alcanza(lista, d) = lista.paginas[((lista.puntero + d) % n) + 1]
         /\ \A k \in 1..n : \E d \in 0..(n - 1) : Alcanza(lista, d) = lista.paginas[k]
<1>1. \A d : Alcanza(lista, d) = lista.paginas[((lista.puntero + d) % n) + 1]
  BY DEF Alcanza
<1>2. \A d \in 0..(n - 1) : (lista.puntero + d) % n \in 0..(n - 1)
  BY UnaVuelta
<1>3. ASSUME NEW k \in 1..n
      PROVE  \E d \in 0..(n - 1) : Alcanza(lista, d) = lista.paginas[k]
  <2>1. PICK d \in 0..(n - 1) : (lista.puntero + d) % n = k - 1
    BY UnaVuelta
  <2>2. ((lista.puntero + d) % n) + 1 = k
    BY <2>1
  <2> QED
    BY <1>1, <2>2
<1> QED
  BY <1>1, <1>2, <1>3

(* Both algorithms stop at a page of the list, of the first class there is.*)
LEMMA GiroPrimeraClase ==
  ASSUME NEW tabla, NEW lista, NEW n \in Nat, n > 0, n = Len(lista.paginas),
         \A d \in 0..(n - 1) : tabla[Alcanza(lista, d)] \in Filas
  PROVE  LET giro == Giro(tabla, lista) IN
           /\ giro.pasos \in 0..(n - 1)
           /\ \A d \in 0..(n - 1) :
                Clase(tabla[Alcanza(lista, giro.pasos)]) <= Clase(tabla[Alcanza(lista, d)])
<1> DEFINE pasos == 0..(n - 1)
           uso(d) == tabla[Alcanza(lista, d)].uso
           modificado(d) == tabla[Alcanza(lista, d)].modificado
           limpias == {d \in pasos : ~modificado(d)}
           sinUso == {d \in pasos : ~uso(d)}
           ambas == sinUso \cap limpias
<1>1. Pasos(lista) = pasos
  BY DEF Pasos
<1>2. \A d \in pasos : uso(d) \in BOOLEAN /\ modificado(d) \in BOOLEAN
  BY DEF Filas
<1>3. \A S \in SUBSET pasos : S # {} => Min(S) \in S
  <2> TAKE S \in SUBSET pasos
  <2>1. S \in SUBSET Nat
    OBVIOUS
  <2> QED
    BY <2>1, Minimo
<1>4. \A d \in pasos :
        Clase(tabla[Alcanza(lista, d)]) =
          IF ALGORITMO = "CLOCK" THEN (IF uso(d) THEN 1 ELSE 0)
          ELSE (IF uso(d) THEN 2 ELSE 0) + (IF modificado(d) THEN 1 ELSE 0)
  BY DEF Clase
<1>5. Giro(tabla, lista).pasos =
        IF ALGORITMO = "CLOCK" THEN (IF sinUso # {} THEN Min(sinUso) ELSE 0)
        ELSE IF ambas # {} THEN Min(ambas)
        ELSE IF sinUso # {} THEN Min(sinUso)
        ELSE IF limpias # {} THEN Min(limpias)
        ELSE 0
  BY <1>1 DEF Giro, GiroClock, GiroClockM, Detenido
<1>6. /\ sinUso # {} => Min(sinUso) \in sinUso
      /\ ambas # {} => Min(ambas) \in ambas
      /\ limpias # {} => Min(limpias) \in limpias
  BY <1>3
<1> DEFINE g == Giro(tabla, lista).pasos
<1> HIDE DEF g
<1>7. CASE ALGORITMO = "CLOCK"
  <2>1. /\ g = IF sinUso # {} THEN Min(sinUso) ELSE 0
        /\ 0 \in pasos
    BY <1>5, <1>7 DEF g
  <2> HIDE DEF uso, modificado
  <2>2. g \in pasos /\ (sinUso # {} => g \in sinUso)
    BY <2>1, <1>6
  <2> QED
    BY <2>2, <1>2, <1>4, <1>7, SMTT(60) DEF g
<1>8. CASE ALGORITMO # "CLOCK"
  <2>1. /\ g = IF ambas # {} THEN Min(ambas) ELSE IF sinUso # {} THEN Min(sinUso)
               ELSE IF limpias # {} THEN Min(limpias) ELSE 0
        /\ 0 \in pasos
    BY <1>5, <1>8 DEF g
  <2> HIDE DEF uso, modificado
  <2>2. /\ g \in pasos
        /\ \/ g \in ambas
           \/ ambas = {} /\ g \in sinUso
           \/ sinUso = {} /\ g \in limpias
           \/ sinUso = {} /\ limpias = {}
    BY <2>1, <1>6
  <2>3. \A d \in pasos :
          (IF uso(g) THEN 2 ELSE 0) + (IF modificado(g) THEN 1 ELSE 0)
            <= (IF uso(d) THEN 2 ELSE 0) + (IF modificado(d) THEN 1 ELSE 0)
    BY <2>2, <1>2, SMTT(30)
  <2> QED
    BY <2>2, <2>3, <1>4, <1>8 DEF g
<1> QED
  BY <1>7, <1>8

(* The page that leaves is in memory and in the list, where the puntero    *)
(* goes past it, and no page in memory is of a class before its own.       *)
LEMMA LaVictima ==
  ASSUME TypeOK, NEW p \in DOMAIN lista_tablas, Lista(p),
         NEW n \in Nat, n = Len(listas_algoritmo[p].paginas), n > 0
  PROVE  LET lista == listas_algoritmo[p]
             k == (lista.puntero + Giro(lista_tablas[p], lista).pasos) % n
         IN /\ k \in 0..(n - 1)
            /\ Victima(p) = lista.paginas[k + 1]
            /\ Victima(p) \in PaginasDelPid(p)
            /\ Presente(p, Victima(p))
            /\ \A i \in PaginasDelPid(p) : Presente(p, i) =>
                 Clase(lista_tablas[p][Victima(p)]) <= Clase(lista_tablas[p][i])
<1> DEFINE lista == listas_algoritmo[p]
           pasos == Giro(lista_tablas[p], lista).pasos
           lugar == [d \in 0..(n - 1) |-> (lista.puntero + d) % n]
<1>1. /\ lista.paginas \in Seq(PaginasDelPid(p)) /\ lista.puntero \in Nat
      /\ lista_tablas[p] \in [PaginasDelPid(p) -> Filas]
  BY DEF TypeOK
<1>2. lista.paginas \in [1..n -> PaginasDelPid(p)]
  BY <1>1
<1>3. lista.puntero \in 0..(n - 1)
  BY <1>1 DEF Lista
<1>4. /\ \A k1 \in 1..n : Presente(p, lista.paginas[k1])
      /\ \A i \in PaginasDelPid(p) : Presente(p, i) => \E k1 \in 1..n : lista.paginas[k1] = i
  BY DEF Lista
<1> HIDE DEF lista
<1>5. /\ \A d \in 0..(n - 1) : (lista.puntero + d) % n \in 0..(n - 1)
      /\ \A d \in 0..(n - 1) :
           Alcanza(lista, d) = lista.paginas[((lista.puntero + d) % n) + 1]
      /\ \A k1 \in 1..n : \E d \in 0..(n - 1) : Alcanza(lista, d) = lista.paginas[k1]
  <2>1. n = Len(lista.paginas)
    BY DEF lista
  <2> QED
    BY <2>1, <1>3, AlcanzaLasPaginas
<1>6. lugar \in [0..(n - 1) -> 0..(n - 1)]
  BY <1>5
<1>7. \A d \in 0..(n - 1) : Alcanza(lista, d) = lista.paginas[lugar[d] + 1]
  BY <1>5
<1> HIDE DEF lugar
<1>8. \A d \in 0..(n - 1) : Alcanza(lista, d) \in PaginasDelPid(p)
  <2> TAKE d \in 0..(n - 1)
  <2>1. lugar[d] + 1 \in 1..n
    BY <1>6
  <2> QED
    BY <2>1, <1>2, <1>7
<1>9. /\ pasos \in 0..(n - 1)
      /\ \A d \in 0..(n - 1) : Clase(lista_tablas[p][Alcanza(lista, pasos)])
                                 <= Clase(lista_tablas[p][Alcanza(lista, d)])
  <2>1. \A d \in 0..(n - 1) : lista_tablas[p][Alcanza(lista, d)] \in Filas
    BY <1>1, <1>8
  <2>2. n = Len(lista.paginas)
    BY DEF lista
  <2> QED
    BY <2>1, <2>2, GiroPrimeraClase
<1>10. Victima(p) = Alcanza(lista, pasos)
  BY DEF Victima, lista
<1> HIDE DEF pasos
<1>11. /\ lugar[pasos] \in 0..(n - 1) /\ lugar[pasos] + 1 \in 1..n
      /\ Victima(p) = lista.paginas[lugar[pasos] + 1]
  <2>1. pasos \in 0..(n - 1)
    BY <1>9
  <2>2. lugar[pasos] \in 0..(n - 1)
    BY <1>6, <2>1
  <2>3. lugar[pasos] + 1 \in 1..n
    BY <2>2
  <2>4. Alcanza(lista, pasos) = lista.paginas[lugar[pasos] + 1]
    BY <1>7, <2>1
  <2> QED
    BY <1>10, <2>2, <2>3, <2>4
<1>12. Presente(p, Victima(p)) /\ Victima(p) \in PaginasDelPid(p)
  BY <1>4, <1>8, <1>9, <1>10, <1>11
<1>13. ASSUME NEW i \in PaginasDelPid(p), Presente(p, i)
       PROVE  Clase(lista_tablas[p][Victima(p)]) <= Clase(lista_tablas[p][i])
  <2>1. PICK k \in 1..n : lista.paginas[k] = i
    BY <1>4, <1>13
  <2>2. PICK d \in 0..(n - 1) : Alcanza(lista, d) = lista.paginas[k]
    BY <1>5
  <2> QED
    BY <2>1, <2>2, <1>9, <1>10
<1> QED
  BY <1>9, <1>11, <1>12, <1>13 DEF lista, pasos, lugar

-----------------------------------------------------------------------------
(* The TLB.  What is taken from it leaves part of it: entries that were    *)
(* there, each once.                                                       *)
Entradas == [pid : Programas, pagina : Nat, frame : Marcos]
Parte(t, s) ==
  /\ t \in Seq(Entradas) /\ Len(t) <= Len(s)
  /\ \E h \in [1..Len(t) -> 1..Len(s)] :
       /\ \A j, k \in 1..Len(t) : h[j] = h[k] => j = k
       /\ \A k \in 1..Len(t) : t[k] = s[h[k]]

(* The whole of it, and nothing of it, are parts.                          *)
LEMMA ParteEntera ==
  ASSUME NEW s \in Seq(Entradas)
  PROVE  Parte(s, s) /\ Parte(<< >>, s)
<1>1. Parte(s, s)
  <2> DEFINE h == [k \in 1..Len(s) |-> k]
  <2>1. h \in [1..Len(s) -> 1..Len(s)] /\ \A k \in 1..Len(s) : h[k] = k
    OBVIOUS
  <2> HIDE DEF h
  <2> QED
    BY <2>1 DEF Parte
<1>2. Parte(<< >>, s)
  <2> DEFINE h == [k \in 1..0 |-> k]
  <2>1. Len(<< >>) = 0 /\ << >> \in Seq(Entradas) /\ Len(s) \in Nat /\ 1..0 = {}
    OBVIOUS
  <2>2. h \in [1..Len(<< >>) -> 1..Len(s)]
    BY <2>1
  <2>3. 1..Len(<< >>) = {}
    BY <2>1
  <2>4. /\ \A j, k \in 1..Len(<< >>) : h[j] = h[k] => j = k
        /\ \A k \in 1..Len(<< >>) : << >>[k] = s[h[k]]
    BY <2>3
  <2>5. Len(<< >>) <= Len(s)
    BY <2>1
  <2> HIDE DEF h
  <2> QED
    BY <2>1, <2>2, <2>4, <2>5, Zenon DEF Parte
<1> QED
  BY <1>1, <1>2

(* RemoveAt: an entry less, and the others in their order.                 *)
LEMMA SinUna ==
  ASSUME NEW s \in Seq(Entradas), NEW k \in 1..Len(s)
  PROVE  /\ RemoveAt(s, k) \in Seq(Entradas)
         /\ Len(RemoveAt(s, k)) = Len(s) - 1
         /\ \A m \in 1..(Len(s) - 1) : RemoveAt(s, k)[m] = s[IF m < k THEN m ELSE m + 1]
         /\ Parte(RemoveAt(s, k), s)
<1> DEFINE t == RemoveAt(s, k)
           antes == SubSeq(s, 1, k - 1)
           despues == SubSeq(s, k + 1, Len(s))
<1>1. /\ antes \in Seq(Entradas) /\ Len(antes) = k - 1
      /\ \A m \in 1..(k - 1) : antes[m] = s[m]
  BY SubSeqProperties
<1>2. /\ despues \in Seq(Entradas) /\ Len(despues) = Len(s) - k
      /\ \A m \in 1..(Len(s) - k) : despues[m] = s[m + k]
  BY SubSeqProperties
<1> HIDE DEF antes, despues
<1>3. /\ t \in Seq(Entradas) /\ Len(t) = Len(s) - 1
      /\ \A m \in 1..(Len(s) - 1) : t[m] = s[IF m < k THEN m ELSE m + 1]
  <2>1. t = antes \o despues
    BY DEF RemoveAt, antes, despues
  <2>2. /\ t \in Seq(Entradas) /\ Len(t) = Len(antes) + Len(despues)
        /\ \A m \in 1..(Len(antes) + Len(despues)) :
             t[m] = IF m <= Len(antes) THEN antes[m] ELSE despues[m - Len(antes)]
    <3>1. antes \in Seq(Entradas) /\ despues \in Seq(Entradas)
      BY <1>1, <1>2
    <3> QED
      BY <3>1, <2>1, ConcatProperties, ZenonT(30)
  <2>3. Len(s) \in Nat /\ Len(antes) + Len(despues) = Len(s) - 1
    BY <1>1, <1>2
  <2>4. ASSUME NEW m \in 1..(Len(s) - 1)
        PROVE  t[m] = s[IF m < k THEN m ELSE m + 1]
    <3>1. CASE m < k
      BY <1>1, <2>2, <2>3, <3>1
    <3>2. CASE ~(m < k)
      <4>1. m - (k - 1) \in 1..(Len(s) - k) /\ m - (k - 1) + k = m + 1
        BY <3>2
      <4>2. despues[m - (k - 1)] = s[m + 1]
        BY <4>1, <1>2
      <4>3. t[m] = despues[m - (k - 1)]
        BY <1>1, <2>2, <2>3, <3>2, SMTT(30)
      <4> QED
        BY <3>2, <4>2, <4>3
    <3> QED
      BY <3>1, <3>2
  <2> QED
    BY <2>2, <2>3, <2>4
<1> HIDE DEF t
<1>4. Parte(t, s)
  <2> DEFINE h == [m \in 1..Len(t) |-> IF m < k THEN m ELSE m + 1]
  <2>1. h \in [1..Len(t) -> 1..Len(s)]
    BY <1>3
  <2>2. \A j, m \in 1..Len(t) : h[j] = h[m] => j = m
    BY <1>3
  <2>3. \A m \in 1..Len(t) : t[m] = s[h[m]]
    BY <1>3
  <2> HIDE DEF h
  <2>4. t \in Seq(Entradas) /\ Len(t) <= Len(s)
    BY <1>3
  <2> QED
    BY <2>1, <2>2, <2>3, <2>4 DEF Parte
<1> QED
  BY <1>3, <1>4 DEF t

(* quitar_pagina_TLB: no entry of the frame is left, when there was one.   *)
LEMMA SinMarco ==
  ASSUME NEW f, lista_paginas_tlb \in Seq(Entradas),
         \A j, k \in DOMAIN lista_paginas_tlb :
           lista_paginas_tlb[j].frame = lista_paginas_tlb[k].frame => j = k
  PROVE  /\ Parte(TlbSinMarco(f), lista_paginas_tlb)
         /\ \A m \in 1..Len(TlbSinMarco(f)) : TlbSinMarco(f)[m].frame # f
<1> DEFINE s == lista_paginas_tlb
           I == {i \in 1..Len(s) : s[i].frame = f}
           n == Len(s)
<1>1. n \in Nat /\ DOMAIN s = 1..n /\ I \in SUBSET Nat
  BY LenProperties
<1>2. CASE I = {}
  <2>1. TlbSinMarco(f) = s /\ \A i \in 1..n : s[i].frame # f
    BY <1>2 DEF TlbSinMarco, RemoveFirstMatch
  <2> QED
    BY <2>1, ParteEntera
<1>3. CASE I # {}
  <2> DEFINE k == Min(I)
             t == RemoveAt(s, k)
  <2>1. k \in I
    BY <1>1, <1>3, Minimo
  <2>2. TlbSinMarco(f) = t
    BY <1>3 DEF TlbSinMarco, RemoveFirstMatch, SelectInSeq
  <2> HIDE DEF k
  <2>3. k \in 1..n /\ s[k].frame = f
    BY <2>1
  <2>4. /\ Len(t) = n - 1 /\ Parte(t, s)
        /\ \A m \in 1..(n - 1) : t[m] = s[IF m < k THEN m ELSE m + 1]
    BY <2>3, SinUna
  <2> HIDE DEF t
  <2>5. ASSUME NEW m \in 1..(n - 1)
        PROVE  t[m].frame # f
    <3> DEFINE j == IF m < k THEN m ELSE m + 1
    <3>1. j \in 1..n /\ j # k
      BY <1>1, <2>3
    <3>2. t[m] = s[j]
      BY <2>4
    <3> QED
      BY <1>1, <2>3, <3>1, <3>2
  <2> QED
    BY <2>2, <2>4, <2>5
<1> QED
  BY <1>2, <1>3

(* buscar_pagina_tlb: the same entries in another order, and the frame of  *)
(* the page when it is there.                                              *)
LEMMA TrasBuscar ==
  ASSUME NEW p, NEW i, lista_paginas_tlb \in Seq(Entradas),
         Len(lista_paginas_tlb) <= ENTRADAS_TLB
  PROVE  /\ Parte(TlbBuscada(p, i), lista_paginas_tlb)
         /\ MarcoTlb(p, i) \in 0..MARCOS
         /\ MarcoTlb(p, i) # 0 =>
              \E k \in 1..Len(lista_paginas_tlb) :
                /\ lista_paginas_tlb[k].pid = p /\ lista_paginas_tlb[k].pagina = i
                /\ lista_paginas_tlb[k].frame = MarcoTlb(p, i)
         /\ MarcoTlb(p, i) = 0 =>
              /\ TlbBuscada(p, i) = lista_paginas_tlb
              /\ \A k \in 1..Len(lista_paginas_tlb) :
                   ~(lista_paginas_tlb[k].pid = p /\ lista_paginas_tlb[k].pagina = i)
<1> DEFINE s == lista_paginas_tlb
           n == Len(s)
           I == {k \in 1..n : s[k].pid = p /\ s[k].pagina = i}
<1>1. n \in Nat /\ n <= ENTRADAS_TLB /\ I \in SUBSET Nat
  BY LenProperties
<1>2. EntradaTlb(p, i) = IF I # {} THEN Min(I) ELSE 0
  BY DEF EntradaTlb, SelectInSeq
<1>3. ENTRADAS_TLB \in Nat /\ MARCOS \in Nat /\ Marcos = 1..MARCOS
  BY SupuestoUmc DEF Marcos
<1>4. CASE I = {}
  <2>1. EntradaTlb(p, i) = 0
    BY <1>2, <1>4
  <2>2. MarcoTlb(p, i) = 0 /\ TlbBuscada(p, i) = s
    BY <2>1 DEF MarcoTlb, TlbBuscada
  <2> QED
    BY <1>3, <1>4, <2>2, ParteEntera
<1>5. CASE I # {}
  <2> DEFINE k == EntradaTlb(p, i)
             r == RemoveAt(s, k)
             t == Append(r, s[k])
  <2>1. k \in I
    BY <1>1, <1>2, <1>5, Minimo
  <2>2. k \in 1..n /\ s[k].pid = p /\ s[k].pagina = i /\ k # 0 /\ n > 0
    BY <2>1
  <2>3. s[k] \in Entradas
    BY <2>2, ElementOfSeq
  <2>4. s[k].frame \in 1..MARCOS
    BY <2>3, <1>3 DEF Entradas
  <2>5. ConTlb
    BY <1>1, <1>3, <2>2 DEF ConTlb
  <2>6. MarcoTlb(p, i) = s[k].frame /\ TlbBuscada(p, i) = t
    BY <2>2, <2>5 DEF MarcoTlb, TlbBuscada
  <2> HIDE DEF k
  <2>7. /\ r \in Seq(Entradas) /\ Len(r) = n - 1
        /\ \A m \in 1..(n - 1) : r[m] = s[IF m < k THEN m ELSE m + 1]
    BY <2>2, SinUna
  <2> HIDE DEF r
  <2>8. /\ t \in Seq(Entradas) /\ Len(t) = n /\ t[n] = s[k]
        /\ \A m \in 1..(n - 1) : t[m] = r[m]
    BY <1>1, <2>3, <2>7, AppendProperties
  <2> HIDE DEF t
  <2>9. Parte(t, s)
    <3> DEFINE h == [m \in 1..Len(t) |->
                       IF m = n THEN k ELSE IF m < k THEN m ELSE m + 1]
    <3>1. h \in [1..Len(t) -> 1..Len(s)]
      BY <1>1, <2>2, <2>8
    <3>2. \A j, m \in 1..Len(t) : h[j] = h[m] => j = m
      BY <1>1, <2>2, <2>8
    <3>3. \A m \in 1..Len(t) : t[m] = s[h[m]]
      BY <1>1, <2>2, <2>7, <2>8
    <3>4. Len(t) <= Len(s)
      BY <1>1, <2>8
    <3> HIDE DEF h
    <3> QED
      BY <2>8, <3>1, <3>2, <3>3, <3>4, Zenon DEF Parte
  <2>10. s[k].frame # 0 /\ s[k].frame \in 0..MARCOS
    BY <1>3, <2>4
  <2> QED
    BY <2>2, <2>6, <2>9, <2>10
<1> QED
  BY <1>4, <1>5

(* flush_programa_tlb: no entry of the program is left.  The number of the *)
(* entries before one that stays is its new place, and every place is      *)
(* taken.                                                                  *)
LEMMA SinPrograma ==
  ASSUME NEW p, lista_paginas_tlb \in Seq(Entradas)
  PROVE  /\ Parte(TlbSinPrograma(p), lista_paginas_tlb)
         /\ \A m \in 1..Len(TlbSinPrograma(p)) : TlbSinPrograma(p)[m].pid # p
<1> DEFINE s == lista_paginas_tlb
           n == Len(s)
           quedan == {k \in DOMAIN s : s[k].pid # p}
           antes == [k \in quedan |-> Cardinality({j \in quedan : j < k})]
           c == Cardinality(quedan)
           lugar == [m \in 1..c |-> CHOOSE k \in quedan : antes[k] = m - 1]
           t == TlbSinPrograma(p)
<1>1. n \in Nat /\ DOMAIN s = 1..n /\ \A k \in 1..n : s[k] \in Entradas
  BY LenProperties, ElementOfSeq
<1>2. IsFiniteSet(quedan) /\ c \in Nat /\ c <= n
  <2>1. /\ IsFiniteSet(1..n)
        /\ Cardinality(1..n) = IF 1 > n THEN 0 ELSE n - 1 + 1
    <3>1. 1 \in Int /\ n \in Int
      BY <1>1
    <3> QED
      BY <3>1, FS_Interval, Zenon
  <2>2. quedan \in SUBSET (1..n) /\ Cardinality(1..n) = n
    BY <1>1, <2>1
  <2> HIDE DEF quedan
  <2> QED
    BY <2>1, <2>2, FS_Subset, FS_CardinalityType
<1>3. \A k \in quedan : k \in 1..n
  BY <1>1
<1>4. t = [m \in 1..c |-> s[lugar[m]]]
  <2> DEFINE elegido(m) == CHOOSE k \in quedan : Cardinality({j \in quedan : j < k}) = m - 1
  <2>1. \A m \in 1..c : lugar[m] = elegido(m)
    OBVIOUS
  <2>2. t = [m \in 1..c |-> s[elegido(m)]]
    BY DEF TlbSinPrograma
  <2> HIDE DEF lugar, quedan, t, elegido
  <2> QED
    BY <2>1, <2>2
<1>5. \A k \in quedan : s[k].pid # p
  OBVIOUS
<1> HIDE DEF quedan
<1>6. ASSUME NEW k \in quedan
      PROVE  /\ antes[k] \in 0..(c - 1)
             /\ IsFiniteSet({j \in quedan : j < k})
  <2> DEFINE A == {j \in quedan : j < k}
  <2>1. A \in SUBSET (quedan \ {k})
    BY <1>1, <1>3
  <2>2. IsFiniteSet(quedan \ {k}) /\ Cardinality(quedan \ {k}) = c - 1
    BY <1>2, FS_RemoveElement
  <2> HIDE DEF A
  <2>3. IsFiniteSet(A) /\ Cardinality(A) <= c - 1 /\ Cardinality(A) \in Nat
    BY <2>1, <2>2, FS_Subset, FS_CardinalityType
  <2>4. antes[k] = Cardinality(A)
    BY DEF A
  <2> QED
    BY <1>2, <2>3, <2>4 DEF A
<1>7. ASSUME NEW j \in quedan, NEW k \in quedan, j < k
      PROVE  antes[j] < antes[k]
  <2> DEFINE A == {i \in quedan : i < j}
             B == {i \in quedan : i < k}
  <2>1. A \cup {j} \in SUBSET B
    BY <1>1, <1>3, <1>7
  <2>2. j \notin A
    BY <1>1, <1>3
  <2>3. IsFiniteSet(A) /\ IsFiniteSet(B)
    BY <1>6
  <2>4. antes[j] = Cardinality(A) /\ antes[k] = Cardinality(B)
    OBVIOUS
  <2> HIDE DEF A, B
  <2>5. /\ Cardinality(A \cup {j}) = Cardinality(A) + 1
        /\ Cardinality(A \cup {j}) <= Cardinality(B)
        /\ Cardinality(A) \in Nat /\ Cardinality(B) \in Nat
    BY <2>1, <2>2, <2>3, FS_AddElement, FS_Subset, FS_CardinalityType
  <2> QED
    BY <2>4, <2>5
<1>8. \A m \in 1..c : \E k \in quedan : antes[k] = m - 1
  <2>1. antes \in [quedan -> 0..(c - 1)]
    BY <1>6
  <2>2. \A j, k \in quedan : antes[j] = antes[k] => j = k
    <3> SUFFICES ASSUME NEW j \in quedan, NEW k \in quedan, antes[j] = antes[k], j # k
                 PROVE  FALSE
      OBVIOUS
    <3>1. j < k \/ k < j
      BY <1>1, <1>3
    <3>2. antes[j] \in Int
      BY <1>2, <2>1
    <3> HIDE DEF antes
    <3> QED
      BY <1>7, <3>1, <3>2
  <2>3. IsFiniteSet(0..(c - 1)) /\ Cardinality(0..(c - 1)) = c
    <3>1. 0 \in Int /\ c - 1 \in Int
      BY <1>2
    <3>2. /\ IsFiniteSet(0..(c - 1))
          /\ Cardinality(0..(c - 1)) = IF 0 > c - 1 THEN 0 ELSE c - 1 - 0 + 1
      BY <3>1, FS_Interval, Zenon
    <3> QED
      BY <1>2, <3>2
  <2> HIDE DEF antes, c
  <2>4. antes \in Injection(quedan, 0..(c - 1))
    BY <2>1, <2>2 DEF Injection, IsInjective
  <2>5. antes \in Surjection(quedan, 0..(c - 1))
    BY <2>3, <2>4, FS_Injection DEF c
  <2> QED
    BY <1>2, <2>5 DEF Surjection
<1> HIDE DEF antes
<1>9. \A m \in 1..c : lugar[m] \in quedan /\ antes[lugar[m]] = m - 1
  BY <1>8
<1> HIDE DEF lugar, c, t
<1>10. /\ t \in Seq(Entradas) /\ Len(t) = c
       /\ \A m \in 1..c : t[m] = s[lugar[m]]
  <2>1. t \in [1..c -> Entradas]
    BY <1>1, <1>3, <1>4, <1>9
  <2> QED
    BY <1>2, <1>4, <2>1
<1>11. lugar \in [1..c -> 1..n]
  BY <1>3, <1>9 DEF lugar
<1>12. \A j, k \in 1..c : lugar[j] = lugar[k] => j = k
  BY <1>2, <1>9, SMTT(30)
<1>13. Parte(t, s)
  BY <1>2, <1>10, <1>11, <1>12 DEF Parte
<1> QED
  BY <1>5, <1>9, <1>10, <1>13 DEF t

(* guardar_en_TLB: the entry goes after what is left of the others, when   *)
(* there is a TLB.                                                         *)
LEMMA TrasGuardar ==
  ASSUME NEW e \in Entradas, lista_paginas_tlb \in Seq(Entradas),
         Len(lista_paginas_tlb) <= ENTRADAS_TLB
  PROVE  \/ TlbCon(e) = lista_paginas_tlb
         \/ \E r \in Seq(Entradas) :
              /\ Parte(r, lista_paginas_tlb)
              /\ TlbCon(e) = Append(r, e) /\ Len(r) + 1 <= ENTRADAS_TLB
<1> DEFINE s == lista_paginas_tlb
<1>1. ENTRADAS_TLB \in Nat /\ Len(s) \in Nat
  BY SupuestoUmc
<1>2. CASE ~ConTlb
  BY <1>2 DEF TlbCon
<1>3. CASE ConTlb /\ Len(s) < ENTRADAS_TLB
  BY <1>1, <1>3, ParteEntera DEF TlbCon
<1>4. CASE ConTlb /\ ~(Len(s) < ENTRADAS_TLB)
  <2> DEFINE r == Tail(s)
             h == [k \in 1..Len(r) |-> k + 1]
  <2>1. Len(s) >= 1 /\ Len(s) = ENTRADAS_TLB /\ s # << >>
    BY <1>1, <1>4 DEF ConTlb
  <2>2. /\ r \in Seq(Entradas) /\ Len(r) = Len(s) - 1
        /\ \A k \in 1..Len(r) : r[k] = s[k + 1]
    BY <2>1, HeadTailProperties
  <2> HIDE DEF r
  <2>3. h \in [1..Len(r) -> 1..Len(s)] /\ \A k \in 1..Len(r) : h[k] = k + 1
    BY <1>1, <2>2
  <2> HIDE DEF h
  <2>4. /\ \A j, k \in 1..Len(r) : h[j] = h[k] => j = k
        /\ \A k \in 1..Len(r) : r[k] = s[h[k]]
        /\ Len(r) <= Len(s) /\ Len(r) + 1 <= ENTRADAS_TLB
    BY <1>1, <2>1, <2>2, <2>3
  <2>5. Parte(r, s)
    BY <2>2, <2>3, <2>4, Zenon DEF Parte
  <2>6. TlbCon(e) = Append(r, e)
    BY <1>4 DEF TlbCon, r
  <2> QED
    BY <2>2, <2>4, <2>5, <2>6
<1> QED
  BY <1>2, <1>3, <1>4

-----------------------------------------------------------------------------
(* Nothing has happened.                                                   *)
LEMMA InvInicial == Init => Inv
<1> SUFFICES ASSUME Init
             PROVE  Inv
  OBVIOUS
<1>1. TypeOK
  <2>1. /\ Libre \in [en : {"libre", "guardar", "responder"}, mensaje : Mensajes \cup {NULO},
                      habia : BOOLEAN]
        /\ Hilo("cerrado", NULO, 0) \in
             [en : {"cerrado", "ocioso", "libre", "acceder", "swap", "muerto"},
              acceso : Pedidos \cup {NULO}, marco : 0..MARCOS]
    BY SupuestoUmc DEF Libre, Hilo
  <2>2. 0 \in 0..(Cardinality(Programas) + 1)
    <3>1. Cardinality(Programas) \in Nat
      BY SupuestoUmc, FS_CardinalityType
    <3> QED
      BY <3>1
  <2>3. "no" \in Estados /\ Codigo \in Contenidos
    BY SupuestoUmc DEF Estados
  <2> QED
    BY <2>1, <2>2, <2>3 DEF Init, TypeOK
<1>2. Servicio
  BY DEF Init, Servicio, Atiende, Accede, Hilo
<1>3. Fases
  BY DEF Init, Fases, Vivos
<1>4. UnaPregunta /\ Preguntas
  BY DEF Init, UnaPregunta, Preguntas
<1>5. Servidor
  BY DEF Init, Servidor, Libre
<1>6. Reparto /\ Listas
  BY DEF Init, Reparto, Listas, Presente
<1>7. TlbDeLaTabla /\ TlbLista
  BY SupuestoUmc DEF Init, TlbDeLaTabla, TlbLista, Hilo, Libre
<1> QED
  BY <1>1, <1>2, <1>3, <1>4, <1>5, <1>6, <1>7 DEF Inv

-----------------------------------------------------------------------------
(* What a question that is on its way says of its program: it has no other *)
(* one, and the CPU that serves it is the one that waits.                  *)
LEMMA DeLaPregunta ==
  ASSUME TypeOK, Servicio, Fases, NEW m \in Mensajes, Vigente(m), Pregunta(m)
  PROVE  /\ proceso[m.pid] \in {"nuevo", "exec", "perdido", "matando", "finalizando"}
         /\ nucleo # m.pid
         /\ \A c \in Cpus : Atiende(c) /\ lista_cpus[c] = m.pid =>
              /\ m.id \in {"leer", "escribir"} /\ m.socket = c
              /\ hilo[c].en \in {"swap", "muerto"}
<1>1. /\ m.pid \in Programas
      /\ m.id \in {"iniciar", "nueva", "leer", "escribir", "finalizar"}
  BY DEF Mensajes, Pregunta
<1>2. \A c \in Cpus : Atiende(c) => proceso[lista_cpus[c]] \in {"exec", "perdido"}
  BY DEF Servicio
<1>3. nucleo # NULO => proceso[nucleo] \in {"matando", "finalizando"}
  BY DEF Fases
<1>4. m.pid # NULO
  BY <1>1, SupuestoNulo
<1>5. CASE m.id \in {"iniciar", "nueva"}
  BY <1>2, <1>3, <1>4, <1>5 DEF Vigente
<1>6. CASE m.id \in {"leer", "escribir"}
  <2>1. /\ m.socket \in Cpus /\ hilo[m.socket].en \in {"swap", "muerto"}
        /\ lista_cpus[m.socket] = m.pid
    BY <1>6 DEF Vigente
  <2>2. Atiende(m.socket)
    BY <2>1 DEF Atiende
  <2>3. \A c \in Cpus : Atiende(c) /\ lista_cpus[c] = m.pid => c = m.socket
    BY <2>1, <2>2 DEF Servicio
  <2> QED
    BY <1>2, <1>3, <1>4, <1>6, <2>1, <2>2, <2>3
<1>7. CASE m.id = "finalizar"
  BY <1>2, <1>3, <1>4, <1>7 DEF Vigente
<1> QED
  BY <1>1, <1>5, <1>6, <1>7

(* A program of which nothing is on its way.                               *)
SinPreguntas(p) ==
  /\ \A k \in DOMAIN aSwap : Pregunta(aSwap[k]) => aSwap[k].pid # p
  /\ \A k \in DOMAIN deSwap : Pregunta(deSwap[k]) => deSwap[k].pid # p
  /\ ~EnManos(p)

(* A program that waits for nothing has no question on its way: by the     *)
(* phase it is in, because the Nucleo frees it, or because its CPU is not  *)
(* waiting.                                                                *)
LEMMA Callado ==
  ASSUME Inv, NEW p \in Programas,
         \/ proceso[p] \notin {"nuevo", "exec", "perdido", "matando", "finalizando"}
         \/ nucleo = p
         \/ \E c \in Cpus : /\ Atiende(c) /\ lista_cpus[c] = p
                            /\ hilo[c].en \notin {"swap", "muerto"}
  PROVE  /\ SinPreguntas(p)
         /\ \A m \in Mensajes : Vigente(m) /\ Pregunta(m) => m.pid # p
<1>1. \A m \in Mensajes : Vigente(m) /\ Pregunta(m) => m.pid # p
  BY DeLaPregunta DEF Inv
<1>2. /\ \A k \in DOMAIN aSwap : aSwap[k] \in Mensajes /\ Vigente(aSwap[k])
      /\ \A k \in DOMAIN deSwap : deSwap[k] \in Mensajes /\ Vigente(deSwap[k])
  BY DEF Inv, TypeOK, Preguntas
<1>3. EnManos(p) => /\ servidor.mensaje \in Mensajes /\ Vigente(servidor.mensaje)
                    /\ Pregunta(servidor.mensaje) /\ servidor.mensaje.pid = p
  BY DEF Inv, Servidor, EnManos, Pregunta
<1> QED
  BY <1>1, <1>2, <1>3 DEF SinPreguntas

-----------------------------------------------------------------------------
(* What a step leaves as it is.  A step that moves no page keeps the       *)
(* frames, the lists and what is said of the TLB.                          *)
MismosMarcos ==
  /\ DOMAIN lista_tablas' = DOMAIN lista_tablas
  /\ \A p \in DOMAIN lista_tablas : lista_tablas'[p] \in [PaginasDelPid(p) -> Filas]
  /\ \A p \in DOMAIN lista_tablas : \A i \in PaginasDelPid(p) :
       /\ lista_tablas'[p][i].presencia = lista_tablas[p][i].presencia
       /\ lista_tablas'[p][i].frame = lista_tablas[p][i].frame

(* A step that leaves the tables alone moves no page.                      *)
LEMMA TablasIguales ==
  ASSUME TypeOK, UNCHANGED lista_tablas
  PROVE  MismosMarcos
BY DEF TypeOK, MismosMarcos

(* A page in memory is one of its program, with a row in its table.        *)
LEMMA DeUnaPresente ==
  ASSUME TypeOK, NEW p, NEW i, Presente(p, i)
  PROVE  /\ p \in Programas /\ p \in DOMAIN lista_tablas
         /\ i \in PaginasDelPid(p) /\ i \in 0..MaxPaginas /\ i \in Nat
         /\ lista_tablas[p] \in [PaginasDelPid(p) -> Filas]
         /\ lista_tablas[p][i] \in Filas /\ lista_tablas[p][i].presencia
<1>1. p \in Programas /\ p \in DOMAIN lista_tablas /\ lista_tablas[p] \in [PaginasDelPid(p) -> Filas]
  BY DEF TypeOK, Presente
<1>2. i \in PaginasDelPid(p) /\ lista_tablas[p][i].presencia
  BY <1>1 DEF Presente
<1>3. PaginasDe[p] \in 1..MaxPaginas /\ MaxPaginas \in Nat
  BY <1>1, SupuestoUmc
<1> QED
  BY <1>1, <1>2, <1>3 DEF PaginasDelPid

(* The pages in memory, and their frames, stay the same.                   *)
LEMMA PresentesIguales ==
  ASSUME TypeOK, MismosMarcos
  PROVE  \A p, i : /\ Presente(p, i)' <=> Presente(p, i)
                   /\ Presente(p, i) => lista_tablas'[p][i].frame = lista_tablas[p][i].frame
<1>1. \A p \in DOMAIN lista_tablas : lista_tablas[p] \in [PaginasDelPid(p) -> Filas]
  BY DEF TypeOK
<1> QED
  BY <1>1 DEF MismosMarcos, Presente

(* Setting a bit of a row moves nothing.                                   *)
LEMMA MarcarUna ==
  ASSUME TypeOK, NEW p, NEW i, Presente(p, i),
         lista_tablas' = [lista_tablas EXCEPT ![p][i].modificado = TRUE]
  PROVE  MismosMarcos
<1>1. PICK fila : fila = lista_tablas[p][i]
  OBVIOUS
<1>2. /\ p \in DOMAIN lista_tablas /\ i \in PaginasDelPid(p) /\ fila \in Filas
      /\ \A q \in DOMAIN lista_tablas : lista_tablas[q] \in [PaginasDelPid(q) -> Filas]
  BY <1>1, DeUnaPresente DEF TypeOK
<1>3. PICK fila1 : fila1 = [fila EXCEPT !.modificado = TRUE]
  OBVIOUS
<1>4. fila1 \in Filas /\ fila1.presencia = fila.presencia /\ fila1.frame = fila.frame
  BY <1>2, <1>3 DEF Filas
<1>5. lista_tablas' = [lista_tablas EXCEPT ![p] = [lista_tablas[p] EXCEPT ![i] = fila1]]
  BY <1>1, <1>3
<1>6. /\ DOMAIN lista_tablas' = DOMAIN lista_tablas
      /\ lista_tablas'[p] = [lista_tablas[p] EXCEPT ![i] = fila1]
      /\ \A q \in DOMAIN lista_tablas \ {p} : lista_tablas'[q] = lista_tablas[q]
  BY <1>2, <1>5
<1>7. lista_tablas'[p] \in [PaginasDelPid(p) -> Filas]
  BY <1>2, <1>4, <1>6
<1>8. \A j \in PaginasDelPid(p) : /\ lista_tablas'[p][j].presencia = lista_tablas[p][j].presencia
                                  /\ lista_tablas'[p][j].frame = lista_tablas[p][j].frame
  BY <1>1, <1>2, <1>4, <1>6
<1> QED
  BY <1>2, <1>6, <1>7, <1>8 DEF MismosMarcos

(* No page moves and no frame is given or taken: the frames stay shared    *)
(* out as they were.                                                       *)
LEMMA RepartoIgual ==
  ASSUME TypeOK, MismosMarcos, Reparto, UNCHANGED libres
  PROVE  Reparto'
BY PresentesIguales DEF Reparto

(* No page moves: the lists of the replacement still have those in memory. *)
LEMMA ListasIguales ==
  ASSUME TypeOK, MismosMarcos, Listas, UNCHANGED listas_algoritmo
  PROVE  Listas'
<1>1. DOMAIN lista_tablas' = DOMAIN lista_tablas
  BY DEF MismosMarcos
<1> SUFFICES ASSUME NEW p \in DOMAIN lista_tablas
             PROVE  Lista(p)'
  BY <1>1 DEF Listas
<1>2. Lista(p)
  BY DEF Listas
<1> QED
  BY <1>2, PresentesIguales DEF Lista

(* A step that changes no CPU and no phase keeps what is said of them.     *)
LEMMA ServicioIgual ==
  ASSUME Servicio, UNCHANGED <<hilo, lista_cpus, proceso>>
  PROVE  Servicio'
BY DEF Servicio, Atiende, Accede

(* A step that changes no phase, buffer, or set of tables.                 *)
LEMMA FasesIguales ==
  ASSUME Fases, UNCHANGED <<proceso, nucleo, buffer_programas, lista_procesos_activos>>,
         DOMAIN lista_tablas' = DOMAIN lista_tablas, DOMAIN almacen' = DOMAIN almacen
  PROVE  Fases'
BY DEF Fases

(* A step that changes the phase of one program, which the thread of the   *)
(* Nucleo does not have.                                                   *)
LEMMA FasesDeUno ==
  ASSUME TypeOK, Fases, NEW p \in Programas, nucleo # p, nucleo' = nucleo,
         \A q \in Programas \ {p} :
           proceso'[q] = proceso[q] /\ buffer_programas'[q] = buffer_programas[q],
         DOMAIN lista_tablas' = DOMAIN lista_tablas, DOMAIN almacen' = DOMAIN almacen,
         \A q \in lista_procesos_activos' : q \in lista_procesos_activos \/ q = p,
         proceso'[p] # "no",
         proceso'[p] \in Vivos \cup {"nuevo"} => p \in DOMAIN lista_tablas,
         proceso'[p] \in Vivos => p \in DOMAIN almacen
  PROVE  Fases'
<1>1. \A q \in Programas :
        /\ proceso'[q] = "no" => q \notin DOMAIN lista_tablas /\ q \notin DOMAIN almacen
        /\ proceso'[q] \in Vivos \cup {"nuevo"} => q \in DOMAIN lista_tablas
        /\ proceso'[q] \in Vivos => q \in DOMAIN almacen
  <2> TAKE q \in Programas
  <2>1. CASE q = p
    BY <2>1
  <2>2. CASE q # p
    <3>1. proceso'[q] = proceso[q]
      BY <2>2
    <3> QED
      BY <3>1 DEF Fases
  <2> QED
    BY <2>1, <2>2
<1>2. nucleo # NULO => nucleo \in Programas \ {p}
  BY DEF TypeOK
<1> QED
  BY <1>1, <1>2 DEF Fases

(* A step that sends and receives nothing.                                 *)
LEMMA UnaPreguntaIgual ==
  ASSUME UnaPregunta, UNCHANGED <<aSwap, deSwap, servidor>>
  PROVE  UnaPregunta'
BY DEF UnaPregunta, EnManos, Pregunta

(* A message is still true when nothing of its program changes, nor of the *)
(* CPU that waits for it.                                                  *)
MismoPrograma(p) ==
  /\ proceso'[p] = proceso[p] /\ buffer_programas'[p] = buffer_programas[p]
  /\ (p \in DOMAIN almacen) <=> (p \in DOMAIN almacen')
  /\ p \notin DOMAIN lista_tablas => p \notin DOMAIN lista_tablas'
  /\ nucleo' # p \/ nucleo' = nucleo
MismaEspera(c) ==
  /\ hilo'[c].en \in {"swap", "muerto"}
  /\ hilo'[c].acceso = hilo[c].acceso /\ lista_cpus'[c] = lista_cpus[c]

(* What makes a message true stays as it is.                               *)
LEMMA VigenteSigue ==
  ASSUME NEW m, Vigente(m), MismoPrograma(m.pid),
         m.id \in {"leer", "escribir"} => MismaEspera(m.socket)
  PROVE  Vigente(m)'
BY DEF Vigente, MismoPrograma, MismaEspera

(* All the messages that were on their way are, for a step that sends none *)
(* and receives none.  The pages that come to the memory are of the program*)
(* in the hands of the thread.                                             *)
NadaNuevo == \A p, i : Presente(p, i)' => Presente(p, i) \/ EnManos(p)

(* What a step that receives nothing says of the messages that were there. *)
LEMMA NadaCambia ==
  ASSUME TypeOK, UnaPregunta, Preguntas, DOMAIN almacen' = DOMAIN almacen, NadaNuevo,
         \A m \in Mensajes : Vigente(m) /\ (Pregunta(m) => ~EnManos(m.pid)) => Vigente(m)'
  PROVE  /\ aSwap \in Seq(Mensajes) /\ deSwap \in Seq(Mensajes)
         /\ \A k \in DOMAIN aSwap : /\ aSwap[k] \in Mensajes
                                    /\ \A m : m = aSwap[k] => Vigente(m)' /\ PorServir(m)'
         /\ \A k \in DOMAIN deSwap : /\ deSwap[k] \in Mensajes
                                     /\ \A m : m = deSwap[k] => Vigente(m)' /\ Servido(m)'
<1>1. /\ aSwap \in Seq(Mensajes) /\ deSwap \in Seq(Mensajes)
      /\ \A k \in DOMAIN aSwap : aSwap[k] \in Mensajes
      /\ \A k \in DOMAIN deSwap : deSwap[k] \in Mensajes
  BY DEF TypeOK
<1>2. ASSUME NEW m \in Mensajes, Presente(m.pid, m.pagina)' => Presente(m.pid, m.pagina)
      PROVE  (PorServir(m) => PorServir(m)') /\ (Servido(m) => Servido(m)')
  BY <1>2 DEF PorServir, Servido
<1>3. ASSUME NEW m \in Mensajes, ~Pregunta(m)
      PROVE  (PorServir(m) => PorServir(m)') /\ (Servido(m) => Servido(m)')
  BY <1>3 DEF PorServir, Servido, Pregunta
<1>4. /\ \A k \in DOMAIN aSwap : Pregunta(aSwap[k]) => ~EnManos(aSwap[k].pid)
      /\ \A k \in DOMAIN deSwap : Pregunta(deSwap[k]) => ~EnManos(deSwap[k].pid)
  BY DEF UnaPregunta
<1>5. ASSUME NEW m \in Mensajes, Pregunta(m) => ~EnManos(m.pid)
      PROVE  (PorServir(m) => PorServir(m)') /\ (Servido(m) => Servido(m)')
  <2>1. CASE Pregunta(m)
    BY <1>2, <1>5, <2>1 DEF NadaNuevo
  <2> QED
    BY <1>3, <2>1
<1> QED
  BY <1>1, <1>4, <1>5 DEF Preguntas

(* No message sent: the ones there are stay right.                         *)
LEMMA PreguntasIguales ==
  ASSUME TypeOK, UnaPregunta, Preguntas, UNCHANGED <<aSwap, deSwap>>,
         DOMAIN almacen' = DOMAIN almacen, NadaNuevo,
         \A m \in Mensajes : Vigente(m) /\ (Pregunta(m) => ~EnManos(m.pid)) => Vigente(m)'
  PROVE  Preguntas'
BY NadaCambia DEF Preguntas

(* The same when a message is sent, and it is the last.                    *)
LEMMA PreguntasConUna ==
  ASSUME TypeOK, UnaPregunta, Preguntas, UNCHANGED deSwap,
         DOMAIN almacen' = DOMAIN almacen, NadaNuevo,
         NEW e \in Mensajes, aSwap' = Append(aSwap, e), Vigente(e)', PorServir(e)',
         \A m \in Mensajes : Vigente(m) /\ (Pregunta(m) => ~EnManos(m.pid)) => Vigente(m)'
  PROVE  Preguntas'
<1>1. /\ aSwap \in Seq(Mensajes) /\ deSwap \in Seq(Mensajes)
      /\ \A k \in DOMAIN aSwap : \A m : m = aSwap[k] => Vigente(m)' /\ PorServir(m)'
      /\ \A k \in DOMAIN deSwap : \A m : m = deSwap[k] => Vigente(m)' /\ Servido(m)'
  BY NadaCambia
<1>2. /\ DOMAIN aSwap' = 1..(Len(aSwap) + 1) /\ aSwap'[Len(aSwap) + 1] = e
      /\ \A k \in 1..Len(aSwap) : aSwap'[k] = aSwap[k]
      /\ Len(aSwap) \in Nat /\ DOMAIN aSwap = 1..Len(aSwap)
  BY <1>1
<1>3. ASSUME NEW k \in 1..(Len(aSwap) + 1), NEW m, aSwap'[k] = m
      PROVE  Vigente(m)' /\ PorServir(m)'
  <2>1. CASE k = Len(aSwap) + 1
    BY <1>2, <1>3, <2>1
  <2>2. CASE k # Len(aSwap) + 1
    <3>1. k \in 1..Len(aSwap)
      BY <1>2, <2>2
    <3> QED
      BY <1>1, <1>2, <1>3, <3>1
  <2> QED
    BY <2>1, <2>2
<1> QED
  BY <1>1, <1>2, <1>3 DEF Preguntas

(* A question of a program that has none; a page that goes to the SWAP     *)
(* while its program is in the hands of the thread.                        *)
LEMMA UnaPreguntaMas ==
  ASSUME TypeOK, UnaPregunta, NEW e \in Mensajes, aSwap' = Append(aSwap, e),
         UNCHANGED deSwap,
         \/ Pregunta(e) /\ SinPreguntas(e.pid)
         \/ ~Pregunta(e) /\ EnManos(e.pid),
         \A p : EnManos(p)' <=> EnManos(p)
  PROVE  UnaPregunta' /\ aSwap' \in Seq(Mensajes)
<1> DEFINE n == Len(aSwap)
<1>1. /\ aSwap \in Seq(Mensajes) /\ deSwap \in Seq(Mensajes)
      /\ aSwap' \in Seq(Mensajes)
  BY DEF TypeOK
<1>2. /\ DOMAIN aSwap' = 1..(n + 1) /\ aSwap'[n + 1] = e
      /\ \A k \in 1..n : aSwap'[k] = aSwap[k]
      /\ n \in Nat /\ DOMAIN aSwap = 1..n
  BY <1>1
<1> HIDE DEF n
<1>3. \A k \in 1..(n + 1) : k \in 1..n \/ k = n + 1
  BY <1>2
<1>4. \A j, k \in 1..(n + 1) :
        Pregunta(aSwap'[j]) /\ Pregunta(aSwap'[k]) /\ aSwap'[j].pid = aSwap'[k].pid => j = k
  BY <1>2, <1>3 DEF UnaPregunta, SinPreguntas
<1>5. /\ \A j \in 1..(n + 1), k \in DOMAIN deSwap :
           Pregunta(aSwap'[j]) /\ Pregunta(deSwap[k]) => aSwap'[j].pid # deSwap[k].pid
      /\ \A j \in 1..(n + 1) : Pregunta(aSwap'[j]) => ~EnManos(aSwap'[j].pid)
  BY <1>2, <1>3 DEF UnaPregunta, SinPreguntas
<1>6. \A j, k \in 1..(n + 1) :
        aSwap'[j].id = "finalizar" /\ aSwap'[j].pid = aSwap'[k].pid => k <= j
  <2> SUFFICES ASSUME NEW j \in 1..(n + 1), NEW k \in 1..(n + 1),
                      aSwap'[j].id = "finalizar", aSwap'[j].pid = aSwap'[k].pid
               PROVE  k <= j
    OBVIOUS
  <2>1. CASE j = n + 1
    BY <1>2, <2>1
  <2>2. CASE j \in 1..n
    <3>1. Pregunta(aSwap[j]) /\ aSwap[j].id = "finalizar" /\ ~EnManos(aSwap[j].pid)
      BY <1>2, <2>2 DEF Pregunta, UnaPregunta
    <3>2. aSwap[j].pid # e.pid
      BY <1>2, <2>2, <3>1 DEF SinPreguntas
    <3>3. k \in 1..n
      BY <1>2, <1>3, <2>2, <3>2
    <3> QED
      BY <1>2, <2>2, <3>1, <3>3 DEF UnaPregunta
  <2> QED
    BY <1>3, <2>1, <2>2
<1> QED
  BY <1>1, <1>2, <1>4, <1>5, <1>6 DEF UnaPregunta, Pregunta

(* The access in the hands of the thread stays right.                      *)
LEMMA ServidorIgual ==
  ASSUME TypeOK, Servidor, UNCHANGED servidor, MismosMarcos,
         libres \subseteq libres', \A m \in Mensajes : Vigente(m) => Vigente(m)'
  PROVE  Servidor'
<1>1. \A p, i : Presente(p, i)' <=> Presente(p, i)
  BY PresentesIguales
<1> QED
  BY <1>1 DEF Servidor

(* TlbDeLaTabla without the threads, and what the threads have.            *)
TlbExacta ==
  /\ Len(lista_paginas_tlb) <= ENTRADAS_TLB
  /\ \A k \in DOMAIN lista_paginas_tlb :
       LET t == lista_paginas_tlb[k] IN
         Presente(t.pid, t.pagina) /\ lista_tablas[t.pid][t.pagina].frame = t.frame
  /\ \A j, k \in DOMAIN lista_paginas_tlb :
       lista_paginas_tlb[j].frame = lista_paginas_tlb[k].frame => j = k
ConMarco(c) ==
  hilo[c].en = "acceder" /\ hilo[c].marco # 0 =>
    /\ Presente(lista_cpus[c], hilo[c].acceso.pagina)
    /\ lista_tablas[lista_cpus[c]][hilo[c].acceso.pagina].frame = hilo[c].marco

(* TlbDeLaTabla is about the entries and about the threads.                *)
LEMMA PartesDeLaTlb == TlbDeLaTabla <=> TlbExacta /\ \A c \in Cpus : ConMarco(c)
BY DEF TlbDeLaTabla, TlbExacta, ConMarco

(* An entry is still that of its page.                                     *)
Vale(t) == Presente(t.pid, t.pagina) /\ lista_tablas[t.pid][t.pagina].frame = t.frame
Sigue(t) == Vale(t) => Vale(t)'

(* What the entries of the TLB are.                                        *)
LEMMA DeLaTlb ==
  ASSUME TypeOK, TlbExacta
  PROVE  /\ lista_paginas_tlb \in Seq(Entradas)
         /\ DOMAIN lista_paginas_tlb = 1..Len(lista_paginas_tlb)
         /\ Len(lista_paginas_tlb) \in Nat /\ Len(lista_paginas_tlb) <= ENTRADAS_TLB
         /\ \A k \in 1..Len(lista_paginas_tlb) :
              lista_paginas_tlb[k] \in Entradas /\ Vale(lista_paginas_tlb[k])
         /\ \A j, k \in 1..Len(lista_paginas_tlb) :
              lista_paginas_tlb[j].frame = lista_paginas_tlb[k].frame => j = k
<1>1. lista_paginas_tlb \in Seq(Entradas)
  BY DEF TypeOK, Entradas
<1>2. /\ DOMAIN lista_paginas_tlb = 1..Len(lista_paginas_tlb)
      /\ Len(lista_paginas_tlb) \in Nat
      /\ \A k \in 1..Len(lista_paginas_tlb) : lista_paginas_tlb[k] \in Entradas
  BY <1>1, LenProperties, ElementOfSeq
<1> QED
  BY <1>1, <1>2 DEF TlbExacta, Vale

(* With some entries less, and those that stay still right.                *)
LEMMA TlbMenos ==
  ASSUME TypeOK, TlbExacta, Parte(lista_paginas_tlb', lista_paginas_tlb),
         \A t \in Entradas : (\E k \in 1..Len(lista_paginas_tlb') : lista_paginas_tlb'[k] = t)
                                => Sigue(t)
  PROVE  /\ TlbExacta'
         /\ lista_paginas_tlb' \in Seq(Entradas)
         /\ \A k \in DOMAIN lista_paginas_tlb' :
              \E j \in DOMAIN lista_paginas_tlb : lista_paginas_tlb'[k] = lista_paginas_tlb[j]
<1> DEFINE s == lista_paginas_tlb
           t == lista_paginas_tlb'
<1>1. PICK h \in [1..Len(t) -> 1..Len(s)] :
        /\ \A j, k \in 1..Len(t) : h[j] = h[k] => j = k
        /\ \A k \in 1..Len(t) : t[k] = s[h[k]]
  BY DEF Parte
<1>2. t \in Seq(Entradas) /\ Len(t) <= Len(s)
  BY DEF Parte
<1>3. DOMAIN t = 1..Len(t) /\ Len(t) \in Nat /\ \A k \in 1..Len(t) : t[k] \in Entradas
  BY <1>2, LenProperties, ElementOfSeq
<1>4. /\ DOMAIN s = 1..Len(s) /\ Len(s) \in Nat /\ Len(s) <= ENTRADAS_TLB
      /\ \A k \in 1..Len(s) : s[k] \in Entradas /\ Vale(s[k])
      /\ \A j, k \in 1..Len(s) : s[j].frame = s[k].frame => j = k
  BY DeLaTlb
<1>5. Len(t) <= ENTRADAS_TLB
  BY <1>2, <1>3, <1>4, SupuestoUmc
<1> HIDE DEF s, t
<1>6. \A k \in 1..Len(t) : h[k] \in 1..Len(s) /\ t[k] = s[h[k]]
  BY <1>1
<1>7. \A j, k \in 1..Len(t) : t[j].frame = t[k].frame => j = k
  BY <1>1, <1>4, <1>6
<1>8. \A k \in 1..Len(t) : Vale(t[k])
  BY <1>4, <1>6
<1>9. \A e \in Entradas : (\E k \in 1..Len(t) : t[k] = e) => (Vale(e) => Vale(e)')
  BY DEF Sigue, t
<1>10. \A e \in Entradas : (\E k \in 1..Len(t) : t[k] = e) => Vale(e)'
  BY <1>8, <1>9
<1>11. TlbExacta'
  BY <1>3, <1>5, <1>7, <1>10 DEF TlbExacta, Vale, t
<1> QED
  BY <1>2, <1>3, <1>4, <1>6, <1>11 DEF s, t

(* With one more, of a frame the others do not have.                       *)
LEMMA TlbMas ==
  ASSUME TypeOK, TlbExacta, NEW e \in Entradas, lista_paginas_tlb' = TlbCon(e),
         \A t \in Entradas : Sigue(t), Vale(e)',
         \A k \in DOMAIN lista_paginas_tlb : lista_paginas_tlb[k].frame # e.frame
  PROVE  /\ TlbExacta'
         /\ lista_paginas_tlb' \in Seq(Entradas)
         /\ \A k \in DOMAIN lista_paginas_tlb' :
              \/ lista_paginas_tlb'[k] = e
              \/ \E j \in DOMAIN lista_paginas_tlb : lista_paginas_tlb'[k] = lista_paginas_tlb[j]
<1> DEFINE s == lista_paginas_tlb
           t == lista_paginas_tlb'
<1>1. /\ s \in Seq(Entradas)
      /\ DOMAIN s = 1..Len(s) /\ Len(s) \in Nat /\ Len(s) <= ENTRADAS_TLB
      /\ \A k \in 1..Len(s) : s[k] \in Entradas /\ Vale(s[k])
      /\ \A j, k \in 1..Len(s) : s[j].frame = s[k].frame => j = k
  BY DeLaTlb
<1>2. \A k \in 1..Len(s) : s[k].frame # e.frame
  BY <1>1
<1>3. \A x \in Entradas : Vale(x) => Vale(x)'
  BY DEF Sigue
<1>4. CASE t = s
  <2>1. TlbExacta'
    BY <1>1, <1>3, <1>4 DEF TlbExacta, Vale
  <2> QED
    BY <1>1, <1>4, <2>1
<1>5. CASE t # s
  <2>1. PICK r \in Seq(Entradas) : Parte(r, s) /\ t = Append(r, e) /\ Len(r) + 1 <= ENTRADAS_TLB
    BY <1>1, <1>5, TrasGuardar
  <2>2. PICK h \in [1..Len(r) -> 1..Len(s)] :
          /\ \A j, k \in 1..Len(r) : h[j] = h[k] => j = k
          /\ \A k \in 1..Len(r) : r[k] = s[h[k]]
    BY <2>1 DEF Parte
  <2>3. /\ t \in Seq(Entradas) /\ Len(t) = Len(r) + 1 /\ t[Len(r) + 1] = e
        /\ \A k \in 1..Len(r) : t[k] = r[k]
        /\ DOMAIN t = 1..(Len(r) + 1) /\ Len(r) \in Nat
    BY <2>1, AppendProperties, LenProperties
  <2> HIDE DEF s, t
  <2>4. \A k \in 1..Len(r) : h[k] \in 1..Len(s) /\ t[k] = s[h[k]]
    BY <2>2, <2>3
  <2>5. \A k \in 1..(Len(r) + 1) : k \in 1..Len(r) \/ k = Len(r) + 1
    BY <2>3
  <2>6. ASSUME NEW k \in 1..(Len(r) + 1), NEW x, t[k] = x
        PROVE  Vale(x)'
    <3>1. CASE k = Len(r) + 1
      BY <2>3, <2>6, <3>1
    <3>2. CASE k \in 1..Len(r)
      BY <1>1, <1>3, <2>4, <2>6, <3>2
    <3> QED
      BY <2>5, <3>1, <3>2
  <2>7. \A j, k \in 1..(Len(r) + 1) : t[j].frame = t[k].frame => j = k
    BY <1>1, <1>2, <2>2, <2>3, <2>4, <2>5, SMTT(60)
  <2>8. TlbExacta'
    BY <2>1, <2>3, <2>6, <2>7 DEF TlbExacta, Vale, t
  <2> QED
    BY <1>1, <2>3, <2>4, <2>5, <2>8 DEF s, t
<1> QED
  BY <1>4, <1>5

(* When no page moves every entry stays right.                             *)
LEMMA SiguenTodas ==
  ASSUME TypeOK, MismosMarcos
  PROVE  \A t : Sigue(t)
BY PresentesIguales DEF Sigue, Vale

(* A step without messages, pages or frames: all but the TLB and the CPUs. *)
LEMMA SinMensajes ==
  ASSUME Inv, UNCHANGED <<listas_algoritmo, libres, aSwap, deSwap, almacen, servidor>>,
         MismosMarcos, \A m \in Mensajes : Vigente(m) => Vigente(m)'
  PROVE  UnaPregunta' /\ Preguntas' /\ Servidor' /\ Reparto' /\ Listas'
<1>1. UnaPregunta'
  BY UnaPreguntaIgual DEF Inv
<1>2. Preguntas'
  <2>1. NadaNuevo
    BY PresentesIguales DEF Inv, NadaNuevo
  <2> QED
    BY <2>1, PreguntasIguales DEF Inv
<1>3. Servidor'
  BY ServidorIgual DEF Inv
<1>4. Reparto' /\ Listas'
  BY RepartoIgual, ListasIguales DEF Inv
<1> QED
  BY <1>1, <1>2, <1>3, <1>4

(* A step of a CPU that waits for nothing changes what is on its way for    *)
(* no other.                                                               *)
LEMMA VigenteDeOtras ==
  ASSUME Inv, NEW c \in Cpus, hilo[c].en \notin {"swap", "muerto"},
         \A d \in Cpus \ {c} :
           hilo'[d] = hilo[d] /\ (d \in DOMAIN lista_cpus => lista_cpus'[d] = lista_cpus[d]),
         UNCHANGED <<almacen, nucleo>>, DOMAIN lista_tablas' = DOMAIN lista_tablas,
         \A p \in Programas :
           \/ proceso'[p] = proceso[p] /\ buffer_programas'[p] = buffer_programas[p]
           \/ proceso[p] = "listo"
           \/ Atiende(c) /\ lista_cpus[c] = p
  PROVE  \A m \in Mensajes : Vigente(m) => Vigente(m)'
<1> SUFFICES ASSUME NEW m \in Mensajes, Vigente(m)
             PROVE  Vigente(m)'
  OBVIOUS
<1>1. m.pid \in Programas
  BY DEF Mensajes
<1>2. CASE ~Pregunta(m)
  BY <1>2 DEF Pregunta, Vigente
<1>3. CASE Pregunta(m)
  <2>1. proceso'[m.pid] = proceso[m.pid] /\ buffer_programas'[m.pid] = buffer_programas[m.pid]
    BY <1>1, <1>3, Callado
  <2>2. MismoPrograma(m.pid)
    BY <2>1 DEF MismoPrograma
  <2>3. ASSUME m.id \in {"leer", "escribir"}
        PROVE  MismaEspera(m.socket)
    <3>1. m.socket \in Cpus /\ hilo[m.socket].en \in {"swap", "muerto"}
      BY <2>3 DEF Vigente
    <3>2. m.socket # c /\ m.socket \in DOMAIN lista_cpus
      BY <3>1 DEF Inv, Servicio
    <3> QED
      BY <3>1, <3>2 DEF MismaEspera
  <2> QED
    BY <2>2, <2>3, VigenteSigue
<1> QED
  BY <1>2, <1>3

(* The TLB, with the same entries or less, those that stay still right, and*)
(* no thread that begins an access.                                        *)
LEMMA TlbQueQueda ==
  ASSUME Inv, Parte(lista_paginas_tlb', lista_paginas_tlb),
         \A t \in Entradas : (\E k \in 1..Len(lista_paginas_tlb') : lista_paginas_tlb'[k] = t)
                                => Sigue(t),
         \/ servidor' = servidor
         \/ servidor'.en # "responder"
         \/ ~Presente(servidor'.mensaje.pid, servidor'.mensaje.pagina),
         \/ nucleo' \in {nucleo, NULO}
         \/ \A k \in 1..Len(lista_paginas_tlb') : lista_paginas_tlb'[k].pid # nucleo',
         \A d \in Cpus : hilo'[d].en = "acceder" =>
           /\ hilo'[d] = hilo[d] /\ lista_cpus'[d] = lista_cpus[d]
           /\ \A i, f : Sigue(Tlb(lista_cpus[d], i, f))
  PROVE  TlbDeLaTabla' /\ TlbLista'
<1>1. TypeOK /\ TlbExacta /\ TlbLista /\ \A d \in Cpus : ConMarco(d)
  BY PartesDeLaTlb DEF Inv
<1>2. /\ TlbExacta' /\ lista_paginas_tlb' \in Seq(Entradas)
      /\ \A k \in DOMAIN lista_paginas_tlb' :
           \E j \in DOMAIN lista_paginas_tlb : lista_paginas_tlb'[k] = lista_paginas_tlb[j]
  BY <1>1, TlbMenos
<1>3. DOMAIN lista_paginas_tlb' = 1..Len(lista_paginas_tlb')
  BY <1>2, LenProperties
<1>4. ASSUME NEW d \in Cpus
      PROVE  ConMarco(d)'
  <2>1. ConMarco(d)
    BY <1>1
  <2> SUFFICES ASSUME hilo'[d].en = "acceder"
               PROVE  ConMarco(d)'
    BY DEF ConMarco
  <2>2. PICK p, i, f : p = lista_cpus[d] /\ i = hilo[d].acceso.pagina /\ f = hilo[d].marco
    OBVIOUS
  <2>3. /\ hilo'[d] = hilo[d] /\ lista_cpus'[d] = lista_cpus[d]
        /\ Sigue(Tlb(p, i, f))
    BY <2>2
  <2>4. Presente(p, i) /\ lista_tablas[p][i].frame = f =>
          Presente(p, i)' /\ lista_tablas'[p][i].frame = f
    BY <2>3 DEF Sigue, Vale, Tlb
  <2> QED
    BY <2>1, <2>2, <2>3, <2>4 DEF ConMarco
<1>5. TlbDeLaTabla'
  <2>1. TlbDeLaTabla' <=> TlbExacta' /\ \A d \in Cpus : ConMarco(d)'
    BY DEF TlbDeLaTabla, TlbExacta, ConMarco
  <2> QED
    BY <1>2, <1>4, <2>1
<1>6. TlbLista'
  <2>1. \A k \in DOMAIN lista_paginas_tlb' : lista_paginas_tlb'[k].pid # nucleo'
    <3>1. CASE nucleo' = nucleo
      BY <1>1, <1>2, <3>1 DEF TlbLista
    <3>2. CASE nucleo' = NULO
      <4>1. \A k \in DOMAIN lista_paginas_tlb' : lista_paginas_tlb'[k] \in Entradas
        BY <1>2, <1>3, ElementOfSeq
      <4> QED
        BY <3>2, <4>1, SupuestoNulo DEF Entradas
    <3> QED
      BY <1>3, <3>1, <3>2
  <2>2. ASSUME NEW d \in Cpus, hilo'[d].en = "acceder" /\ hilo'[d].marco = 0
        PROVE  \A k \in DOMAIN lista_paginas_tlb' :
                 ~ /\ lista_paginas_tlb'[k].pid = lista_cpus'[d]
                   /\ lista_paginas_tlb'[k].pagina = hilo'[d].acceso.pagina
    <3>1. hilo'[d] = hilo[d] /\ lista_cpus'[d] = lista_cpus[d]
      BY <2>2
    <3> QED
      BY <1>1, <1>2, <2>2, <3>1 DEF TlbLista
  <2>3. ASSUME servidor'.en = "responder"
        PROVE  \A k \in DOMAIN lista_paginas_tlb' :
                 ~ /\ lista_paginas_tlb'[k].pid = servidor'.mensaje.pid
                   /\ lista_paginas_tlb'[k].pagina = servidor'.mensaje.pagina
    <3>1. \A j \in DOMAIN lista_paginas_tlb :
            Presente(lista_paginas_tlb[j].pid, lista_paginas_tlb[j].pagina)
      BY <1>1 DEF TlbExacta
    <3> QED
      BY <1>1, <1>2, <2>3, <3>1 DEF TlbLista
  <2> QED
    BY <2>1, <2>2, <2>3 DEF TlbLista
<1> QED
  BY <1>5, <1>6

(* The TLB, when entries go and no page moves.                             *)
LEMMA TlbConMenos ==
  ASSUME Inv, MismosMarcos, Parte(lista_paginas_tlb', lista_paginas_tlb),
         servidor' = servidor \/ servidor'.en # "responder",
         \/ nucleo' \in {nucleo, NULO}
         \/ \A k \in 1..Len(lista_paginas_tlb') : lista_paginas_tlb'[k].pid # nucleo',
         \A d \in Cpus : hilo'[d].en = "acceder" =>
           hilo'[d] = hilo[d] /\ lista_cpus'[d] = lista_cpus[d]
  PROVE  TlbDeLaTabla' /\ TlbLista'
<1>1. \A t : Sigue(t)
  BY SiguenTodas DEF Inv
<1> QED
  BY <1>1, TlbQueQueda

(* The TLB, when nothing of it changes and no page moves.                  *)
LEMMA TlbIgual ==
  ASSUME Inv, MismosMarcos, UNCHANGED lista_paginas_tlb,
         servidor' = servidor \/ servidor'.en # "responder",
         nucleo' \in {nucleo, NULO},
         \A d \in Cpus : hilo'[d].en = "acceder" =>
           hilo'[d] = hilo[d] /\ lista_cpus'[d] = lista_cpus[d]
  PROVE  TlbDeLaTabla' /\ TlbLista'
<1>1. lista_paginas_tlb \in Seq(Entradas)
  BY DEF Inv, TypeOK, Entradas
<1>2. Parte(lista_paginas_tlb', lista_paginas_tlb)
  BY <1>1, ParteEntera
<1> QED
  BY <1>2, TlbConMenos

-----------------------------------------------------------------------------
(* The thread of a CPU, outside of an access.                              *)
LEMMA InvHandshakeCpu ==
  ASSUME Inv, NEW c \in Cpus, HandshakeCpu(c)
  PROVE  Inv'
<1>1. /\ TypeOK /\ Servicio /\ TlbDeLaTabla /\ TlbLista /\ Fases /\ MismosMarcos
  BY TablasIguales DEF Inv, HandshakeCpu, memoriaVars
<1>2. /\ hilo[c].en = "cerrado" /\ hilo'[c].en = "ocioso"
      /\ hilo'[c].acceso = hilo[c].acceso /\ hilo'[c].marco = hilo[c].marco
      /\ \A d \in Cpus \ {c} : /\ hilo'[d] = hilo[d]
                               /\ d \in DOMAIN lista_cpus =>
                                    d \in DOMAIN lista_cpus' /\ lista_cpus'[d] = lista_cpus[d]
      /\ c \in DOMAIN lista_cpus'
  <2>1. hilo' = [hilo EXCEPT ![c].en = "ocioso"] /\ hilo[c].en = "cerrado"
    BY DEF HandshakeCpu
  <2>2. lista_cpus' = [d \in DOMAIN lista_cpus \cup {c} |-> IF d = c THEN NULO ELSE lista_cpus[d]]
    BY DEF HandshakeCpu, Agregada
  <2> QED
    BY <1>1, <2>1, <2>2 DEF TypeOK
<1>3. TypeOK'
  BY <1>1, ZenonT(30) DEF TypeOK, HandshakeCpu, Agregada, memoriaVars, swapVars
<1>4. Servicio'
  BY <1>1, <1>2 DEF Servicio, Atiende, Accede, HandshakeCpu
<1>5. Fases'
  BY <1>1, FasesIguales DEF HandshakeCpu, memoriaVars, swapVars
<1>6. \A m \in Mensajes : Vigente(m) => Vigente(m)'
  BY <1>2, VigenteDeOtras DEF HandshakeCpu, memoriaVars, swapVars
<1>7. UnaPregunta' /\ Preguntas' /\ Servidor' /\ Reparto' /\ Listas'
  BY <1>1, <1>6, SinMensajes DEF HandshakeCpu, memoriaVars, swapVars
<1>8. TlbDeLaTabla' /\ TlbLista'
  <2>1. UNCHANGED <<lista_paginas_tlb, nucleo, servidor>>
    BY DEF HandshakeCpu
  <2>2. \A d \in Cpus : hilo'[d].en = "acceder" =>
          hilo[d] = hilo'[d] /\ lista_cpus[d] = lista_cpus'[d]
    BY <1>1, <1>2 DEF Servicio
  <2> QED
    BY <1>1, <2>1, <2>2, TlbIgual
<1> QED
  BY <1>3, <1>4, <1>5, <1>7, <1>8 DEF Inv

(* cambiar_proceso_activo: the entries of the program leave the TLB.       *)
LEMMA InvCambiarProcesoActivo ==
  ASSUME Inv, NEW c \in Cpus, NEW p \in Programas, CambiarProcesoActivo(c, p)
  PROVE  Inv'
<1>1. /\ TypeOK /\ Servicio /\ Fases /\ MismosMarcos
  BY TablasIguales DEF Inv, CambiarProcesoActivo, memoriaVars
<1>2. /\ hilo[c].en = "ocioso" /\ hilo'[c].en = "libre"
      /\ hilo'[c].acceso = hilo[c].acceso /\ hilo'[c].marco = hilo[c].marco
      /\ c \in DOMAIN lista_cpus /\ DOMAIN lista_cpus' = DOMAIN lista_cpus
      /\ lista_cpus'[c] = p
      /\ \A d \in Cpus \ {c} : hilo'[d] = hilo[d] /\ lista_cpus'[d] = lista_cpus[d]
      /\ proceso[p] = "listo" /\ proceso'[p] = "exec"
      /\ \A q \in Programas \ {p} : proceso'[q] = proceso[q]
  BY <1>1 DEF CambiarProcesoActivo, TypeOK, Servicio
<1>3. /\ lista_paginas_tlb \in Seq(Entradas)
      /\ Parte(lista_paginas_tlb', lista_paginas_tlb)
  BY <1>1, SinPrograma DEF CambiarProcesoActivo, TypeOK, Entradas
<1>4. TypeOK'
  <2>1. lista_paginas_tlb' \in Seq(Entradas)
    BY <1>3 DEF Parte
  <2> QED
    BY <1>1, <2>1, ZenonT(30) DEF TypeOK, CambiarProcesoActivo, Entradas, Estados, memoriaVars, swapVars
<1>5. Servicio'
  <2>1. \A d \in Cpus \ {c} : Atiende(d) => lista_cpus[d] # p
    BY <1>1, <1>2 DEF Servicio
  <2> QED
    BY <1>1, <1>2, <2>1 DEF Servicio, Atiende, Accede
<1>6. Fases'
  <2>1. UNCHANGED <<lista_tablas, almacen, nucleo, lista_procesos_activos, buffer_programas>>
    BY DEF CambiarProcesoActivo, memoriaVars, swapVars
  <2>2. nucleo # p /\ p \in DOMAIN lista_tablas /\ p \in DOMAIN almacen
    BY <1>2, <1>1, SupuestoNulo DEF Fases, Vivos
  <2> QED
    BY <1>1, <1>2, <2>1, <2>2, FasesDeUno
<1>7. \A m \in Mensajes : Vigente(m) => Vigente(m)'
  BY <1>2, VigenteDeOtras DEF CambiarProcesoActivo, memoriaVars, swapVars
<1>8. UnaPregunta' /\ Preguntas' /\ Servidor' /\ Reparto' /\ Listas'
  BY <1>1, <1>7, SinMensajes DEF CambiarProcesoActivo, memoriaVars, swapVars
<1>9. TlbDeLaTabla' /\ TlbLista'
  BY <1>1, <1>2, <1>3, TlbConMenos DEF CambiarProcesoActivo
<1> QED
  BY <1>4, <1>5, <1>6, <1>8, <1>9 DEF Inv

(* The CPU ends its slice: the program waits, or its end is asked for.     *)
LEMMA InvDejarProceso ==
  ASSUME Inv, NEW c \in Cpus, DejarProceso(c)
  PROVE  Inv'
<1>1. /\ TypeOK /\ Servicio /\ Fases /\ MismosMarcos
  BY TablasIguales DEF Inv, DejarProceso, memoriaVars
<1> DEFINE p == lista_cpus[c]
<1>2. /\ hilo[c].en = "libre" /\ hilo'[c].en = "ocioso"
      /\ hilo'[c].acceso = hilo[c].acceso /\ hilo'[c].marco = hilo[c].marco
      /\ \A d \in Cpus \ {c} : hilo'[d] = hilo[d]
      /\ Atiende(c) /\ p \in Programas /\ proceso[p] = "exec"
      /\ proceso'[p] \in {"listo", "finalizar", "matar"}
      /\ \A q \in Programas \ {p} : proceso'[q] = proceso[q]
  BY <1>1 DEF DejarProceso, TypeOK, Servicio, Atiende
<1>3. UNCHANGED <<lista_cpus, lista_tablas, almacen, nucleo, servidor, buffer_programas,
                  lista_paginas_tlb, lista_procesos_activos>>
  BY DEF DejarProceso, memoriaVars, swapVars
<1>4. TypeOK'
  <2>1. proceso' \in [Programas -> Estados]
    BY <1>1 DEF TypeOK, DejarProceso, Estados
  <2>2. hilo' \in [Cpus -> [en : {"cerrado", "ocioso", "libre", "acceder", "swap", "muerto"},
                            acceso : Pedidos \cup {NULO}, marco : 0..MARCOS]]
    <3>1. hilo \in [Cpus -> [en : {"cerrado", "ocioso", "libre", "acceder", "swap", "muerto"},
                             acceso : Pedidos \cup {NULO}, marco : 0..MARCOS]]
      BY <1>1 DEF TypeOK
    <3>2. hilo' = [hilo EXCEPT ![c].en = "ocioso"]
      BY DEF DejarProceso
    <3> QED
      BY <3>1, <3>2
  <2>3. UNCHANGED <<memoriaVars, lista_paginas_tlb, lista_cpus, lista_procesos_activos,
                    buffer_programas, servidor, nucleo, consola, swapVars, respuesta>>
    BY DEF DejarProceso
  <2> HIDE DEF DejarProceso
  <2> QED
    BY <1>1, <2>1, <2>2, <2>3 DEF TypeOK, memoriaVars, swapVars
<1>5. Servicio'
  <2>1. \A d \in Cpus \ {c} : Atiende(d) => lista_cpus[d] # p
    BY <1>1, <1>2 DEF Servicio
  <2> QED
    BY <1>1, <1>2, <1>3, <2>1 DEF Servicio, Atiende, Accede
<1>6. Fases'
  <2>1. nucleo # p /\ p \in DOMAIN lista_tablas /\ p \in DOMAIN almacen
    BY <1>2, <1>1, SupuestoNulo DEF Fases, Vivos
  <2>2. proceso'[p] # "no"
    BY <1>2
  <2> QED
    BY <1>1, <1>2, <1>3, <2>1, <2>2, FasesDeUno
<1>7. \A m \in Mensajes : Vigente(m) => Vigente(m)'
  BY <1>2, <1>3, VigenteDeOtras
<1>8. UnaPregunta' /\ Preguntas' /\ Servidor' /\ Reparto' /\ Listas'
  BY <1>1, <1>7, SinMensajes DEF DejarProceso, memoriaVars, swapVars
<1>9. TlbDeLaTabla' /\ TlbLista'
  BY <1>1, <1>2, <1>3, TlbIgual
<1> QED
  BY <1>4, <1>5, <1>6, <1>8, <1>9 DEF Inv

(* finalizar_cpu: the row of the CPU goes.                                 *)
LEMMA InvFinalizarCpu ==
  ASSUME Inv, NEW c \in Cpus, FinalizarCpu(c)
  PROVE  Inv'
<1>1. /\ TypeOK /\ Servicio /\ Fases /\ MismosMarcos
  BY TablasIguales DEF Inv, FinalizarCpu, memoriaVars
<1>2. /\ hilo[c].en = "ocioso" /\ hilo'[c].en = "cerrado"
      /\ hilo'[c].acceso = hilo[c].acceso /\ hilo'[c].marco = hilo[c].marco
      /\ DOMAIN lista_cpus' = DOMAIN lista_cpus \ {c}
      /\ \A d \in Cpus \ {c} : /\ hilo'[d] = hilo[d]
                               /\ d \in DOMAIN lista_cpus => lista_cpus'[d] = lista_cpus[d]
  BY <1>1 DEF FinalizarCpu, TypeOK, Quitada, Restrict
<1>3. UNCHANGED <<lista_tablas, almacen, nucleo, servidor, buffer_programas,
                  lista_procesos_activos, proceso>>
  BY DEF FinalizarCpu, memoriaVars, swapVars
<1>4. /\ lista_paginas_tlb \in Seq(Entradas)
      /\ Parte(lista_paginas_tlb', lista_paginas_tlb)
  <2>1. \E p : lista_paginas_tlb' = TlbSinPrograma(p)
    BY DEF FinalizarCpu
  <2>2. lista_paginas_tlb \in Seq(Entradas)
    BY <1>1 DEF TypeOK, Entradas
  <2> QED
    BY <2>1, <2>2, SinPrograma
<1>5. TypeOK'
  <2>1. lista_paginas_tlb' \in Seq(Entradas)
    BY <1>4 DEF Parte
  <2> QED
    BY <1>1, <2>1, ZenonT(30) DEF TypeOK, FinalizarCpu, Entradas, Quitada, Restrict, memoriaVars, swapVars
<1>6. Servicio'
  BY <1>1, <1>2, <1>3 DEF Servicio, Atiende, Accede
<1>7. Fases'
  BY <1>1, <1>3, FasesIguales
<1>8. \A m \in Mensajes : Vigente(m) => Vigente(m)'
  BY <1>2, <1>3, VigenteDeOtras
<1>9. UnaPregunta' /\ Preguntas' /\ Servidor' /\ Reparto' /\ Listas'
  BY <1>1, <1>8, SinMensajes DEF FinalizarCpu, memoriaVars, swapVars
<1>10. TlbDeLaTabla' /\ TlbLista'
  <2>1. \A d \in Cpus : hilo'[d].en = "acceder" =>
          hilo'[d] = hilo[d] /\ lista_cpus'[d] = lista_cpus[d]
    BY <1>1, <1>2 DEF Servicio
  <2> QED
    BY <1>1, <1>3, <1>4, <2>1, TlbConMenos
<1> QED
  BY <1>5, <1>6, <1>7, <1>9, <1>10 DEF Inv

(* A CPU that dies, in the middle of an access or not.                     *)
LEMMA InvMorirCpu ==
  ASSUME Inv, NEW c \in Cpus, MorirCpu(c)
  PROVE  Inv'
<1>1. /\ TypeOK /\ Servicio /\ Fases /\ MismosMarcos
  BY TablasIguales DEF Inv, MorirCpu, memoriaVars
<1> DEFINE p == lista_cpus[c]
<1>2. /\ hilo[c].en \in {"ocioso", "libre", "swap"}
      /\ hilo'[c].en = IF hilo[c].en = "swap" THEN "muerto" ELSE "cerrado"
      /\ hilo'[c].acceso = hilo[c].acceso /\ hilo'[c].marco = hilo[c].marco
      /\ \A d \in Cpus \ {c} : hilo'[d] = hilo[d]
  BY <1>1 DEF MorirCpu, TypeOK
<1>3. UNCHANGED <<lista_cpus, lista_tablas, almacen, nucleo, servidor, buffer_programas,
                  lista_paginas_tlb, lista_procesos_activos>>
  BY DEF MorirCpu, memoriaVars, swapVars
<1>4. \/ hilo[c].en = "ocioso" /\ proceso' = proceso
      \/ /\ hilo[c].en # "ocioso" /\ Atiende(c) /\ p \in Programas /\ proceso[p] = "exec"
         /\ proceso'[p] = "perdido" /\ \A q \in Programas \ {p} : proceso'[q] = proceso[q]
  BY <1>1, <1>2 DEF MorirCpu, TypeOK, Servicio, Atiende
<1>5. TypeOK'
  <2>1. proceso' \in [Programas -> Estados]
    BY <1>1, <1>4 DEF TypeOK, MorirCpu, Estados
  <2>2. hilo' \in [Cpus -> [en : {"cerrado", "ocioso", "libre", "acceder", "swap", "muerto"},
                            acceso : Pedidos \cup {NULO}, marco : 0..MARCOS]]
    <3> DEFINE x == IF hilo[c].en = "swap" THEN "muerto" ELSE "cerrado"
    <3>1. x \in {"cerrado", "muerto"} /\ hilo' = [hilo EXCEPT ![c].en = x]
      BY DEF MorirCpu
    <3>2. hilo \in [Cpus -> [en : {"cerrado", "ocioso", "libre", "acceder", "swap", "muerto"},
                             acceso : Pedidos \cup {NULO}, marco : 0..MARCOS]]
      BY <1>1 DEF TypeOK
    <3> HIDE DEF x
    <3> QED
      BY <3>1, <3>2
  <2> QED
    BY <1>1, <2>1, <2>2 DEF TypeOK, MorirCpu, memoriaVars, swapVars
<1>6. Servicio'
  <2>1. CASE hilo[c].en = "ocioso"
    BY <1>1, <1>2, <1>3, <1>4, <2>1 DEF Servicio, Atiende, Accede
  <2>2. CASE hilo[c].en # "ocioso"
    <3>1. \A d \in Cpus \ {c} : Atiende(d) => lista_cpus[d] # p
      BY <1>1, <1>4, <2>2 DEF Servicio
    <3> QED
      BY <1>1, <1>2, <1>3, <1>4, <2>2, <3>1 DEF Servicio, Atiende, Accede
  <2> QED
    BY <2>1, <2>2
<1>7. Fases'
  <2>1. CASE proceso' = proceso
    BY <1>1, <1>3, <2>1, FasesIguales
  <2>2. CASE proceso' # proceso
    <3>1. p \in Programas /\ proceso[p] = "exec" /\ proceso'[p] = "perdido"
      BY <1>4, <2>2
    <3>2. nucleo # p /\ p \in DOMAIN lista_tablas /\ p \in DOMAIN almacen
      BY <1>1, <3>1, SupuestoNulo DEF Fases, Vivos
    <3>3. \A q \in Programas \ {p} : proceso'[q] = proceso[q]
      BY <1>4, <2>2
    <3> QED
      BY <1>1, <1>3, <3>1, <3>2, <3>3, FasesDeUno
  <2> QED
    BY <2>1, <2>2
<1>8. ASSUME NEW m \in Mensajes, Vigente(m)
      PROVE  Vigente(m)'
  <2>1. CASE hilo[c].en # "swap"
    <3>1. \A q \in Programas : proceso'[q] = proceso[q] \/ (Atiende(c) /\ lista_cpus[c] = q)
      BY <1>4
    <3>2. \A x \in Mensajes : Vigente(x) => Vigente(x)'
      BY <1>2, <1>3, <2>1, <3>1, VigenteDeOtras
    <3> QED
      BY <1>8, <3>2
  <2>2. CASE hilo[c].en = "swap"
    <3>1. p \in Programas /\ proceso[p] = "exec" /\ \A q \in Programas \ {p} : proceso'[q] = proceso[q]
      BY <1>4, <2>2
    <3>2. m.id \in {"leer", "escribir"} => MismaEspera(m.socket)
      BY <1>2, <1>3, <1>8, <2>2 DEF MismaEspera, Vigente
    <3>3. m.pid \in Programas
      BY DEF Mensajes
    <3>4. CASE m.id \in {"leer", "escribir"}
      BY <1>3, <1>8, <3>2, <3>4 DEF Vigente, MismaEspera
    <3>5. CASE m.id \notin {"leer", "escribir"}
      <4>1. proceso'[m.pid] = proceso[m.pid] \/ m.id = "guardar"
        BY <1>8, <3>1, <3>3, <3>5 DEF Vigente, Mensajes
      <4> QED
        BY <1>3, <1>8, <3>5, <4>1 DEF Vigente
    <3> QED
      BY <3>4, <3>5
  <2> QED
    BY <2>1, <2>2
<1>9. UnaPregunta' /\ Preguntas' /\ Servidor' /\ Reparto' /\ Listas'
  BY <1>1, <1>8, SinMensajes DEF MorirCpu, memoriaVars, swapVars
<1>10. TlbDeLaTabla' /\ TlbLista'
  <2>1. \A d \in Cpus : hilo'[d].en = "acceder" => hilo'[d] = hilo[d]
    BY <1>2
  <2> QED
    BY <1>1, <1>3, <2>1, TlbIgual
<1> QED
  BY <1>5, <1>6, <1>7, <1>9, <1>10 DEF Inv

-----------------------------------------------------------------------------
(* An access, until its page is looked for.                                *)
LEMMA InvPedirInvalida ==
  ASSUME Inv, NEW c \in Cpus, NEW a \in Pedidos, PedirInvalida(c, a)
  PROVE  Inv'
<1>1. /\ UNCHANGED <<memoriaVars, lista_paginas_tlb, lista_cpus, lista_procesos_activos,
                     buffer_programas, hilo, servidor, nucleo, consola, swapVars, proceso>>
      /\ respuesta' = Error /\ TypeOK /\ MismosMarcos
  BY TablasIguales DEF PedirInvalida, Inv, memoriaVars
<1>2. TypeOK'
  BY <1>1 DEF TypeOK, memoriaVars, swapVars
<1>3. Servicio' /\ Fases'
  BY <1>1, ServicioIgual, FasesIguales DEF Inv, memoriaVars, swapVars
<1>4. \A m \in Mensajes : Vigente(m) => Vigente(m)'
  BY <1>1 DEF Vigente, memoriaVars, swapVars
<1>5. UnaPregunta' /\ Preguntas' /\ Servidor' /\ Reparto' /\ Listas'
  BY <1>1, <1>4, SinMensajes DEF memoriaVars, swapVars
<1>6. TlbDeLaTabla' /\ TlbLista'
  BY <1>1, TlbIgual
<1> QED
  BY <1>2, <1>3, <1>5, <1>6 DEF Inv

(* An access begins: the TLB is looked up, and the mutex released.         *)
LEMMA InvPedir ==
  ASSUME Inv, NEW c \in Cpus, NEW a \in Pedidos, Pedir(c, a)
  PROVE  Inv'
<1>1. /\ TypeOK /\ Servicio /\ Fases /\ MismosMarcos /\ TlbExacta /\ TlbLista
      /\ \A d \in Cpus : ConMarco(d)
  BY TablasIguales, PartesDeLaTlb DEF Inv, Pedir, memoriaVars
<1> DEFINE p == lista_cpus[c]
           f == MarcoTlb(p, a.pagina)
<1>2. UNCHANGED <<memoriaVars, lista_cpus, lista_procesos_activos, buffer_programas,
                  servidor, nucleo, consola, swapVars, proceso>>
  BY DEF Pedir
<1>3. /\ hilo[c].en = "libre" /\ a \in Accesos[p] /\ a.pagina <= PaginasDe[p] - 1
      /\ p \in Programas
  BY <1>1 DEF Pedir, Servicio, Atiende
<1>4. a.pagina \in PaginasDelPid(p)
  <2>1. Accesos[p] \in SUBSET [op : {"leer", "escribir"}, pagina : 0..MaxPaginas,
                               palabra : Palabras, dato : Datos]
    BY <1>3, SupuestoUmc
  <2>2. PaginasDe[p] \in 1..MaxPaginas /\ MaxPaginas \in Nat
    BY <1>3, SupuestoUmc
  <2>3. a.pagina \in 0..MaxPaginas
    BY <1>3, <2>1
  <2> QED
    BY <1>3, <2>2, <2>3 DEF PaginasDelPid
<1>5. /\ Parte(lista_paginas_tlb', lista_paginas_tlb)
      /\ f \in 0..MARCOS
      /\ f # 0 => \E k \in 1..Len(lista_paginas_tlb) :
           /\ lista_paginas_tlb[k].pid = p /\ lista_paginas_tlb[k].pagina = a.pagina
           /\ lista_paginas_tlb[k].frame = f
      /\ f = 0 => /\ lista_paginas_tlb' = lista_paginas_tlb
                  /\ \A k \in 1..Len(lista_paginas_tlb) :
                       ~(lista_paginas_tlb[k].pid = p /\ lista_paginas_tlb[k].pagina = a.pagina)
  <2>1. lista_paginas_tlb \in Seq(Entradas) /\ Len(lista_paginas_tlb) <= ENTRADAS_TLB
    BY <1>1, DeLaTlb
  <2>2. lista_paginas_tlb' = TlbBuscada(p, a.pagina)
    BY DEF Pedir
  <2> QED
    BY <2>1, <2>2, TrasBuscar
<1>6. hilo' = [hilo EXCEPT ![c] = Hilo("acceder", a, f)]
  BY DEF Pedir
<1> HIDE DEF f
<1>7. /\ hilo'[c] = Hilo("acceder", a, f)
      /\ \A d \in Cpus \ {c} : hilo'[d] = hilo[d]
  BY <1>1, <1>6 DEF TypeOK
<1>8. TypeOK'
  <2>1. lista_paginas_tlb' \in Seq(Entradas)
    BY <1>5 DEF Parte
  <2>2. Hilo("acceder", a, f) \in
          [en : {"cerrado", "ocioso", "libre", "acceder", "swap", "muerto"},
           acceso : Pedidos \cup {NULO}, marco : 0..MARCOS]
    BY <1>5 DEF Hilo
  <2>3. hilo' \in [Cpus -> [en : {"cerrado", "ocioso", "libre", "acceder", "swap", "muerto"},
                            acceso : Pedidos \cup {NULO}, marco : 0..MARCOS]]
    BY <1>1, <1>6, <2>2 DEF TypeOK
  <2>4. respuesta' = NULO
    BY DEF Pedir
  <2> QED
    BY <1>1, <1>2, <2>1, <2>3, <2>4 DEF TypeOK, Entradas, memoriaVars, swapVars
<1>9. Servicio'
  BY <1>1, <1>2, <1>3, <1>4, <1>7 DEF Servicio, Atiende, Accede, Hilo
<1>10. Fases'
  BY <1>1, <1>2, FasesIguales DEF memoriaVars, swapVars
<1>11. \A m \in Mensajes : Vigente(m) => Vigente(m)'
  BY <1>2, <1>3, <1>7, VigenteDeOtras DEF memoriaVars, swapVars
<1>12. UnaPregunta' /\ Preguntas' /\ Servidor' /\ Reparto' /\ Listas'
  BY <1>1, <1>2, <1>11, SinMensajes DEF memoriaVars, swapVars
<1>13. /\ TlbExacta' /\ lista_paginas_tlb' \in Seq(Entradas)
       /\ \A k \in DOMAIN lista_paginas_tlb' :
            \E j \in DOMAIN lista_paginas_tlb : lista_paginas_tlb'[k] = lista_paginas_tlb[j]
  BY <1>1, <1>5, SiguenTodas, TlbMenos
<1>14. ASSUME NEW d \in Cpus
       PROVE  ConMarco(d)'
  <2>1. CASE d = c
    <3>1. ASSUME f # 0
          PROVE  Presente(p, a.pagina) /\ lista_tablas[p][a.pagina].frame = f
      <4>1. \A k \in 1..Len(lista_paginas_tlb) : Vale(lista_paginas_tlb[k])
        BY <1>1, DeLaTlb
      <4> QED
        BY <1>5, <3>1, <4>1 DEF Vale
    <3> QED
      BY <1>1, <1>2, <1>7, <2>1, <3>1, PresentesIguales DEF ConMarco, Hilo
  <2>2. CASE d # c
    <3>1. hilo'[d] = hilo[d]
      BY <1>7, <2>2
    <3> QED
      BY <1>1, <1>2, <3>1, PresentesIguales DEF ConMarco
  <2> QED
    BY <2>1, <2>2
<1>15. TlbDeLaTabla'
  <2>1. TlbDeLaTabla' <=> TlbExacta' /\ \A d \in Cpus : ConMarco(d)'
    BY DEF TlbDeLaTabla, TlbExacta, ConMarco
  <2> QED
    BY <1>13, <1>14, <2>1
<1>16. TlbLista'
  <2>1. ASSUME NEW d \in Cpus, hilo'[d].en = "acceder" /\ hilo'[d].marco = 0,
               NEW k \in DOMAIN lista_paginas_tlb',
               lista_paginas_tlb'[k].pid = lista_cpus[d],
               lista_paginas_tlb'[k].pagina = hilo'[d].acceso.pagina
        PROVE  FALSE
    <3>1. PICK j \in DOMAIN lista_paginas_tlb : lista_paginas_tlb'[k] = lista_paginas_tlb[j]
      BY <1>13
    <3>2. CASE d = c
      <4>1. f = 0 /\ hilo'[d].acceso = a
        BY <1>7, <2>1, <3>2 DEF Hilo
      <4>2. DOMAIN lista_paginas_tlb = 1..Len(lista_paginas_tlb)
        BY <1>1, DeLaTlb
      <4> QED
        BY <1>5, <2>1, <3>1, <3>2, <4>1, <4>2
    <3>3. CASE d # c
      <4>1. hilo'[d] = hilo[d]
        BY <1>7, <3>3
      <4> QED
        BY <1>1, <2>1, <3>1, <4>1 DEF TlbLista
    <3> QED
      BY <3>2, <3>3
  <2>2. /\ \A k \in DOMAIN lista_paginas_tlb' : lista_paginas_tlb'[k].pid # nucleo
        /\ servidor.en = "responder" =>
             \A k \in DOMAIN lista_paginas_tlb' :
               ~ /\ lista_paginas_tlb'[k].pid = servidor.mensaje.pid
                 /\ lista_paginas_tlb'[k].pagina = servidor.mensaje.pagina
    BY <1>1, <1>13 DEF TlbLista
  <2> QED
    BY <1>2, <2>1, <2>2 DEF TlbLista
<1> QED
  BY <1>8, <1>9, <1>10, <1>12, <1>15, <1>16 DEF Inv

(* The page is asked to the SWAP.                                          *)
LEMMA InvPedirASwap ==
  ASSUME Inv, NEW c \in Cpus, PedirASwap(c)
  PROVE  Inv'
<1>1. /\ TypeOK /\ Servicio /\ Fases /\ MismosMarcos
  BY TablasIguales DEF Inv, PedirASwap, memoriaVars
<1> DEFINE p == lista_cpus[c]
           a == hilo[c].acceso
<1>2. UNCHANGED <<memoriaVars, lista_paginas_tlb, lista_cpus, lista_procesos_activos,
                  servidor, nucleo, consola, deSwap, almacen, proceso, respuesta>>
  BY DEF PedirASwap
<1>3. /\ hilo[c].en = "acceder" /\ hilo[c].marco = 0 /\ ~lista_tablas[p][a.pagina].presencia
      /\ p \in Programas /\ a \in Accesos[p] /\ a.pagina \in PaginasDelPid(p)
      /\ Atiende(c) /\ proceso[p] = "exec"
  BY <1>1 DEF PedirASwap, Servicio, Atiende, Accede
<1>4. /\ a \in Pedidos /\ a.op \in {"leer", "escribir"} /\ a.pagina \in 0..(MaxPaginas - 1)
  <2>1. Accesos[p] \in SUBSET [op : {"leer", "escribir"}, pagina : 0..MaxPaginas,
                               palabra : Palabras, dato : Datos]
    BY <1>3, SupuestoUmc
  <2>2. PaginasDe[p] \in 1..MaxPaginas /\ MaxPaginas \in Nat
    BY <1>3, SupuestoUmc
  <2>3. a \in Pedidos
    BY <1>3, SupuestoUmc DEF Pedidos, Range
  <2> QED
    BY <1>3, <2>1, <2>2, <2>3 DEF PaginasDelPid
<1>5. PICK e : e = Mensaje(a.op, p, a.pagina, c, NULO)
  OBVIOUS
<1>6. /\ hilo' = [hilo EXCEPT ![c].en = "swap"]
      /\ buffer_programas' = [buffer_programas EXCEPT ![p] = [tipo |-> "acceso", acceso |-> a]]
      /\ aSwap' = Append(aSwap, e)
  BY <1>5 DEF PedirASwap, Enviar
<1>7. e \in Mensajes
  BY <1>3, <1>4, <1>5 DEF Mensaje, Mensajes
<1>8. /\ e.id = a.op /\ e.pid = p /\ e.pagina = a.pagina /\ e.socket = c /\ e.valor = NULO
  BY <1>5 DEF Mensaje
<1>9. /\ hilo'[c].en = "swap" /\ hilo'[c].acceso = a /\ hilo'[c].marco = 0
      /\ \A d \in Cpus \ {c} : hilo'[d] = hilo[d]
      /\ buffer_programas'[p] = [tipo |-> "acceso", acceso |-> a]
      /\ \A q \in Programas \ {p} : buffer_programas'[q] = buffer_programas[q]
  BY <1>1, <1>3, <1>6 DEF TypeOK
<1> HIDE DEF a
<1>10. SinPreguntas(p)
  BY <1>3, Callado
<1>11. UnaPregunta' /\ aSwap' \in Seq(Mensajes)
  <2>1. Pregunta(e)
    BY <1>4, <1>8 DEF Pregunta
  <2>2. \A q : EnManos(q)' <=> EnManos(q)
    BY <1>2 DEF EnManos
  <2> QED
    BY <1>1, <1>2, <1>6, <1>7, <1>8, <1>10, <2>1, <2>2, UnaPreguntaMas DEF Inv
<1>12. TypeOK'
  <2>1. hilo' \in [Cpus -> [en : {"cerrado", "ocioso", "libre", "acceder", "swap", "muerto"},
                            acceso : Pedidos \cup {NULO}, marco : 0..MARCOS]]
    <3>1. hilo \in [Cpus -> [en : {"cerrado", "ocioso", "libre", "acceder", "swap", "muerto"},
                            acceso : Pedidos \cup {NULO}, marco : 0..MARCOS]]
      BY <1>1 DEF TypeOK
    <3> QED
      BY <1>6, <3>1
  <2>2. buffer_programas' \in [Programas -> Buffers \cup {NULO}]
    <3>1. [tipo |-> "acceso", acceso |-> a] \in Buffers
      BY <1>4 DEF Buffers
    <3>2. buffer_programas \in [Programas -> Buffers \cup {NULO}]
      BY <1>1 DEF TypeOK
    <3> QED
      BY <1>6, <3>1, <3>2
  <2> QED
    BY <1>1, <1>2, <1>11, <2>1, <2>2 DEF TypeOK, memoriaVars
<1>13. Servicio'
  BY <1>1, <1>2, <1>3, <1>9 DEF Servicio, Atiende, Accede, a
<1>14. Fases'
  <2>1. nucleo # p /\ p \in DOMAIN lista_tablas /\ p \in DOMAIN almacen
    BY <1>1, <1>3, SupuestoNulo DEF Fases, Vivos
  <2> QED
    BY <1>1, <1>2, <1>3, <1>9, <2>1, FasesDeUno DEF memoriaVars
<1>15. \A m \in Mensajes : Vigente(m) => Vigente(m)'
  <2>1. \A q \in Programas : \/ proceso'[q] = proceso[q] /\ buffer_programas'[q] = buffer_programas[q]
                             \/ Atiende(c) /\ lista_cpus[c] = q
    BY <1>2, <1>3, <1>9
  <2> QED
    BY <1>2, <1>3, <1>9, <2>1, VigenteDeOtras DEF memoriaVars
<1>16. Preguntas' /\ Servidor'
  <2>1. NadaNuevo
    BY <1>1, PresentesIguales DEF NadaNuevo
  <2>2. Vigente(e)'
    BY <1>2, <1>3, <1>4, <1>8, <1>9 DEF Vigente
  <2>3. PorServir(e)'
    BY <1>2, <1>3, <1>4, <1>8 DEF PorServir, Presente, memoriaVars
  <2>4. Preguntas'
    BY <1>1, <1>2, <1>6, <1>7, <1>15, <2>1, <2>2, <2>3, PreguntasConUna DEF Inv
  <2> QED
    BY <1>1, <1>2, <1>15, <2>4, ServidorIgual DEF Inv, memoriaVars
<1>17. Reparto' /\ Listas'
  BY <1>1, <1>2, RepartoIgual, ListasIguales DEF Inv, memoriaVars
<1>18. TlbDeLaTabla' /\ TlbLista'
  BY <1>1, <1>2, <1>9, TlbIgual
<1> QED
  BY <1>11, <1>12, <1>13, <1>14, <1>16, <1>17, <1>18 DEF Inv

-----------------------------------------------------------------------------
(* An access to a page that is in its frame.                               *)
LEMMA TrasAcceder ==
  ASSUME TypeOK, NEW p \in Programas, NEW f \in Marcos,
         NEW a \in [op : {"leer", "escribir"}, pagina : 0..MaxPaginas,
                    palabra : Palabras, dato : Datos],
         Presente(p, a.pagina), lista_tablas[p][a.pagina].frame = f, Acceder(p, a, f)
  PROVE  /\ MismosMarcos
         /\ memoria_principal' \in [Marcos -> Contenidos]
         /\ respuesta' \in Datos \cup {Exito, Error, NULO}
<1> DEFINE i == a.pagina
           fila == lista_tablas[p][i]
<1>1. /\ p \in DOMAIN lista_tablas /\ i \in PaginasDelPid(p) /\ fila.presencia
      /\ lista_tablas[p] \in [PaginasDelPid(p) -> Filas]
      /\ \A q \in DOMAIN lista_tablas : lista_tablas[q] \in [PaginasDelPid(q) -> Filas]
  BY DEF TypeOK, Presente
<1>2. memoria_principal \in [Marcos -> Contenidos] /\ memoria_principal[f] \in Contenidos
  BY DEF TypeOK
<1>3. a.palabra \in Palabras /\ a.dato \in Datos /\ a.op \in {"leer", "escribir"}
  OBVIOUS
<1>4. ASSUME NEW fila1 \in Filas, fila1.presencia = fila.presencia, fila1.frame = fila.frame,
             lista_tablas' = [lista_tablas EXCEPT ![p][i] = fila1]
      PROVE  MismosMarcos
  <2>1. /\ DOMAIN lista_tablas' = DOMAIN lista_tablas
        /\ lista_tablas'[p] = [lista_tablas[p] EXCEPT ![i] = fila1]
        /\ \A q \in DOMAIN lista_tablas \ {p} : lista_tablas'[q] = lista_tablas[q]
    BY <1>1, <1>4
  <2>2. lista_tablas'[p] \in [PaginasDelPid(p) -> Filas]
    BY <1>1, <2>1
  <2>3. \A j \in PaginasDelPid(p) : /\ lista_tablas'[p][j].presencia = lista_tablas[p][j].presencia
                                    /\ lista_tablas'[p][j].frame = lista_tablas[p][j].frame
    BY <1>1, <1>4, <2>1
  <2> QED
    BY <1>1, <2>1, <2>2, <2>3 DEF MismosMarcos
<1>5. CASE a.op = "leer"
  <2>1. /\ lista_tablas' = [lista_tablas EXCEPT ![p][i].uso = TRUE]
        /\ respuesta' = memoria_principal[f][a.palabra]
        /\ memoria_principal' = memoria_principal
    BY <1>5 DEF Acceder
  <2>2. memoria_principal[f][a.palabra] \in Datos
    BY <1>2, <1>3 DEF Contenidos
  <2>3. lista_tablas' = [lista_tablas EXCEPT ![p][i] = [fila EXCEPT !.uso = TRUE]]
    BY <2>1
  <2>4. /\ [fila EXCEPT !.uso = TRUE] \in Filas
        /\ [fila EXCEPT !.uso = TRUE].presencia = fila.presencia
        /\ [fila EXCEPT !.uso = TRUE].frame = fila.frame
    BY <1>1, ZenonT(30) DEF Filas
  <2> QED
    BY <1>2, <1>4, <2>1, <2>2, <2>3, <2>4
<1>6. CASE a.op # "leer"
  <2> DEFINE fila1 == Fila(fila.frame, fila.presencia, fila.modificado \/ fila.presencia, TRUE)
  <2>1. /\ memoria_principal' = [memoria_principal EXCEPT ![f][a.palabra] = a.dato]
        /\ lista_tablas' = [lista_tablas EXCEPT ![p][i] = fila1]
        /\ respuesta' = Exito
    BY <1>6 DEF Acceder
  <2>2. memoria_principal' \in [Marcos -> Contenidos]
    <3>1. memoria_principal' = [memoria_principal EXCEPT
                                  ![f] = [memoria_principal[f] EXCEPT ![a.palabra] = a.dato]]
      BY <2>1
    <3>2. [memoria_principal[f] EXCEPT ![a.palabra] = a.dato] \in Contenidos
      BY <1>2, <1>3 DEF Contenidos
    <3> QED
      BY <1>2, <3>1, <3>2
  <2>3. /\ fila1 \in Filas /\ fila1.presencia = fila.presencia /\ fila1.frame = fila.frame
    BY <1>1 DEF Fila, Filas
  <2> QED
    BY <1>4, <2>1, <2>2, <2>3
<1> QED
  BY <1>5, <1>6

(* What the two ways to the page have in common.                           *)
LEMMA InvAcceder ==
  ASSUME Inv, NEW c \in Cpus, NEW f \in Marcos, hilo[c].en = "acceder",
         Presente(lista_cpus[c], hilo[c].acceso.pagina),
         lista_tablas[lista_cpus[c]][hilo[c].acceso.pagina].frame = f,
         Acceder(lista_cpus[c], hilo[c].acceso, f), Contestar(c),
         lista_paginas_tlb' \in Seq(Entradas),
         UNCHANGED <<listas_algoritmo, libres, lista_cpus, lista_procesos_activos,
                     buffer_programas, servidor, nucleo, consola, swapVars, proceso>>
  PROVE  /\ TypeOK' /\ Servicio' /\ Fases' /\ UnaPregunta' /\ Preguntas' /\ Servidor'
         /\ Reparto' /\ Listas' /\ MismosMarcos
         /\ \A d \in Cpus : hilo'[d].en = "acceder" => d # c /\ hilo'[d] = hilo[d]
         /\ lista_cpus[c] \in Programas /\ Atiende(c)
<1> DEFINE p == lista_cpus[c]
           a == hilo[c].acceso
<1>1. /\ TypeOK /\ Servicio /\ Fases
  BY DEF Inv
<1>2. /\ Atiende(c) /\ p \in Programas /\ a \in Accesos[p] /\ proceso[p] = "exec"
  BY <1>1 DEF Servicio, Atiende, Accede
<1>3. a \in [op : {"leer", "escribir"}, pagina : 0..MaxPaginas,
             palabra : Palabras, dato : Datos]
  <2>1. Accesos[p] \in SUBSET [op : {"leer", "escribir"}, pagina : 0..MaxPaginas,
                               palabra : Palabras, dato : Datos]
    BY <1>2, SupuestoUmc
  <2> QED
    BY <1>2, <2>1
<1>4. /\ MismosMarcos
      /\ memoria_principal' \in [Marcos -> Contenidos]
      /\ respuesta' \in Datos \cup {Exito, Error, NULO}
  BY <1>1, <1>2, <1>3, TrasAcceder
<1>5. /\ hilo' = [hilo EXCEPT ![c] = Hilo("libre", NULO, 0)]
      /\ hilo'[c] = Hilo("libre", NULO, 0)
      /\ \A d \in Cpus \ {c} : hilo'[d] = hilo[d]
  BY <1>1 DEF Contestar, TypeOK
<1>6. TypeOK'
  <2>1. /\ DOMAIN lista_tablas' = DOMAIN lista_tablas
        /\ \A q \in DOMAIN lista_tablas : lista_tablas'[q] \in [PaginasDelPid(q) -> Filas]
    BY <1>4 DEF MismosMarcos
  <2>2. hilo' \in [Cpus -> [en : {"cerrado", "ocioso", "libre", "acceder", "swap", "muerto"},
                            acceso : Pedidos \cup {NULO}, marco : 0..MARCOS]]
    <3>1. /\ hilo \in [Cpus -> [en : {"cerrado", "ocioso", "libre", "acceder", "swap", "muerto"},
                                acceso : Pedidos \cup {NULO}, marco : 0..MARCOS]]
          /\ 0 \in 0..MARCOS
      BY <1>1, SupuestoUmc DEF TypeOK
    <3> QED
      BY <1>5, <3>1 DEF Hilo
  <2> QED
    BY <1>1, <1>4, <2>1, <2>2 DEF TypeOK, Entradas, swapVars
<1>7. Servicio'
  BY <1>1, <1>2, <1>5 DEF Servicio, Atiende, Accede, Hilo
<1>8. DOMAIN lista_tablas' = DOMAIN lista_tablas
  BY <1>4 DEF MismosMarcos
<1>9. Fases'
  BY <1>1, <1>8, FasesIguales DEF swapVars
<1>10. \A m \in Mensajes : Vigente(m) => Vigente(m)'
  BY <1>5, <1>8, VigenteDeOtras DEF swapVars
<1>11. UnaPregunta' /\ Preguntas' /\ Servidor' /\ Reparto' /\ Listas'
  BY <1>4, <1>10, SinMensajes DEF swapVars
<1> QED
  BY <1>2, <1>4, <1>5, <1>6, <1>7, <1>9, <1>11 DEF Hilo

(* The frame buscar_pagina_tlb gave is still the one of the page.          *)
LEMMA InvAccederPorTlb ==
  ASSUME Inv, NEW c \in Cpus, AccederPorTlb(c)
  PROVE  Inv'
<1> DEFINE p == lista_cpus[c]
           i == hilo[c].acceso.pagina
<1>1. PICK f : f = hilo[c].marco
  OBVIOUS
<1>2. /\ hilo[c].en = "acceder" /\ f # 0
      /\ Acceder(p, hilo[c].acceso, f) /\ Contestar(c)
      /\ UNCHANGED <<listas_algoritmo, libres, lista_paginas_tlb, lista_cpus,
                     lista_procesos_activos, buffer_programas, servidor, nucleo, consola,
                     swapVars, proceso>>
  BY <1>1 DEF AccederPorTlb
<1>3. Presente(p, i) /\ lista_tablas[p][i].frame = f /\ f \in Marcos
  <2>1. ConMarco(c) /\ TypeOK
    BY PartesDeLaTlb DEF Inv
  <2>2. f \in 0..MARCOS
    BY <1>1, <2>1 DEF TypeOK
  <2>3. f \in Marcos
    BY <1>2, <2>2, SupuestoUmc DEF Marcos
  <2> QED
    BY <1>1, <1>2, <2>1, <2>3 DEF ConMarco
<1>4. lista_paginas_tlb' \in Seq(Entradas)
  BY <1>2 DEF Inv, TypeOK, Entradas
<1>5. /\ TypeOK' /\ Servicio' /\ Fases' /\ UnaPregunta' /\ Preguntas' /\ Servidor'
      /\ Reparto' /\ Listas' /\ MismosMarcos
      /\ \A d \in Cpus : hilo'[d].en = "acceder" => d # c /\ hilo'[d] = hilo[d]
  BY <1>2, <1>3, <1>4, InvAcceder
<1>6. TlbDeLaTabla' /\ TlbLista'
  BY <1>2, <1>5, TlbIgual
<1> QED
  BY <1>5, <1>6 DEF Inv

(* guardar_en_TLB, with the frame of a page that is in memory and has no   *)
(* entry.                                                                  *)
LEMMA TlbConTipo ==
  ASSUME Inv, NEW p, NEW i, NEW f, Presente(p, i), lista_tablas[p][i].frame = f
  PROVE  /\ Tlb(p, i, f) \in Entradas /\ f \in Marcos
         /\ TlbCon(Tlb(p, i, f)) \in Seq(Entradas)
<1>1. PICK e : e = Tlb(p, i, f)
  OBVIOUS
<1>2. TypeOK /\ TlbExacta /\ Reparto
  BY PartesDeLaTlb DEF Inv
<1>3. p \in Programas /\ i \in 0..MaxPaginas /\ i \in Nat
  BY <1>2, DeUnaPresente
<1>4. f \in Marcos
  BY <1>2, <1>3 DEF Reparto
<1>5. e \in Entradas
  BY <1>1, <1>3, <1>4 DEF Tlb, Entradas
<1>6. lista_paginas_tlb \in Seq(Entradas) /\ Len(lista_paginas_tlb) <= ENTRADAS_TLB
  BY <1>2, DeLaTlb
<1>7. TlbCon(e) \in Seq(Entradas)
  <2>1. CASE TlbCon(e) = lista_paginas_tlb
    BY <1>6, <2>1
  <2>2. CASE TlbCon(e) # lista_paginas_tlb
    <3>1. PICK r \in Seq(Entradas) : TlbCon(e) = Append(r, e)
      BY <1>5, <1>6, <2>2, TrasGuardar
    <3> QED
      BY <1>5, <3>1, AppendProperties
  <2> QED
    BY <2>1, <2>2
<1> QED
  BY <1>1, <1>4, <1>5, <1>7

(* guardar_en_TLB: the entry is that of its page, and of no other frame.   *)
LEMMA TlbConUnaMas ==
  ASSUME Inv, MismosMarcos, NEW p, NEW i, NEW f, Presente(p, i), lista_tablas[p][i].frame = f,
         lista_paginas_tlb' = TlbCon(Tlb(p, i, f)),
         \A k \in DOMAIN lista_paginas_tlb :
           ~(lista_paginas_tlb[k].pid = p /\ lista_paginas_tlb[k].pagina = i),
         nucleo' = nucleo, nucleo # p,
         \/ servidor'.en # "responder"
         \/ servidor' = servidor /\ (servidor.en = "responder" => servidor.mensaje.pid # p),
         UNCHANGED lista_cpus,
         \A d \in Cpus : hilo'[d].en = "acceder" => hilo'[d] = hilo[d] /\ lista_cpus[d] # p
  PROVE  TlbDeLaTabla' /\ TlbLista'
<1>1. PICK e : e = Tlb(p, i, f)
  OBVIOUS
<1>2. /\ TypeOK /\ TlbExacta /\ TlbLista /\ Reparto /\ \A d \in Cpus : ConMarco(d)
  BY PartesDeLaTlb DEF Inv
<1>3. e \in Entradas /\ e.pid = p /\ e.pagina = i /\ e.frame = f /\ lista_paginas_tlb' = TlbCon(e)
  BY <1>1, TlbConTipo DEF Tlb
<1>4. p \in Programas /\ i \in 0..MaxPaginas
  BY <1>2, DeUnaPresente
<1>5. \A k \in DOMAIN lista_paginas_tlb : lista_paginas_tlb[k].frame # f
  <2> SUFFICES ASSUME NEW k \in DOMAIN lista_paginas_tlb, lista_paginas_tlb[k].frame = f
               PROVE  FALSE
    OBVIOUS
  <2>1. PICK t : t = lista_paginas_tlb[k]
    OBVIOUS
  <2>2. Presente(t.pid, t.pagina) /\ lista_tablas[t.pid][t.pagina].frame = f
    BY <1>2, <2>1, DeLaTlb DEF Vale
  <2>3. t.pid \in Programas /\ t.pagina \in 0..MaxPaginas
    BY <1>2, <2>2, DeUnaPresente
  <2>4. t.pid = p /\ t.pagina = i
    BY <1>2, <1>4, <2>2, <2>3 DEF Reparto
  <2> QED
    BY <2>1, <2>4
<1>6. \A t : Sigue(t)
  BY <1>2, SiguenTodas
<1>7. Vale(e)'
  <2>1. Vale(e)
    BY <1>3 DEF Vale
  <2> QED
    BY <1>6, <2>1 DEF Sigue
<1>8. /\ TlbExacta'
      /\ \A k \in DOMAIN lista_paginas_tlb' :
           \/ lista_paginas_tlb'[k] = e
           \/ \E j \in DOMAIN lista_paginas_tlb : lista_paginas_tlb'[k] = lista_paginas_tlb[j]
  BY <1>2, <1>3, <1>5, <1>6, <1>7, TlbMas
<1>9. TlbDeLaTabla'
  <2>1. TlbDeLaTabla' <=> TlbExacta' /\ \A d \in Cpus : ConMarco(d)'
    BY DEF TlbDeLaTabla, TlbExacta, ConMarco
  <2>2. ASSUME NEW d \in Cpus
        PROVE  ConMarco(d)'
    <3>1. ConMarco(d)
      BY <1>2
    <3> QED
      BY <1>2, <3>1, PresentesIguales, SMTT(30) DEF ConMarco
  <2> QED
    BY <1>8, <2>1, <2>2
<1>10. TlbLista'
  <2>1. \A k \in DOMAIN lista_paginas_tlb' : lista_paginas_tlb'[k].pid # nucleo
    BY <1>2, <1>3, <1>8 DEF TlbLista
  <2>2. ASSUME NEW d \in Cpus, hilo'[d].en = "acceder" /\ hilo'[d].marco = 0
        PROVE  \A k \in DOMAIN lista_paginas_tlb' :
                 ~ /\ lista_paginas_tlb'[k].pid = lista_cpus[d]
                   /\ lista_paginas_tlb'[k].pagina = hilo'[d].acceso.pagina
    BY <1>2, <1>3, <1>8, <2>2 DEF TlbLista
  <2>3. servidor'.en = "responder" =>
          \A k \in DOMAIN lista_paginas_tlb' :
            ~ /\ lista_paginas_tlb'[k].pid = servidor'.mensaje.pid
              /\ lista_paginas_tlb'[k].pagina = servidor'.mensaje.pagina
    BY <1>2, <1>3, <1>8 DEF TlbLista
  <2> QED
    BY <2>1, <2>2, <2>3 DEF TlbLista
<1> QED
  BY <1>9, <1>10

(* The page is in memory: the access, and its entry in the TLB.            *)
LEMMA InvAccederPorTabla ==
  ASSUME Inv, NEW c \in Cpus, AccederPorTabla(c)
  PROVE  Inv'
<1>1. PICK p, i : p = lista_cpus[c] /\ i = hilo[c].acceso.pagina
  OBVIOUS
<1>2. PICK f : f = lista_tablas[p][i].frame
  OBVIOUS
<1>3. /\ hilo[c].en = "acceder" /\ hilo[c].marco = 0 /\ lista_tablas[p][i].presencia
      /\ Acceder(p, hilo[c].acceso, f) /\ Contestar(c)
      /\ lista_paginas_tlb' = TlbCon(Tlb(p, i, f))
      /\ UNCHANGED <<listas_algoritmo, libres, lista_cpus, lista_procesos_activos,
                     buffer_programas, servidor, nucleo, consola, swapVars, proceso>>
  BY <1>1, <1>2 DEF AccederPorTabla
<1>4. TypeOK /\ TlbLista /\ Servicio /\ Fases
  BY DEF Inv
<1>5. /\ p \in Programas /\ Presente(p, i) /\ Atiende(c) /\ proceso[p] = "exec"
  <2>1. p \in Programas /\ i \in PaginasDelPid(p) /\ Atiende(c) /\ proceso[p] = "exec"
    BY <1>1, <1>3, <1>4 DEF Servicio, Atiende, Accede
  <2>2. p \in DOMAIN lista_tablas
    BY <1>4, <2>1 DEF Fases, Vivos
  <2>3. lista_tablas[p] \in [PaginasDelPid(p) -> Filas]
    BY <1>4, <2>2 DEF TypeOK
  <2> QED
    BY <1>3, <2>1, <2>2, <2>3 DEF Presente
<1>6. f \in Marcos /\ lista_paginas_tlb' \in Seq(Entradas)
  BY <1>2, <1>3, <1>5, TlbConTipo
<1>7. /\ TypeOK' /\ Servicio' /\ Fases' /\ UnaPregunta' /\ Preguntas' /\ Servidor'
      /\ Reparto' /\ Listas' /\ MismosMarcos
      /\ \A d \in Cpus : hilo'[d].en = "acceder" => d # c /\ hilo'[d] = hilo[d]
  BY <1>1, <1>2, <1>3, <1>5, <1>6, InvAcceder
<1>8. TlbDeLaTabla' /\ TlbLista'
  <2>1. nucleo # p
    BY <1>4, <1>5, SupuestoNulo DEF Fases
  <2>2. ASSUME NEW d \in Cpus, hilo'[d].en = "acceder"
        PROVE  hilo'[d] = hilo[d] /\ lista_cpus[d] # p
    BY <1>1, <1>4, <1>5, <1>7, <2>2 DEF Servicio, Atiende
  <2>3. servidor.en = "responder" => servidor.mensaje.pid # p
    <3>1. SinPreguntas(p)
      BY <1>1, <1>3, <1>5, Callado
    <3> QED
      BY <3>1 DEF SinPreguntas, EnManos
  <2>4. \A k \in DOMAIN lista_paginas_tlb :
          ~(lista_paginas_tlb[k].pid = p /\ lista_paginas_tlb[k].pagina = i)
    BY <1>1, <1>3, <1>4 DEF TlbLista
  <2> QED
    BY <1>2, <1>3, <1>5, <1>7, <2>1, <2>2, <2>3, <2>4, TlbConUnaMas
<1> QED
  BY <1>7, <1>8 DEF Inv

-----------------------------------------------------------------------------
(* A step about one program, of which nothing is on its way but what the   *)
(* step takes.                                                             *)
LEMMA ServicioDeOtros ==
  ASSUME Servicio, UNCHANGED <<hilo, lista_cpus>>,
         \A q \in Programas : proceso'[q] = proceso[q] \/ proceso[q] \notin {"exec", "perdido"},
         \A q \in Programas : proceso[q] \in {"exec", "perdido"} => proceso'[q] = proceso[q]
  PROVE  Servicio'
BY DEF Servicio, Atiende, Accede

(* A message of another program is still true.                             *)
LEMMA VigenteDelResto ==
  ASSUME NEW p, NEW m \in Mensajes, Vigente(m), Pregunta(m) => m.pid # p,
         \A q \in Programas \ {p} : MismoPrograma(q),
         UNCHANGED lista_cpus, \A d \in Cpus : hilo'[d] = hilo[d] \/ lista_cpus[d] = p
  PROVE  Vigente(m)'
<1>1. m.pid \in Programas
  BY DEF Mensajes
<1>2. CASE ~Pregunta(m)
  BY <1>2 DEF Pregunta, Vigente
<1>3. CASE Pregunta(m)
  <2>1. MismoPrograma(m.pid)
    BY <1>1, <1>3
  <2>2. ASSUME m.id \in {"leer", "escribir"}
        PROVE  MismaEspera(m.socket)
    <3>1. /\ m.socket \in Cpus /\ hilo[m.socket].en \in {"swap", "muerto"}
          /\ lista_cpus[m.socket] = m.pid
      BY <2>2 DEF Vigente
    <3>2. hilo'[m.socket] = hilo[m.socket] /\ lista_cpus'[m.socket] = lista_cpus[m.socket]
      BY <1>3, <3>1
    <3> QED
      BY <3>1, <3>2 DEF MismaEspera
  <2> QED
    BY <2>1, <2>2, VigenteSigue
<1> QED
  BY <1>2, <1>3

-----------------------------------------------------------------------------
(* The thread of the Nucleo.                                               *)
LEMMA InvIniciarPrograma ==
  ASSUME Inv, NEW p \in Programas, IniciarPrograma(p)
  PROVE  Inv'
<1>1. TypeOK /\ Servicio /\ Fases /\ Servidor /\ UnaPregunta /\ Preguntas /\ Reparto /\ Listas
  BY DEF Inv
<1>2. PICK e : e = Mensaje("iniciar", p, 0, NULO, NULO)
  OBVIOUS
<1>3. /\ proceso[p] = "no" /\ nucleo = NULO
      /\ proceso' = [proceso EXCEPT ![p] = "nuevo"]
      /\ buffer_programas' = [buffer_programas EXCEPT ![p] = [tipo |-> "codigo"]]
      /\ aSwap' = Append(aSwap, e)
      /\ UNCHANGED <<libres, memoria_principal, lista_paginas_tlb, lista_cpus,
                     lista_procesos_activos, hilo, servidor, nucleo, consola, deSwap, almacen,
                     respuesta>>
  BY <1>2 DEF IniciarPrograma, Enviar
<1>4. p \notin DOMAIN lista_tablas /\ p \notin DOMAIN almacen
  BY <1>1, <1>3 DEF Fases
<1>5. /\ DOMAIN lista_tablas' = DOMAIN lista_tablas \cup {p}
      /\ lista_tablas'[p] = [i \in PaginasDelPid(p) |-> Fila(0, FALSE, FALSE, FALSE)]
      /\ \A q \in DOMAIN lista_tablas : lista_tablas'[q] = lista_tablas[q]
      /\ DOMAIN listas_algoritmo' = DOMAIN listas_algoritmo \cup {p}
      /\ listas_algoritmo'[p] = [paginas |-> << >>, puntero |-> 0]
      /\ \A q \in DOMAIN listas_algoritmo : listas_algoritmo'[q] = listas_algoritmo[q]
  BY <1>1, <1>4 DEF IniciarPrograma, Agregada, TypeOK
<1>6. \A q, i : /\ Presente(q, i)' <=> Presente(q, i)
                /\ Presente(q, i) => lista_tablas'[q][i].frame = lista_tablas[q][i].frame
  BY <1>4, <1>5 DEF Presente, Fila
<1>7. /\ e \in Mensajes /\ e.id = "iniciar" /\ e.pid = p
  <2>1. 0 \in 0..(MaxPaginas - 1)
    BY SupuestoUmc
  <2> QED
    BY <1>2, <2>1 DEF Mensaje, Mensajes
<1>8. /\ proceso'[p] = "nuevo" /\ buffer_programas'[p] = [tipo |-> "codigo"]
      /\ \A q \in Programas \ {p} :
           proceso'[q] = proceso[q] /\ buffer_programas'[q] = buffer_programas[q]
  BY <1>1, <1>3 DEF TypeOK
<1>9. /\ SinPreguntas(p)
      /\ \A m \in Mensajes : Vigente(m) /\ Pregunta(m) => m.pid # p
  BY <1>3, Callado
<1>10. UnaPregunta' /\ aSwap' \in Seq(Mensajes)
  <2>1. Pregunta(e)
    BY <1>7 DEF Pregunta
  <2>2. \A q : EnManos(q)' <=> EnManos(q)
    BY <1>3 DEF EnManos
  <2> QED
    BY <1>1, <1>3, <1>7, <1>9, <2>1, <2>2, UnaPreguntaMas
<1>11. TypeOK'
  <2>1. \A q \in DOMAIN lista_tablas' : lista_tablas'[q] \in [PaginasDelPid(q) -> Filas]
    <3>1. Fila(0, FALSE, FALSE, FALSE) \in Filas
      BY SupuestoUmc DEF Fila, Filas
    <3>2. lista_tablas'[p] \in [PaginasDelPid(p) -> Filas]
      BY <1>5, <3>1
    <3>3. \A q \in DOMAIN lista_tablas : lista_tablas'[q] \in [PaginasDelPid(q) -> Filas]
      BY <1>1, <1>5 DEF TypeOK
    <3> QED
      BY <1>5, <3>2, <3>3
  <2>2. \A q \in DOMAIN listas_algoritmo' :
          listas_algoritmo'[q] \in [paginas : Seq(PaginasDelPid(q)), puntero : Nat]
    <3>1. listas_algoritmo'[p] \in [paginas : Seq(PaginasDelPid(p)), puntero : Nat]
      BY <1>5
    <3>2. \A q \in DOMAIN listas_algoritmo :
            listas_algoritmo'[q] \in [paginas : Seq(PaginasDelPid(q)), puntero : Nat]
      BY <1>1, <1>5 DEF TypeOK
    <3> QED
      BY <1>5, <3>1, <3>2
  <2>3. /\ DOMAIN lista_tablas' \subseteq Programas
        /\ DOMAIN listas_algoritmo' = DOMAIN lista_tablas'
        /\ lista_procesos_activos' \subseteq DOMAIN lista_tablas'
    BY <1>1, <1>3, <1>5 DEF TypeOK
  <2>4. proceso' \in [Programas -> Estados]
    BY <1>1, <1>3 DEF TypeOK, Estados
  <2>5. buffer_programas' \in [Programas -> Buffers \cup {NULO}]
    <3>1. buffer_programas \in [Programas -> Buffers \cup {NULO}]
      BY <1>1 DEF TypeOK
    <3> QED
      BY <1>3, <3>1 DEF Buffers
  <2> QED
    BY <1>1, <1>3, <1>10, <2>1, <2>2, <2>3, <2>4, <2>5 DEF TypeOK
<1>12. Servicio'
  BY <1>1, <1>3, <1>8, ServicioDeOtros
<1>13. Fases'
  <2>1. \A q \in Programas :
          /\ proceso'[q] = "no" => q \notin DOMAIN lista_tablas' /\ q \notin DOMAIN almacen'
          /\ proceso'[q] \in Vivos \cup {"nuevo"} => q \in DOMAIN lista_tablas'
          /\ proceso'[q] \in Vivos => q \in DOMAIN almacen'
    <3> TAKE q \in Programas
    <3>1. CASE q = p
      BY <1>3, <1>5, <1>8, <3>1 DEF Vivos
    <3>2. CASE q # p
      BY <1>1, <1>3, <1>5, <1>8, <3>2 DEF Fases
    <3> QED
      BY <3>1, <3>2
  <2> QED
    BY <1>3, <2>1 DEF Fases
<1>14. \A m \in Mensajes : Vigente(m) => Vigente(m)'
  <2>1. \A q \in Programas \ {p} : MismoPrograma(q)
    BY <1>3, <1>5, <1>8 DEF MismoPrograma
  <2> QED
    BY <1>3, <1>9, <2>1, VigenteDelResto
<1>15. Preguntas'
  <2>1. NadaNuevo
    BY <1>6 DEF NadaNuevo
  <2>2. Vigente(e)'
    BY <1>7, <1>8 DEF Vigente
  <2>3. PorServir(e)'
    BY <1>3, <1>4, <1>7 DEF PorServir
  <2> QED
    BY <1>1, <1>3, <1>7, <1>14, <2>1, <2>2, <2>3, PreguntasConUna
<1>16. Servidor'
  BY <1>1, <1>3, <1>6, <1>14 DEF Servidor
<1>17. Reparto'
  BY <1>1, <1>3, <1>6 DEF Reparto
<1>18. Listas'
  <2> SUFFICES ASSUME NEW q \in DOMAIN lista_tablas'
               PROVE  Lista(q)'
    BY DEF Listas
  <2>1. CASE q = p
    <3>1. listas_algoritmo'[q].paginas = << >> /\ listas_algoritmo'[q].puntero = 0
      BY <1>5, <2>1
    <3>2. \A i : ~Presente(q, i)'
      BY <1>4, <1>6, <2>1 DEF Presente
    <3>3. Len(<< >>) = 0 /\ 1..0 = {} /\ MARCO_X_PROC \in Nat
      BY SupuestoUmc
    <3> QED
      BY <3>1, <3>2, <3>3 DEF Lista
  <2>2. CASE q # p
    <3>1. Lista(q) /\ listas_algoritmo'[q] = listas_algoritmo[q]
      BY <1>1, <1>5, <2>2 DEF Listas, TypeOK
    <3> QED
      BY <1>6, <3>1 DEF Lista
  <2> QED
    BY <2>1, <2>2
<1>19. TlbDeLaTabla' /\ TlbLista'
  <2>1. \A t : Sigue(t)
    BY <1>6 DEF Sigue, Vale
  <2>2. Parte(lista_paginas_tlb', lista_paginas_tlb)
    <3>1. lista_paginas_tlb \in Seq(Entradas)
      BY <1>1 DEF TypeOK, Entradas
    <3> QED
      BY <1>3, <3>1, ParteEntera
  <2> QED
    BY <1>3, <2>1, <2>2, TlbQueQueda
<1> QED
  BY <1>10, <1>11, <1>12, <1>13, <1>15, <1>16, <1>17, <1>18, <1>19 DEF Inv

(* finalizar_programa: the program leaves the list and the TLB.            *)
LEMMA InvFinalizarPrograma ==
  ASSUME Inv, NEW p \in Programas, FinalizarPrograma(p)
  PROVE  Inv'
<1>1. /\ TypeOK /\ Servicio /\ Fases /\ MismosMarcos
  BY TablasIguales DEF Inv, FinalizarPrograma, memoriaVars
<1>2. /\ proceso[p] \in {"finalizar", "matar"} /\ nucleo = NULO /\ nucleo' = p
      /\ buffer_programas' = [buffer_programas EXCEPT ![p] = [tipo |-> "mensaje", id |-> proceso[p]]]
      /\ proceso' = [proceso EXCEPT ![p] = IF @ = "matar" THEN "matando" ELSE "finalizando"]
      /\ lista_procesos_activos' = lista_procesos_activos \ {p}
      /\ UNCHANGED <<memoriaVars, lista_cpus, hilo, servidor, consola, swapVars, respuesta>>
  BY DEF FinalizarPrograma, ActivosSin
<1>3. UNCHANGED <<lista_tablas, listas_algoritmo, libres, memoria_principal,
                  aSwap, deSwap, almacen>>
  BY <1>2 DEF memoriaVars, swapVars
<1>4. /\ lista_paginas_tlb \in Seq(Entradas)
      /\ Parte(lista_paginas_tlb', lista_paginas_tlb)
      /\ \A k \in 1..Len(lista_paginas_tlb') : lista_paginas_tlb'[k].pid # p
  BY <1>1, SinPrograma DEF FinalizarPrograma, TypeOK, Entradas
<1>5. /\ proceso'[p] = (IF proceso[p] = "matar" THEN "matando" ELSE "finalizando")
      /\ buffer_programas'[p] = [tipo |-> "mensaje", id |-> proceso[p]]
      /\ \A q \in Programas \ {p} :
           proceso'[q] = proceso[q] /\ buffer_programas'[q] = buffer_programas[q]
  BY <1>1, <1>2 DEF TypeOK
<1>6. \A m \in Mensajes : Vigente(m) /\ Pregunta(m) => m.pid # p
  BY <1>2, Callado
<1>7. TypeOK'
  <2>1. proceso' \in [Programas -> Estados]
    BY <1>1, <1>2 DEF TypeOK, Estados
  <2>2. buffer_programas' \in [Programas -> Buffers \cup {NULO}]
    <3>1. buffer_programas \in [Programas -> Buffers \cup {NULO}]
      BY <1>1 DEF TypeOK
    <3>2. [tipo |-> "mensaje", id |-> proceso[p]] \in Buffers
      BY <1>2 DEF Buffers
    <3> QED
      BY <1>2, <3>1, <3>2
  <2>3. lista_paginas_tlb' \in Seq(Entradas)
    BY <1>4 DEF Parte
  <2> QED
    BY <1>1, <1>2, <1>3, <2>1, <2>2, <2>3 DEF TypeOK, Entradas
<1>8. Servicio'
  BY <1>1, <1>2, <1>5, ServicioDeOtros
<1>9. Fases'
  <2>1. \A q \in Programas :
          /\ proceso'[q] = "no" => q \notin DOMAIN lista_tablas' /\ q \notin DOMAIN almacen'
          /\ proceso'[q] \in Vivos \cup {"nuevo"} => q \in DOMAIN lista_tablas'
          /\ proceso'[q] \in Vivos => q \in DOMAIN almacen'
    <3> TAKE q \in Programas
    <3>1. CASE q = p
      BY <1>5, <3>1 DEF Vivos
    <3>2. CASE q # p
      BY <1>1, <1>3, <1>5, <3>2 DEF Fases
    <3> QED
      BY <3>1, <3>2
  <2>2. p \in DOMAIN lista_tablas /\ p \in DOMAIN almacen
    BY <1>1, <1>2 DEF Fases, Vivos
  <2>3. /\ proceso'[p] \in {"matando", "finalizando"}
        /\ buffer_programas'[p] =
             [tipo |-> "mensaje", id |-> IF proceso'[p] = "matando" THEN "matar" ELSE "finalizar"]
    BY <1>2, <1>5
  <2> QED
    BY <1>2, <1>3, <2>1, <2>2, <2>3 DEF Fases
<1>10. \A m \in Mensajes : Vigente(m) => Vigente(m)'
  <2>1. \A q \in Programas \ {p} : MismoPrograma(q)
    BY <1>2, <1>3, <1>5 DEF MismoPrograma
  <2> QED
    BY <1>2, <1>6, <2>1, VigenteDelResto
<1>11. UnaPregunta' /\ Preguntas' /\ Servidor' /\ Reparto' /\ Listas'
  BY <1>1, <1>2, <1>3, <1>10, SinMensajes
<1>12. TlbDeLaTabla' /\ TlbLista'
  BY <1>1, <1>2, <1>4, TlbConMenos
<1> QED
  BY <1>7, <1>8, <1>9, <1>11, <1>12 DEF Inv

(* liberar_marcos and liberar_de_listas: its frames are free and its table *)
(* is gone.                                                                *)
LEMMA InvLiberarPrograma ==
  ASSUME Inv, LiberarPrograma
  PROVE  Inv'
<1>1. /\ TypeOK /\ Servicio /\ Fases /\ Servidor /\ UnaPregunta /\ Preguntas
      /\ Reparto /\ Listas /\ TlbLista
  BY DEF Inv
<1>2. PICK p : p = nucleo
  OBVIOUS
<1>3. PICK e : e = Mensaje("finalizar", p, 0, NULO, NULO)
  OBVIOUS
<1>4. /\ nucleo = p /\ p # NULO /\ nucleo' = NULO
      /\ libres' = libres \cup MarcosDe(p)
      /\ lista_tablas' = Quitada(lista_tablas, p)
      /\ listas_algoritmo' = Quitada(listas_algoritmo, p)
      /\ aSwap' = Append(aSwap, e)
      /\ UNCHANGED <<memoria_principal, lista_paginas_tlb, lista_cpus, lista_procesos_activos,
                     buffer_programas, hilo, servidor, consola, deSwap, almacen, proceso,
                     respuesta>>
  BY <1>2, <1>3 DEF LiberarPrograma, Enviar
<1>5. /\ p \in Programas /\ p \in DOMAIN lista_tablas /\ p \in DOMAIN almacen
      /\ p \notin lista_procesos_activos
      /\ proceso[p] \in {"matando", "finalizando"}
      /\ buffer_programas[p] =
           [tipo |-> "mensaje", id |-> IF proceso[p] = "matando" THEN "matar" ELSE "finalizar"]
  BY <1>1, <1>4 DEF Fases, TypeOK
<1>6. /\ DOMAIN lista_tablas' = DOMAIN lista_tablas \ {p}
      /\ \A q \in DOMAIN lista_tablas \ {p} : lista_tablas'[q] = lista_tablas[q]
      /\ DOMAIN listas_algoritmo' = DOMAIN listas_algoritmo \ {p}
      /\ \A q \in DOMAIN listas_algoritmo \ {p} : listas_algoritmo'[q] = listas_algoritmo[q]
  BY <1>4 DEF Quitada, Restrict
<1>7. \A q, i : /\ Presente(q, i)' <=> Presente(q, i) /\ q # p
                /\ Presente(q, i) /\ q # p =>
                     lista_tablas'[q][i].frame = lista_tablas[q][i].frame
  BY <1>6 DEF Presente
<1>8. MarcosDe(p) \subseteq Marcos \ libres
  <2> SUFFICES ASSUME NEW i \in DOMAIN lista_tablas[p], lista_tablas[p][i].presencia
               PROVE  lista_tablas[p][i].frame \in Marcos \ libres
    BY DEF MarcosDe
  <2>1. Presente(p, i)
    BY <1>5 DEF Presente
  <2>2. i \in 0..MaxPaginas
    BY <1>1, <2>1, DeUnaPresente
  <2> QED
    BY <1>1, <1>5, <2>1, <2>2 DEF Reparto
<1>9. /\ e \in Mensajes /\ e.id = "finalizar" /\ e.pid = p
  <2>1. 0 \in 0..(MaxPaginas - 1)
    BY SupuestoUmc
  <2> QED
    BY <1>3, <1>5, <2>1 DEF Mensaje, Mensajes
<1>10. /\ SinPreguntas(p)
       /\ \A m \in Mensajes : Vigente(m) /\ Pregunta(m) => m.pid # p
  BY <1>4, <1>5, Callado
<1>11. UnaPregunta' /\ aSwap' \in Seq(Mensajes)
  <2>1. Pregunta(e)
    BY <1>9 DEF Pregunta
  <2>2. \A q : EnManos(q)' <=> EnManos(q)
    BY <1>4 DEF EnManos
  <2> QED
    BY <1>1, <1>4, <1>9, <1>10, <2>1, <2>2, UnaPreguntaMas
<1>12. TypeOK'
  <2>1. /\ DOMAIN lista_tablas' \subseteq Programas
        /\ \A q \in DOMAIN lista_tablas' : lista_tablas'[q] \in [PaginasDelPid(q) -> Filas]
        /\ DOMAIN listas_algoritmo' = DOMAIN lista_tablas'
        /\ \A q \in DOMAIN listas_algoritmo' :
             listas_algoritmo'[q] \in [paginas : Seq(PaginasDelPid(q)), puntero : Nat]
        /\ lista_procesos_activos' \subseteq DOMAIN lista_tablas'
    BY <1>1, <1>4, <1>5, <1>6 DEF TypeOK
  <2>2. libres' \subseteq Marcos
    BY <1>1, <1>4, <1>8 DEF TypeOK
  <2> QED
    BY <1>1, <1>4, <1>11, <2>1, <2>2 DEF TypeOK
<1>13. Servicio'
  BY <1>1, <1>4, ServicioIgual
<1>14. Fases'
  BY <1>1, <1>4, <1>5, <1>6 DEF Fases, Vivos
<1>15. \A m \in Mensajes : Vigente(m) => Vigente(m)'
  <2>1. \A q \in Programas \ {p} : MismoPrograma(q)
    BY <1>4, <1>6, SupuestoNulo DEF MismoPrograma
  <2> QED
    BY <1>4, <1>10, <2>1, VigenteDelResto
<1>16. Preguntas'
  <2>1. NadaNuevo
    BY <1>7 DEF NadaNuevo
  <2>2. Vigente(e)'
    BY <1>4, <1>5, <1>6, <1>9 DEF Vigente
  <2>3. PorServir(e)'
    BY <1>4, <1>5, <1>9 DEF PorServir
  <2> QED
    BY <1>1, <1>4, <1>9, <1>15, <2>1, <2>2, <2>3, PreguntasConUna
<1>17. Servidor'
  <2>1. ~EnManos(p)
    BY <1>10 DEF SinPreguntas
  <2> QED
    BY <1>1, <1>4, <1>7, <1>15, <2>1 DEF Servidor, EnManos
<1>18. Reparto'
  <2>1. \A q \in Programas : \A i \in 0..MaxPaginas :
          Presente(q, i) /\ q # p => lista_tablas[q][i].frame \notin MarcosDe(p)
    <3> SUFFICES ASSUME NEW q \in Programas, NEW i \in 0..MaxPaginas, Presente(q, i),
                        NEW j \in DOMAIN lista_tablas[p], lista_tablas[p][j].presencia,
                        lista_tablas[q][i].frame = lista_tablas[p][j].frame
                 PROVE  q = p
      BY DEF MarcosDe
    <3>1. Presente(p, j)
      BY <1>5 DEF Presente
    <3>2. j \in 0..MaxPaginas
      BY <1>1, <3>1, DeUnaPresente
    <3> QED
      BY <1>1, <1>5, <3>1, <3>2 DEF Reparto
  <2>2. ASSUME NEW f \in Marcos \ libres'
        PROVE  \E q \in Programas : \E i \in 0..MaxPaginas :
                 Presente(q, i)' /\ lista_tablas'[q][i].frame = f
    <3>1. PICK q \in Programas : \E i \in 0..MaxPaginas :
                 Presente(q, i) /\ lista_tablas[q][i].frame = f
      BY <1>1, <1>4 DEF Reparto
    <3>2. PICK i \in 0..MaxPaginas : Presente(q, i) /\ lista_tablas[q][i].frame = f
      BY <3>1
    <3>3. q # p
      BY <1>4, <3>2 DEF MarcosDe, Presente
    <3> QED
      BY <1>7, <3>2, <3>3
  <2>3. \A q \in Programas : \A i \in 0..MaxPaginas :
          Presente(q, i)' => lista_tablas'[q][i].frame \in Marcos \ libres'
    BY <1>1, <1>4, <1>7, <2>1 DEF Reparto
  <2>4. \A q, r \in Programas : \A i, j \in 0..MaxPaginas :
          Presente(q, i)' /\ Presente(r, j)' /\ lista_tablas'[q][i].frame = lista_tablas'[r][j].frame
            => q = r /\ i = j
    BY <1>1, <1>7 DEF Reparto
  <2> QED
    BY <2>2, <2>3, <2>4 DEF Reparto
<1>19. Listas'
  <2> SUFFICES ASSUME NEW q \in DOMAIN lista_tablas'
               PROVE  Lista(q)'
    BY DEF Listas
  <2>1. q # p /\ Lista(q) /\ listas_algoritmo'[q] = listas_algoritmo[q]
    BY <1>1, <1>6 DEF Listas, TypeOK
  <2> QED
    BY <1>7, <2>1 DEF Lista
<1>20. TlbDeLaTabla' /\ TlbLista'
  <2>1. \A t : t.pid # p => Sigue(t)
    BY <1>7 DEF Sigue, Vale
  <2>2. Parte(lista_paginas_tlb', lista_paginas_tlb)
    <3>1. lista_paginas_tlb \in Seq(Entradas)
      BY <1>1 DEF TypeOK, Entradas
    <3> QED
      BY <1>4, <3>1, ParteEntera
  <2>3. \A k \in 1..Len(lista_paginas_tlb') : lista_paginas_tlb'[k].pid # p
    <3>1. \A k \in DOMAIN lista_paginas_tlb : lista_paginas_tlb[k].pid # p
      BY <1>1, <1>4 DEF TlbLista
    <3>2. lista_paginas_tlb \in Seq(Entradas)
      BY <1>1 DEF TypeOK, Entradas
    <3>3. DOMAIN lista_paginas_tlb = 1..Len(lista_paginas_tlb)
      BY <3>2, LenProperties
    <3> QED
      BY <1>4, <3>1, <3>3
  <2>4. ASSUME NEW d \in Cpus, hilo'[d].en = "acceder"
        PROVE  \A i, f : Sigue(Tlb(lista_cpus[d], i, f))
    <3>1. proceso[lista_cpus[d]] = "exec"
      BY <1>1, <1>4, <2>4 DEF Servicio, Atiende
    <3>2. lista_cpus[d] # p
      BY <1>5, <3>1
    <3> QED
      BY <2>1, <3>2 DEF Tlb
  <2> QED
    BY <1>4, <2>1, <2>2, <2>3, <2>4, TlbQueQueda
<1> QED
  BY <1>11, <1>12, <1>13, <1>14, <1>16, <1>17, <1>18, <1>19, <1>20 DEF Inv

-----------------------------------------------------------------------------
(* The SWAP.  What a message that it serves does to the pages it keeps, and*)
(* the answer.                                                             *)
LEMMA ServirEnSwap ==
  ASSUME TypeOK, Servicio, Fases, Preguntas, Swap
  PROVE  \E m, r \in Mensajes :
           /\ aSwap # << >> /\ m = Head(aSwap) /\ Vigente(m) /\ PorServir(m)
           /\ aSwap' = Tail(aSwap) /\ deSwap' = Append(deSwap, r)
           /\ r.id = m.id /\ r.pid = m.pid /\ r.pagina = m.pagina /\ r.socket = m.socket
           /\ DOMAIN almacen' \subseteq Programas
           /\ \A q \in DOMAIN almacen' :
                almacen'[q] \in [PaginasDelPid(q) -> Contenidos \cup {Indefinida}]
           /\ \A q \in Programas \ {m.pid} : q \in DOMAIN almacen <=> q \in DOMAIN almacen'
           /\ m.id \notin {"iniciar", "finalizar"} => DOMAIN almacen' = DOMAIN almacen
           /\ m.id = "iniciar" => r.valor \in {Exito, Error}
                                  /\ (r.valor = Exito <=> m.pid \in DOMAIN almacen')
           /\ m.id = "finalizar" => m.pid \notin DOMAIN almacen'
           /\ m.id \in {"leer", "escribir"} => r.valor \in Contenidos \cup {Error}
<1>1. PICK m : m = Head(aSwap)
  OBVIOUS
<1>2. /\ aSwap # << >> /\ aSwap' = Tail(aSwap)
      /\ aSwap \in Seq(Mensajes) /\ deSwap \in Seq(Mensajes)
  BY DEF Swap, TypeOK
<1>3. m \in Mensajes /\ Vigente(m) /\ PorServir(m)
  <2>1. aSwap[1] \in Mensajes /\ 1 \in DOMAIN aSwap /\ Head(aSwap) = aSwap[1]
    BY <1>2
  <2> QED
    BY <1>1, <2>1 DEF Preguntas
<1>4. PICK v \in Contenidos \cup {Exito, Error} : deSwap' = Append(deSwap, [m EXCEPT !.valor = v])
  BY <1>1 DEF Swap
<1>5. PICK r : r = [m EXCEPT !.valor = v]
  OBVIOUS
<1>6. /\ r \in Mensajes /\ deSwap' = Append(deSwap, r)
      /\ r.id = m.id /\ r.pid = m.pid /\ r.pagina = m.pagina /\ r.socket = m.socket
      /\ r.valor = v
  BY <1>3, <1>4, <1>5 DEF Mensajes
<1>7. Last(deSwap').valor = v
  <2>1. Len(deSwap') = Len(deSwap) + 1 /\ deSwap'[Len(deSwap) + 1] = r
    BY <1>2, <1>6, AppendProperties
  <2> QED
    BY <1>6, <2>1 DEF Last
<1> DEFINE p == m.pid
<1>8. /\ p \in Programas /\ PaginasDe[p] \in Nat
      /\ DOMAIN almacen \subseteq Programas
      /\ \A q \in DOMAIN almacen :
           almacen[q] \in [PaginasDelPid(q) -> Contenidos \cup {Indefinida}]
      /\ m.id \in {"iniciar", "nueva", "guardar", "leer", "escribir", "finalizar"}
  <2>1. p \in Programas /\ m.id \in {"iniciar", "nueva", "guardar", "leer", "escribir", "finalizar"}
    BY <1>3 DEF Mensajes
  <2>2. PaginasDe[p] \in 1..MaxPaginas /\ MaxPaginas \in Nat
    BY <2>1, SupuestoUmc
  <2> QED
    BY <2>1, <2>2 DEF TypeOK
<1>9. \/ /\ m.id = "iniciar"
         /\ Almacen!Iniciar(p, PaginasDe[p]) \/ Almacen!Rechazar(p, PaginasDe[p])
      \/ m.id = "nueva" /\ Almacen!EscribirNueva(p, CodigoEn[p], m.valor)
      \/ m.id = "guardar" /\ Almacen!Escribir(p, m.pagina, m.valor)
      \/ m.id \in {"leer", "escribir"} /\ Almacen!Leer(p, m.pagina)
      \/ m.id = "finalizar" /\ Almacen!Finalizar(p)
  BY <1>1 DEF Swap
<1> DEFINE Tipo == /\ DOMAIN almacen' \subseteq Programas
                   /\ \A q \in DOMAIN almacen' :
                        almacen'[q] \in [PaginasDelPid(q) -> Contenidos \cup {Indefinida}]
           Otros == \A q \in Programas \ {p} : q \in DOMAIN almacen <=> q \in DOMAIN almacen'
<1>10. CASE m.id = "iniciar"
  <2>1. p \notin DOMAIN almacen
    BY <1>3, <1>10 DEF PorServir
  <2>2. \/ v = Exito /\ almacen' = [q \in DOMAIN almacen \cup {p} |->
             IF q = p THEN [i \in 0..(PaginasDe[p] - 1) |-> Indefinida] ELSE almacen[q]]
        \/ v = Error /\ almacen' = almacen
    BY <1>7, <1>9, <1>10, <2>1 DEF Almacen!Iniciar, Almacen!Rechazar, Almacen!Existe
  <2>3. CASE v = Error /\ almacen' = almacen
    <3>1. Tipo /\ Otros /\ v # Exito /\ p \notin DOMAIN almacen'
      BY <1>8, <2>1, <2>3, SupuestoNulo
    <3> QED
      BY <1>1, <1>2, <1>3, <1>6, <1>10, <2>3, <3>1
  <2>4. CASE v = Exito /\ almacen' = [q \in DOMAIN almacen \cup {p} |->
             IF q = p THEN [i \in 0..(PaginasDe[p] - 1) |-> Indefinida] ELSE almacen[q]]
    <3>1. DOMAIN almacen' = DOMAIN almacen \cup {p}
      BY <2>4
    <3>2. almacen'[p] \in [PaginasDelPid(p) -> Contenidos \cup {Indefinida}]
      BY <2>4 DEF PaginasDelPid
    <3>3. \A q \in DOMAIN almacen : almacen'[q] = almacen[q]
      BY <2>1, <2>4
    <3>4. Tipo
      BY <1>8, <3>1, <3>2, <3>3
    <3> QED
      BY <1>1, <1>2, <1>3, <1>6, <1>10, <2>4, <3>1, <3>4
  <2> QED
    BY <2>2, <2>3, <2>4
<1>11. CASE m.id = "nueva"
  <2>1. /\ p \in DOMAIN almacen /\ m.valor \in Contenidos
    BY <1>3, <1>11 DEF PorServir, Vigente
  <2>2. almacen' = [almacen EXCEPT ![p] = [i \in DOMAIN @ |-> IF i < CodigoEn[p] THEN m.valor ELSE @[i]]]
    BY <1>9, <1>11 DEF Almacen!EscribirNueva
  <2>3. DOMAIN almacen' = DOMAIN almacen /\ \A q \in DOMAIN almacen \ {p} : almacen'[q] = almacen[q]
    BY <2>2
  <2>4. almacen'[p] \in [PaginasDelPid(p) -> Contenidos \cup {Indefinida}]
    <3>1. almacen'[p] = [i \in PaginasDelPid(p) |-> IF i < CodigoEn[p] THEN m.valor ELSE almacen[p][i]]
      BY <1>8, <2>1, <2>2
    <3>2. almacen[p] \in [PaginasDelPid(p) -> Contenidos \cup {Indefinida}]
      BY <1>8, <2>1
    <3> QED
      BY <2>1, <3>1, <3>2
  <2>5. Tipo
    BY <1>8, <2>3, <2>4
  <2> QED
    BY <1>1, <1>2, <1>3, <1>6, <1>11, <2>3, <2>5
<1>12. CASE m.id = "guardar"
  <2>1. /\ p \in DOMAIN almacen /\ m.valor \in Contenidos /\ m.pagina \in PaginasDelPid(p)
    BY <1>3, <1>12 DEF PorServir
  <2>2. almacen' = [almacen EXCEPT ![p][m.pagina] = m.valor]
    BY <1>9, <1>12 DEF Almacen!Escribir
  <2>3. DOMAIN almacen' = DOMAIN almacen /\ \A q \in DOMAIN almacen \ {p} : almacen'[q] = almacen[q]
    BY <2>2
  <2>4. almacen'[p] \in [PaginasDelPid(p) -> Contenidos \cup {Indefinida}]
    <3>1. almacen'[p] = [almacen[p] EXCEPT ![m.pagina] = m.valor]
      BY <2>1, <2>2
    <3>2. almacen[p] \in [PaginasDelPid(p) -> Contenidos \cup {Indefinida}]
      BY <1>8, <2>1
    <3> QED
      BY <2>1, <3>1, <3>2
  <2>5. Tipo
    BY <1>8, <2>3, <2>4
  <2> QED
    BY <1>1, <1>2, <1>3, <1>6, <1>12, <2>3, <2>5
<1>13. CASE m.id \in {"leer", "escribir"}
  <2>1. /\ almacen' = almacen
        /\ \/ almacen[p][m.pagina] # Indefinida /\ v = almacen[p][m.pagina]
           \/ v \in Contenidos
           \/ v = Error
    BY <1>7, <1>9, <1>13 DEF Almacen!Leer
  <2>2. p \in DOMAIN almacen /\ m.pagina \in PaginasDelPid(p)
    <3>1. /\ m.socket \in Cpus /\ hilo[m.socket].en \in {"swap", "muerto"}
          /\ lista_cpus[m.socket] = p /\ hilo[m.socket].acceso.pagina = m.pagina
      BY <1>3, <1>13 DEF Vigente
    <3>2. proceso[p] \in Vivos
      BY <3>1 DEF Servicio, Atiende, Vivos
    <3>3. m.pagina \in PaginasDelPid(p)
      BY <3>1 DEF Servicio, Accede
    <3> QED
      BY <1>8, <3>2, <3>3 DEF Fases
  <2>3. almacen[p][m.pagina] \in Contenidos \cup {Indefinida}
    <3>1. almacen[p] \in [PaginasDelPid(p) -> Contenidos \cup {Indefinida}]
      BY <1>8, <2>2
    <3> QED
      BY <2>2, <3>1
  <2>4. v \in Contenidos \cup {Error} /\ Tipo
    BY <1>8, <2>1, <2>3
  <2> QED
    BY <1>1, <1>2, <1>3, <1>6, <1>13, <2>1, <2>4
<1>14. CASE m.id = "finalizar"
  <2>1. p \in DOMAIN almacen
    BY <1>3, <1>14 DEF PorServir
  <2>2. almacen' = Restrict(almacen, DOMAIN almacen \ {p})
    BY <1>9, <1>14, <2>1 DEF Almacen!Finalizar, Almacen!Existe, Almacen!Restrict, Restrict
  <2>3. /\ DOMAIN almacen' = DOMAIN almacen \ {p}
        /\ \A q \in DOMAIN almacen \ {p} : almacen'[q] = almacen[q]
    BY <2>2 DEF Restrict
  <2>4. Tipo
    BY <1>8, <2>3
  <2> QED
    BY <1>1, <1>2, <1>3, <1>6, <1>14, <2>3, <2>4
<1> QED
  BY <1>8, <1>10, <1>11, <1>12, <1>13, <1>14

(* The SWAP serves the first message and answers.                          *)
LEMMA InvSwap ==
  ASSUME Inv, Swap
  PROVE  Inv'
<1>1. /\ TypeOK /\ Servicio /\ Fases /\ Servidor /\ UnaPregunta /\ Preguntas
      /\ Reparto /\ Listas
  BY DEF Inv
<1>2. UNCHANGED <<lista_tablas, listas_algoritmo, libres, memoria_principal,
                  lista_paginas_tlb, lista_cpus, lista_procesos_activos,
                  buffer_programas, hilo, servidor, nucleo, consola, proceso, respuesta>>
  BY DEF Swap, memoriaVars
<1>3. MismosMarcos
  BY <1>1, <1>2, TablasIguales
<1>4. PICK m \in Mensajes, r \in Mensajes :
           /\ aSwap # << >> /\ m = Head(aSwap) /\ Vigente(m) /\ PorServir(m)
           /\ aSwap' = Tail(aSwap) /\ deSwap' = Append(deSwap, r)
           /\ r.id = m.id /\ r.pid = m.pid /\ r.pagina = m.pagina /\ r.socket = m.socket
           /\ DOMAIN almacen' \subseteq Programas
           /\ \A q \in DOMAIN almacen' :
                almacen'[q] \in [PaginasDelPid(q) -> Contenidos \cup {Indefinida}]
           /\ \A q \in Programas \ {m.pid} : q \in DOMAIN almacen <=> q \in DOMAIN almacen'
           /\ m.id \notin {"iniciar", "finalizar"} => DOMAIN almacen' = DOMAIN almacen
           /\ m.id = "iniciar" => r.valor \in {Exito, Error}
                                  /\ (r.valor = Exito <=> m.pid \in DOMAIN almacen')
           /\ m.id = "finalizar" => m.pid \notin DOMAIN almacen'
           /\ m.id \in {"leer", "escribir"} => r.valor \in Contenidos \cup {Error}
  BY <1>1, ServirEnSwap
<1> DEFINE n == Len(aSwap)
           d == Len(deSwap)
<1>5. /\ aSwap \in Seq(Mensajes) /\ deSwap \in Seq(Mensajes)
      /\ n \in Nat /\ n > 0 /\ DOMAIN aSwap = 1..n
      /\ d \in Nat /\ DOMAIN deSwap = 1..d
      /\ \A k \in 1..n : aSwap[k] \in Mensajes
      /\ \A k \in 1..d : deSwap[k] \in Mensajes
      /\ aSwap[1] = m
  <2>1. aSwap \in Seq(Mensajes) /\ deSwap \in Seq(Mensajes)
    BY <1>1 DEF TypeOK
  <2> QED
    BY <1>4, <2>1
<1>6. /\ aSwap' \in Seq(Mensajes) /\ DOMAIN aSwap' = 1..(n - 1)
      /\ \A k \in 1..(n - 1) : aSwap'[k] = aSwap[k + 1] /\ k + 1 \in 1..n /\ k + 1 # 1
  BY <1>4, <1>5
<1>7. /\ deSwap' \in Seq(Mensajes) /\ DOMAIN deSwap' = 1..(d + 1)
      /\ \A k \in 1..d : deSwap'[k] = deSwap[k]
      /\ deSwap'[d + 1] = r
      /\ \A k \in 1..(d + 1) : k \in 1..d \/ k = d + 1
  BY <1>4, <1>5
<1> HIDE DEF n, d
<1>8. TypeOK'
  BY <1>1, <1>2, <1>4, <1>6, <1>7 DEF TypeOK
<1>9. Servicio'
  BY <1>1, <1>2, ServicioIgual
<1>10. m.pid \in Programas /\ (Pregunta(m) <=> Pregunta(r)) /\ 1 \in 1..n
  BY <1>4, <1>5 DEF Mensajes, Pregunta
<1>11. Fases'
  <2>1. \A q \in Programas :
          /\ proceso[q] = "no" => q \notin DOMAIN lista_tablas /\ q \notin DOMAIN almacen'
          /\ proceso[q] \in Vivos \cup {"nuevo"} => q \in DOMAIN lista_tablas
          /\ proceso[q] \in Vivos => q \in DOMAIN almacen'
    <3> TAKE q \in Programas
    <3>1. CASE q # m.pid
      BY <1>1, <1>4, <3>1 DEF Fases
    <3>2. CASE q = m.pid /\ m.id \notin {"iniciar", "finalizar"}
      BY <1>1, <1>4, <3>2 DEF Fases
    <3>3. CASE q = m.pid /\ m.id \in {"iniciar", "finalizar"}
      <4>1. proceso[q] \in {"nuevo", "matando", "finalizando"}
        BY <1>4, <3>3 DEF Vigente
      <4> QED
        BY <1>1, <4>1 DEF Fases, Vivos
    <3> QED
      BY <3>1, <3>2, <3>3
  <2>2. nucleo # NULO => nucleo \in DOMAIN almacen'
    <3> SUFFICES ASSUME nucleo # NULO
                 PROVE  nucleo \in DOMAIN almacen'
      OBVIOUS
    <3>1. nucleo \in DOMAIN almacen /\ nucleo \in Programas
      BY <1>1 DEF Fases, TypeOK
    <3>2. CASE Pregunta(m)
      <4>1. nucleo # m.pid
        BY <1>1, <1>4, <3>2, DeLaPregunta
      <4> QED
        BY <1>4, <3>1, <4>1
    <3>3. CASE ~Pregunta(m)
      BY <1>4, <3>1, <3>3 DEF Pregunta
    <3> QED
      BY <3>2, <3>3
  <2> QED
    BY <1>1, <1>2, <2>1, <2>2 DEF Fases
<1>12. UnaPregunta'
  <2>1. /\ \A j, k \in 1..n :
             Pregunta(aSwap[j]) /\ Pregunta(aSwap[k]) /\ aSwap[j].pid = aSwap[k].pid => j = k
        /\ \A j, k \in 1..d :
             Pregunta(deSwap[j]) /\ Pregunta(deSwap[k]) /\ deSwap[j].pid = deSwap[k].pid => j = k
        /\ \A j \in 1..n, k \in 1..d :
             Pregunta(aSwap[j]) /\ Pregunta(deSwap[k]) => aSwap[j].pid # deSwap[k].pid
        /\ \A j \in 1..n : Pregunta(aSwap[j]) => ~EnManos(aSwap[j].pid)
        /\ \A j \in 1..d : Pregunta(deSwap[j]) => ~EnManos(deSwap[j].pid)
        /\ \A j, k \in 1..n : aSwap[j].id = "finalizar" /\ aSwap[j].pid = aSwap[k].pid => k <= j
    BY <1>1, <1>5 DEF UnaPregunta
  <2>2. \A j, k \in 1..(n - 1) :
          Pregunta(aSwap'[j]) /\ Pregunta(aSwap'[k]) /\ aSwap'[j].pid = aSwap'[k].pid => j = k
    <3> SUFFICES ASSUME NEW j \in 1..(n - 1), NEW k \in 1..(n - 1),
                        Pregunta(aSwap'[j]), Pregunta(aSwap'[k]), aSwap'[j].pid = aSwap'[k].pid
                 PROVE  j = k
      OBVIOUS
    <3>1. j + 1 = k + 1
      BY <1>6, <2>1
    <3> QED
      BY <3>1
  <2>3. \A j, k \in 1..(d + 1) :
          Pregunta(deSwap'[j]) /\ Pregunta(deSwap'[k]) /\ deSwap'[j].pid = deSwap'[k].pid => j = k
    BY <1>4, <1>5, <1>7, <1>10, <2>1
  <2>4. \A j \in 1..(n - 1), k \in 1..(d + 1) :
          Pregunta(aSwap'[j]) /\ Pregunta(deSwap'[k]) => aSwap'[j].pid # deSwap'[k].pid
    <3> SUFFICES ASSUME NEW j \in 1..(n - 1), NEW k \in 1..(d + 1),
                        Pregunta(aSwap'[j]), Pregunta(deSwap'[k])
                 PROVE  aSwap'[j].pid # deSwap'[k].pid
      OBVIOUS
    <3>1. aSwap'[j] = aSwap[j + 1] /\ j + 1 \in 1..n /\ j + 1 # 1
      BY <1>6
    <3>2. CASE k \in 1..d
      BY <1>7, <2>1, <3>1, <3>2
    <3>3. CASE k = d + 1
      BY <1>4, <1>5, <1>7, <1>10, <2>1, <3>1, <3>3
    <3> QED
      BY <1>7, <3>2, <3>3
  <2>5. \A j \in 1..(n - 1) : Pregunta(aSwap'[j]) => ~EnManos(aSwap'[j].pid)
    BY <1>6, <2>1
  <2>6. \A j \in 1..(d + 1) : Pregunta(deSwap'[j]) => ~EnManos(deSwap'[j].pid)
    BY <1>4, <1>5, <1>7, <1>10, <2>1
  <2>7. \A j, k \in 1..(n - 1) :
          aSwap'[j].id = "finalizar" /\ aSwap'[j].pid = aSwap'[k].pid => k <= j
    <3> SUFFICES ASSUME NEW j \in 1..(n - 1), NEW k \in 1..(n - 1),
                        aSwap'[j].id = "finalizar", aSwap'[j].pid = aSwap'[k].pid
                 PROVE  k <= j
      OBVIOUS
    <3>1. k + 1 <= j + 1
      BY <1>6, <2>1
    <3> QED
      BY <3>1
  <2>8. \A q : EnManos(q)' <=> EnManos(q)
    BY <1>2 DEF EnManos
  <2> QED
    BY <1>6, <1>7, <2>2, <2>3, <2>4, <2>5, <2>6, <2>7, <2>8 DEF UnaPregunta, Pregunta
<1>13. \A p, i : Presente(p, i)' <=> Presente(p, i)
  BY <1>1, <1>3, PresentesIguales
<1>14. ASSUME NEW x \in Mensajes, Vigente(x), Pregunta(m) /\ Pregunta(x) => x.pid # m.pid
       PROVE  Vigente(x)'
  <2>1. CASE ~Pregunta(m)
    <3>1. DOMAIN almacen' = DOMAIN almacen
      BY <1>4, <2>1 DEF Pregunta
    <3> QED
      BY <1>2, <1>14, <3>1 DEF Vigente
  <2>2. CASE Pregunta(m)
    <3>1. \A q \in Programas \ {m.pid} : MismoPrograma(q)
      BY <1>2, <1>4 DEF MismoPrograma
    <3> QED
      BY <1>2, <1>14, <2>2, <3>1, VigenteDelResto
  <2> QED
    BY <2>1, <2>2
<1>15. Vigente(r)'
  BY <1>2, <1>4 DEF Vigente
<1>16. Preguntas'
  <2>1. ASSUME NEW k \in 1..(n - 1), NEW x, x = aSwap'[k]
        PROVE  Vigente(x)' /\ PorServir(x)'
    <3>1. /\ x = aSwap[k + 1] /\ k + 1 \in 1..n /\ k + 1 # 1
          /\ x \in Mensajes /\ Vigente(x) /\ PorServir(x)
      BY <1>1, <1>5, <1>6, <2>1 DEF Preguntas
    <3>2. Pregunta(m) /\ Pregunta(x) => x.pid # m.pid
      BY <1>1, <1>5, <1>10, <3>1 DEF UnaPregunta
    <3>3. m.id = "finalizar" => x.pid # m.pid
      <4>1. m.id = "finalizar" /\ x.pid = m.pid => k + 1 <= 1
        BY <1>1, <1>5, <1>10, <3>1 DEF UnaPregunta
      <4> QED
        BY <1>6, <4>1
    <3>4. x.pid \in Programas
      BY <3>1 DEF Mensajes
    <3>5. x.pid \in DOMAIN almacen /\ (Pregunta(x) /\ Pregunta(m) => x.pid # m.pid)
             => x.pid \in DOMAIN almacen'
      <4>1. CASE x.pid = m.pid
        <5>1. CASE m.id = "iniciar"
          BY <1>4, <4>1, <5>1 DEF PorServir
        <5>2. CASE m.id # "iniciar"
          BY <1>4, <3>3, <4>1, <5>2
        <5> QED
          BY <5>1, <5>2
      <4>2. CASE x.pid # m.pid
        BY <1>4, <3>4, <4>2
      <4> QED
        BY <4>1, <4>2
    <3>6. PorServir(x)'
      <4>1. CASE x.id = "iniciar"
        <5>1. x.pid \notin DOMAIN almacen
          BY <3>1, <4>1 DEF PorServir
        <5>2. x.pid \notin DOMAIN almacen'
          <6>1. CASE Pregunta(m)
            BY <1>4, <3>2, <3>4, <4>1, <5>1, <6>1 DEF Pregunta
          <6>2. CASE ~Pregunta(m)
            BY <1>4, <5>1, <6>2 DEF Pregunta
          <6> QED
            BY <6>1, <6>2
        <5> QED
          BY <4>1, <5>2 DEF PorServir
      <4>2. CASE x.id \in {"guardar", "finalizar"}
        BY <3>1, <3>2, <3>5, <4>2 DEF PorServir
      <4>3. CASE x.id \notin {"iniciar", "guardar", "finalizar"}
        BY <1>13, <3>1, <4>3 DEF PorServir
      <4> QED
        BY <4>1, <4>2, <4>3
    <3> QED
      BY <1>14, <3>1, <3>2, <3>6
  <2>2. ASSUME NEW k \in 1..(d + 1), NEW x, x = deSwap'[k]
        PROVE  Vigente(x)' /\ Servido(x)'
    <3>1. CASE k = d + 1
      <4>1. x = r
        BY <1>7, <2>2, <3>1
      <4>2. Servido(r)'
        <5>1. m.id \in {"iniciar", "nueva", "guardar", "leer", "escribir", "finalizar"}
          BY <1>4 DEF Mensajes
        <5>2. CASE m.id \in {"leer", "escribir"}
          <6>1. ~Presente(m.pid, m.pagina)'
            BY <1>4, <1>13, <5>2 DEF PorServir
          <6> QED
            BY <1>4, <5>2, <6>1 DEF Servido
        <5>3. CASE m.id \notin {"leer", "escribir"}
          BY <1>4, <5>3 DEF Servido
        <5> QED
          BY <5>2, <5>3
      <4> QED
        BY <1>15, <4>1, <4>2
    <3>2. CASE k \in 1..d
      <4>1. x = deSwap[k] /\ x \in Mensajes /\ Vigente(x) /\ Servido(x)
        BY <1>1, <1>5, <1>7, <2>2, <3>2 DEF Preguntas
      <4>2. Pregunta(m) /\ Pregunta(x) => x.pid # m.pid
        BY <1>1, <1>5, <1>10, <3>2, <4>1 DEF UnaPregunta
      <4>3. x.pid \in Programas
        BY <4>1 DEF Mensajes
      <4>4. Pregunta(x) => (x.pid \in DOMAIN almacen <=> x.pid \in DOMAIN almacen')
        <5>1. CASE Pregunta(m)
          BY <1>4, <4>2, <4>3, <5>1
        <5>2. CASE ~Pregunta(m)
          BY <1>4, <5>2 DEF Pregunta
        <5> QED
          BY <5>1, <5>2
      <4>5. Servido(x)'
        BY <1>13, <4>1, <4>4 DEF Servido, Pregunta
      <4> QED
        BY <1>14, <4>1, <4>2, <4>5
    <3> QED
      BY <1>7, <3>1, <3>2
  <2> QED
    BY <1>6, <1>7, <2>1, <2>2 DEF Preguntas
<1>17. Servidor'
  <2>1. ASSUME servidor.en # "libre"
        PROVE  Vigente(servidor.mensaje)'
    <3>1. PICK x : x = servidor.mensaje
      OBVIOUS
    <3>2. x \in Mensajes /\ Vigente(x) /\ EnManos(x.pid)
      BY <1>1, <2>1, <3>1 DEF Servidor, EnManos
    <3>3. Pregunta(m) => x.pid # m.pid
      BY <1>1, <1>5, <1>10, <3>2 DEF UnaPregunta
    <3>4. Vigente(x)'
      BY <1>14, <3>2, <3>3
    <3> QED
      BY <1>2, <3>1, <3>4
  <2> QED
    BY <1>1, <1>2, <1>13, <2>1 DEF Servidor
<1>18. Reparto' /\ Listas'
  BY <1>1, <1>2, <1>3, RepartoIgual, ListasIguales
<1>19. TlbDeLaTabla' /\ TlbLista'
  BY <1>2, <1>3, TlbIgual
<1> QED
  BY <1>8, <1>9, <1>11, <1>12, <1>16, <1>17, <1>18, <1>19 DEF Inv

-----------------------------------------------------------------------------
(* The thread that receives from the SWAP.  The first message is taken, and*)
(* at most one is sent, about the same program.                            *)
LEMMA SinPrimera ==
  ASSUME TypeOK, UnaPregunta, Preguntas, DOMAIN almacen' = DOMAIN almacen,
         NEW h \in Mensajes, deSwap # << >>, h = Head(deSwap), deSwap' = Tail(deSwap),
         \A p, i : Presente(p, i)' => Presente(p, i),
         \A m \in Mensajes : Vigente(m) /\ (Pregunta(h) /\ Pregunta(m) => m.pid # h.pid)
                               => Vigente(m)',
         \/ UNCHANGED aSwap /\ \A q : EnManos(q)' => q = h.pid /\ Pregunta(h)
         \/ /\ \A q : ~EnManos(q)'
            /\ \E e \in Mensajes : /\ aSwap' = Append(aSwap, e) /\ Pregunta(e) /\ Pregunta(h)
                                   /\ e.pid = h.pid /\ Vigente(e)' /\ PorServir(e)'
  PROVE  UnaPregunta' /\ Preguntas' /\ aSwap' \in Seq(Mensajes) /\ deSwap' \in Seq(Mensajes)
<1> DEFINE n == Len(aSwap)
           d == Len(deSwap)
<1>1. /\ aSwap \in Seq(Mensajes) /\ deSwap \in Seq(Mensajes)
      /\ n \in Nat /\ DOMAIN aSwap = 1..n
      /\ d \in Nat /\ d > 0 /\ DOMAIN deSwap = 1..d /\ 1 \in 1..d
      /\ \A k \in 1..n : aSwap[k] \in Mensajes
      /\ \A k \in 1..d : deSwap[k] \in Mensajes
      /\ deSwap[1] = h
  <2>1. aSwap \in Seq(Mensajes) /\ deSwap \in Seq(Mensajes)
    BY DEF TypeOK
  <2> QED
    BY <2>1
<1>2. /\ deSwap' \in Seq(Mensajes) /\ DOMAIN deSwap' = 1..(d - 1)
      /\ \A k \in 1..(d - 1) : deSwap'[k] = deSwap[k + 1] /\ k + 1 \in 1..d /\ k + 1 # 1
  BY <1>1
<1> HIDE DEF n, d
<1>3. /\ \A j, k \in 1..n :
           Pregunta(aSwap[j]) /\ Pregunta(aSwap[k]) /\ aSwap[j].pid = aSwap[k].pid => j = k
      /\ \A j, k \in 1..d :
           Pregunta(deSwap[j]) /\ Pregunta(deSwap[k]) /\ deSwap[j].pid = deSwap[k].pid => j = k
      /\ \A j \in 1..n, k \in 1..d :
           Pregunta(aSwap[j]) /\ Pregunta(deSwap[k]) => aSwap[j].pid # deSwap[k].pid
      /\ \A j, k \in 1..n : aSwap[j].id = "finalizar" /\ aSwap[j].pid = aSwap[k].pid => k <= j
  BY <1>1 DEF UnaPregunta
<1>4. ASSUME NEW m \in Mensajes, Vigente(m), Pregunta(h) /\ Pregunta(m) => m.pid # h.pid
      PROVE  /\ Vigente(m)'
             /\ PorServir(m) => PorServir(m)'
             /\ Servido(m) => Servido(m)'
  BY <1>4 DEF PorServir, Servido
<1>5. ASSUME NEW k \in 1..n, NEW x, x = aSwap[k]
      PROVE  /\ Vigente(x)' /\ PorServir(x)'
             /\ Pregunta(h) /\ Pregunta(x) => x.pid # h.pid
  <2>1. x \in Mensajes /\ Vigente(x) /\ PorServir(x)
    BY <1>1, <1>5 DEF Preguntas
  <2>2. Pregunta(h) /\ Pregunta(x) => x.pid # h.pid
    BY <1>1, <1>3, <1>5
  <2> QED
    BY <1>4, <2>1, <2>2
<1>6. ASSUME NEW k \in 1..(d - 1), NEW x, x = deSwap'[k]
      PROVE  /\ Vigente(x)' /\ Servido(x)'
             /\ Pregunta(h) /\ Pregunta(x) => x.pid # h.pid
  <2>1. x = deSwap[k + 1] /\ k + 1 \in 1..d /\ k + 1 # 1
    BY <1>2, <1>6
  <2>2. x \in Mensajes /\ Vigente(x) /\ Servido(x)
    BY <1>1, <2>1 DEF Preguntas
  <2>3. Pregunta(h) /\ Pregunta(x) => x.pid # h.pid
    BY <1>1, <1>3, <2>1
  <2> QED
    BY <1>4, <2>2, <2>3
<1>7. \A j, k \in 1..(d - 1) :
        Pregunta(deSwap'[j]) /\ Pregunta(deSwap'[k]) /\ deSwap'[j].pid = deSwap'[k].pid => j = k
  <2> SUFFICES ASSUME NEW j \in 1..(d - 1), NEW k \in 1..(d - 1),
                      Pregunta(deSwap'[j]), Pregunta(deSwap'[k]), deSwap'[j].pid = deSwap'[k].pid
               PROVE  j = k
    OBVIOUS
  <2>1. j + 1 = k + 1
    BY <1>2, <1>3
  <2> QED
    BY <2>1
<1>8. CASE UNCHANGED aSwap /\ \A q : EnManos(q)' => q = h.pid /\ Pregunta(h)
  <2>1. \A j \in 1..n, k \in 1..(d - 1) :
          Pregunta(aSwap[j]) /\ Pregunta(deSwap'[k]) => aSwap[j].pid # deSwap'[k].pid
    BY <1>2, <1>3
  <2>2. /\ \A j \in 1..n : \A q : Pregunta(aSwap[j]) /\ q = aSwap[j].pid => ~EnManos(q)'
        /\ \A j \in 1..(d - 1) : \A q :
             Pregunta(deSwap'[j]) /\ q = deSwap'[j].pid => ~EnManos(q)'
    BY <1>5, <1>6, <1>8
  <2>3. UnaPregunta'
    BY <1>1, <1>2, <1>3, <1>7, <1>8, <2>1, <2>2 DEF UnaPregunta, Pregunta, EnManos
  <2>4. Preguntas'
    BY <1>1, <1>2, <1>5, <1>6, <1>8 DEF Preguntas
  <2> QED
    BY <1>1, <1>2, <1>8, <2>3, <2>4
<1>9. CASE /\ \A q : ~EnManos(q)'
           /\ \E e \in Mensajes : /\ aSwap' = Append(aSwap, e) /\ Pregunta(e) /\ Pregunta(h)
                                  /\ e.pid = h.pid /\ Vigente(e)' /\ PorServir(e)'
  <2>1. PICK e \in Mensajes : /\ aSwap' = Append(aSwap, e) /\ Pregunta(e) /\ Pregunta(h)
                              /\ e.pid = h.pid /\ Vigente(e)' /\ PorServir(e)'
    BY <1>9
  <2>2. /\ aSwap' \in Seq(Mensajes) /\ DOMAIN aSwap' = 1..(n + 1) /\ aSwap'[n + 1] = e
        /\ \A k \in 1..n : aSwap'[k] = aSwap[k]
        /\ \A k \in 1..(n + 1) : k \in 1..n \/ k = n + 1
    <3>1. /\ aSwap' \in Seq(Mensajes) /\ Len(aSwap') = n + 1 /\ aSwap'[n + 1] = e
          /\ \A k \in 1..n : aSwap'[k] = aSwap[k]
      <4>1. aSwap \in Seq(Mensajes) /\ aSwap' = Append(aSwap, e)
        BY <1>1, <2>1
      <4> QED
        BY <4>1, AppendProperties DEF n
    <3>2. DOMAIN aSwap' = 1..(n + 1)
      BY <3>1, LenProperties
    <3>3. n \in Nat
      BY <1>1
    <3> QED
      BY <3>1, <3>2, <3>3
  <2>3. /\ \A k \in 1..n : Pregunta(aSwap[k]) => aSwap[k].pid # e.pid
        /\ \A k \in 1..(d - 1) : Pregunta(deSwap'[k]) => deSwap'[k].pid # e.pid
    BY <1>5, <1>6, <2>1
  <2>4. \A j, k \in 1..(n + 1) :
          Pregunta(aSwap'[j]) /\ Pregunta(aSwap'[k]) /\ aSwap'[j].pid = aSwap'[k].pid => j = k
    <3> TAKE j, k \in 1..(n + 1)
    <3>1. CASE j \in 1..n /\ k \in 1..n
      BY <1>3, <2>2, <3>1
    <3>2. CASE j = n + 1 \/ k = n + 1
      BY <2>2, <2>3, <3>2
    <3> QED
      BY <2>2, <3>1, <3>2
  <2>5. \A j \in 1..(n + 1), k \in 1..(d - 1) :
          Pregunta(aSwap'[j]) /\ Pregunta(deSwap'[k]) => aSwap'[j].pid # deSwap'[k].pid
    <3>1. \A j \in 1..n, k \in 1..(d - 1) :
            Pregunta(aSwap[j]) /\ Pregunta(deSwap'[k]) => aSwap[j].pid # deSwap'[k].pid
      BY <1>2, <1>3
    <3> QED
      BY <2>2, <2>3, <3>1
  <2>6. \A j, k \in 1..(n + 1) :
          aSwap'[j].id = "finalizar" /\ aSwap'[j].pid = aSwap'[k].pid => k <= j
    <3> SUFFICES ASSUME NEW j \in 1..(n + 1), NEW k \in 1..(n + 1),
                        aSwap'[j].id = "finalizar", aSwap'[j].pid = aSwap'[k].pid
                 PROVE  k <= j
      OBVIOUS
    <3>1. CASE j = n + 1
      BY <1>1, <3>1
    <3>2. CASE j \in 1..n
      <4>1. aSwap'[j] = aSwap[j] /\ Pregunta(aSwap[j])
        BY <2>2, <3>2 DEF Pregunta
      <4>2. k \in 1..n
        BY <2>2, <2>3, <3>2, <4>1
      <4> QED
        BY <1>3, <2>2, <3>2, <4>1, <4>2
    <3> QED
      BY <2>2, <3>1, <3>2
  <2>7. UnaPregunta'
    <3>1. DOMAIN aSwap' = 1..(n + 1) /\ DOMAIN deSwap' = 1..(d - 1)
      BY <1>2, <2>2
    <3>2. \A q : ~(servidor'.en # "libre" /\ servidor'.mensaje.pid = q)
      BY <1>9 DEF EnManos
    <3>3. /\ \A j \in DOMAIN aSwap' : ~EnManos(aSwap[j].pid)'
          /\ \A j \in DOMAIN deSwap' : ~EnManos(deSwap[j].pid)'
      BY <3>2 DEF EnManos
    <3> DEFINE A == DOMAIN aSwap'
               D == DOMAIN deSwap'
    <3>4. \A j, k \in A : Pregunta(aSwap[j])' /\ Pregunta(aSwap[k])'
                            /\ aSwap'[j].pid = aSwap'[k].pid => j = k
      BY <2>4, <3>1 DEF Pregunta
    <3>5. \A j, k \in D : Pregunta(deSwap[j])' /\ Pregunta(deSwap[k])'
                            /\ deSwap'[j].pid = deSwap'[k].pid => j = k
      <4> SUFFICES ASSUME NEW j \in D, NEW k \in D, deSwap'[j].id # "guardar",
                          deSwap'[k].id # "guardar", deSwap'[j].pid = deSwap'[k].pid
                   PROVE  j = k
        BY DEF Pregunta
      <4>1. j \in 1..(d - 1) /\ k \in 1..(d - 1)
        BY <3>1
      <4>2. Pregunta(deSwap'[j]) /\ Pregunta(deSwap'[k])
        BY DEF Pregunta
      <4> QED
        BY <1>7, <4>1, <4>2
    <3>6. \A j \in A, k \in D : Pregunta(aSwap[j])' /\ Pregunta(deSwap[k])'
                                     => aSwap'[j].pid # deSwap'[k].pid
      BY <2>5, <3>1 DEF Pregunta
    <3>7. \A j, k \in A : aSwap'[j].id = "finalizar" /\ aSwap'[j].pid = aSwap'[k].pid => k <= j
      BY <2>6, <3>1
    <3> HIDE DEF A, D
    <3> QED
      BY <3>3, <3>4, <3>5, <3>6, <3>7 DEF UnaPregunta, A, D
  <2>8. ASSUME NEW k \in 1..(n + 1), NEW x, x = aSwap'[k]
        PROVE  Vigente(x)' /\ PorServir(x)'
    <3>1. CASE k \in 1..n
      BY <1>5, <2>2, <2>8, <3>1
    <3>2. CASE k = n + 1
      BY <2>1, <2>2, <2>8, <3>2
    <3> QED
      BY <2>2, <3>1, <3>2
  <2>9. Preguntas'
    BY <1>2, <1>6, <2>2, <2>8 DEF Preguntas
  <2> QED
    BY <1>2, <2>2, <2>7, <2>9
<1> QED
  BY <1>8, <1>9

(* What is known of the message that arrives first.                        *)
LEMMA LaQueLlega ==
  ASSUME Inv, NEW ids, Llega(ids)
  PROVE  \E h \in Mensajes :
           /\ h = Head(deSwap) /\ deSwap # << >> /\ deSwap' = Tail(deSwap)
           /\ h.id \in ids /\ h.pid \in Programas
           /\ Vigente(h) /\ Servido(h)
           /\ servidor.en = "libre" /\ \A q : ~EnManos(q)
<1>1. /\ deSwap \in Seq(Mensajes) /\ deSwap # << >> /\ deSwap' = Tail(deSwap)
      /\ Head(deSwap).id \in ids /\ servidor.en = "libre"
  BY DEF Inv, TypeOK, Llega
<1>2. Head(deSwap) = deSwap[1] /\ 1 \in DOMAIN deSwap /\ deSwap[1] \in Mensajes
  BY <1>1
<1>3. Vigente(deSwap[1]) /\ Servido(deSwap[1])
  BY <1>2 DEF Inv, Preguntas
<1>4. PICK h : h = deSwap[1]
  OBVIOUS
<1>5. Vigente(h) /\ Servido(h) /\ h \in Mensajes
  BY <1>2, <1>3, <1>4
<1>6. h.pid \in Programas
  BY <1>5 DEF Mensajes
<1> QED
  BY <1>1, <1>2, <1>4, <1>5, <1>6 DEF EnManos

(* What every message that arrives leaves as it is.                        *)
LEMMA AlLlegar ==
  ASSUME Inv, NEW h \in Mensajes, deSwap # << >>, h = Head(deSwap), deSwap' = Tail(deSwap),
         UNCHANGED <<memoriaVars, lista_paginas_tlb, lista_cpus, nucleo, almacen>>,
         Pregunta(h),
         \A q \in Programas \ {h.pid} :
           proceso'[q] = proceso[q] /\ buffer_programas'[q] = buffer_programas[q],
         \A c \in Cpus : hilo'[c] = hilo[c] \/ lista_cpus[c] = h.pid,
         \A c \in Cpus : hilo'[c].en = "acceder" => hilo'[c] = hilo[c],
         servidor'.en # "responder",
         \/ UNCHANGED aSwap /\ \A q : EnManos(q)' => q = h.pid
         \/ /\ \A q : ~EnManos(q)'
            /\ \E e \in Mensajes : /\ aSwap' = Append(aSwap, e) /\ Pregunta(e)
                                   /\ e.pid = h.pid /\ Vigente(e)' /\ PorServir(e)'
  PROVE  /\ UnaPregunta' /\ Preguntas' /\ aSwap' \in Seq(Mensajes) /\ deSwap' \in Seq(Mensajes)
         /\ Reparto' /\ Listas' /\ TlbDeLaTabla' /\ TlbLista'
<1>1. TypeOK /\ UnaPregunta /\ Preguntas /\ Reparto /\ Listas
  BY DEF Inv
<1>2. MismosMarcos
  BY <1>1, TablasIguales DEF memoriaVars
<1>3. \A p, i : Presente(p, i)' => Presente(p, i)
  BY <1>1, <1>2, PresentesIguales
<1>4. \A m \in Mensajes : Vigente(m) /\ (Pregunta(h) /\ Pregunta(m) => m.pid # h.pid)
                            => Vigente(m)'
  <2>1. \A q \in Programas \ {h.pid} : MismoPrograma(q)
    BY DEF MismoPrograma, memoriaVars
  <2> QED
    BY <2>1, VigenteDelResto
<1>5. UnaPregunta' /\ Preguntas' /\ aSwap' \in Seq(Mensajes) /\ deSwap' \in Seq(Mensajes)
  BY <1>1, <1>3, <1>4, SinPrimera
<1>6. Reparto' /\ Listas'
  BY <1>1, <1>2, RepartoIgual, ListasIguales DEF memoriaVars
<1>7. TlbDeLaTabla' /\ TlbLista'
  BY <1>2, TlbIgual
<1> QED
  BY <1>5, <1>6, <1>7

(* respuesta_iniciar_programa, accepted or not.                            *)
LEMMA InvRespuestaIniciar ==
  ASSUME Inv, RespuestaIniciar
  PROVE  Inv'
<1>1. /\ TypeOK /\ Servicio /\ Fases /\ MismosMarcos
  BY TablasIguales DEF Inv, RespuestaIniciar, memoriaVars
<1>2. Llega({"iniciar"})
  BY DEF RespuestaIniciar
<1>3. PICK h \in Mensajes :
        /\ h = Head(deSwap) /\ deSwap # << >> /\ deSwap' = Tail(deSwap)
        /\ h.id = "iniciar" /\ h.pid \in Programas
        /\ Vigente(h) /\ Servido(h)
        /\ servidor.en = "libre" /\ \A q : ~EnManos(q)
  BY <1>2, LaQueLlega
<1>4. PICK p : p = h.pid
  OBVIOUS
<1>5. PICK e : e = Mensaje("nueva", p, 0, NULO, Codigo)
  OBVIOUS
<1>6. /\ buffer_programas' = [buffer_programas EXCEPT ![p] = NULO]
      /\ \/ /\ h.valor = Exito /\ aSwap' = Append(aSwap, e)
            /\ lista_procesos_activos' = lista_procesos_activos \cup {p}
            /\ UNCHANGED proceso
         \/ /\ h.valor = Error /\ proceso' = [proceso EXCEPT ![p] = "rechazado"]
            /\ UNCHANGED <<aSwap, lista_procesos_activos>>
      /\ UNCHANGED <<memoriaVars, lista_paginas_tlb, lista_cpus, hilo, servidor, nucleo,
                     consola, almacen, respuesta>>
  BY <1>3, <1>4, <1>5 DEF RespuestaIniciar, Enviar
<1>7. /\ p \in Programas /\ proceso[p] = "nuevo" /\ Pregunta(h)
      /\ h.valor = Exito => p \in DOMAIN almacen
  BY <1>3, <1>4 DEF Vigente, Servido, Pregunta
<1>8. /\ buffer_programas'[p] = NULO /\ proceso'[p] \in {"nuevo", "rechazado"}
      /\ \A q \in Programas \ {p} :
           proceso'[q] = proceso[q] /\ buffer_programas'[q] = buffer_programas[q]
      /\ h.valor = Exito => proceso'[p] = "nuevo"
  BY <1>1, <1>6, <1>7, SupuestoNulo DEF TypeOK
<1>9. /\ e \in Mensajes /\ e.id = "nueva" /\ e.pid = p /\ e.valor = Codigo
      /\ Codigo \in Contenidos
  <2>1. 0 \in 0..(MaxPaginas - 1) /\ Codigo \in Contenidos
    BY SupuestoUmc
  <2> QED
    BY <1>5, <1>7, <2>1 DEF Mensaje, Mensajes
<1>10. /\ UnaPregunta' /\ Preguntas' /\ aSwap' \in Seq(Mensajes) /\ deSwap' \in Seq(Mensajes)
       /\ Reparto' /\ Listas' /\ TlbDeLaTabla' /\ TlbLista'
  <2>1. \A q : ~EnManos(q)'
    BY <1>3, <1>6 DEF EnManos
  <2>2. h.valor = Exito => Vigente(e)' /\ PorServir(e)'
    BY <1>6, <1>7, <1>8, <1>9 DEF Vigente, PorServir
  <2>3. Pregunta(e)
    BY <1>9 DEF Pregunta
  <2>4. servidor'.en # "responder"
    BY <1>3, <1>6
  <2>5. \/ UNCHANGED aSwap
        \/ \E e1 \in Mensajes : /\ aSwap' = Append(aSwap, e1) /\ Pregunta(e1)
                                /\ e1.pid = h.pid /\ Vigente(e1)' /\ PorServir(e1)'
    BY <1>4, <1>6, <1>9, <2>2, <2>3
  <2> QED
    BY <1>3, <1>4, <1>6, <1>7, <1>8, <2>1, <2>4, <2>5, AlLlegar
<1>11. nucleo # p /\ p \in DOMAIN lista_tablas
  <2>1. nucleo # p
    BY <1>1, <1>3, <1>4, <1>7, DeLaPregunta
  <2> QED
    BY <1>1, <1>7, <2>1 DEF Fases
<1>12. TypeOK'
  <2>1. proceso' \in [Programas -> Estados]
    BY <1>1, <1>6, <1>7 DEF TypeOK, Estados
  <2>2. buffer_programas' \in [Programas -> Buffers \cup {NULO}]
    BY <1>1, <1>6 DEF TypeOK
  <2>3. lista_procesos_activos' \subseteq DOMAIN lista_tablas
    BY <1>1, <1>6, <1>11 DEF TypeOK
  <2> QED
    BY <1>1, <1>6, <1>10, <2>1, <2>2, <2>3 DEF TypeOK, memoriaVars
<1>13. Servicio'
  BY <1>1, <1>6, <1>7, <1>8, ServicioDeOtros
<1>14. Fases'
  <2>1. \A q \in lista_procesos_activos' : q \in lista_procesos_activos \/ q = p
    BY <1>6
  <2> QED
    BY <1>1, <1>6, <1>7, <1>8, <1>11, <2>1, FasesDeUno DEF Vivos, memoriaVars
<1>15. Servidor'
  BY <1>3, <1>6 DEF Servidor, Inv
<1> QED
  BY <1>10, <1>12, <1>13, <1>14, <1>15 DEF Inv

(* respuesta_escribir_pagina_nueva: the program is ready.                  *)
LEMMA InvRespuestaEscribirNueva ==
  ASSUME Inv, RespuestaEscribirNueva
  PROVE  Inv'
<1>1. /\ TypeOK /\ Servicio /\ Fases /\ MismosMarcos
  BY TablasIguales DEF Inv, RespuestaEscribirNueva, memoriaVars
<1>2. Llega({"nueva"})
  BY DEF RespuestaEscribirNueva
<1>3. PICK h \in Mensajes :
        /\ h = Head(deSwap) /\ deSwap # << >> /\ deSwap' = Tail(deSwap)
        /\ h.id = "nueva" /\ h.pid \in Programas
        /\ Vigente(h) /\ Servido(h)
        /\ servidor.en = "libre" /\ \A q : ~EnManos(q)
  BY <1>2, LaQueLlega
<1>4. PICK p : p = h.pid
  OBVIOUS
<1>5. /\ proceso' = [proceso EXCEPT ![p] = "listo"]
      /\ UNCHANGED <<memoriaVars, lista_paginas_tlb, lista_cpus, lista_procesos_activos,
                     buffer_programas, hilo, servidor, nucleo, consola, aSwap, almacen, respuesta>>
  BY <1>3, <1>4 DEF RespuestaEscribirNueva
<1>6. p \in Programas /\ proceso[p] = "nuevo" /\ Pregunta(h) /\ p \in DOMAIN almacen
  BY <1>3, <1>4 DEF Vigente, Pregunta
<1>7. proceso'[p] = "listo" /\ \A q \in Programas \ {p} : proceso'[q] = proceso[q]
  BY <1>1, <1>5, <1>6 DEF TypeOK
<1>8. /\ UnaPregunta' /\ Preguntas' /\ aSwap' \in Seq(Mensajes) /\ deSwap' \in Seq(Mensajes)
      /\ Reparto' /\ Listas' /\ TlbDeLaTabla' /\ TlbLista'
  <2>1. (\A q : ~EnManos(q)') /\ servidor'.en # "responder"
    BY <1>3, <1>5 DEF EnManos
  <2> QED
    BY <1>3, <1>4, <1>5, <1>6, <1>7, <2>1, AlLlegar
<1>9. nucleo # p /\ p \in DOMAIN lista_tablas
  <2>1. nucleo # p
    BY <1>1, <1>3, <1>4, <1>6, DeLaPregunta
  <2> QED
    BY <1>1, <1>6, <2>1 DEF Fases
<1>10. TypeOK'
  <2>1. proceso' \in [Programas -> Estados]
    BY <1>1, <1>5, <1>6 DEF TypeOK, Estados
  <2> QED
    BY <1>1, <1>5, <1>8, <2>1 DEF TypeOK, memoriaVars
<1>11. Servicio'
  BY <1>1, <1>5, <1>6, <1>7, ServicioDeOtros
<1>12. Fases'
  BY <1>1, <1>5, <1>6, <1>7, <1>9, FasesDeUno DEF Vivos, memoriaVars
<1>13. Servidor'
  BY <1>3, <1>5 DEF Servidor, Inv
<1> QED
  BY <1>8, <1>10, <1>11, <1>12, <1>13 DEF Inv

(* respuesta_escribir_pagina changes nothing.                              *)
LEMMA InvRespuestaEscribir ==
  ASSUME Inv, RespuestaEscribir
  PROVE  Inv'
<1>1. /\ TypeOK /\ Servicio /\ Fases /\ Servidor /\ UnaPregunta /\ Preguntas
      /\ Reparto /\ Listas /\ MismosMarcos
  BY TablasIguales DEF Inv, RespuestaEscribir, memoriaVars
<1>2. Llega({"guardar"})
  BY DEF RespuestaEscribir
<1>3. PICK h \in Mensajes :
        /\ h = Head(deSwap) /\ deSwap # << >> /\ deSwap' = Tail(deSwap)
        /\ servidor.en = "libre" /\ \A q : ~EnManos(q)
  BY <1>2, LaQueLlega
<1>4. UNCHANGED <<memoriaVars, lista_paginas_tlb, lista_cpus, lista_procesos_activos,
                  buffer_programas, hilo, servidor, nucleo, consola, aSwap, almacen, proceso,
                  respuesta>>
  BY DEF RespuestaEscribir
<1>5. \A m : Vigente(m)' <=> Vigente(m)
  BY <1>4 DEF Vigente, memoriaVars
<1>6. UnaPregunta' /\ Preguntas' /\ aSwap' \in Seq(Mensajes) /\ deSwap' \in Seq(Mensajes)
  <2>1. \A p, i : Presente(p, i)' => Presente(p, i)
    BY <1>1, PresentesIguales
  <2>2. \A q : ~EnManos(q)'
    BY <1>3, <1>4 DEF EnManos
  <2> QED
    BY <1>1, <1>3, <1>4, <1>5, <2>1, <2>2, SinPrimera
<1>7. TypeOK'
  BY <1>1, <1>4, <1>6 DEF TypeOK, memoriaVars
<1>8. Servicio' /\ Fases'
  BY <1>1, <1>4, ServicioIgual, FasesIguales DEF memoriaVars
<1>9. Servidor'
  BY <1>1, <1>3, <1>4 DEF Servidor
<1>10. Reparto' /\ Listas'
  BY <1>1, <1>4, RepartoIgual, ListasIguales DEF memoriaVars
<1>11. TlbDeLaTabla' /\ TlbLista'
  BY <1>1, <1>4, TlbIgual
<1> QED
  BY <1>6, <1>7, <1>8, <1>9, <1>10, <1>11 DEF Inv

(* respuesta_finalizar_programa: the last message of a program.            *)
LEMMA InvRespuestaFinalizar ==
  ASSUME Inv, RespuestaFinalizar
  PROVE  Inv'
<1>1. /\ TypeOK /\ Servicio /\ Fases /\ MismosMarcos
  BY TablasIguales DEF Inv, RespuestaFinalizar, memoriaVars
<1>2. Llega({"finalizar"})
  BY DEF RespuestaFinalizar
<1>3. PICK h \in Mensajes :
        /\ h = Head(deSwap) /\ deSwap # << >> /\ deSwap' = Tail(deSwap)
        /\ h.id = "finalizar" /\ h.pid \in Programas
        /\ Vigente(h) /\ Servido(h)
        /\ servidor.en = "libre" /\ \A q : ~EnManos(q)
  BY <1>2, LaQueLlega
<1>4. PICK p, z : p = h.pid /\ z = IF buffer_programas[p].id = "matar" THEN "matado" ELSE "finalizado"
  OBVIOUS
<1>5. /\ proceso' = [proceso EXCEPT ![p] = z]
      /\ buffer_programas' = [buffer_programas EXCEPT ![p] = NULO]
      /\ UNCHANGED <<memoriaVars, lista_paginas_tlb, lista_cpus, lista_procesos_activos,
                     hilo, servidor, nucleo, consola, aSwap, almacen, respuesta>>
  BY <1>3, <1>4 DEF RespuestaFinalizar
<1>6. /\ p \in Programas /\ proceso[p] \in {"matando", "finalizando"} /\ Pregunta(h)
      /\ z \in {"matado", "finalizado"}
  BY <1>3, <1>4 DEF Vigente, Pregunta
<1>7. /\ proceso'[p] = z
      /\ \A q \in Programas \ {p} :
           proceso'[q] = proceso[q] /\ buffer_programas'[q] = buffer_programas[q]
  BY <1>1, <1>5, <1>6 DEF TypeOK
<1>8. /\ UnaPregunta' /\ Preguntas' /\ aSwap' \in Seq(Mensajes) /\ deSwap' \in Seq(Mensajes)
      /\ Reparto' /\ Listas' /\ TlbDeLaTabla' /\ TlbLista'
  <2>1. (\A q : ~EnManos(q)') /\ servidor'.en # "responder"
    BY <1>3, <1>5 DEF EnManos
  <2> QED
    BY <1>3, <1>4, <1>5, <1>6, <1>7, <2>1, AlLlegar
<1>9. nucleo # p
  BY <1>1, <1>3, <1>4, <1>6, DeLaPregunta
<1>10. TypeOK'
  <2>1. proceso' \in [Programas -> Estados]
    BY <1>1, <1>5, <1>6 DEF TypeOK, Estados
  <2>2. buffer_programas' \in [Programas -> Buffers \cup {NULO}]
    BY <1>1, <1>5 DEF TypeOK
  <2> QED
    BY <1>1, <1>5, <1>8, <2>1, <2>2 DEF TypeOK, memoriaVars
<1>11. Servicio'
  BY <1>1, <1>5, <1>6, <1>7, ServicioDeOtros
<1>12. Fases'
  BY <1>1, <1>5, <1>6, <1>7, <1>9, FasesDeUno DEF Vivos, memoriaVars
<1>13. Servidor'
  BY <1>3, <1>5 DEF Servidor, Inv
<1> QED
  BY <1>8, <1>10, <1>11, <1>12, <1>13 DEF Inv

(* The answer to the CPU: its thread waits for the next order, or ends.    *)
LEMMA TrasContestar ==
  ASSUME TypeOK, Servicio, NEW c \in Cpus, hilo[c].en \in {"swap", "muerto"}, Contestar(c),
         UNCHANGED <<lista_cpus, proceso>>
  PROVE  /\ Servicio'
         /\ hilo' \in [Cpus -> [en : {"cerrado", "ocioso", "libre", "acceder", "swap", "muerto"},
                                acceso : Pedidos \cup {NULO}, marco : 0..MARCOS]]
         /\ hilo'[c].en \in {"cerrado", "libre"}
         /\ \A d \in Cpus \ {c} : hilo'[d] = hilo[d]
<1>1. PICK z : z = Hilo(IF hilo[c].en = "muerto" THEN "cerrado" ELSE "libre", NULO, 0)
  OBVIOUS
<1>2. hilo' = [hilo EXCEPT ![c] = z]
  BY <1>1 DEF Contestar
<1>3. hilo \in [Cpus -> [en : {"cerrado", "ocioso", "libre", "acceder", "swap", "muerto"},
                         acceso : Pedidos \cup {NULO}, marco : 0..MARCOS]]
  BY DEF TypeOK
<1>4. /\ z.en = (IF hilo[c].en = "muerto" THEN "cerrado" ELSE "libre")
      /\ z.acceso = NULO /\ z.marco = 0
      /\ z \in [en : {"cerrado", "ocioso", "libre", "acceder", "swap", "muerto"},
                acceso : Pedidos \cup {NULO}, marco : 0..MARCOS]
  BY <1>1, SupuestoUmc DEF Hilo
<1>5. hilo'[c] = z /\ \A d \in Cpus \ {c} : hilo'[d] = hilo[d]
  BY <1>2, <1>3
<1>6. Servicio'
  BY <1>4, <1>5 DEF Servicio, Atiende, Accede
<1> QED
  BY <1>2, <1>3, <1>4, <1>5, <1>6

(* The question of an access, on its way or in the hands of the thread.    *)
LEMMA DelAcceso ==
  ASSUME TypeOK, Servicio, Fases, NEW m \in Mensajes, Vigente(m), m.id \in {"leer", "escribir"}
  PROVE  /\ m.pid \in Programas /\ m.pagina \in PaginasDelPid(m.pid)
         /\ m.pid \in DOMAIN lista_tablas /\ m.pid \in DOMAIN almacen /\ nucleo # m.pid
         /\ proceso[m.pid] \in {"exec", "perdido"}
         /\ m.socket \in Cpus /\ hilo[m.socket].en \in {"swap", "muerto"}
         /\ lista_cpus[m.socket] = m.pid
         /\ hilo[m.socket].acceso \in Accesos[m.pid]
         /\ hilo[m.socket].acceso.op = m.id /\ hilo[m.socket].acceso.pagina = m.pagina
         /\ buffer_programas[m.pid] = [tipo |-> "acceso", acceso |-> hilo[m.socket].acceso]
<1>1. /\ m.socket \in Cpus /\ hilo[m.socket].en \in {"swap", "muerto"}
      /\ lista_cpus[m.socket] = m.pid
      /\ hilo[m.socket].acceso.op = m.id /\ hilo[m.socket].acceso.pagina = m.pagina
      /\ buffer_programas[m.pid] = [tipo |-> "acceso", acceso |-> hilo[m.socket].acceso]
  BY DEF Vigente
<1>2. /\ m.pid \in Programas /\ proceso[m.pid] \in {"exec", "perdido"}
      /\ hilo[m.socket].acceso \in Accesos[m.pid] /\ m.pagina \in PaginasDelPid(m.pid)
  BY <1>1 DEF Servicio, Atiende, Accede
<1>3. m.pid \in DOMAIN lista_tablas /\ m.pid \in DOMAIN almacen /\ nucleo # m.pid
  BY <1>2, SupuestoNulo DEF Fases, Vivos
<1> QED
  BY <1>1, <1>2, <1>3

(* The SWAP could not read: the access ends with an error.                 *)
LEMMA InvRespuestaConError ==
  ASSUME Inv, RespuestaConError
  PROVE  Inv'
<1>1. /\ TypeOK /\ Servicio /\ Fases /\ MismosMarcos
  BY TablasIguales DEF Inv, RespuestaConError, memoriaVars
<1>2. Llega({"leer", "escribir"})
  BY DEF RespuestaConError
<1>3. PICK h \in Mensajes :
        /\ h = Head(deSwap) /\ deSwap # << >> /\ deSwap' = Tail(deSwap)
        /\ h.id \in {"leer", "escribir"} /\ h.pid \in Programas
        /\ Vigente(h) /\ Servido(h)
        /\ servidor.en = "libre" /\ \A q : ~EnManos(q)
  BY <1>2, LaQueLlega
<1>4. PICK p, c : p = h.pid /\ c = h.socket
  OBVIOUS
<1>5. /\ buffer_programas' = [buffer_programas EXCEPT ![p] = NULO]
      /\ Contestar(c) /\ respuesta' = Error
      /\ UNCHANGED <<memoriaVars, lista_paginas_tlb, lista_cpus, lista_procesos_activos,
                     servidor, nucleo, consola, aSwap, almacen, proceso>>
  BY <1>3, <1>4 DEF RespuestaConError
<1>6. /\ p \in Programas /\ p \in DOMAIN lista_tablas /\ p \in DOMAIN almacen /\ nucleo # p
      /\ proceso[p] \in {"exec", "perdido"} /\ Pregunta(h)
      /\ c \in Cpus /\ hilo[c].en \in {"swap", "muerto"} /\ lista_cpus[c] = p
  BY <1>1, <1>3, <1>4, DelAcceso DEF Pregunta
<1>7. /\ Servicio'
      /\ hilo' \in [Cpus -> [en : {"cerrado", "ocioso", "libre", "acceder", "swap", "muerto"},
                             acceso : Pedidos \cup {NULO}, marco : 0..MARCOS]]
      /\ hilo'[c].en \in {"cerrado", "libre"}
      /\ \A d \in Cpus \ {c} : hilo'[d] = hilo[d]
  BY <1>1, <1>5, <1>6, TrasContestar
<1>8. /\ UnaPregunta' /\ Preguntas' /\ aSwap' \in Seq(Mensajes) /\ deSwap' \in Seq(Mensajes)
      /\ Reparto' /\ Listas' /\ TlbDeLaTabla' /\ TlbLista'
  <2>1. (\A q : ~EnManos(q)') /\ servidor'.en # "responder"
    BY <1>3, <1>5 DEF EnManos
  <2>2. \A q \in Programas \ {p} : buffer_programas'[q] = buffer_programas[q]
    BY <1>1, <1>5 DEF TypeOK
  <2>3. /\ \A d \in Cpus : hilo'[d] = hilo[d] \/ lista_cpus[d] = p
        /\ \A d \in Cpus : hilo'[d].en = "acceder" => hilo'[d] = hilo[d]
    BY <1>6, <1>7
  <2> QED
    BY <1>3, <1>4, <1>5, <1>6, <2>1, <2>2, <2>3, AlLlegar
<1>9. TypeOK'
  <2>1. buffer_programas' \in [Programas -> Buffers \cup {NULO}]
    BY <1>1, <1>5 DEF TypeOK
  <2> QED
    BY <1>1, <1>5, <1>7, <1>8, <2>1 DEF TypeOK, memoriaVars
<1>10. Fases'
  <2>1. \A q \in Programas \ {p} : buffer_programas'[q] = buffer_programas[q]
    BY <1>1, <1>5 DEF TypeOK
  <2> QED
    BY <1>1, <1>5, <1>6, <2>1, FasesDeUno DEF Vivos, memoriaVars
<1>11. Servidor'
  BY <1>3, <1>5 DEF Servidor, Inv
<1> QED
  BY <1>7, <1>8, <1>9, <1>10, <1>11 DEF Inv

(* The page arrives, and the thread has it in its hands.                   *)
LEMMA InvRespuestaConPagina ==
  ASSUME Inv, RespuestaConPagina
  PROVE  Inv'
<1>1. /\ TypeOK /\ Servicio /\ Fases /\ MismosMarcos
  BY TablasIguales DEF Inv, RespuestaConPagina, memoriaVars
<1>2. Llega({"leer", "escribir"})
  BY DEF RespuestaConPagina
<1>3. PICK h \in Mensajes :
        /\ h = Head(deSwap) /\ deSwap # << >> /\ deSwap' = Tail(deSwap)
        /\ h.id \in {"leer", "escribir"} /\ h.pid \in Programas
        /\ Vigente(h) /\ Servido(h)
        /\ servidor.en = "libre" /\ \A q : ~EnManos(q)
  BY <1>2, LaQueLlega
<1>4. /\ servidor' = [en |-> "guardar", mensaje |-> h, habia |-> libres # {}]
      /\ h.valor # Error
      /\ UNCHANGED <<memoriaVars, lista_paginas_tlb, lista_cpus, lista_procesos_activos,
                     buffer_programas, hilo, nucleo, consola, aSwap, almacen, proceso, respuesta>>
  BY <1>3 DEF RespuestaConPagina
<1>5. Pregunta(h) /\ h.valor \in Contenidos /\ ~Presente(h.pid, h.pagina)
  BY <1>3, <1>4 DEF Pregunta, Servido
<1>6. /\ UnaPregunta' /\ Preguntas' /\ aSwap' \in Seq(Mensajes) /\ deSwap' \in Seq(Mensajes)
      /\ Reparto' /\ Listas' /\ TlbDeLaTabla' /\ TlbLista'
  <2>1. (\A q : EnManos(q)' => q = h.pid) /\ servidor'.en # "responder"
    BY <1>4 DEF EnManos
  <2> QED
    BY <1>3, <1>4, <1>5, <2>1, AlLlegar
<1>7. TypeOK'
  BY <1>1, <1>4, <1>6 DEF TypeOK, memoriaVars
<1>8. Servicio' /\ Fases'
  BY <1>1, <1>4, ServicioIgual, FasesIguales DEF memoriaVars
<1>9. Servidor'
  <2>1. Vigente(h)'
    BY <1>3, <1>4 DEF Vigente, memoriaVars
  <2>2. ~Presente(h.pid, h.pagina)'
    BY <1>4, <1>5 DEF Presente, memoriaVars
  <2>3. libres' = libres
    BY <1>4 DEF memoriaVars
  <2>4. servidor'.mensaje = h /\ servidor'.en = "guardar" /\ (servidor'.habia => libres # {})
    BY <1>4
  <2> QED
    BY <1>3, <1>5, <2>1, <2>2, <2>3, <2>4 DEF Servidor
<1> QED
  BY <1>6, <1>7, <1>8, <1>9 DEF Inv

(* What the thread has in its hands: an access that waits, of a program of *)
(* which nothing else is on its way.                                       *)
LEMMA DelServidor ==
  ASSUME Inv, servidor.en # "libre", NEW m, m = servidor.mensaje
  PROVE  /\ m \in Mensajes /\ Vigente(m) /\ m.valor \in Contenidos
         /\ m.id \in {"leer", "escribir"} /\ EnManos(m.pid)
         /\ \A q : EnManos(q) => q = m.pid
         /\ Presente(m.pid, m.pagina) <=> servidor.en = "responder"
         /\ m.pid \in Programas /\ m.pagina \in PaginasDelPid(m.pid) /\ m.pagina \in Nat
         /\ m.pagina \in 0..MaxPaginas
         /\ m.pid \in DOMAIN lista_tablas /\ m.pid \in DOMAIN almacen /\ nucleo # m.pid
         /\ proceso[m.pid] \in {"exec", "perdido"}
         /\ m.socket \in Cpus /\ hilo[m.socket].en \in {"swap", "muerto"}
         /\ lista_cpus[m.socket] = m.pid
         /\ \A d \in Cpus : Atiende(d) /\ lista_cpus[d] = m.pid => d = m.socket
         /\ hilo[m.socket].acceso \in Accesos[m.pid]
         /\ hilo[m.socket].acceso.op = m.id /\ hilo[m.socket].acceso.pagina = m.pagina
         /\ buffer_programas[m.pid] = [tipo |-> "acceso", acceso |-> hilo[m.socket].acceso]
<1>1. TypeOK /\ Servicio /\ Fases /\ Servidor
  BY DEF Inv
<1>2. /\ m \in Mensajes /\ Vigente(m) /\ m.valor \in Contenidos
      /\ m.id \in {"leer", "escribir"}
      /\ Presente(m.pid, m.pagina) <=> servidor.en = "responder"
  BY <1>1 DEF Servidor
<1>3. EnManos(m.pid) /\ \A q : EnManos(q) => q = m.pid
  BY DEF EnManos
<1>4. /\ m.pid \in Programas /\ m.pagina \in PaginasDelPid(m.pid)
      /\ m.pid \in DOMAIN lista_tablas /\ m.pid \in DOMAIN almacen /\ nucleo # m.pid
      /\ proceso[m.pid] \in {"exec", "perdido"}
      /\ m.socket \in Cpus /\ hilo[m.socket].en \in {"swap", "muerto"}
      /\ lista_cpus[m.socket] = m.pid
      /\ hilo[m.socket].acceso \in Accesos[m.pid]
      /\ hilo[m.socket].acceso.op = m.id /\ hilo[m.socket].acceso.pagina = m.pagina
      /\ buffer_programas[m.pid] = [tipo |-> "acceso", acceso |-> hilo[m.socket].acceso]
  BY <1>1, <1>2, DelAcceso
<1>5. m.pagina \in 0..MaxPaginas /\ m.pagina \in Nat
  <2>1. PaginasDe[m.pid] \in 1..MaxPaginas /\ MaxPaginas \in Nat
    BY <1>4, SupuestoUmc
  <2> QED
    BY <1>4, <2>1 DEF PaginasDelPid
<1>6. \A d \in Cpus : Atiende(d) /\ lista_cpus[d] = m.pid => d = m.socket
  <2>1. Atiende(m.socket)
    BY <1>4 DEF Atiende
  <2> QED
    BY <1>1, <1>4, <2>1 DEF Servicio
<1> QED
  BY <1>2, <1>3, <1>4, <1>5, <1>6

(* A question that ends leaves the others as they were.                    *)
LEMMA UnaPreguntaMenos ==
  ASSUME UnaPregunta, UNCHANGED <<aSwap, deSwap>>, \A q : EnManos(q)' => EnManos(q)
  PROVE  UnaPregunta'
<1>1. /\ \A j \in DOMAIN aSwap : Pregunta(aSwap[j]) => ~EnManos(aSwap[j].pid)
      /\ \A j \in DOMAIN deSwap : Pregunta(deSwap[j]) => ~EnManos(deSwap[j].pid)
  BY DEF UnaPregunta
<1>2. /\ \A j \in DOMAIN aSwap : \A q : Pregunta(aSwap[j]) /\ q = aSwap[j].pid => ~EnManos(q)'
      /\ \A j \in DOMAIN deSwap : \A q : Pregunta(deSwap[j]) /\ q = deSwap[j].pid => ~EnManos(q)'
  BY <1>1
<1> QED
  BY <1>2 DEF UnaPregunta, EnManos, Pregunta

(* What the end of an access leaves, with the page or without it.          *)
LEMMA AlResponder ==
  ASSUME Inv, servidor.en # "libre", NEW m, m = servidor.mensaje,
         servidor' = Libre, MismosMarcos,
         buffer_programas' = [buffer_programas EXCEPT ![m.pid] = NULO], Contestar(m.socket),
         UNCHANGED <<libres, listas_algoritmo, lista_cpus, lista_procesos_activos, nucleo,
                     consola, swapVars, proceso>>,
         memoria_principal' \in [Marcos -> Contenidos],
         lista_paginas_tlb' \in Seq(Entradas), respuesta' \in Datos \cup {Exito, Error, NULO}
  PROVE  /\ TypeOK' /\ Servicio' /\ Fases' /\ UnaPregunta' /\ Preguntas' /\ Servidor'
         /\ Reparto' /\ Listas'
         /\ \A d \in Cpus : hilo'[d].en = "acceder" => d # m.socket /\ hilo'[d] = hilo[d]
<1>1. TypeOK /\ Servicio /\ Fases /\ UnaPregunta /\ Preguntas /\ Reparto /\ Listas
  BY DEF Inv
<1>2. PICK p, c : p = m.pid /\ c = m.socket
  OBVIOUS
<1>3. /\ m \in Mensajes /\ p \in Programas /\ EnManos(p)
      /\ p \in DOMAIN lista_tablas /\ p \in DOMAIN almacen /\ nucleo # p
      /\ proceso[p] \in {"exec", "perdido"}
      /\ c \in Cpus /\ hilo[c].en \in {"swap", "muerto"} /\ lista_cpus[c] = p
  BY <1>2, DelServidor
<1>4. /\ Servicio'
      /\ hilo' \in [Cpus -> [en : {"cerrado", "ocioso", "libre", "acceder", "swap", "muerto"},
                             acceso : Pedidos \cup {NULO}, marco : 0..MARCOS]]
      /\ hilo'[c].en \in {"cerrado", "libre"}
      /\ \A d \in Cpus \ {c} : hilo'[d] = hilo[d]
  BY <1>1, <1>2, <1>3, TrasContestar
<1>5. /\ DOMAIN lista_tablas' = DOMAIN lista_tablas
      /\ \A q \in DOMAIN lista_tablas : lista_tablas'[q] \in [PaginasDelPid(q) -> Filas]
  BY DEF MismosMarcos
<1>6. /\ buffer_programas' \in [Programas -> Buffers \cup {NULO}]
      /\ \A q \in Programas \ {p} : buffer_programas'[q] = buffer_programas[q]
  BY <1>1, <1>2 DEF TypeOK
<1>7. TypeOK'
  <2>1. Libre \in [en : {"libre", "guardar", "responder"}, mensaje : Mensajes \cup {NULO},
                   habia : BOOLEAN]
    BY DEF Libre
  <2> QED
    BY <1>1, <1>4, <1>5, <1>6, <2>1 DEF TypeOK, Entradas, swapVars
<1>8. Fases'
  BY <1>1, <1>3, <1>5, <1>6, FasesDeUno DEF Vivos, swapVars
<1>9. UnaPregunta'
  <2>1. \A q : ~EnManos(q)'
    BY DEF EnManos, Libre
  <2> QED
    BY <1>1, <2>1, UnaPreguntaMenos DEF swapVars
<1>10. Preguntas'
  <2>1. NadaNuevo
    BY <1>1, PresentesIguales DEF NadaNuevo
  <2>2. ASSUME NEW x \in Mensajes, Vigente(x), Pregunta(x) => ~EnManos(x.pid)
        PROVE  Vigente(x)'
    <3>1. \A q \in Programas \ {p} : MismoPrograma(q)
      BY <1>5, <1>6 DEF MismoPrograma, swapVars
    <3>2. \A d \in Cpus : hilo'[d] = hilo[d] \/ lista_cpus[d] = p
      BY <1>3, <1>4
    <3>3. Pregunta(x) => x.pid # p
      BY <1>3, <2>2
    <3> QED
      BY <2>2, <3>1, <3>2, <3>3, VigenteDelResto
  <2> QED
    BY <1>1, <2>1, <2>2, PreguntasIguales DEF swapVars
<1>11. Servidor'
  BY DEF Servidor, Libre
<1>12. Reparto' /\ Listas'
  BY <1>1, RepartoIgual, ListasIguales
<1> QED
  BY <1>2, <1>4, <1>7, <1>8, <1>9, <1>10, <1>11, <1>12

(* guardar_en_mp returns 0: the access ends with an error.                 *)
LEMMA InvGuardarSinMarco ==
  ASSUME Inv, NEW p \in Programas, GuardarSinMarco(p)
  PROVE  Inv'
<1>1. TypeOK /\ MismosMarcos
  BY TablasIguales DEF Inv, GuardarSinMarco, memoriaVars
<1>2. PICK m : m = servidor.mensaje
  OBVIOUS
<1>3. /\ servidor.en # "libre" /\ m.pid = p /\ servidor' = Libre
      /\ buffer_programas' = [buffer_programas EXCEPT ![p] = NULO]
      /\ Contestar(m.socket) /\ respuesta' = Error
      /\ UNCHANGED <<memoriaVars, lista_paginas_tlb, lista_cpus, lista_procesos_activos, nucleo,
                     consola, swapVars, proceso>>
  BY <1>2 DEF GuardarSinMarco, EnGuardar
<1>4. /\ memoria_principal' \in [Marcos -> Contenidos]
      /\ lista_paginas_tlb' \in Seq(Entradas) /\ respuesta' \in Datos \cup {Exito, Error, NULO}
      /\ UNCHANGED <<libres, listas_algoritmo>>
  BY <1>1, <1>3 DEF TypeOK, Entradas, memoriaVars
<1>5. /\ TypeOK' /\ Servicio' /\ Fases' /\ UnaPregunta' /\ Preguntas' /\ Servidor'
      /\ Reparto' /\ Listas'
      /\ \A d \in Cpus : hilo'[d].en = "acceder" => hilo'[d] = hilo[d]
  BY <1>1, <1>2, <1>3, <1>4, AlResponder
<1>6. TlbDeLaTabla' /\ TlbLista'
  <2>1. servidor'.en # "responder"
    BY <1>3 DEF Libre
  <2> QED
    BY <1>1, <1>3, <1>5, <2>1, TlbIgual
<1> QED
  BY <1>5, <1>6 DEF Inv

(* The page is in its frame: the access, its entry in the TLB, the answer. *)
LEMMA InvResponderAcceso ==
  ASSUME Inv, NEW p \in Programas, ResponderAcceso(p)
  PROVE  Inv'
<1>1. TypeOK /\ Servicio /\ TlbLista
  BY DEF Inv
<1>2. PICK m : m = servidor.mensaje
  OBVIOUS
<1>3. PICK i, c : i = m.pagina /\ c = m.socket
  OBVIOUS
<1>4. PICK f, a : f = lista_tablas[p][i].frame /\ a = hilo[c].acceso
  OBVIOUS
<1>5. servidor.en = "responder" /\ m.pid = p
  BY <1>2 DEF ResponderAcceso
<1>6. /\ Presente(p, i) /\ nucleo # p /\ i \in PaginasDelPid(p)
      /\ m.id \in {"leer", "escribir"} /\ proceso[p] \in {"exec", "perdido"}
      /\ c \in Cpus /\ hilo[c].en \in {"swap", "muerto"} /\ lista_cpus[c] = p
      /\ a \in Accesos[p] /\ buffer_programas[p].acceso = a
      /\ \A d \in Cpus : Atiende(d) /\ lista_cpus[d] = p => d = c
  <2>1. servidor.en # "libre"
    BY <1>5
  <2>2. /\ Presente(m.pid, m.pagina) <=> servidor.en = "responder"
        /\ nucleo # m.pid /\ m.pagina \in PaginasDelPid(m.pid) /\ m.id \in {"leer", "escribir"}
        /\ proceso[m.pid] \in {"exec", "perdido"}
        /\ m.socket \in Cpus /\ hilo[m.socket].en \in {"swap", "muerto"}
        /\ lista_cpus[m.socket] = m.pid /\ hilo[m.socket].acceso \in Accesos[m.pid]
        /\ buffer_programas[m.pid] = [tipo |-> "acceso", acceso |-> hilo[m.socket].acceso]
        /\ \A d \in Cpus : Atiende(d) /\ lista_cpus[d] = m.pid => d = m.socket
    BY <1>2, <2>1, DelServidor
  <2>3. buffer_programas[p].acceso = a
    BY <1>3, <1>4, <1>5, <2>2
  <2> QED
    BY <1>3, <1>4, <1>5, <2>2, <2>3
<1>7. /\ lista_paginas_tlb' = TlbCon(Tlb(p, i, f))
      /\ \/ /\ respuesta' = memoria_principal[f][a.palabra]
            /\ UNCHANGED <<lista_tablas, memoria_principal>>
         \/ /\ respuesta' = Exito
            /\ memoria_principal' = [memoria_principal EXCEPT ![f][a.palabra] = a.dato]
            /\ lista_tablas' = [lista_tablas EXCEPT ![p][i].modificado = TRUE]
      /\ buffer_programas' = [buffer_programas EXCEPT ![m.pid] = NULO]
      /\ Contestar(c) /\ servidor' = Libre
      /\ UNCHANGED <<libres, listas_algoritmo, lista_cpus, lista_procesos_activos, nucleo,
                     consola, swapVars, proceso>>
  BY <1>2, <1>3, <1>4, <1>5, <1>6 DEF ResponderAcceso
<1>8. f \in Marcos /\ lista_paginas_tlb' \in Seq(Entradas)
  BY <1>4, <1>6, <1>7, TlbConTipo
<1>9. a.palabra \in Palabras /\ a.dato \in Datos
  <2>1. Accesos[p] \in SUBSET [op : {"leer", "escribir"}, pagina : 0..MaxPaginas,
                               palabra : Palabras, dato : Datos]
    BY SupuestoUmc
  <2> QED
    BY <1>6, <2>1
<1>10. /\ MismosMarcos
       /\ memoria_principal' \in [Marcos -> Contenidos]
       /\ respuesta' \in Datos \cup {Exito, Error, NULO}
  <2>1. memoria_principal \in [Marcos -> Contenidos] /\ memoria_principal[f] \in [Palabras -> Datos]
    BY <1>1, <1>8 DEF TypeOK, Contenidos
  <2>2. CASE /\ respuesta' = memoria_principal[f][a.palabra]
             /\ UNCHANGED <<lista_tablas, memoria_principal>>
    <3>1. MismosMarcos
      BY <1>1, <2>2, TablasIguales
    <3>2. memoria_principal[f][a.palabra] \in Datos
      BY <1>9, <2>1
    <3> QED
      BY <2>1, <2>2, <3>1, <3>2
  <2>3. CASE /\ respuesta' = Exito
             /\ memoria_principal' = [memoria_principal EXCEPT ![f][a.palabra] = a.dato]
             /\ lista_tablas' = [lista_tablas EXCEPT ![p][i].modificado = TRUE]
    <3>1. memoria_principal' \in [Marcos -> Contenidos]
      <4>1. memoria_principal' = [memoria_principal EXCEPT
                                    ![f] = [memoria_principal[f] EXCEPT ![a.palabra] = a.dato]]
        BY <2>3
      <4>2. [memoria_principal[f] EXCEPT ![a.palabra] = a.dato] \in Contenidos
        BY <1>9, <2>1 DEF Contenidos
      <4> QED
        BY <2>1, <4>1, <4>2
    <3>2. MismosMarcos
      BY <1>1, <1>6, <2>3, MarcarUna
    <3> QED
      BY <2>3, <3>1, <3>2
  <2> QED
    BY <1>7, <2>2, <2>3
<1>11. /\ TypeOK' /\ Servicio' /\ Fases' /\ UnaPregunta' /\ Preguntas' /\ Servidor'
       /\ Reparto' /\ Listas'
       /\ \A d \in Cpus : hilo'[d].en = "acceder" => d # c /\ hilo'[d] = hilo[d]
  BY <1>2, <1>3, <1>5, <1>7, <1>8, <1>10, AlResponder
<1>12. TlbDeLaTabla' /\ TlbLista'
  <2>1. servidor'.en # "responder"
    BY <1>7 DEF Libre
  <2>2. ASSUME NEW d \in Cpus, hilo'[d].en = "acceder"
        PROVE  hilo'[d] = hilo[d] /\ lista_cpus[d] # p
    BY <1>6, <1>11, <2>2 DEF Atiende
  <2>3. \A k \in DOMAIN lista_paginas_tlb :
          ~(lista_paginas_tlb[k].pid = p /\ lista_paginas_tlb[k].pagina = i)
    BY <1>1, <1>2, <1>3, <1>5 DEF TlbLista
  <2>4. /\ MismosMarcos /\ Presente(p, i) /\ lista_tablas[p][i].frame = f /\ nucleo # p
        /\ \A d \in Cpus : hilo'[d].en = "acceder" => hilo'[d] = hilo[d] /\ lista_cpus[d] # p
    BY <1>4, <1>6, <1>10, <2>2
  <2>5. /\ lista_paginas_tlb' = TlbCon(Tlb(p, i, f))
        /\ nucleo' = nucleo /\ UNCHANGED lista_cpus
    BY <1>7
  <2> HIDE DEF MismosMarcos, TlbCon, Tlb
  <2> QED
    BY <2>1, <2>3, <2>4, <2>5, TlbConUnaMas
<1> QED
  BY <1>11, <1>12 DEF Inv

(* What a page leaves when it goes to its frame: the access is answered    *)
(* next, and if a page went to the SWAP for it, no question went before.   *)
LEMMA AlGuardar ==
  ASSUME Inv, servidor.en = "guardar", NEW m, m = servidor.mensaje,
         servidor' = [servidor EXCEPT !.en = "responder"],
         DOMAIN lista_tablas' = DOMAIN lista_tablas,
         \A q \in DOMAIN lista_tablas \ {m.pid} : lista_tablas'[q] = lista_tablas[q],
         lista_tablas'[m.pid] \in [PaginasDelPid(m.pid) -> Filas],
         lista_tablas'[m.pid][m.pagina].presencia,
         DOMAIN listas_algoritmo' = DOMAIN listas_algoritmo,
         \A q \in DOMAIN lista_tablas :
           listas_algoritmo'[q] \in [paginas : Seq(PaginasDelPid(q)), puntero : Nat],
         lista_paginas_tlb' \in Seq(Entradas), libres' \subseteq Marcos,
         memoria_principal' \in [Marcos -> Contenidos],
         \/ UNCHANGED aSwap
         \/ \E e \in Mensajes :
              /\ e.id = "guardar" /\ e.pid = m.pid /\ e.pagina \in PaginasDelPid(m.pid)
              /\ e.valor \in Contenidos /\ aSwap' = Append(aSwap, e),
         UNCHANGED <<lista_cpus, lista_procesos_activos, buffer_programas, hilo, nucleo,
                     consola, deSwap, almacen, proceso, respuesta>>
  PROVE  /\ TypeOK' /\ Servicio' /\ Fases' /\ UnaPregunta' /\ Preguntas' /\ Servidor'
         /\ \A q : q # m.pid => \A j : Presente(q, j)' <=> Presente(q, j)
<1>1. TypeOK /\ Servicio /\ Fases /\ UnaPregunta /\ Preguntas /\ Servidor
  BY DEF Inv
<1>2. PICK p, i : p = m.pid /\ i = m.pagina
  OBVIOUS
<1>3. /\ m \in Mensajes /\ Vigente(m) /\ m.valor \in Contenidos /\ m.id \in {"leer", "escribir"}
      /\ p \in Programas /\ i \in PaginasDelPid(p) /\ EnManos(p) /\ p \in DOMAIN almacen
      /\ p \in DOMAIN lista_tablas
  BY <1>2, DelServidor
<1>4. /\ servidor' \in [en : {"libre", "guardar", "responder"}, mensaje : Mensajes \cup {NULO},
                        habia : BOOLEAN]
      /\ servidor'.en = "responder" /\ servidor'.mensaje = m
  BY <1>1 DEF TypeOK
<1>5. \A q : EnManos(q)' <=> EnManos(q)
  BY <1>4 DEF EnManos
<1>6. Servicio' /\ Fases'
  BY <1>1, ServicioIgual, FasesIguales
<1>7. \A x : Vigente(x) => Vigente(x)'
  BY DEF Vigente
<1>8. \A q, j : Presente(q, j)' => Presente(q, j) \/ q = p
  BY <1>2 DEF Presente
<1>9. UnaPregunta' /\ Preguntas' /\ aSwap' \in Seq(Mensajes)
  <2>1. NadaNuevo
    BY <1>3, <1>8 DEF NadaNuevo
  <2>2. CASE UNCHANGED aSwap
    BY <1>1, <1>5, <1>7, <2>1, <2>2, UnaPreguntaMenos, PreguntasIguales DEF TypeOK
  <2>3. ASSUME NEW e \in Mensajes,
               e.id = "guardar" /\ e.pid = m.pid /\ e.pagina \in PaginasDelPid(m.pid),
               e.valor \in Contenidos /\ aSwap' = Append(aSwap, e)
        PROVE  UnaPregunta' /\ Preguntas' /\ aSwap' \in Seq(Mensajes)
    <3>1. ~Pregunta(e) /\ EnManos(e.pid)
      BY <1>2, <1>3, <2>3 DEF Pregunta
    <3>2. Vigente(e)' /\ PorServir(e)'
      BY <1>2, <1>3, <2>3 DEF Vigente, PorServir
    <3>3. UnaPregunta' /\ aSwap' \in Seq(Mensajes)
      BY <1>1, <1>5, <2>3, <3>1, UnaPreguntaMas
    <3>4. Preguntas'
      BY <1>1, <1>7, <2>1, <2>3, <3>2, PreguntasConUna
    <3> QED
      BY <3>3, <3>4
  <2> QED
    BY <2>2, <2>3
<1>10. TypeOK'
  <2>1. \A q \in DOMAIN lista_tablas : lista_tablas'[q] \in [PaginasDelPid(q) -> Filas]
    BY <1>1, <1>2 DEF TypeOK
  <2> QED
    BY <1>1, <1>4, <1>9, <2>1 DEF TypeOK, Entradas
<1>11. Servidor'
  <2>1. Presente(p, i)'
    BY <1>2, <1>3 DEF Presente
  <2>2. Vigente(m)'
    BY <1>3, <1>7
  <2> QED
    BY <1>2, <1>3, <1>4, <2>1, <2>2 DEF Servidor
<1>12. \A q : q # p => \A j : Presente(q, j)' <=> Presente(q, j)
  BY <1>2 DEF Presente
<1> QED
  BY <1>2, <1>6, <1>9, <1>10, <1>11, <1>12

(* The page goes to a free frame, the first.                               *)
LEMMA InvGuardarEnMarcoLibre ==
  ASSUME Inv, NEW p \in Programas, GuardarEnMarcoLibre(p)
  PROVE  Inv'
<1>1. TypeOK /\ Servidor /\ Reparto /\ Listas /\ TlbDeLaTabla /\ TlbLista
  BY DEF Inv
<1>2. PICK m : m = servidor.mensaje
  OBVIOUS
<1>3. PICK i, f, paginas : i = m.pagina /\ f = Min(libres) /\ paginas = listas_algoritmo[p].paginas
  OBVIOUS
<1>4. /\ servidor.en = "guardar" /\ m.pid = p /\ servidor.habia
      /\ CantPagXProc(p) < MARCO_X_PROC
      /\ libres' = libres \ {f}
      /\ lista_tablas' = [lista_tablas EXCEPT ![p][i] = Fila(f, TRUE, FALSE, TRUE)]
      /\ listas_algoritmo' = [listas_algoritmo EXCEPT ![p].paginas = Append(@, i)]
      /\ memoria_principal' = [memoria_principal EXCEPT ![f] = m.valor]
      /\ servidor' = [servidor EXCEPT !.en = "responder"]
      /\ UNCHANGED <<lista_paginas_tlb, lista_cpus, lista_procesos_activos, buffer_programas,
                     hilo, nucleo, consola, swapVars, proceso, respuesta>>
  BY <1>2, <1>3 DEF GuardarEnMarcoLibre, EnGuardar
<1>5. /\ m.valor \in Contenidos /\ i \in PaginasDelPid(p) /\ i \in 0..MaxPaginas
      /\ p \in DOMAIN lista_tablas /\ ~Presente(p, i)
      /\ \A d \in Cpus : Atiende(d) /\ lista_cpus[d] = p => d = m.socket
  <2>1. servidor.en # "libre"
    BY <1>4
  <2> QED
    BY <1>2, <1>3, <1>4, <2>1, DelServidor
<1>6. f \in libres /\ f \in Marcos /\ libres' = libres \ {f}
  <2>1. libres # {} /\ libres \subseteq Marcos /\ libres \in SUBSET Nat
    BY <1>1, <1>4, SupuestoUmc DEF Servidor, TypeOK, Marcos
  <2> QED
    BY <1>3, <1>4, <2>1, Minimo
<1>7. PICK fila : fila = Fila(f, TRUE, FALSE, TRUE)
  OBVIOUS
<1>8. fila \in Filas /\ fila.presencia /\ fila.frame = f
  BY <1>6, <1>7, SupuestoUmc DEF Fila, Filas, Marcos
<1>9. /\ DOMAIN lista_tablas' = DOMAIN lista_tablas
      /\ lista_tablas'[p] = [lista_tablas[p] EXCEPT ![i] = fila]
      /\ \A q \in DOMAIN lista_tablas \ {p} : lista_tablas'[q] = lista_tablas[q]
      /\ lista_tablas[p] \in [PaginasDelPid(p) -> Filas]
  BY <1>1, <1>4, <1>5, <1>7 DEF TypeOK
<1>10. /\ lista_tablas'[p] \in [PaginasDelPid(p) -> Filas]
       /\ lista_tablas'[p][i] = fila
       /\ \A j \in PaginasDelPid(p) \ {i} : lista_tablas'[p][j] = lista_tablas[p][j]
  BY <1>5, <1>8, <1>9
<1>11. /\ Presente(p, i)' /\ lista_tablas'[p][i].frame = f
       /\ \A q, j : ~(q = p /\ j = i) =>
            /\ Presente(q, j)' <=> Presente(q, j)
            /\ Presente(q, j) => lista_tablas'[q][j].frame = lista_tablas[q][j].frame
  BY <1>5, <1>8, <1>9, <1>10, ZenonT(30) DEF Presente
<1>12. /\ paginas \in Seq(PaginasDelPid(p)) /\ Len(paginas) \in Nat
       /\ DOMAIN listas_algoritmo = DOMAIN lista_tablas
       /\ listas_algoritmo[p] \in [paginas : Seq(PaginasDelPid(p)), puntero : Nat]
       /\ CantPagXProc(p) = Len(paginas)
  <2>1. Lista(p)
    BY <1>1, <1>5 DEF Listas
  <2> QED
    BY <1>1, <1>3, <1>5, <2>1, CuantasPaginas, LenProperties DEF TypeOK
<1>13. PICK lista : lista = [listas_algoritmo[p] EXCEPT !.paginas = Append(paginas, i)]
  OBVIOUS
<1>14. /\ lista.paginas = Append(paginas, i) /\ lista.puntero = listas_algoritmo[p].puntero
       /\ lista \in [paginas : Seq(PaginasDelPid(p)), puntero : Nat]
  <2>1. Append(paginas, i) \in Seq(PaginasDelPid(p))
    BY <1>5, <1>12, AppendProperties
  <2> QED
    BY <1>12, <1>13, <2>1
<1>15. /\ DOMAIN listas_algoritmo' = DOMAIN listas_algoritmo
       /\ listas_algoritmo'[p] = lista
       /\ \A q \in DOMAIN lista_tablas \ {p} : listas_algoritmo'[q] = listas_algoritmo[q]
  BY <1>3, <1>4, <1>5, <1>12, <1>13
<1>16. \A q \in DOMAIN lista_tablas :
         listas_algoritmo'[q] \in [paginas : Seq(PaginasDelPid(q)), puntero : Nat]
  BY <1>1, <1>14, <1>15 DEF TypeOK
<1>17. TypeOK' /\ Servicio' /\ Fases' /\ UnaPregunta' /\ Preguntas' /\ Servidor'
  <2>1. memoria_principal' \in [Marcos -> Contenidos] /\ libres' \subseteq Marcos
    BY <1>1, <1>4, <1>5 DEF TypeOK
  <2>2. lista_paginas_tlb' \in Seq(Entradas)
    BY <1>1, <1>4 DEF TypeOK, Entradas
  <2> QED
    BY <1>2, <1>3, <1>4, <1>8, <1>9, <1>10, <1>15, <1>16, <2>1, <2>2, AlGuardar DEF swapVars
<1>18. Reparto'
  <2>1. \A q, j : Presente(q, j) => q \in Programas /\ j \in 0..MaxPaginas
    BY <1>1, DeUnaPresente
  <2>2. \A q \in Programas, j \in 0..MaxPaginas : Presente(q, j) => lista_tablas[q][j].frame # f
    BY <1>1, <1>6 DEF Reparto
  <2>3. \A q, r \in Programas : \A j, k \in 0..MaxPaginas :
          Presente(q, j)' /\ Presente(r, k)' /\ lista_tablas'[q][j].frame = lista_tablas'[r][k].frame
            => q = r /\ j = k
    BY <1>1, <1>11, <2>2 DEF Reparto
  <2>4. \A q \in Programas : \A j \in 0..MaxPaginas :
          Presente(q, j)' => lista_tablas'[q][j].frame \in Marcos \ libres'
    <3> SUFFICES ASSUME NEW q \in Programas, NEW j \in 0..MaxPaginas, Presente(q, j)'
                 PROVE  lista_tablas'[q][j].frame \in Marcos \ libres'
      OBVIOUS
    <3>1. CASE q = p /\ j = i
      BY <1>6, <1>11, <3>1
    <3>2. CASE ~(q = p /\ j = i)
      <4>1. Presente(q, j) /\ lista_tablas'[q][j].frame = lista_tablas[q][j].frame
        BY <1>11, <3>2
      <4>2. lista_tablas[q][j].frame \in Marcos \ libres
        BY <1>1, <4>1 DEF Reparto
      <4> QED
        BY <1>6, <2>2, <4>1, <4>2
    <3> QED
      BY <3>1, <3>2
  <2>5. ASSUME NEW g \in Marcos \ libres'
        PROVE  \E q \in Programas : \E j \in 0..MaxPaginas :
                 Presente(q, j)' /\ lista_tablas'[q][j].frame = g
    <3>1. CASE g = f
      BY <1>5, <1>11, <3>1
    <3>2. CASE g # f
      <4>1. PICK q \in Programas, j \in 0..MaxPaginas :
              Presente(q, j) /\ lista_tablas[q][j].frame = g
        BY <1>1, <1>4, <3>2 DEF Reparto
      <4>2. ~(q = p /\ j = i)
        BY <1>5, <4>1
      <4> QED
        BY <1>11, <4>1, <4>2
    <3> QED
      BY <3>1, <3>2
  <2> QED
    BY <2>3, <2>4, <2>5 DEF Reparto
<1>19. Listas'
  <2>1. ASSUME NEW q \in DOMAIN lista_tablas, q # p
        PROVE  Lista(q)'
    <3>1. Lista(q) /\ listas_algoritmo'[q] = listas_algoritmo[q]
      BY <1>1, <1>15, <2>1 DEF Listas
    <3> QED
      BY <1>11, <2>1, <3>1 DEF Lista
  <2>2. Lista(p)'
    <3> DEFINE n == Len(paginas)
               s == lista.paginas
    <3>1. /\ Len(s) = n + 1 /\ s[n + 1] = i /\ \A k \in 1..n : s[k] = paginas[k]
          /\ n \in Nat /\ n < MARCO_X_PROC
      BY <1>4, <1>12, <1>14, <1>5, AppendProperties
    <3>2. /\ \A k \in 1..n : Presente(p, paginas[k])
          /\ \A j \in PaginasDelPid(p) : Presente(p, j) => \E k \in 1..n : paginas[k] = j
          /\ \A j, k \in 1..n : paginas[j] = paginas[k] => j = k
          /\ lista.puntero <= (IF n = 0 THEN 0 ELSE n - 1)
      BY <1>1, <1>3, <1>5, <1>14 DEF Listas, Lista
    <3> HIDE DEF n, s
    <3>3. \A k \in 1..(n + 1) : k \in 1..n \/ k = n + 1
      BY <3>1
    <3>4. \A k \in 1..(n + 1) : Presente(p, s[k])'
      BY <1>11, <3>1, <3>2, <3>3
    <3>5. \A j \in PaginasDelPid(p) : Presente(p, j)' => \E k \in 1..(n + 1) : s[k] = j
      BY <1>11, <3>1, <3>2
    <3>6. \A j, k \in 1..(n + 1) : s[j] = s[k] => j = k
      BY <1>5, <3>1, <3>2, <3>3
    <3>7. n + 1 <= MARCO_X_PROC /\ lista.puntero <= n
      <4>1. lista.puntero \in Nat
        BY <1>14
      <4> QED
        BY <3>1, <3>2, <4>1, SupuestoUmc
    <3> QED
      BY <1>15, <3>1, <3>4, <3>5, <3>6, <3>7 DEF Lista, s
  <2> QED
    BY <1>9, <2>1, <2>2 DEF Listas
<1>20. TlbDeLaTabla' /\ TlbLista'
  <2>1. Parte(lista_paginas_tlb', lista_paginas_tlb)
    <3>1. lista_paginas_tlb \in Seq(Entradas)
      BY <1>1 DEF TypeOK, Entradas
    <3> QED
      BY <1>4, <3>1, ParteEntera
  <2>2. ASSUME NEW t
        PROVE  Sigue(t)
    BY <1>5, <1>11 DEF Sigue, Vale
  <2>3. servidor'.mensaje = m
    BY <1>1, <1>2, <1>4 DEF TypeOK
  <2>4. \A d \in Cpus : hilo'[d].en = "acceder" =>
          /\ hilo'[d] = hilo[d] /\ lista_cpus'[d] = lista_cpus[d]
          /\ \A j, g : Sigue(Tlb(lista_cpus[d], j, g))
    BY <1>4, <2>2
  <2>5. ~Presente(servidor'.mensaje.pid, servidor'.mensaje.pagina)
    BY <1>3, <1>4, <1>5, <2>3
  <2> QED
    BY <1>4, <2>1, <2>2, <2>4, <2>5, TlbQueQueda
<1> QED
  BY <1>17, <1>18, <1>19, <1>20 DEF Inv

(* The page goes to the frame of the one that leaves, which leaves the TLB *)
(* too and goes to the SWAP if it was modified.                            *)
LEMMA LaTablaReemplazada ==
  ASSUME TypeOK, NEW p \in DOMAIN lista_tablas, NEW i \in PaginasDelPid(p), ~Presente(p, i),
         NEW v, v = Victima(p), Presente(p, v),
         DOMAIN lista_tablas' = DOMAIN lista_tablas,
         \A q \in DOMAIN lista_tablas \ {p} : lista_tablas'[q] = lista_tablas[q],
         lista_tablas'[p] = TablaReemplazada(p, i)
  PROVE  /\ lista_tablas'[p] \in [PaginasDelPid(p) -> Filas]
         /\ lista_tablas'[p][i].presencia /\ lista_tablas'[p][i].frame = lista_tablas[p][v].frame
         /\ ~lista_tablas'[p][v].presencia
         /\ \A q, j : Presente(q, j)' <=> (Presente(q, j) /\ ~(q = p /\ j = v)) \/ (q = p /\ j = i)
         /\ \A q, j : Presente(q, j) /\ Presente(q, j)' =>
              lista_tablas'[q][j].frame = lista_tablas[q][j].frame
<1> DEFINE tabla == lista_tablas[p]
           giro == Giro(lista_tablas[p], listas_algoritmo[p])
<1>1. tabla \in [PaginasDelPid(p) -> Filas] /\ v \in PaginasDelPid(p) /\ v # i
  BY DeUnaPresente
<1>2. PICK entra, sale : entra = Fila(tabla[v].frame, TRUE, FALSE, TRUE) /\ sale = Fila(0, FALSE, FALSE, FALSE)
  OBVIOUS
<1>3. /\ entra \in Filas /\ entra.presencia /\ entra.frame = tabla[v].frame
      /\ sale \in Filas /\ ~sale.presencia
  BY <1>1, <1>2, SupuestoUmc DEF Fila, Filas
<1>4. lista_tablas'[p] =
        [j \in PaginasDelPid(p) |->
           IF j = i THEN entra ELSE IF j = v THEN sale
           ELSE IF j \in giro.sinUso THEN [tabla[j] EXCEPT !.uso = FALSE] ELSE tabla[j]]
  BY <1>1, <1>2 DEF TablaReemplazada
<1> HIDE DEF giro
<1>5. \A j \in PaginasDelPid(p) :
        /\ [tabla[j] EXCEPT !.uso = FALSE] \in Filas
        /\ [tabla[j] EXCEPT !.uso = FALSE].presencia = tabla[j].presencia
        /\ [tabla[j] EXCEPT !.uso = FALSE].frame = tabla[j].frame
  BY <1>1 DEF Filas
<1>6. /\ lista_tablas'[p] \in [PaginasDelPid(p) -> Filas]
      /\ lista_tablas'[p][i] = entra /\ lista_tablas'[p][v] = sale
      /\ \A j \in PaginasDelPid(p) \ {i, v} :
           /\ lista_tablas'[p][j].presencia = tabla[j].presencia
           /\ lista_tablas'[p][j].frame = tabla[j].frame
  <2>1. PICK otra : otra = [j \in PaginasDelPid(p) |->
                              IF j \in giro.sinUso THEN [tabla[j] EXCEPT !.uso = FALSE] ELSE tabla[j]]
    OBVIOUS
  <2>2. \A j \in PaginasDelPid(p) : /\ otra[j] \in Filas
                                    /\ otra[j].presencia = tabla[j].presencia
                                    /\ otra[j].frame = tabla[j].frame
    BY <1>1, <1>5, <2>1
  <2>3. lista_tablas'[p] = [j \in PaginasDelPid(p) |->
                              IF j = i THEN entra ELSE IF j = v THEN sale ELSE otra[j]]
    BY <1>4, <2>1
  <2> QED
    BY <1>1, <1>3, <2>2, <2>3
<1>7. \A q, j : q # p => /\ Presente(q, j)' <=> Presente(q, j)
                         /\ Presente(q, j) => lista_tablas'[q][j].frame = lista_tablas[q][j].frame
  BY DEF Presente
<1>8. \A j : Presente(p, j)' <=> (Presente(p, j) /\ j # v) \/ j = i
  BY <1>1, <1>3, <1>6 DEF Presente
<1>9. \A j : Presente(p, j) /\ Presente(p, j)' => lista_tablas'[p][j].frame = tabla[j].frame
  <2> SUFFICES ASSUME NEW j, Presente(p, j), Presente(p, j)'
               PROVE  lista_tablas'[p][j].frame = tabla[j].frame
    OBVIOUS
  <2>1. j # i /\ j # v /\ j \in PaginasDelPid(p)
    BY <1>1, <1>8 DEF Presente
  <2> QED
    BY <1>6, <2>1
<1>10. \A q, j : Presente(q, j)' <=> (Presente(q, j) /\ ~(q = p /\ j = v)) \/ (q = p /\ j = i)
  BY <1>7, <1>8
<1>11. \A q, j : Presente(q, j) /\ Presente(q, j)' =>
         lista_tablas'[q][j].frame = lista_tablas[q][j].frame
  BY <1>7, <1>9
<1>12. /\ lista_tablas'[p][i].presencia /\ lista_tablas'[p][i].frame = tabla[v].frame
       /\ ~lista_tablas'[p][v].presencia
  BY <1>3, <1>6
<1> QED
  BY <1>6, <1>10, <1>11, <1>12

(* The frame of the page that leaves is that of the one that comes.        *)
LEMMA RepartoReemplazado ==
  ASSUME TypeOK, Reparto, UNCHANGED libres, NEW p, NEW i, NEW v,
         Presente(p, v), ~Presente(p, i), i \in 0..MaxPaginas,
         lista_tablas'[p][i].frame = lista_tablas[p][v].frame,
         \A q, j : Presente(q, j)' <=> (Presente(q, j) /\ ~(q = p /\ j = v)) \/ (q = p /\ j = i),
         \A q, j : Presente(q, j) /\ Presente(q, j)' =>
           lista_tablas'[q][j].frame = lista_tablas[q][j].frame
  PROVE  Reparto'
<1> DEFINE antes(q, j) == IF q = p /\ j = i THEN v ELSE j
<1>1. p \in Programas /\ v \in 0..MaxPaginas /\ v # i
  BY DeUnaPresente
<1>2. ASSUME NEW q \in Programas, NEW j \in 0..MaxPaginas, Presente(q, j)'
      PROVE  /\ antes(q, j) \in 0..MaxPaginas /\ Presente(q, antes(q, j))
             /\ lista_tablas'[q][j].frame = lista_tablas[q][antes(q, j)].frame
             /\ q = p => j # v
  BY <1>1, <1>2
<1>3. ASSUME NEW q \in Programas, NEW r \in Programas,
             NEW j \in 0..MaxPaginas, NEW k \in 0..MaxPaginas,
             Presente(q, j)', Presente(r, k)',
             lista_tablas'[q][j].frame = lista_tablas'[r][k].frame
      PROVE  q = r /\ j = k
  <2>1. q = r /\ antes(q, j) = antes(r, k)
    <3>1. PICK a, b : a = antes(q, j) /\ b = antes(r, k)
      OBVIOUS
    <3>2. /\ a \in 0..MaxPaginas /\ Presente(q, a)
          /\ b \in 0..MaxPaginas /\ Presente(r, b)
          /\ lista_tablas[q][a].frame = lista_tablas[r][b].frame
      BY <1>2, <1>3, <3>1
    <3>3. q = r /\ a = b
      BY <3>2 DEF Reparto
    <3> QED
      BY <3>1, <3>3
  <2>2. (q = p => j # v) /\ (r = p => k # v)
    BY <1>2, <1>3
  <2> QED
    BY <2>1, <2>2
<1>4. ASSUME NEW q \in Programas, NEW j \in 0..MaxPaginas, Presente(q, j)'
      PROVE  lista_tablas'[q][j].frame \in Marcos \ libres'
  <2>1. PICK a : a = antes(q, j)
    OBVIOUS
  <2>2. /\ a \in 0..MaxPaginas /\ Presente(q, a)
        /\ lista_tablas'[q][j].frame = lista_tablas[q][a].frame
    BY <1>2, <1>4, <2>1
  <2> QED
    BY <2>2 DEF Reparto
<1>5. ASSUME NEW g \in Marcos \ libres'
      PROVE  \E q \in Programas : \E j \in 0..MaxPaginas :
               Presente(q, j)' /\ lista_tablas'[q][j].frame = g
  <2>1. PICK q \in Programas, j \in 0..MaxPaginas :
          Presente(q, j) /\ lista_tablas[q][j].frame = g
    BY DEF Reparto
  <2>2. CASE q = p /\ j = v
    <3>1. Presente(p, i)' /\ lista_tablas'[p][i].frame = g
      BY <2>1, <2>2
    <3> QED
      BY <1>1, <3>1
  <2>3. CASE ~(q = p /\ j = v)
    <3>1. Presente(q, j)'
      BY <2>1, <2>3
    <3> QED
      BY <2>1, <3>1
  <2> QED
    BY <2>2, <2>3
<1> QED
  BY <1>3, <1>4, <1>5 DEF Reparto

(* The list of the replacement, with the one page instead of the other.    *)
LEMMA ListaTrasReemplazar ==
  ASSUME TypeOK, NEW p \in DOMAIN lista_tablas, Lista(p), NEW i \in PaginasDelPid(p),
         ~Presente(p, i), NEW n \in Nat, n = Len(listas_algoritmo[p].paginas), n > 0,
         NEW v, v = Victima(p),
         listas_algoritmo'[p] = ListaReemplazada(p, i),
         \A q, j : Presente(q, j)' <=> (Presente(q, j) /\ ~(q = p /\ j = v)) \/ (q = p /\ j = i)
  PROVE  /\ Lista(p)'
         /\ listas_algoritmo'[p] \in [paginas : Seq(PaginasDelPid(p)), puntero : Nat]
<1> DEFINE lista == listas_algoritmo[p]
<1>1. PICK k : k = (lista.puntero + Giro(lista_tablas[p], lista).pasos) % n
  OBVIOUS
<1>2. /\ k \in 0..(n - 1) /\ v = lista.paginas[k + 1] /\ v \in PaginasDelPid(p) /\ Presente(p, v)
  BY <1>1, LaVictima
<1>3. PICK s, t : s = lista.paginas /\ t = listas_algoritmo'[p].paginas
  OBVIOUS
<1>4. listas_algoritmo'[p] = [paginas |-> ReplaceAt(s, k + 1, i), puntero |-> (k + 1) % n]
  BY <1>1, <1>3 DEF ListaReemplazada
<1>5. s \in Seq(PaginasDelPid(p)) /\ s \in [1..n -> PaginasDelPid(p)] /\ DOMAIN s = 1..n
  BY <1>3 DEF TypeOK
<1>6. t = [s EXCEPT ![k + 1] = i]
  BY <1>3, <1>4 DEF ReplaceAt
<1>7. /\ t \in [1..n -> PaginasDelPid(p)] /\ Len(t) = n /\ t \in Seq(PaginasDelPid(p))
      /\ t[k + 1] = i /\ \A j \in 1..n : j # k + 1 => t[j] = s[j]
  BY <1>2, <1>5, <1>6
<1>8. (k + 1) % n \in Nat /\ (k + 1) % n <= n - 1
  <2>1. PICK x : x = k + 1
    OBVIOUS
  <2>2. x \in Nat /\ x < 2 * n /\ x <= n
    BY <1>2, <2>1
  <2>3. x % n = IF x < n THEN x ELSE x - n
    BY <2>2, Vuelta
  <2> QED
    BY <2>1, <2>2, <2>3
<1>9. /\ \A j \in 1..n : Presente(p, s[j])
      /\ \A j \in PaginasDelPid(p) : Presente(p, j) => \E l \in 1..n : s[l] = j
      /\ \A j, l \in 1..n : s[j] = s[l] => j = l
      /\ n <= MARCO_X_PROC
  BY <1>3 DEF Lista
<1>10. k + 1 \in 1..n /\ s[k + 1] = v
  BY <1>2, <1>3
<1>11. \A j \in 1..n : Presente(p, t[j])'
  BY <1>7, <1>9, <1>10
<1>12. \A j \in PaginasDelPid(p) : Presente(p, j)' => \E l \in 1..n : t[l] = j
  <2> SUFFICES ASSUME NEW j \in PaginasDelPid(p), Presente(p, j)'
               PROVE  \E l \in 1..n : t[l] = j
    OBVIOUS
  <2>1. CASE j = i
    BY <1>7, <1>10, <2>1
  <2>2. CASE j # i
    <3>1. PICK l \in 1..n : s[l] = j
      BY <1>9, <2>2
    <3>2. l # k + 1
      BY <1>10, <2>2, <3>1
    <3> QED
      BY <1>7, <3>1, <3>2
  <2> QED
    BY <2>1, <2>2
<1>13. \A j, l \in 1..n : t[j] = t[l] => j = l
  <2>1. \A j \in 1..n : s[j] # i
    BY <1>9
  <2> QED
    BY <1>7, <1>9, <1>10, <2>1
<1>14. /\ listas_algoritmo'[p].paginas = t /\ listas_algoritmo'[p].puntero = (k + 1) % n
       /\ listas_algoritmo'[p] = [paginas |-> t, puntero |-> (k + 1) % n]
  BY <1>3, <1>4
<1> QED
  BY <1>7, <1>8, <1>9, <1>11, <1>12, <1>13, <1>14 DEF Lista

(* guardar_en_mp with a replacement.                                       *)
LEMMA InvGuardarReemplazando ==
  ASSUME Inv, NEW p \in Programas, GuardarReemplazando(p)
  PROVE  Inv'
<1>1. TypeOK /\ Reparto /\ Listas /\ TlbDeLaTabla
  BY DEF Inv
<1>2. PICK m : m = servidor.mensaje
  OBVIOUS
<1>3. PICK i, v : i = m.pagina /\ v = Victima(p)
  OBVIOUS
<1>4. PICK f : f = lista_tablas[p][v].frame
  OBVIOUS
<1>5. /\ servidor.en = "guardar" /\ m.pid = p /\ PuedeReemplazar(p)
      /\ lista_paginas_tlb' = TlbSinMarco(f)
      /\ lista_tablas' = [lista_tablas EXCEPT ![p] = TablaReemplazada(p, i)]
      /\ listas_algoritmo' = [listas_algoritmo EXCEPT ![p] = ListaReemplazada(p, i)]
      /\ memoria_principal' = [memoria_principal EXCEPT ![f] = m.valor]
      /\ MandarVictima(p, v)
      /\ servidor' = [servidor EXCEPT !.en = "responder"]
      /\ UNCHANGED <<libres, lista_cpus, lista_procesos_activos, buffer_programas, hilo,
                     nucleo, consola, deSwap, almacen, proceso, respuesta>>
  BY <1>2, <1>3, <1>4 DEF GuardarReemplazando, EnGuardar
<1>6. /\ m.valor \in Contenidos /\ i \in PaginasDelPid(p) /\ i \in 0..MaxPaginas
      /\ p \in DOMAIN lista_tablas /\ ~Presente(p, i)
      /\ m.socket \in Cpus /\ hilo[m.socket].en \in {"swap", "muerto"}
      /\ \A d \in Cpus : Atiende(d) /\ lista_cpus[d] = p => d = m.socket
  <2>1. servidor.en # "libre"
    BY <1>5
  <2> QED
    BY <1>2, <1>3, <1>5, <2>1, DelServidor
<1>7. Lista(p)
  BY <1>1, <1>6 DEF Listas
<1>8. PICK n : n = Len(listas_algoritmo[p].paginas)
  OBVIOUS
<1>9. n \in Nat /\ n > 0
  <2>1. n \in Nat /\ CantPagXProc(p) = n
    BY <1>1, <1>6, <1>7, <1>8, CuantasPaginas, LenProperties DEF TypeOK
  <2> QED
    BY <1>5, <2>1, SupuestoUmc DEF PuedeReemplazar
<1>10. Presente(p, v) /\ v \in PaginasDelPid(p)
  BY <1>1, <1>3, <1>6, <1>7, <1>8, <1>9, LaVictima
<1>11. /\ DOMAIN lista_tablas' = DOMAIN lista_tablas
       /\ lista_tablas'[p] \in [PaginasDelPid(p) -> Filas]
       /\ \A q \in DOMAIN lista_tablas \ {p} : lista_tablas'[q] = lista_tablas[q]
       /\ lista_tablas'[p][i].presencia
       /\ lista_tablas'[p][i].frame = lista_tablas[p][v].frame
       /\ \A q, j : Presente(q, j)' <=> (Presente(q, j) /\ ~(q = p /\ j = v)) \/ (q = p /\ j = i)
       /\ \A q, j : Presente(q, j) /\ Presente(q, j)' =>
            lista_tablas'[q][j].frame = lista_tablas[q][j].frame
  <2>1. /\ DOMAIN lista_tablas' = DOMAIN lista_tablas
        /\ \A q \in DOMAIN lista_tablas \ {p} : lista_tablas'[q] = lista_tablas[q]
        /\ lista_tablas'[p] = TablaReemplazada(p, i)
    BY <1>5, <1>6
  <2>2. TypeOK /\ p \in DOMAIN lista_tablas /\ i \in PaginasDelPid(p) /\ ~Presente(p, i)
    BY <1>1, <1>6
  <2>3. v = Victima(p) /\ Presente(p, v)
    BY <1>3, <1>10
  <2>4. /\ lista_tablas'[p] \in [PaginasDelPid(p) -> Filas]
        /\ lista_tablas'[p][i].presencia /\ lista_tablas'[p][i].frame = lista_tablas[p][v].frame
        /\ ~lista_tablas'[p][v].presencia
        /\ \A q, j : Presente(q, j)' <=> (Presente(q, j) /\ ~(q = p /\ j = v)) \/ (q = p /\ j = i)
        /\ \A q, j : Presente(q, j) /\ Presente(q, j)' =>
             lista_tablas'[q][j].frame = lista_tablas[q][j].frame
    BY <2>1, <2>2, <2>3, LaTablaReemplazada
  <2> QED
    BY <2>1, <2>4
<1>12. /\ DOMAIN listas_algoritmo' = DOMAIN listas_algoritmo
       /\ DOMAIN listas_algoritmo = DOMAIN lista_tablas
       /\ listas_algoritmo'[p] = ListaReemplazada(p, i)
       /\ \A q \in DOMAIN lista_tablas \ {p} : listas_algoritmo'[q] = listas_algoritmo[q]
  BY <1>1, <1>5, <1>6 DEF TypeOK
<1>13. /\ Lista(p)'
       /\ listas_algoritmo'[p] \in [paginas : Seq(PaginasDelPid(p)), puntero : Nat]
  BY <1>1, <1>3, <1>6, <1>7, <1>8, <1>9, <1>11, <1>12, ListaTrasReemplazar
<1>14. f \in Marcos /\ Len(lista_paginas_tlb) \in Nat
  <2>1. v \in 0..MaxPaginas /\ lista_paginas_tlb \in Seq(Entradas)
    BY <1>1, <1>10, DeUnaPresente DEF TypeOK, Entradas
  <2> QED
    BY <1>1, <1>4, <1>10, <2>1, LenProperties DEF Reparto
<1>15. /\ Parte(lista_paginas_tlb', lista_paginas_tlb)
       /\ \A k \in 1..Len(lista_paginas_tlb') : lista_paginas_tlb'[k].frame # f
  <2>1. lista_paginas_tlb \in Seq(Entradas)
    BY <1>1 DEF TypeOK, Entradas
  <2> QED
    BY <1>1, <1>5, <2>1, SinMarco DEF TlbDeLaTabla
<1>16. /\ TypeOK' /\ Servicio' /\ Fases' /\ UnaPregunta' /\ Preguntas' /\ Servidor'
  <2>1. memoria_principal' \in [Marcos -> Contenidos] /\ libres' \subseteq Marcos
    BY <1>1, <1>5, <1>6 DEF TypeOK
  <2>2. lista_paginas_tlb' \in Seq(Entradas)
    BY <1>15 DEF Parte
  <2>3. \A q \in DOMAIN lista_tablas :
          listas_algoritmo'[q] \in [paginas : Seq(PaginasDelPid(q)), puntero : Nat]
    BY <1>1, <1>12, <1>13 DEF TypeOK
  <2>4. \/ UNCHANGED aSwap
        \/ \E e \in Mensajes :
             /\ e.id = "guardar" /\ e.pid = m.pid /\ e.pagina \in PaginasDelPid(m.pid)
             /\ e.valor \in Contenidos /\ aSwap' = Append(aSwap, e)
    <3>1. PICK e : e = Mensaje("guardar", p, v, NULO, memoria_principal[f])
      OBVIOUS
    <3>2. memoria_principal[f] \in Contenidos
      BY <1>1, <1>14 DEF TypeOK
    <3>3. v \in 0..(MaxPaginas - 1)
      <4>1. PaginasDe[p] \in 1..MaxPaginas /\ MaxPaginas \in Nat
        BY SupuestoUmc
      <4> QED
        BY <1>10, <4>1 DEF PaginasDelPid
    <3>4. e \in Mensajes /\ e.id = "guardar" /\ e.pid = p /\ e.pagina = v /\ e.valor \in Contenidos
      BY <3>1, <3>2, <3>3 DEF Mensaje, Mensajes
    <3>5. aSwap' = Append(aSwap, e) \/ aSwap' = aSwap
      BY <1>4, <1>5, <3>1 DEF MandarVictima, Enviar
    <3> QED
      BY <1>5, <1>10, <3>4, <3>5
  <2>5. lista_tablas'[m.pid][m.pagina].presencia
    BY <1>3, <1>5, <1>11
  <2>6. lista_tablas'[m.pid] \in [PaginasDelPid(m.pid) -> Filas]
    BY <1>5, <1>11
  <2> QED
    BY <1>2, <1>5, <1>11, <1>12, <2>1, <2>2, <2>3, <2>4, <2>5, <2>6, AlGuardar
<1>17. Reparto'
  BY <1>1, <1>4, <1>5, <1>6, <1>10, <1>11, RepartoReemplazado
<1>18. Listas'
  <2>1. ASSUME NEW q \in DOMAIN lista_tablas, q # p
        PROVE  Lista(q)'
    <3>1. Lista(q) /\ listas_algoritmo'[q] = listas_algoritmo[q]
      BY <1>1, <1>12, <2>1 DEF Listas
    <3> QED
      BY <1>11, <2>1, <3>1 DEF Lista
  <2> QED
    BY <1>11, <1>13, <2>1 DEF Listas
<1>19. TlbDeLaTabla' /\ TlbLista'
  <2>1. ASSUME NEW t, t.frame # f \/ t.pid # p
        PROVE  Sigue(t)
    <3>1. Vale(t) => ~(t.pid = p /\ t.pagina = v)
      BY <1>4, <2>1 DEF Vale
    <3> QED
      BY <1>11, <3>1 DEF Sigue, Vale
  <2>2. \A t \in Entradas : (\E k \in 1..Len(lista_paginas_tlb') : lista_paginas_tlb'[k] = t)
                               => Sigue(t)
    BY <1>15, <2>1
  <2>3. ASSUME NEW d \in Cpus, hilo'[d].en = "acceder"
        PROVE  /\ hilo'[d] = hilo[d] /\ lista_cpus'[d] = lista_cpus[d]
               /\ \A j, g : Sigue(Tlb(lista_cpus[d], j, g))
    <3>1. hilo'[d] = hilo[d] /\ lista_cpus'[d] = lista_cpus[d] /\ hilo[d].en = "acceder"
      BY <1>5, <2>3
    <3>2. lista_cpus[d] # p
      BY <1>6, <3>1 DEF Atiende
    <3>3. ASSUME NEW j, NEW g
          PROVE  Sigue(Tlb(lista_cpus[d], j, g))
      <4>1. PICK t : t = Tlb(lista_cpus[d], j, g)
        OBVIOUS
      <4>2. t.pid # p
        BY <3>2, <4>1 DEF Tlb
      <4> QED
        BY <2>1, <4>1, <4>2
    <3> QED
      BY <3>1, <3>3
  <2>4. servidor'.mensaje = m
    BY <1>1, <1>2, <1>5 DEF TypeOK
  <2>5. ~Presente(servidor'.mensaje.pid, servidor'.mensaje.pagina)
    BY <1>3, <1>5, <1>6, <2>4
  <2> QED
    BY <1>5, <1>15, <2>2, <2>3, <2>5, TlbQueQueda
<1> QED
  BY <1>16, <1>17, <1>18, <1>19 DEF Inv

-----------------------------------------------------------------------------
(* The console.  It moves no page.                                         *)
LEMMA InvFlushTlb ==
  ASSUME Inv, FlushTlb
  PROVE  Inv'
<1>1. TypeOK /\ Servicio /\ Fases /\ MismosMarcos
  BY TablasIguales DEF Inv, FlushTlb, memoriaVars
<1>2. /\ lista_paginas_tlb' = << >>
      /\ UNCHANGED <<memoriaVars, lista_cpus, lista_procesos_activos, buffer_programas, hilo,
                     servidor, nucleo, consola, swapVars, proceso, respuesta>>
  BY DEF FlushTlb
<1>3. lista_paginas_tlb \in Seq(Entradas)
  BY <1>1 DEF TypeOK, Entradas
<1>4. Parte(lista_paginas_tlb', lista_paginas_tlb)
  BY <1>2, <1>3, ParteEntera
<1>5. TypeOK'
  <2>1. lista_paginas_tlb' \in Seq(Entradas)
    BY <1>4 DEF Parte
  <2> QED
    BY <1>1, <1>2, <2>1 DEF TypeOK, Entradas, memoriaVars, swapVars
<1>6. Servicio' /\ Fases'
  BY <1>1, <1>2, ServicioIgual, FasesIguales DEF memoriaVars, swapVars
<1>7. \A m \in Mensajes : Vigente(m) => Vigente(m)'
  BY <1>2 DEF Vigente, memoriaVars, swapVars
<1>8. UnaPregunta' /\ Preguntas' /\ Servidor' /\ Reparto' /\ Listas'
  BY <1>1, <1>2, <1>7, SinMensajes DEF memoriaVars, swapVars
<1>9. TlbDeLaTabla' /\ TlbLista'
  BY <1>1, <1>2, <1>4, TlbConMenos
<1> QED
  BY <1>5, <1>6, <1>8, <1>9 DEF Inv

(* A step that changes nothing but the rows of a table, and not the place  *)
(* of a page, or what the console goes for.                                *)
LEMMA InvMismosMarcos ==
  ASSUME Inv, MismosMarcos, consola' \in 0..(Cardinality(Programas) + 1),
         UNCHANGED <<listas_algoritmo, libres, memoria_principal, lista_paginas_tlb, lista_cpus,
                     lista_procesos_activos, buffer_programas, hilo, servidor, nucleo, swapVars,
                     proceso, respuesta>>
  PROVE  Inv'
<1>1. TypeOK /\ Servicio /\ Fases
  BY DEF Inv
<1>2. /\ DOMAIN lista_tablas' = DOMAIN lista_tablas
      /\ \A p \in DOMAIN lista_tablas : lista_tablas'[p] \in [PaginasDelPid(p) -> Filas]
  BY DEF MismosMarcos
<1>3. TypeOK'
  BY <1>1, <1>2 DEF TypeOK, swapVars
<1>4. Servicio' /\ Fases'
  BY <1>1, <1>2, ServicioIgual, FasesIguales DEF swapVars
<1>5. \A m \in Mensajes : Vigente(m) => Vigente(m)'
  BY <1>2 DEF Vigente, swapVars
<1>6. UnaPregunta' /\ Preguntas' /\ Servidor' /\ Reparto' /\ Listas'
  BY <1>5, SinMensajes DEF swapVars
<1>7. TlbDeLaTabla' /\ TlbLista'
  BY TlbIgual
<1> QED
  BY <1>3, <1>4, <1>6, <1>7 DEF Inv

(* marcar_todas_modificadas begins.                                        *)
LEMMA InvEmpezarMarcar ==
  ASSUME Inv, EmpezarMarcar
  PROVE  Inv'
<1>1. MismosMarcos
  BY TablasIguales DEF Inv, EmpezarMarcar, memoriaVars
<1>2. consola' \in 0..(Cardinality(Programas) + 1)
  <2>1. Cardinality(Programas) \in Nat
    BY SupuestoUmc, FS_CardinalityType
  <2> QED
    BY <2>1 DEF EmpezarMarcar
<1> QED
  BY <1>1, <1>2, InvMismosMarcos DEF EmpezarMarcar, memoriaVars

(* It marks the pages in memory of one program.                            *)
LEMMA InvMarcarModificadas ==
  ASSUME Inv, MarcarModificadas
  PROVE  Inv'
<1>1. TypeOK
  BY DEF Inv
<1>2. PICK p : p = consola
  OBVIOUS
<1>3. MismosMarcos
  <2>1. CASE p \notin lista_procesos_activos
    BY <1>1, <1>2, <2>1, TablasIguales DEF MarcarModificadas
  <2>2. CASE p \in lista_procesos_activos
    <3>1. /\ p \in DOMAIN lista_tablas
          /\ lista_tablas' = [lista_tablas EXCEPT
                                ![p] = [i \in DOMAIN @ |-> Marcada(@[i])]]
      BY <1>1, <1>2, <2>2 DEF MarcarModificadas, TypeOK
    <3>2. lista_tablas[p] \in [PaginasDelPid(p) -> Filas]
      BY <1>1, <3>1 DEF TypeOK
    <3>3. \A i \in PaginasDelPid(p) : /\ Marcada(lista_tablas[p][i]) \in Filas
                                      /\ Marcada(lista_tablas[p][i]).presencia = lista_tablas[p][i].presencia
                                      /\ Marcada(lista_tablas[p][i]).frame = lista_tablas[p][i].frame
      BY <3>2 DEF Marcada, Filas
    <3>4. /\ DOMAIN lista_tablas' = DOMAIN lista_tablas
          /\ lista_tablas'[p] = [i \in PaginasDelPid(p) |-> Marcada(lista_tablas[p][i])]
          /\ \A q \in DOMAIN lista_tablas \ {p} : lista_tablas'[q] = lista_tablas[q]
      BY <3>1, <3>2
    <3>5. /\ lista_tablas'[p] \in [PaginasDelPid(p) -> Filas]
          /\ \A i \in PaginasDelPid(p) :
               /\ lista_tablas'[p][i].presencia = lista_tablas[p][i].presencia
               /\ lista_tablas'[p][i].frame = lista_tablas[p][i].frame
      BY <3>3, <3>4
    <3> QED
      BY <1>1, <3>4, <3>5 DEF MismosMarcos, TypeOK
  <2> QED
    BY <2>1, <2>2
<1>4. consola' \in 0..(Cardinality(Programas) + 1)
  <2>1. Cardinality(Programas) \in Nat /\ Programas = 1..Cardinality(Programas)
    BY SupuestoUmc, FS_CardinalityType
  <2> QED
    BY <2>1 DEF MarcarModificadas
<1> QED
  BY <1>3, <1>4, InvMismosMarcos DEF MarcarModificadas

-----------------------------------------------------------------------------
(* Every step keeps the invariant.                                         *)
LEMMA InvPaso == Inv /\ [Next]_vars => Inv'
<1> SUFFICES ASSUME Inv, [Next]_vars
             PROVE  Inv'
  OBVIOUS
<1>1. CASE UNCHANGED vars
  <2>1. MismosMarcos
    BY <1>1, TablasIguales DEF Inv, vars, memoriaVars
  <2>2. consola' \in 0..(Cardinality(Programas) + 1)
    BY <1>1 DEF Inv, TypeOK, vars
  <2> QED
    BY <1>1, <2>1, <2>2, InvMismosMarcos DEF vars, memoriaVars
<1>2. CASE PasoNucleo
  BY <1>2, InvLiberarPrograma, InvIniciarPrograma, InvFinalizarPrograma DEF PasoNucleo
<1>3. CASE PasoServidor
  BY <1>3, InvRespuestaIniciar, InvRespuestaEscribirNueva, InvRespuestaEscribir,
     InvRespuestaFinalizar, InvRespuestaConError, InvRespuestaConPagina,
     InvGuardarEnMarcoLibre, InvGuardarReemplazando, InvGuardarSinMarco, InvResponderAcceso
     DEF PasoServidor
<1>4. CASE Swap
  BY <1>4, InvSwap
<1>5. CASE PasoConsola
  BY <1>5, InvFlushTlb, InvEmpezarMarcar, InvMarcarModificadas DEF PasoConsola
<1>6. ASSUME NEW c \in Cpus, PasoHilo(c)
      PROVE  Inv'
  BY <1>6, InvAccederPorTlb, InvAccederPorTabla, InvPedirASwap DEF PasoHilo
<1>7. ASSUME NEW c \in Cpus, PasoCpu(c)
      PROVE  Inv'
  <2>1. CASE \/ HandshakeCpu(c) \/ DejarProceso(c) \/ FinalizarCpu(c) \/ MorirCpu(c)
    BY <2>1, InvHandshakeCpu, InvDejarProceso, InvFinalizarCpu, InvMorirCpu
  <2>2. CASE \E p \in Programas : CambiarProcesoActivo(c, p)
    BY <2>2, InvCambiarProcesoActivo
  <2>3. CASE \E a \in Pedidos : PedirInvalida(c, a) \/ Pedir(c, a)
    BY <2>3, InvPedirInvalida, InvPedir
  <2> QED
    BY <1>7, <2>1, <2>2, <2>3 DEF PasoCpu, Pedidos
<1> QED
  BY <1>1, <1>2, <1>3, <1>4, <1>5, <1>6, <1>7 DEF Next

(* In every state the UMC reaches, what the invariant says of the          *)
(* programs, the CPUs, the messages, the frames, the lists and the TLB.    *)
THEOREM Invariante == Spec => []Inv
<1>1. Init => Inv
  BY InvInicial
<1>2. Inv /\ [Next]_vars => Inv'
  BY InvPaso
<1> QED
  BY <1>1, <1>2, PTL DEF Spec

(* Every number of the tables, lists, frames and messages of the UMC is    *)
(* where it must be: a page is one of its program and a frame one there is.*)
THEOREM TiposDeLaUmc == Spec => []TypeOK
<1>1. Inv => TypeOK
  BY DEF Inv
<1> QED
  BY Invariante, <1>1, PTL

(* buscar_pagina_tlb never gives the frame of another page, whatever thread*)
(* changes the TLB, replaces the page or frees the program meanwhile.      *)
THEOREM TlbSiempreExacta == Spec => []TlbDeLaTabla
<1>1. Inv => TlbDeLaTabla
  BY DEF Inv
<1> QED
  BY Invariante, <1>1, PTL

(* MarcosRepartidos is Reparto and Listas, said with sets.                 *)
LEMMA DelReparto == Inv => MarcosRepartidos
<1> SUFFICES ASSUME TypeOK, Reparto, Listas
             PROVE  MarcosRepartidos
  BY DEF Inv
<1> DEFINE enUso == {x \in Programas \X (0..MaxPaginas) : Presente(x[1], x[2])}
           marco(x) == lista_tablas[x[1]][x[2]].frame
<1>1. \A x, y \in enUso : marco(x) = marco(y) => x = y
  <2> SUFFICES ASSUME NEW x \in enUso, NEW y \in enUso, marco(x) = marco(y)
               PROVE  x = y
    OBVIOUS
  <2>1. x[1] = y[1] /\ x[2] = y[2]
    BY DEF Reparto
  <2> QED
    BY <2>1
<1>2. {marco(x) : x \in enUso} = Marcos \ libres
  <2>1. \A x \in enUso : marco(x) \in Marcos \ libres
    BY DEF Reparto
  <2>2. ASSUME NEW f \in Marcos \ libres
        PROVE  \E x \in enUso : marco(x) = f
    <3>1. PICK p \in Programas, i \in 0..MaxPaginas :
            Presente(p, i) /\ lista_tablas[p][i].frame = f
      BY DEF Reparto
    <3>2. <<p, i>> \in enUso /\ marco(<<p, i>>) = f
      BY <3>1
    <3> QED
      BY <3>2
  <2> HIDE DEF enUso, marco
  <2> QED
    BY <2>1, <2>2
<1>3. ASSUME NEW p \in DOMAIN lista_tablas
      PROVE  LET paginas == listas_algoritmo[p].paginas IN
               /\ ToSet(paginas) = {i \in DOMAIN lista_tablas[p] : Presente(p, i)}
               /\ IsInjective(paginas)
               /\ Len(paginas) <= MARCO_X_PROC
               /\ listas_algoritmo[p].puntero <= Max({0, Len(paginas) - 1})
  <2> DEFINE paginas == listas_algoritmo[p].paginas
             n == Len(paginas)
  <2>1. /\ paginas \in Seq(PaginasDelPid(p)) /\ n \in Nat /\ DOMAIN paginas = 1..n
        /\ DOMAIN lista_tablas[p] = PaginasDelPid(p)
        /\ listas_algoritmo[p].puntero \in Nat
        /\ \A k \in 1..n : paginas[k] \in PaginasDelPid(p)
    BY LenProperties DEF TypeOK
  <2>2. /\ \A k \in 1..n : Presente(p, paginas[k])
        /\ \A i \in PaginasDelPid(p) : Presente(p, i) => \E k \in 1..n : paginas[k] = i
        /\ \A j, k \in 1..n : paginas[j] = paginas[k] => j = k
        /\ n <= MARCO_X_PROC
        /\ listas_algoritmo[p].puntero <= (IF n = 0 THEN 0 ELSE n - 1)
    BY DEF Listas, Lista
  <2> HIDE DEF n, paginas
  <2>3. ToSet(paginas) = {i \in DOMAIN lista_tablas[p] : Presente(p, i)}
    <3>1. ToSet(paginas) = {paginas[k] : k \in 1..n}
      BY <2>1 DEF ToSet
    <3> QED
      BY <2>1, <2>2, <3>1
  <2>4. IsInjective(paginas)
    BY <2>1, <2>2 DEF IsInjective
  <2>5. Max({0, n - 1}) = (IF n = 0 THEN 0 ELSE n - 1)
    <3>1. PICK x : x = (IF n = 0 THEN 0 ELSE n - 1)
      OBVIOUS
    <3>2. /\ x \in {0, n - 1} /\ \A y \in {0, n - 1} : x >= y
          /\ \A z \in {0, n - 1} : (\A y \in {0, n - 1} : z >= y) => z = x
      BY <2>1, <3>1
    <3> QED
      BY <3>1, <3>2 DEF Max
  <2> QED
    BY <2>2, <2>3, <2>4, <2>5 DEF n, paginas
<1> QED
  BY <1>1, <1>2, <1>3 DEF MarcosRepartidos

(* liberar_marcos gives back without a mutex exactly the frames of the     *)
(* program: none is lost or given to two pages, and the lists of the       *)
(* replacement have the pages in memory.                                   *)
THEOREM NingunMarcoSePierde == Spec => []MarcosRepartidos
BY Invariante, DelReparto, PTL

(* The buffer of each answer, from what makes its message true.            *)
LEMMA DeLasPreguntas == Inv => BufferDeLaRespuesta
<1> SUFFICES ASSUME Inv, NEW m \in (ToSet(deSwap) \cup {servidor.mensaje}) \ {NULO}
             PROVE  LET b == buffer_programas[m.pid] IN
                      CASE m.id = "iniciar" -> b # NULO /\ b.tipo = "codigo"
                        [] m.id \in {"leer", "escribir"} ->
                             /\ b # NULO /\ b.tipo = "acceso"
                             /\ b.acceso.op = m.id /\ b.acceso.pagina = m.pagina
                        [] m.id = "finalizar" ->
                             /\ b # NULO /\ b.tipo = "mensaje"
                             /\ proceso[m.pid] = (IF b.id = "matar" THEN "matando" ELSE "finalizando")
                        [] OTHER -> TRUE
  BY Zenon DEF BufferDeLaRespuesta
<1>1. TypeOK /\ Servicio /\ Fases /\ Preguntas /\ Servidor
  BY DEF Inv
<1>2. m \in Mensajes /\ Vigente(m)
  <2>1. CASE m \in ToSet(deSwap)
    <3>1. PICK k \in DOMAIN deSwap : m = deSwap[k]
      BY <2>1 DEF ToSet
    <3> QED
      BY <1>1, <3>1 DEF TypeOK, Preguntas
  <2>2. CASE m = servidor.mensaje
    BY <1>1, <2>2 DEF TypeOK, Servidor
  <2> QED
    BY <2>1, <2>2
<1>3. PICK b : b = buffer_programas[m.pid]
  OBVIOUS
<1>4. b \in Buffers \cup {NULO}
  BY <1>1, <1>2, <1>3 DEF TypeOK, Mensajes
<1>5. CASE m.id = "iniciar"
  <2>1. b = [tipo |-> "codigo"]
    BY <1>2, <1>3, <1>5 DEF Vigente
  <2>2. b # NULO
    BY <2>1, SupuestoNulo DEF Buffers
  <2> QED
    BY <1>3, <1>5, <2>1, <2>2
<1>6. CASE m.id \in {"leer", "escribir"}
  <2>1. PICK a : a = hilo[m.socket].acceso
    OBVIOUS
  <2>2. a \in Accesos[m.pid] /\ m.pid \in Programas
    BY <1>1, <1>2, <1>6, <2>1, DelAcceso
  <2>3. /\ b = [tipo |-> "acceso", acceso |-> a]
        /\ a.op = m.id /\ a.pagina = m.pagina
    BY <1>2, <1>3, <1>6, <2>1 DEF Vigente
  <2>4. a \in Pedidos
    BY <2>2, SupuestoUmc DEF Pedidos, Range
  <2>5. b # NULO
    BY <2>3, <2>4, SupuestoNulo DEF Buffers
  <2> QED
    BY <1>3, <1>6, <2>3, <2>5
<1>7. CASE m.id = "finalizar"
  <2>1. PICK x : x = (IF proceso[m.pid] = "matando" THEN "matar" ELSE "finalizar")
    OBVIOUS
  <2>2. b = [tipo |-> "mensaje", id |-> x] /\ proceso[m.pid] \in {"matando", "finalizando"}
    BY <1>2, <1>3, <1>7, <2>1 DEF Vigente
  <2>3. b # NULO
    BY <2>1, <2>2, SupuestoNulo DEF Buffers
  <2> QED
    BY <1>3, <1>7, <2>1, <2>2, <2>3
<1> QED
  BY <1>5, <1>6, <1>7

(* What a response takes from buffer_programas is what was put there for   *)
(* it: no other question of the program overwrites or frees it before.     *)
THEOREM BufferSiempreDeLaRespuesta == Spec => []BufferDeLaRespuesta
BY Invariante, DeLasPreguntas, PTL

(* A step that is not a replacement takes no page from the memory, but all *)
(* those of a program that ends.                                           *)
Quedan ==
  \A q \in DOMAIN lista_tablas \cap DOMAIN lista_tablas' : \A j \in PaginasDelPid(q) :
    lista_tablas[q][j].presencia => lista_tablas'[q][j].presencia

(* One row changes, and its page stays if it was in memory.                *)
LEMMA QuedanConOtraFila ==
  ASSUME TypeOK, NEW p, NEW i, NEW fila,
         lista_tablas' = [lista_tablas EXCEPT ![p] = [lista_tablas[p] EXCEPT ![i] = fila]],
         p \in DOMAIN lista_tablas /\ i \in PaginasDelPid(p) =>
           (lista_tablas[p][i].presencia => fila.presencia)
  PROVE  Quedan
<1> SUFFICES ASSUME NEW q \in DOMAIN lista_tablas, NEW j \in PaginasDelPid(q),
                    lista_tablas[q][j].presencia
             PROVE  lista_tablas'[q][j].presencia
  BY DEF Quedan
<1>1. lista_tablas[q] \in [PaginasDelPid(q) -> Filas]
  BY DEF TypeOK
<1>2. CASE q # p
  BY <1>2
<1>3. CASE q = p
  <2>1. lista_tablas'[q] = [lista_tablas[q] EXCEPT ![i] = fila]
    BY <1>3
  <2> QED
    BY <1>1, <1>3, <2>1
<1> QED
  BY <1>2, <1>3

(* An access takes no page from the memory.                                *)
LEMMA QuedanTrasAcceder ==
  ASSUME TypeOK, NEW p, NEW a, NEW f, Acceder(p, a, f)
  PROVE  Quedan
<1> DEFINE i == a.pagina
           fila == lista_tablas[p][i]
<1>1. p \in DOMAIN lista_tablas /\ i \in PaginasDelPid(p) => fila \in Filas
  BY DEF TypeOK
<1>2. CASE a.op = "leer"
  <2>1. PICK f1 : f1 = [fila EXCEPT !.uso = TRUE]
    OBVIOUS
  <2>2. lista_tablas' = [lista_tablas EXCEPT ![p] = [lista_tablas[p] EXCEPT ![i] = f1]]
    BY <1>2, <2>1 DEF Acceder
  <2>3. p \in DOMAIN lista_tablas /\ i \in PaginasDelPid(p) => (fila.presencia => f1.presencia)
    BY <1>1, <2>1 DEF Filas
  <2> QED
    BY <2>2, <2>3, QuedanConOtraFila
<1>3. CASE a.op # "leer"
  <2>1. PICK f1 : f1 = Fila(fila.frame, fila.presencia, fila.modificado \/ fila.presencia, TRUE)
    OBVIOUS
  <2>2. lista_tablas' = [lista_tablas EXCEPT ![p] = [lista_tablas[p] EXCEPT ![i] = f1]]
    BY <1>3, <2>1 DEF Acceder
  <2>3. fila.presencia => f1.presencia
    BY <2>1 DEF Fila
  <2> QED
    BY <2>2, <2>3, QuedanConOtraFila
<1> QED
  BY <1>2, <1>3

(* Every step but a replacement leaves the pages in memory.                *)
LEMMA QuedanLasPaginas ==
  ASSUME TypeOK, Fases, Next, \A p \in Programas : ~GuardarReemplazando(p)
  PROVE  Quedan
<1>1. CASE UNCHANGED lista_tablas
  BY <1>1 DEF Quedan
<1>2. ASSUME NEW p \in Programas, IniciarPrograma(p)
      PROVE  Quedan
  BY <1>2 DEF Quedan, IniciarPrograma, Agregada, Fases
<1>3. ASSUME LiberarPrograma
      PROVE  Quedan
  <2>1. lista_tablas' = [q \in (DOMAIN lista_tablas \ {nucleo}) \cap DOMAIN lista_tablas |-> lista_tablas[q]]
    BY <1>3 DEF LiberarPrograma, Quitada, Restrict
  <2> QED
    BY <2>1 DEF Quedan
<1>4. ASSUME NEW c \in Cpus, PasoHilo(c)
      PROVE  Quedan
  BY <1>1, <1>4, QuedanTrasAcceder DEF PasoHilo, AccederPorTlb, AccederPorTabla, PedirASwap, memoriaVars
<1>5. ASSUME NEW p \in Programas, GuardarEnMarcoLibre(p)
      PROVE  Quedan
  <2>1. PICK i, fila : /\ i = servidor.mensaje.pagina
                       /\ fila = Fila(Min(libres), TRUE, FALSE, TRUE)
    OBVIOUS
  <2>2. lista_tablas' = [lista_tablas EXCEPT ![p] = [lista_tablas[p] EXCEPT ![i] = fila]]
    BY <1>5, <2>1 DEF GuardarEnMarcoLibre
  <2>3. fila.presencia
    BY <2>1 DEF Fila
  <2> QED
    BY <2>2, <2>3, QuedanConOtraFila
<1>6. ASSUME NEW p \in Programas, ResponderAcceso(p)
      PROVE  Quedan
  <2>1. PICK i : i = servidor.mensaje.pagina
    OBVIOUS
  <2>2. PICK fila : fila = [lista_tablas[p][i] EXCEPT !.modificado = TRUE]
    OBVIOUS
  <2>3. \/ UNCHANGED lista_tablas
        \/ lista_tablas' = [lista_tablas EXCEPT ![p] = [lista_tablas[p] EXCEPT ![i] = fila]]
    BY <1>6, <2>1, <2>2 DEF ResponderAcceso
  <2>4. p \in DOMAIN lista_tablas /\ i \in PaginasDelPid(p) =>
          (lista_tablas[p][i].presencia => fila.presencia)
    BY <2>2 DEF TypeOK, Filas
  <2> QED
    BY <1>1, <2>3, <2>4, QuedanConOtraFila
<1>7. ASSUME MarcarModificadas
      PROVE  Quedan
  <2>1. PICK p : p = consola
    OBVIOUS
  <2>2. CASE p \in lista_procesos_activos
    <3>1. /\ p \in DOMAIN lista_tablas
          /\ lista_tablas[p] \in [PaginasDelPid(p) -> Filas]
          /\ lista_tablas' = [lista_tablas EXCEPT
                                ![p] = [i \in DOMAIN @ |-> Marcada(@[i])]]
      BY <1>7, <2>1, <2>2 DEF MarcarModificadas, TypeOK
    <3>2. /\ lista_tablas'[p] = [i \in PaginasDelPid(p) |-> Marcada(lista_tablas[p][i])]
          /\ \A q \in DOMAIN lista_tablas \ {p} : lista_tablas'[q] = lista_tablas[q]
      BY <3>1
    <3>3. \A i \in PaginasDelPid(p) :
            Marcada(lista_tablas[p][i]).presencia = lista_tablas[p][i].presencia
      BY <3>1 DEF Marcada, Filas
    <3> QED
      BY <3>2, <3>3 DEF Quedan
  <2> QED
    BY <1>1, <1>7, <2>1, <2>2 DEF MarcarModificadas
<1>8. CASE PasoConsola
  BY <1>1, <1>7, <1>8 DEF PasoConsola, FlushTlb, EmpezarMarcar, memoriaVars
<1>9. CASE PasoNucleo
  <2>1. CASE LiberarPrograma
    BY <1>3, <2>1
  <2>2. ASSUME NEW p \in Programas, FinalizarPrograma(p)
        PROVE  Quedan
    BY <1>1, <2>2 DEF FinalizarPrograma, memoriaVars
  <2>3. ASSUME NEW p \in Programas, IniciarPrograma(p)
        PROVE  Quedan
    BY <1>2, <2>3
  <2> QED
    BY <1>9, <2>1, <2>2, <2>3 DEF PasoNucleo
<1>10. CASE PasoServidor
  <2>1. CASE \/ RespuestaIniciar \/ RespuestaEscribirNueva \/ RespuestaEscribir
             \/ RespuestaFinalizar \/ RespuestaConError \/ RespuestaConPagina
    BY <1>1, <2>1 DEF RespuestaIniciar, RespuestaEscribirNueva, RespuestaEscribir,
       RespuestaFinalizar, RespuestaConError, RespuestaConPagina, memoriaVars
  <2>2. ASSUME NEW p \in Programas, GuardarSinMarco(p)
        PROVE  Quedan
    BY <1>1, <2>2 DEF GuardarSinMarco, memoriaVars
  <2> QED
    BY <1>5, <1>6, <1>10, <2>1, <2>2 DEF PasoServidor
<1>11. CASE Swap
  BY <1>1, <1>11 DEF Swap, memoriaVars
<1>12. ASSUME NEW c \in Cpus, PasoCpu(c)
       PROVE  Quedan
  BY <1>1, <1>12 DEF PasoCpu, HandshakeCpu, DejarProceso, FinalizarCpu, MorirCpu,
     CambiarProcesoActivo, PedirInvalida, Pedir, memoriaVars
<1> QED
  BY <1>4, <1>8, <1>9, <1>10, <1>11, <1>12 DEF Next

(* The page that a replacement takes is of the first class there is.       *)
LEMMA SaleLaVictima ==
  ASSUME Inv, NEW p \in Programas, GuardarReemplazando(p),
         NEW q \in DOMAIN lista_tablas, NEW w \in DOMAIN lista_tablas[q],
         NEW j \in DOMAIN lista_tablas[q],
         lista_tablas[q][w].presencia, ~lista_tablas'[q][w].presencia,
         lista_tablas[q][j].presencia
  PROVE  Clase(lista_tablas[q][w]) <= Clase(lista_tablas[q][j])
<1>1. TypeOK /\ Listas
  BY DEF Inv
<1>2. PICK m, i, v : m = servidor.mensaje /\ i = m.pagina /\ v = Victima(p)
  OBVIOUS
<1>3. /\ servidor.en = "guardar" /\ m.pid = p /\ PuedeReemplazar(p)
      /\ lista_tablas' = [lista_tablas EXCEPT ![p] = TablaReemplazada(p, i)]
  BY <1>2 DEF GuardarReemplazando, EnGuardar
<1>4. i \in PaginasDelPid(p) /\ p \in DOMAIN lista_tablas /\ ~Presente(p, i)
  <2>1. servidor.en # "libre"
    BY <1>3
  <2> QED
    BY <1>2, <1>3, <2>1, DelServidor
<1>5. Lista(p)
  BY <1>1, <1>4 DEF Listas
<1>6. PICK n : n = Len(listas_algoritmo[p].paginas)
  OBVIOUS
<1>7. n \in Nat /\ n > 0
  <2>1. n \in Nat /\ CantPagXProc(p) = n
    BY <1>1, <1>4, <1>5, <1>6, CuantasPaginas, LenProperties DEF TypeOK
  <2> QED
    BY <1>3, <2>1, SupuestoUmc DEF PuedeReemplazar
<1>8. /\ Presente(p, v) /\ v \in PaginasDelPid(p)
      /\ \A k \in PaginasDelPid(p) : Presente(p, k) =>
           Clase(lista_tablas[p][v]) <= Clase(lista_tablas[p][k])
  BY <1>1, <1>2, <1>4, <1>5, <1>6, <1>7, LaVictima
<1>9. q = p
  BY <1>3
<1>10. w = v
  <2>1. /\ DOMAIN lista_tablas' = DOMAIN lista_tablas
        /\ \A r \in DOMAIN lista_tablas \ {p} : lista_tablas'[r] = lista_tablas[r]
        /\ lista_tablas'[p] = TablaReemplazada(p, i)
    BY <1>3, <1>4
  <2>2. TypeOK /\ p \in DOMAIN lista_tablas /\ i \in PaginasDelPid(p) /\ ~Presente(p, i)
    BY <1>1, <1>4
  <2>3. v = Victima(p) /\ Presente(p, v)
    BY <1>2, <1>8
  <2>4. /\ lista_tablas'[p] \in [PaginasDelPid(p) -> Filas]
        /\ \A r, k : Presente(r, k)' <=> (Presente(r, k) /\ ~(r = p /\ k = v)) \/ (r = p /\ k = i)
    BY <2>1, <2>2, <2>3, LaTablaReemplazada
  <2>5. Presente(p, w) /\ ~Presente(p, w)'
    BY <1>9, <2>1 DEF Presente
  <2> QED
    BY <2>4, <2>5
<1>11. Presente(p, j) /\ j \in PaginasDelPid(p)
  BY <1>1, <1>9 DEF Presente, TypeOK
<1> QED
  BY <1>8, <1>9, <1>10, <1>11

(* Every step respects the classes.                                        *)
LEMMA DeLaPrimeraClase ==
  ASSUME Inv, [Next]_vars
  PROVE  \A p \in DOMAIN lista_tablas \cap DOMAIN lista_tablas' :
           \A v, i \in DOMAIN lista_tablas[p] :
             lista_tablas[p][v].presencia /\ ~lista_tablas'[p][v].presencia
               /\ lista_tablas[p][i].presencia
                 => Clase(lista_tablas[p][v]) <= Clase(lista_tablas[p][i])
<1>1. CASE \E p \in Programas : GuardarReemplazando(p)
  BY <1>1, SaleLaVictima
<1>2. ASSUME Quedan
      PROVE  \A p \in DOMAIN lista_tablas \cap DOMAIN lista_tablas' :
               \A v \in DOMAIN lista_tablas[p] :
                 lista_tablas[p][v].presencia => lista_tablas'[p][v].presencia
  BY <1>2 DEF Quedan, Inv, TypeOK
<1>3. CASE ~\E p \in Programas : GuardarReemplazando(p)
  <2>1. CASE Next
    <3>1. Quedan
      BY <1>3, <2>1, QuedanLasPaginas DEF Inv
    <3> QED
      BY <1>2, <3>1
  <2>2. CASE UNCHANGED vars
    BY <2>2 DEF vars, memoriaVars
  <2> QED
    BY <2>1, <2>2
<1> QED
  BY <1>1, <1>3

(* CLOCK and CLOCK-M: whatever the bits of the pages and the place of the  *)
(* puntero, no page in memory is of a class before that of the one taken   *)
(* from a program that goes on.                                            *)
THEOREM SiempreLaPrimeraClase == Spec => VictimaDeLaPrimeraClase
<1>1. Inv /\ [Next]_vars =>
        [\A p \in DOMAIN lista_tablas \cap DOMAIN lista_tablas' :
           \A v, i \in DOMAIN lista_tablas[p] :
             lista_tablas[p][v].presencia /\ ~lista_tablas'[p][v].presencia
               /\ lista_tablas[p][i].presencia
                 => Clase(lista_tablas[p][v]) <= Clase(lista_tablas[p][i])]_vars
  BY DeLaPrimeraClase
<1> QED
  BY Invariante, <1>1, PTL DEF Spec, VictimaDeLaPrimeraClase
=============================================================================
