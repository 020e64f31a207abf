-------------------------------- MODULE Umc --------------------------------
(***************************************************************************)
(* The UMC (umc.c): the memory of the programs, paged.  Every program has a*)
(* page table and at most MARCO_X_PROC frames; the pages that are not in a *)
(* frame are in the SWAP; the TLB is common to all the programs; a program *)
(* that needs a frame takes it from itself, by CLOCK or CLOCK-M.           *)
(*                                                                         *)
(* Threads: one per connection of a CPU (hilo), the Nucleo's (nucleo), the *)
(* one that receives from the SWAP (servidor), and the console (consola).  *)
(* They share everything, with a mutex for the TLB only.  A message of the *)
(* UMC goes with one send, so messages do not mix; the SWAP serves them in *)
(* order, and is module AlmacenAbstracto, which module Swap implements.    *)
(***************************************************************************)
EXTENDS Integers, FiniteSets, Sequences, SequencesExt, FiniteSetsExt, Functions

CONSTANTS Cpus,              (* the descriptors of the CPUs' connections   *)
          SeVan,             (* bound: the CPUs that disconnect or die     *)
          Programas,         (* the pids, 1 to the number of programs      *)
          PaginasDe,         (* per program, paginas_requeridas            *)
          CodigoEn,          (* per program, the pages its code takes      *)
          Accesos,           (* bound: per program, the accesses it does   *)
          Comandos,          (* bound: what the user asks to the console   *)
          Palabras, Datos,   (* a page has a datum per word                *)
          Codigo,            (* the content of a page of code              *)
          MARCOS, MARCO_X_PROC, ENTRADAS_TLB, ALGORITMO,
          TotalSwap,         (* the pages of the SWAP                      *)
          MaxPaginas, Indefinida, Exito, Error, NULO

Contenidos == [Palabras -> Datos]
Marcos == 1..MARCOS
PaginasDelPid(p) == 0..(PaginasDe[p] - 1)

ASSUME SupuestoUmc ==
  /\ IsFiniteSet(Programas) /\ Programas = 1..Cardinality(Programas)
  /\ MaxPaginas \in Nat \ {0}
  /\ PaginasDe \in [Programas -> 1..MaxPaginas]
  /\ CodigoEn \in [Programas -> Nat] /\ \A p \in Programas : CodigoEn[p] <= PaginasDe[p]
  /\ SeVan \subseteq Cpus
  /\ Codigo \in Contenidos
  /\ MARCOS \in Nat \ {0} /\ MARCO_X_PROC \in Nat \ {0} /\ ENTRADAS_TLB \in Nat
  /\ ALGORITMO \in {"CLOCK", "CLOCK-M"}
  /\ Accesos \in [Programas ->
       SUBSET [op : {"leer", "escribir"}, pagina : 0..MaxPaginas, palabra : Palabras,
               dato : Datos]]

(* What a pointer of buffer_programas may point to.                        *)
Pedidos == UNION Range(Accesos)
Buffers == [tipo : {"codigo"}] \cup [tipo : {"acceso"}, acceso : Pedidos]
             \cup [tipo : {"mensaje"}, id : {"matar", "finalizar"}]
Mensajes == [id : {"iniciar", "nueva", "guardar", "leer", "escribir", "finalizar"},
             pid : Programas, pagina : 0..(MaxPaginas - 1), socket : Cpus \cup {NULO},
             valor : Contenidos \cup {Exito, Error, NULO}]

(* NULL and the results are nothing else.                                  *)
ASSUME SupuestoNulo ==
  /\ NULO \notin Programas /\ NULO \notin Pedidos /\ NULO \notin Buffers
  /\ NULO \notin Mensajes /\ NULO \notin Contenidos /\ NULO \notin Datos
  /\ Indefinida \notin Contenidos
  /\ Exito \notin Contenidos /\ Error \notin Contenidos /\ Exito # Error

VARIABLES
  lista_tablas,      (* per program, its page table                        *)
  listas_algoritmo,  (* per program, its pages in memory and the puntero   *)
  lista_paginas_tlb, (* from the least to the most recently used           *)
  libres,            (* the frames of lista_de_marcos with libre = 1       *)
  memoria_principal, (* the content of each frame                          *)
  lista_cpus,        (* per CPU with a row, its pid                        *)
  lista_procesos_activos,
  buffer_programas,  (* per program, what its pointer points to            *)
  hilo,              (* per CPU, where its thread is, and its access       *)
  servidor,          (* the thread that receives from the SWAP             *)
  nucleo,            (* the program the Nucleo's thread is freeing, or NULO*)
  consola,           (* the pid marcar_todas_modificadas goes for; 0 before *)
  aSwap, deSwap,     (* the messages in flight to and from the SWAP        *)
  almacen,           (* the pages in the SWAP                              *)
  proceso,           (* per program, what the Nucleo and the CPUs do of it *)
  respuesta          (* the last answer to a CPU                           *)

memoriaVars == <<lista_tablas, listas_algoritmo, libres, memoria_principal>>
swapVars == <<aSwap, deSwap, almacen>>
vars == <<memoriaVars, lista_paginas_tlb, lista_cpus, lista_procesos_activos,
          buffer_programas, hilo, servidor, nucleo, consola, swapVars, proceso, respuesta>>

-----------------------------------------------------------------------------
Fila(f, pres, mod, uso) == [frame |-> f, presencia |-> pres, modificado |-> mod, uso |-> uso]
Hilo(donde, acceso, marco) == [en |-> donde, acceso |-> acceso, marco |-> marco]
Mensaje(id, p, i, c, v) == [id |-> id, pid |-> p, pagina |-> i, socket |-> c, valor |-> v]
Libre == [en |-> "libre", mensaje |-> NULO, habia |-> FALSE]

Init ==
  /\ lista_tablas = << >>
  /\ listas_algoritmo = << >>
  /\ lista_paginas_tlb = << >>
  /\ libres = Marcos
  /\ memoria_principal = [f \in Marcos |-> Codigo]
  /\ lista_cpus = << >>
  /\ lista_procesos_activos = {}
  /\ buffer_programas = [p \in Programas |-> NULO]
  /\ hilo = [c \in Cpus |-> Hilo("cerrado", NULO, 0)]
  /\ servidor = Libre
  /\ nucleo = NULO
  /\ consola = 0
  /\ aSwap = << >>
  /\ deSwap = << >>
  /\ almacen = << >>
  /\ proceso = [p \in Programas |-> "no"]
  /\ respuesta = NULO

Agregada(f, p, v) == [q \in DOMAIN f \cup {p} |-> IF q = p THEN v ELSE f[q]]
Quitada(f, p) == Restrict(f, DOMAIN f \ {p})
Enviar(m) == aSwap' = Append(aSwap, m)

-----------------------------------------------------------------------------
(* The TLB.                                                                *)
Tlb(p, i, f) == [pid |-> p, pagina |-> i, frame |-> f]
ConTlb == ENTRADAS_TLB # 0

(* buscar_pagina_tlb: the entry goes to the end; 0 when there is none.     *)
EntradaTlb(p, i) ==
  SelectInSeq(lista_paginas_tlb, LAMBDA t : t.pid = p /\ t.pagina = i)
MarcoTlb(p, i) ==
  IF ConTlb /\ EntradaTlb(p, i) # 0 THEN lista_paginas_tlb[EntradaTlb(p, i)].frame ELSE 0
TlbBuscada(p, i) ==
  LET k == EntradaTlb(p, i) IN
    IF ConTlb /\ k # 0
      THEN Append(RemoveAt(lista_paginas_tlb, k), lista_paginas_tlb[k])
      ELSE lista_paginas_tlb

(* guardar_en_TLB and LRU, quitar_pagina_TLB, flush_programa_tlb: the      *)
(* entries that are left keep their order.                                 *)
TlbCon(t) ==
  IF ~ConTlb THEN lista_paginas_tlb
  ELSE IF Len(lista_paginas_tlb) < ENTRADAS_TLB THEN Append(lista_paginas_tlb, t)
  ELSE Append(Tail(lista_paginas_tlb), t)
(* Mutant of TlbSinPrograma: one entry of the program goes, and not all.   *)
TlbSinUna(p) == RemoveFirstMatch(lista_paginas_tlb, LAMBDA t : t.pid = p)
TlbSinMarco(f) == RemoveFirstMatch(lista_paginas_tlb, LAMBDA t : t.frame = f)
TlbSinPrograma(p) ==
  LET quedan == {k \in DOMAIN lista_paginas_tlb : lista_paginas_tlb[k].pid # p}
      antes(k) == Cardinality({j \in quedan : j < k})
  IN [n \in 1..Cardinality(quedan) |->
        lista_paginas_tlb[CHOOSE k \in quedan : antes(k) = n - 1]]

-----------------------------------------------------------------------------
(* reemplazar_pagina: the page the puntero reaches after d steps, and the  *)
(* steps after which each algorithm stops.  CLOCK takes the first page     *)
(* with U = 0 and clears the U of those it passes, all of them when it goes*)
(* around.  CLOCK-M goes around for U = 0 and M = 0, then for U = 0 and    *)
(* M = 1 clearing the U it passes, then for M = 0, then for M = 1.         *)
Alcanza(lista, d) == lista.paginas[((lista.puntero + d) % Len(lista.paginas)) + 1]

Pasos(lista) == 0..(Len(lista.paginas) - 1)
Detenido(lista, d, limpiados) ==
  [pasos |-> d, sinUso |-> {Alcanza(lista, e) : e \in limpiados}]

GiroClock(tabla, lista) ==
  LET sinUso == {d \in Pasos(lista) : ~tabla[Alcanza(lista, d)].uso} IN
    IF sinUso # {} THEN Detenido(lista, Min(sinUso), 0..(Min(sinUso) - 1))
    ELSE Detenido(lista, 0, Pasos(lista))

GiroClockM(tabla, lista) ==
  LET limpias == {d \in Pasos(lista) : ~tabla[Alcanza(lista, d)].modificado}
      sinUso == {d \in Pasos(lista) : ~tabla[Alcanza(lista, d)].uso}
      ambas == sinUso \cap limpias
  IN IF ambas # {} THEN Detenido(lista, Min(ambas), {})
     ELSE IF sinUso # {} THEN Detenido(lista, Min(sinUso), 0..(Min(sinUso) - 1))
     ELSE IF limpias # {} THEN Detenido(lista, Min(limpias), Pasos(lista))
     ELSE Detenido(lista, 0, Pasos(lista))

Giro(tabla, lista) ==
  IF ALGORITMO = "CLOCK" THEN GiroClock(tabla, lista) ELSE GiroClockM(tabla, lista)

(* The page of the frame that is taken, the table after the replacement by *)
(* page i, and the list, whose puntero goes to the page after it.          *)
Victima(p) == Alcanza(listas_algoritmo[p], Giro(lista_tablas[p], listas_algoritmo[p]).pasos)
TablaReemplazada(p, i) ==
  LET giro == Giro(lista_tablas[p], listas_algoritmo[p])
      v == Victima(p)
  IN [j \in DOMAIN lista_tablas[p] |->
        IF j = i THEN Fila(lista_tablas[p][v].frame, TRUE, FALSE, TRUE)
        ELSE IF j = v THEN Fila(0, FALSE, FALSE, FALSE)
        ELSE IF j \in giro.sinUso THEN [lista_tablas[p][j] EXCEPT !.uso = FALSE]
        ELSE lista_tablas[p][j]]
ListaReemplazada(p, i) ==
  LET lista == listas_algoritmo[p]
      n == Len(lista.paginas)
      k == (lista.puntero + Giro(lista_tablas[p], lista).pasos) % n
  IN [paginas |-> ReplaceAt(lista.paginas, k + 1, i), puntero |-> (k + 1) % n]

-----------------------------------------------------------------------------
(* The thread of the Nucleo.  iniciar_programa makes an empty table and    *)
(* asks the SWAP for the pages.                                            *)
IniciarPrograma(p) ==
  /\ nucleo = NULO /\ proceso[p] = "no"
  /\ proceso' = [proceso EXCEPT ![p] = "nuevo"]
  /\ lista_tablas' = Agregada(lista_tablas, p,
                       [i \in PaginasDelPid(p) |-> Fila(0, FALSE, FALSE, FALSE)])
  /\ listas_algoritmo' = Agregada(listas_algoritmo, p, [paginas |-> << >>, puntero |-> 0])
  /\ buffer_programas' = [buffer_programas EXCEPT ![p] = [tipo |-> "codigo"]]
  /\ Enviar(Mensaje("iniciar", p, 0, NULO, NULO))
  /\ UNCHANGED <<libres, memoria_principal, lista_paginas_tlb, lista_cpus,
                 lista_procesos_activos, hilo, servidor, nucleo, consola, deSwap, almacen,
                 respuesta>>

(* Mutant of ActivosSin: the program is looked for and not removed.        *)
ActivosCon(p) == lista_procesos_activos
ActivosSin(p) == lista_procesos_activos \ {p}

(* finalizar_programa, for FINALIZAR and for MATAR: the program leaves the *)
(* list and the TLB...                                                     *)
FinalizarPrograma(p) ==
  /\ nucleo = NULO /\ proceso[p] \in {"finalizar", "matar"}
  /\ buffer_programas' = [buffer_programas EXCEPT ![p] = [tipo |-> "mensaje", id |-> proceso[p]]]
  /\ proceso' = [proceso EXCEPT ![p] = IF @ = "matar" THEN "matando" ELSE "finalizando"]
  /\ lista_procesos_activos' = ActivosSin(p)
  /\ lista_paginas_tlb' = TlbSinPrograma(p)
  /\ nucleo' = p
  /\ UNCHANGED <<memoriaVars, lista_cpus, hilo, servidor, consola, swapVars, respuesta>>

(* ...liberar_marcos, without a mutex, liberar_de_listas, and the SWAP is  *)
(* told.                                                                   *)
(* Mutant of MarcosDe: the last page is left out.                          *)
MarcosSalvoElUltimo(p) == {lista_tablas[p][i].frame :
  i \in {j \in DOMAIN lista_tablas[p] : lista_tablas[p][j].presencia /\ j + 1 < PaginasDe[p]}}
MarcosDe(p) == {lista_tablas[p][i].frame :
                  i \in {j \in DOMAIN lista_tablas[p] : lista_tablas[p][j].presencia}}
LiberarPrograma ==
  /\ nucleo # NULO
  /\ libres' = libres \cup MarcosDe(nucleo)
  /\ lista_tablas' = Quitada(lista_tablas, nucleo)
  /\ listas_algoritmo' = Quitada(listas_algoritmo, nucleo)
  /\ Enviar(Mensaje("finalizar", nucleo, 0, NULO, NULO))
  /\ nucleo' = NULO
  /\ UNCHANGED <<memoria_principal, lista_paginas_tlb, lista_cpus, lista_procesos_activos,
                 buffer_programas, hilo, servidor, consola, deSwap, almacen, proceso,
                 respuesta>>

-----------------------------------------------------------------------------
(* The thread of a CPU.  A new row replaces the one of a CPU that had the  *)
(* same descriptor.  Until it serves a process, its pid is not initialized.*)
HandshakeCpu(c) ==
  /\ hilo[c].en = "cerrado"
  /\ lista_cpus' = Agregada(lista_cpus, c, NULO)
  /\ hilo' = [hilo EXCEPT ![c].en = "ocioso"]
  /\ UNCHANGED <<memoriaVars, lista_paginas_tlb, lista_procesos_activos, buffer_programas,
                 servidor, nucleo, consola, swapVars, proceso, respuesta>>

(* cambiar_proceso_activo.                                                 *)
CambiarProcesoActivo(c, p) ==
  /\ hilo[c].en = "ocioso" /\ proceso[p] = "listo"
  /\ lista_paginas_tlb' = TlbSinPrograma(p)
  /\ lista_cpus' = [lista_cpus EXCEPT ![c] = p]
  /\ hilo' = [hilo EXCEPT ![c].en = "libre"]
  /\ proceso' = [proceso EXCEPT ![p] = "exec"]
  /\ UNCHANGED <<memoriaVars, lista_procesos_activos, buffer_programas, servidor, nucleo,
                 consola, swapVars, respuesta>>

(* The CPU stops with the process, which goes on later or ends.  The UMC is*)
(* told of an end by the Nucleo, after the CPU has all its answers; with   *)
(* DejarSinEsperar, a mutant, before.                                      *)
DejarSinEsperar(c) ==
  /\ hilo[c].en \in {"libre", "swap"}
  /\ hilo' = [hilo EXCEPT ![c].en = "ocioso"]
  /\ \E e \in {"listo", "finalizar", "matar"} :
       proceso' = [proceso EXCEPT ![lista_cpus[c]] = e]
  /\ UNCHANGED <<memoriaVars, lista_paginas_tlb, lista_cpus, lista_procesos_activos,
                 buffer_programas, servidor, nucleo, consola, swapVars, respuesta>>
DejarProceso(c) ==
  /\ hilo[c].en = "libre"
  /\ hilo' = [hilo EXCEPT ![c].en = "ocioso"]
  /\ \E e \in {"listo", "finalizar", "matar"} :
       proceso' = [proceso EXCEPT ![lista_cpus[c]] = e]
  /\ UNCHANGED <<memoriaVars, lista_paginas_tlb, lista_cpus, lista_procesos_activos,
                 buffer_programas, servidor, nucleo, consola, swapVars, respuesta>>

(* cambiar_proceso_activo with -1: finalizar_cpu.                          *)
FinalizarCpu(c) ==
  /\ c \in SeVan /\ hilo[c].en = "ocioso"
  /\ \/ lista_cpus[c] # NULO /\ lista_paginas_tlb' = TlbSinPrograma(lista_cpus[c])
     \/ lista_cpus[c] = NULO /\ \E p \in Programas : lista_paginas_tlb' = TlbSinPrograma(p)
  /\ lista_cpus' = Quitada(lista_cpus, c)
  /\ hilo' = [hilo EXCEPT ![c].en = "cerrado"]
  /\ UNCHANGED <<memoriaVars, lista_procesos_activos, buffer_programas, servidor, nucleo,
                 consola, swapVars, proceso, respuesta>>

(* A CPU that dies: its row stays, its process is not heard of any more,   *)
(* and the answer it waits for goes to a socket nobody reads.              *)
MorirCpu(c) ==
  /\ c \in SeVan /\ hilo[c].en \in {"ocioso", "libre", "swap"}
  /\ hilo' = [hilo EXCEPT ![c].en = IF @ = "swap" THEN "muerto" ELSE "cerrado"]
  /\ proceso' = IF hilo[c].en = "ocioso" THEN proceso
                ELSE [proceso EXCEPT ![lista_cpus[c]] = "perdido"]
  /\ UNCHANGED <<memoriaVars, lista_paginas_tlb, lista_cpus, lista_procesos_activos,
                 buffer_programas, servidor, nucleo, consola, swapVars, respuesta>>

-----------------------------------------------------------------------------
(* leer_pagina and escribir_pagina, until the TLB is looked up.  A page the*)
(* program does not have is an error at once.                              *)
PedirInvalida(c, a) ==
  /\ hilo[c].en = "libre" /\ a \in Accesos[lista_cpus[c]]
  /\ a.pagina > PaginasDe[lista_cpus[c]] - 1
  /\ respuesta' = Error
  /\ UNCHANGED <<memoriaVars, lista_paginas_tlb, lista_cpus, lista_procesos_activos,
                 buffer_programas, hilo, servidor, nucleo, consola, swapVars, proceso>>
Pedir(c, a) ==
  LET p == lista_cpus[c] IN
    /\ hilo[c].en = "libre" /\ a \in Accesos[p]
    /\ a.pagina <= PaginasDe[p] - 1
    /\ hilo' = [hilo EXCEPT ![c] = Hilo("acceder", a, MarcoTlb(p, a.pagina))]
    /\ lista_paginas_tlb' = TlbBuscada(p, a.pagina)
    /\ respuesta' = NULO
    /\ UNCHANGED <<memoriaVars, lista_cpus, lista_procesos_activos, buffer_programas,
                   servidor, nucleo, consola, swapVars, proceso>>

Contestar(c) ==
  hilo' = [hilo EXCEPT ![c] = Hilo(IF @.en = "muerto" THEN "cerrado" ELSE "libre", NULO, 0)]

(* The access itself, in frame f.  Mutant: the page is not marked.         *)
AccederSinMarcar(p, a, f) ==
  IF a.op = "leer" THEN
    /\ lista_tablas' = [lista_tablas EXCEPT ![p][a.pagina].uso = TRUE]
    /\ respuesta' = memoria_principal[f][a.palabra]
    /\ UNCHANGED memoria_principal
  ELSE
    /\ memoria_principal' = [memoria_principal EXCEPT ![f][a.palabra] = a.dato]
    /\ lista_tablas' = [lista_tablas EXCEPT ![p][a.pagina].uso = TRUE]
    /\ respuesta' = Exito
Acceder(p, a, f) ==
  IF a.op = "leer" THEN
    /\ lista_tablas' = [lista_tablas EXCEPT ![p][a.pagina].uso = TRUE]
    /\ respuesta' = memoria_principal[f][a.palabra]
    /\ UNCHANGED memoria_principal
  ELSE
    /\ memoria_principal' = [memoria_principal EXCEPT ![f][a.palabra] = a.dato]
    /\ lista_tablas' = [lista_tablas EXCEPT ![p][a.pagina] =
                          Fila(@.frame, @.presencia, @.modificado \/ @.presencia, TRUE)]
    /\ respuesta' = Exito

AccederPorTlb(c) ==
  LET a == hilo[c].acceso IN
    /\ hilo[c].en = "acceder" /\ hilo[c].marco # 0
    /\ Acceder(lista_cpus[c], a, hilo[c].marco)
    /\ Contestar(c)
    /\ UNCHANGED <<listas_algoritmo, libres, lista_paginas_tlb, lista_cpus,
                   lista_procesos_activos, buffer_programas, servidor, nucleo, consola,
                   swapVars, proceso>>
AccederPorTabla(c) ==
  LET a == hilo[c].acceso
      p == lista_cpus[c]
      fila == lista_tablas[p][a.pagina]
  IN
    /\ hilo[c].en = "acceder" /\ hilo[c].marco = 0
    /\ fila.presencia
    /\ Acceder(p, a, fila.frame)
    /\ lista_paginas_tlb' = TlbCon(Tlb(p, a.pagina, fila.frame))
    /\ Contestar(c)
    /\ UNCHANGED <<listas_algoritmo, libres, lista_cpus, lista_procesos_activos,
                   buffer_programas, servidor, nucleo, consola, swapVars, proceso>>

(* The page is asked to the SWAP and the access waits in the buffer.       *)
PedirASwap(c) ==
  LET a == hilo[c].acceso
      p == lista_cpus[c]
  IN
    /\ hilo[c].en = "acceder" /\ hilo[c].marco = 0
    /\ ~lista_tablas[p][a.pagina].presencia
    /\ buffer_programas' = [buffer_programas EXCEPT ![p] = [tipo |-> "acceso", acceso |-> a]]
    /\ Enviar(Mensaje(a.op, p, a.pagina, c, NULO))
    /\ hilo' = [hilo EXCEPT ![c].en = "swap"]
    /\ UNCHANGED <<memoriaVars, lista_paginas_tlb, lista_cpus, lista_procesos_activos,
                   servidor, nucleo, consola, deSwap, almacen, proceso, respuesta>>

-----------------------------------------------------------------------------
(* The SWAP: it answers the first message.  "leer" is MENSAJE_LEER_PAGINA  *)
(* and "escribir" MENSAJE_LEER_PAGINA_PARA_ESCRIBIR; "nueva" is the code of*)
(* a new program and "guardar" a page that is replaced.                    *)
Almacen == INSTANCE AlmacenAbstracto WITH
  Valores <- Contenidos, Total <- TotalSwap,
  memoria <- almacen, respuesta <- Last(deSwap).valor

Swap ==
  LET m == Head(aSwap) IN
    /\ aSwap # << >>
    /\ aSwap' = Tail(aSwap)
    /\ \E v \in Contenidos \cup {Exito, Error} : deSwap' = Append(deSwap, [m EXCEPT !.valor = v])
    /\ \/ /\ m.id = "iniciar"
          /\ Almacen!Iniciar(m.pid, PaginasDe[m.pid]) \/ Almacen!Rechazar(m.pid, PaginasDe[m.pid])
       \/ m.id = "nueva" /\ Almacen!EscribirNueva(m.pid, CodigoEn[m.pid], m.valor)
       \/ m.id = "guardar" /\ Almacen!Escribir(m.pid, m.pagina, m.valor)
       \/ m.id \in {"leer", "escribir"} /\ Almacen!Leer(m.pid, m.pagina)
       \/ m.id = "finalizar" /\ Almacen!Finalizar(m.pid)
    /\ UNCHANGED <<memoriaVars, lista_paginas_tlb, lista_cpus, lista_procesos_activos,
                   buffer_programas, hilo, servidor, nucleo, consola, proceso, respuesta>>

-----------------------------------------------------------------------------
(* The thread that receives from the SWAP.                                 *)
(* Mutant of Llega: a message atender_swap does not know.                  *)
LlegaSinGuardar(ids) ==
  /\ servidor.en = "libre"
  /\ deSwap # << >> /\ Head(deSwap).id \in ids \ {"guardar"}
  /\ deSwap' = Tail(deSwap)
Llega(ids) ==
  /\ servidor.en = "libre"
  /\ deSwap # << >> /\ Head(deSwap).id \in ids
  /\ deSwap' = Tail(deSwap)

(* respuesta_iniciar_programa: the code goes to the SWAP and its buffer is *)
(* freed, or the Nucleo is told that there is no room.                     *)
RespuestaIniciar ==
  LET m == Head(deSwap) IN
    /\ Llega({"iniciar"})
    /\ buffer_programas' = [buffer_programas EXCEPT ![m.pid] = NULO]
    /\ \/ /\ m.valor = Exito
          /\ Enviar(Mensaje("nueva", m.pid, 0, NULO, Codigo))
          /\ lista_procesos_activos' = lista_procesos_activos \cup {m.pid}
          /\ UNCHANGED proceso
       \/ /\ m.valor = Error
          /\ proceso' = [proceso EXCEPT ![m.pid] = "rechazado"]
          /\ UNCHANGED <<aSwap, lista_procesos_activos>>
    /\ UNCHANGED <<memoriaVars, lista_paginas_tlb, lista_cpus, hilo, servidor, nucleo,
                   consola, almacen, respuesta>>

(* respuesta_escribir_pagina_nueva: the Nucleo may use the program.        *)
RespuestaEscribirNueva ==
  /\ Llega({"nueva"})
  /\ proceso' = [proceso EXCEPT ![Head(deSwap).pid] = "listo"]
  /\ UNCHANGED <<memoriaVars, lista_paginas_tlb, lista_cpus, lista_procesos_activos,
                 buffer_programas, hilo, servidor, nucleo, consola, aSwap, almacen, respuesta>>

(* respuesta_escribir_pagina.                                              *)
RespuestaEscribir ==
  /\ Llega({"guardar"})
  /\ UNCHANGED <<memoriaVars, lista_paginas_tlb, lista_cpus, lista_procesos_activos,
                 buffer_programas, hilo, servidor, nucleo, consola, aSwap, almacen, proceso,
                 respuesta>>

(* respuesta_finalizar_programa: the buffer says what the Nucleo asked for.*)
RespuestaFinalizar ==
  LET p == Head(deSwap).pid IN
    /\ Llega({"finalizar"})
    /\ proceso' = [proceso EXCEPT ![p] =
                     IF buffer_programas[p].id = "matar" THEN "matado" ELSE "finalizado"]
    /\ buffer_programas' = [buffer_programas EXCEPT ![p] = NULO]
    /\ UNCHANGED <<memoriaVars, lista_paginas_tlb, lista_cpus, lista_procesos_activos,
                   hilo, servidor, nucleo, consola, aSwap, almacen, respuesta>>

(* respuesta_leer_pagina and respuesta_leer_pagina_para_escribir.  The SWAP*)
(* could not read...                                                       *)
RespuestaConError ==
  LET m == Head(deSwap) IN
    /\ Llega({"leer", "escribir"})
    /\ m.valor = Error
    /\ buffer_programas' = [buffer_programas EXCEPT ![m.pid] = NULO]
    /\ Contestar(m.socket)
    /\ respuesta' = Error
    /\ UNCHANGED <<memoriaVars, lista_paginas_tlb, lista_cpus, lista_procesos_activos,
                   servidor, nucleo, consola, aSwap, almacen, proceso>>

(* ...or the page goes to the memory.  guardar_en_mp looks for a free frame*)
(* in the condition of each case: first here...                            *)
RespuestaConPagina ==
  /\ Llega({"leer", "escribir"})
  /\ Head(deSwap).valor # Error
  /\ servidor' = [en |-> "guardar", mensaje |-> Head(deSwap), habia |-> libres # {}]
  /\ UNCHANGED <<memoriaVars, lista_paginas_tlb, lista_cpus, lista_procesos_activos,
                 buffer_programas, hilo, nucleo, consola, aSwap, almacen, proceso, respuesta>>

(* cant_pag_x_proc.                                                        *)
CantPagXProc(p) == Cardinality({i \in DOMAIN lista_tablas[p] : lista_tablas[p][i].presencia})

EnGuardar(p) == servidor.en = "guardar" /\ servidor.mensaje.pid = p

(* ...and here again.  With a frame for the program, obtener_marco.        *)
GuardarEnMarcoLibre(p) ==
  LET m == servidor.mensaje
      f == Min(libres)
  IN
    /\ EnGuardar(p)
    /\ servidor.habia /\ CantPagXProc(p) < MARCO_X_PROC
    /\ libres' = libres \ {f}
    /\ lista_tablas' = [lista_tablas EXCEPT ![p][m.pagina] = Fila(f, TRUE, FALSE, TRUE)]
    /\ listas_algoritmo' = [listas_algoritmo EXCEPT ![p].paginas = Append(@, m.pagina)]
    /\ memoria_principal' = [memoria_principal EXCEPT ![f] = m.valor]
    /\ servidor' = [servidor EXCEPT !.en = "responder"]
    /\ UNCHANGED <<lista_paginas_tlb, lista_cpus, lista_procesos_activos, buffer_programas,
                   hilo, nucleo, consola, swapVars, proceso, respuesta>>

(* With the frames it may have, or with no frame for it but one at least,  *)
(* reemplazar_pagina: its frame leaves the TLB, and the page goes to the   *)
(* SWAP when it is modified.                                               *)
PuedeReemplazar(p) ==
  \/ CantPagXProc(p) = MARCO_X_PROC /\ (servidor.habia \/ libres = {})
  \/ CantPagXProc(p) \in 1..(MARCO_X_PROC - 1) /\ ~servidor.habia /\ libres = {}
(* Mutant of MandarVictima: only a page that is used goes to the SWAP.     *)
MandarSiSeUsa(p, v) ==
  LET fila == lista_tablas[p][v] IN
    IF fila.modificado /\ fila.uso
      THEN Enviar(Mensaje("guardar", p, v, NULO, memoria_principal[fila.frame]))
      ELSE UNCHANGED aSwap
MandarVictima(p, v) ==
  LET fila == lista_tablas[p][v] IN
    IF fila.modificado
      THEN Enviar(Mensaje("guardar", p, v, NULO, memoria_principal[fila.frame]))
      ELSE UNCHANGED aSwap

GuardarReemplazando(p) ==
  LET m == servidor.mensaje
      v == Victima(p)
      fila == lista_tablas[p][v]
  IN
    /\ EnGuardar(p) /\ PuedeReemplazar(p)
    /\ lista_paginas_tlb' = TlbSinMarco(fila.frame)
    /\ lista_tablas' = [lista_tablas EXCEPT ![p] = TablaReemplazada(p, m.pagina)]
    /\ listas_algoritmo' = [listas_algoritmo EXCEPT ![p] = ListaReemplazada(p, m.pagina)]
    /\ memoria_principal' = [memoria_principal EXCEPT ![fila.frame] = m.valor]
    /\ MandarVictima(p, v)
    /\ servidor' = [servidor EXCEPT !.en = "responder"]
    /\ UNCHANGED <<libres, lista_cpus, lista_procesos_activos, buffer_programas, hilo,
                   nucleo, consola, deSwap, almacen, proceso, respuesta>>

(* guardar_en_mp returns 0: there was no frame for the program and it has  *)
(* none, or one was freed between the two looks.                           *)
GuardarSinMarco(p) ==
  /\ EnGuardar(p)
  /\ ~PuedeReemplazar(p) /\ ~(servidor.habia /\ CantPagXProc(p) < MARCO_X_PROC)
  /\ servidor' = Libre
  /\ buffer_programas' = [buffer_programas EXCEPT ![p] = NULO]
  /\ Contestar(servidor.mensaje.socket)
  /\ respuesta' = Error
  /\ UNCHANGED <<memoriaVars, lista_paginas_tlb, lista_cpus, lista_procesos_activos, nucleo,
                 consola, swapVars, proceso>>

(* The page is in its frame: the TLB, what the access asked for, and the   *)
(* answer.                                                                 *)
ResponderAcceso(p) ==
  LET a == buffer_programas[p].acceso
      i == servidor.mensaje.pagina
      f == lista_tablas[p][i].frame
  IN
    /\ servidor.en = "responder" /\ servidor.mensaje.pid = p
    /\ lista_paginas_tlb' = TlbCon(Tlb(p, i, f))
    /\ \/ /\ servidor.mensaje.id = "leer"
          /\ respuesta' = memoria_principal[f][a.palabra]
          /\ UNCHANGED <<lista_tablas, memoria_principal>>
       \/ /\ servidor.mensaje.id = "escribir"
          /\ respuesta' = Exito
          /\ memoria_principal' = [memoria_principal EXCEPT ![f][a.palabra] = a.dato]
          /\ lista_tablas' = [lista_tablas EXCEPT ![p][i].modificado = TRUE]
    /\ buffer_programas' = [buffer_programas EXCEPT ![p] = NULO]
    /\ Contestar(servidor.mensaje.socket)
    /\ servidor' = Libre
    /\ UNCHANGED <<libres, listas_algoritmo, lista_cpus, lista_procesos_activos, nucleo,
                   consola, swapVars, proceso>>

-----------------------------------------------------------------------------
(* The console: flush_tlb, and marcar_todas_modificadas, which goes through*)
(* the pids and marks the pages in memory of those that are active.        *)
FlushTlb ==
  /\ "flush" \in Comandos /\ lista_paginas_tlb # << >>
  /\ lista_paginas_tlb' = << >>
  /\ UNCHANGED <<memoriaVars, lista_cpus, lista_procesos_activos, buffer_programas, hilo,
                 servidor, nucleo, consola, swapVars, proceso, respuesta>>

Marcada(fila) == [fila EXCEPT !.modificado = @ \/ fila.presencia]
EmpezarMarcar ==
  /\ "marcar" \in Comandos /\ consola = 0
  /\ consola' = 1
  /\ UNCHANGED <<memoriaVars, lista_paginas_tlb, lista_cpus, lista_procesos_activos,
                 buffer_programas, hilo, servidor, nucleo, swapVars, proceso, respuesta>>
MarcarModificadas ==
  /\ consola \in Programas
  /\ lista_tablas' = IF consola \in lista_procesos_activos
       THEN [lista_tablas EXCEPT ![consola] = [i \in DOMAIN @ |-> Marcada(@[i])]]
       ELSE lista_tablas
  /\ consola' = consola + 1
  /\ UNCHANGED <<listas_algoritmo, libres, memoria_principal, lista_paginas_tlb, lista_cpus,
                 lista_procesos_activos, buffer_programas, hilo, servidor, nucleo, swapVars,
                 proceso, respuesta>>

-----------------------------------------------------------------------------
PasoNucleo == LiberarPrograma \/ \E p \in Programas : IniciarPrograma(p) \/ FinalizarPrograma(p)
PasoServidor ==
  \/ RespuestaIniciar \/ RespuestaEscribirNueva \/ RespuestaEscribir \/ RespuestaFinalizar
  \/ RespuestaConError \/ RespuestaConPagina
  \/ \E p \in Programas : \/ GuardarEnMarcoLibre(p) \/ GuardarReemplazando(p)
                          \/ GuardarSinMarco(p) \/ ResponderAcceso(p)
PasoHilo(c) == AccederPorTlb(c) \/ AccederPorTabla(c) \/ PedirASwap(c)
PasoCpu(c) ==
  \/ HandshakeCpu(c) \/ DejarProceso(c) \/ FinalizarCpu(c) \/ MorirCpu(c)
  \/ \E p \in Programas : CambiarProcesoActivo(c, p)
  \/ \E a \in UNION Range(Accesos) : PedirInvalida(c, a) \/ Pedir(c, a)
PasoConsola == FlushTlb \/ EmpezarMarcar \/ MarcarModificadas

Next ==
  \/ PasoNucleo \/ PasoServidor \/ Swap \/ PasoConsola
  \/ \E c \in Cpus : PasoHilo(c) \/ PasoCpu(c)

Spec == Init /\ [][Next]_vars

(* Every thread goes on with the message it has; when and what the CPUs,   *)
(* the Nucleo and the console ask for is up to them.                       *)
SpecJusta ==
  /\ Spec
  /\ WF_vars(PasoServidor) /\ WF_vars(Swap) /\ WF_vars(LiberarPrograma)
  /\ \A c \in Cpus : WF_vars(PasoHilo(c))
  /\ \A p \in Programas : WF_vars(FinalizarPrograma(p))

-----------------------------------------------------------------------------
Filas == [frame : 0..MARCOS, presencia : BOOLEAN, modificado : BOOLEAN, uso : BOOLEAN]
Estados == {"no", "nuevo", "rechazado", "listo", "exec", "perdido", "finalizar", "matar",
            "finalizando", "matando", "finalizado", "matado"}

(* Type invariant of the UMC; the tables, the lists and the SWAP's pages   *)
(* are those of programs, and the frames free are frames.                  *)
TypeOK ==
  /\ DOMAIN lista_tablas \subseteq Programas
  /\ \A p \in DOMAIN lista_tablas : lista_tablas[p] \in [PaginasDelPid(p) -> Filas]
  /\ DOMAIN listas_algoritmo = DOMAIN lista_tablas
  /\ \A p \in DOMAIN listas_algoritmo :
       listas_algoritmo[p] \in [paginas : Seq(PaginasDelPid(p)), puntero : Nat]
  /\ lista_paginas_tlb \in Seq([pid : Programas, pagina : Nat, frame : Marcos])
  /\ libres \subseteq Marcos
  /\ memoria_principal \in [Marcos -> Contenidos]
  /\ DOMAIN lista_cpus \subseteq Cpus
  /\ lista_cpus \in [DOMAIN lista_cpus -> Programas \cup {NULO}]
  /\ lista_procesos_activos \subseteq DOMAIN lista_tablas
  /\ buffer_programas \in [Programas -> Buffers \cup {NULO}]
  /\ hilo \in [Cpus -> [en : {"cerrado", "ocioso", "libre", "acceder", "swap", "muerto"},
                        acceso : Pedidos \cup {NULO}, marco : 0..MARCOS]]
  /\ servidor \in [en : {"libre", "guardar", "responder"}, mensaje : Mensajes \cup {NULO},
                   habia : BOOLEAN]
  /\ nucleo \in Programas \cup {NULO} /\ consola \in 0..(Cardinality(Programas) + 1)
  /\ aSwap \in Seq(Mensajes) /\ deSwap \in Seq(Mensajes)
  /\ DOMAIN almacen \subseteq Programas
  /\ \A p \in DOMAIN almacen : almacen[p] \in [PaginasDelPid(p) -> Contenidos \cup {Indefinida}]
  /\ proceso \in [Programas -> Estados]
  /\ respuesta \in Datos \cup {Exito, Error, NULO}

Presente(p, i) ==
  p \in DOMAIN lista_tablas /\ i \in DOMAIN lista_tablas[p] /\ lista_tablas[p][i].presencia

(* The TLB is common to all the programs, and every thread changes it: each*)
(* entry is a page in memory with its frame, and no page is there twice.   *)
(* An entry that outlives its program would be taken by quitar_pagina_TLB  *)
(* for the one of the next page in the frame.  A frame buscar_pagina_tlb   *)
(* gave still has the page when it is used, after the mutex is released.   *)
TlbDeLaTabla ==
  /\ Len(lista_paginas_tlb) <= ENTRADAS_TLB
  /\ \A k \in DOMAIN lista_paginas_tlb :
       LET t == lista_paginas_tlb[k] IN
         Presente(t.pid, t.pagina) /\ lista_tablas[t.pid][t.pagina].frame = t.frame
  /\ \A j, k \in DOMAIN lista_paginas_tlb :
       lista_paginas_tlb[j].frame = lista_paginas_tlb[k].frame => j = k
  /\ \A c \in Cpus :
       hilo[c].en = "acceder" /\ hilo[c].marco # 0 =>
         LET p == lista_cpus[c]  i == hilo[c].acceso.pagina IN
           Presente(p, i) /\ lista_tablas[p][i].frame = hilo[c].marco

(* A frame is free or has exactly one page: the frames a program that ends *)
(* gives back without a mutex are neither lost nor given twice.  The list  *)
(* of the replacement has the pages in memory, each once, at most          *)
(* MARCO_X_PROC, and the puntero is at one of them.                        *)
MarcosRepartidos ==
  LET enUso == {x \in Programas \X (0..MaxPaginas) : Presente(x[1], x[2])}
      marco(x) == lista_tablas[x[1]][x[2]].frame
  IN
    /\ \A x, y \in enUso : marco(x) = marco(y) => x = y
    /\ {marco(x) : x \in enUso} = Marcos \ libres
    /\ \A p \in DOMAIN lista_tablas :
         LET paginas == listas_algoritmo[p].paginas IN
           /\ ToSet(paginas) = {i \in DOMAIN lista_tablas[p] : Presente(p, i)}
           /\ IsInjective(paginas)
           /\ Len(paginas) <= MARCO_X_PROC
           /\ listas_algoritmo[p].puntero <= Max({0, Len(paginas) - 1})

(* buffer_programas has one pointer per program, to the code, an access or *)
(* a message: what is taken from it when the SWAP answers is what was put  *)
(* there for that answer.                                                  *)
BufferDeLaRespuesta ==
  \A m \in (ToSet(deSwap) \cup {servidor.mensaje}) \ {NULO} :
    LET b == buffer_programas[m.pid] IN
      CASE m.id = "iniciar" -> b # NULO /\ b.tipo = "codigo"
        [] m.id \in {"leer", "escribir"} ->
             b # NULO /\ b.tipo = "acceso" /\ b.acceso.op = m.id /\ b.acceso.pagina = m.pagina
        [] m.id = "finalizar" ->
             b # NULO /\ b.tipo = "mensaje"
             /\ proceso[m.pid] = (IF b.id = "matar" THEN "matando" ELSE "finalizando")
        [] OTHER -> TRUE

(* The victim is of the first class there is among the pages in memory:    *)
(* with CLOCK, U = 0; with CLOCK-M, U = 0 and M = 0, U = 0 and M = 1, U = 1*)
(* and M = 0.  So CLOCK-M writes a page in the SWAP only when it must.     *)
Clase(fila) ==
  IF ALGORITMO = "CLOCK" THEN (IF fila.uso THEN 1 ELSE 0)
  ELSE (IF fila.uso THEN 2 ELSE 0) + (IF fila.modificado THEN 1 ELSE 0)
VictimaDeLaPrimeraClase ==
  [][\A p \in DOMAIN lista_tablas \cap DOMAIN lista_tablas' :
       \A v, i \in DOMAIN lista_tablas[p] :
         lista_tablas[p][v].presencia /\ ~lista_tablas'[p][v].presencia
           /\ lista_tablas[p][i].presencia
             => Clase(lista_tablas[p][v]) <= Clase(lista_tablas[p][i])]_vars

(* The UMC answers: every access, with the page or with an error, though   *)
(* every frame may be taken and the page may have to go and come from the  *)
(* SWAP; and every end of a program, which it frees.                       *)
TodoSeContesta ==
  /\ \A c \in Cpus : hilo[c].en \in {"acceder", "swap"} ~> hilo[c].en \notin {"acceder", "swap"}
  /\ \A p \in Programas :
       proceso[p] \in {"matar", "finalizar"} ~> proceso[p] \in {"matado", "finalizado"}

-----------------------------------------------------------------------------
(* Where the content of a page is: in its frame when it is modified, in the*)
(* last message that takes it to the SWAP, or in the SWAP.                 *)
EnViaje(p, i) == SelectLastInSeq(aSwap, LAMBDA m : m.id = "guardar" /\ m.pid = p /\ m.pagina = i)
Contenido(p, i) ==
  LET fila == lista_tablas[p][i] IN
    IF fila.presencia /\ fila.modificado THEN memoria_principal[fila.frame]
    ELSE IF EnViaje(p, i) # 0 THEN aSwap[EnViaje(p, i)].valor
    ELSE almacen[p][i]

Memoria == INSTANCE MemoriaVirtual WITH
  memoria <- [p \in DOMAIN lista_tablas \cap DOMAIN almacen |->
                [i \in PaginasDelPid(p) |-> Contenido(p, i)]],
  pedido <- [c \in Cpus |->
               IF hilo[c].acceso = NULO THEN NULO
               ELSE [pid |-> lista_cpus[c], op |-> hilo[c].acceso.op,
                     pagina |-> hilo[c].acceso.pagina, palabra |-> hilo[c].acceso.palabra,
                     dato |-> hilo[c].acceso.dato]]

(* A program reads what it last wrote, in whatever frame, in the SWAP or on*)
(* the way, and no other program, CPU or command of the console changes it.*)
ImplementaMemoria == Memoria!Spec
=============================================================================
