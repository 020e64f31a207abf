------------------------------- MODULE Nucleo -------------------------------
(***************************************************************************)
(* The scheduler of the Nucleo (nucleo.c, atiendo_cpu.c): the queues of    *)
(* processes, the table lista_procesos, the free CPUs, and the threads     *)
(* that move processes between them.  There is one thread per connection   *)
(* (each console, each CPU, the UMC), the thread of asignar_pcb_a_cola_exec *)
(* and one thread per device and per ANSISOP semaphore.                    *)
(*                                                                         *)
(* A step is what a thread does between two points where another thread    *)
(* can interfere: a section under one mutex is one step.  Where the code   *)
(* takes a second mutex, or waits, with a mutex in hand, the thread stops  *)
(* in between and the mutex stays taken (variable mutex).                  *)
(***************************************************************************)
EXTENDS Canales

CONSTANTS HiloUmc, HiloExec  (* the threads that are not named by a socket *)

Hilos == Consolas \cup Cpus \cup Dispositivos \cup Sems \cup {HiloUmc, HiloExec}

(* Every thread is named once.                                             *)
ASSUME SupuestoHilos ==
  /\ IsFiniteSet(Hilos)
  /\ Consolas \cap (Cpus \cup Dispositivos \cup Sems) = {}
  /\ Cpus \cap (Dispositivos \cup Sems) = {}
  /\ Dispositivos \cap Sems = {}
  /\ {HiloUmc, HiloExec} \cap (Consolas \cup Cpus \cup Dispositivos \cup Sems) = {}
  /\ HiloUmc # HiloExec

VARIABLES
  cola,            (* cola_new, cola_ready, cola_exec, cola_block,         *)
                   (* cola_exit (pids) and cola_cpus (CPUs)                *)
  lista_procesos,  (* rows [pid, estado, consola, cpu, original]           *)
  pid_count,
  cuenta,          (* the counting semaphores cant_ready, cant_cpu,        *)
                   (* cant_block and matar_programa                        *)
  solicitudes_es,  (* per device its queue; sem_dispositivo counts it      *)
  mutex,           (* lista, ready, exec, block, exit: taken or not        *)
  hilo,            (* per thread: where it is, its pid, its cpu or queue   *)
  impreso,         (* history: which process printed on which console      *)
  caido,           (* a thread dereferenced NULL: the process died         *)
  (* the variables of module Semaforos                                     *)
  valor, solicitudes, sem_semaforos, mutex_solicitudes_semaforo,
  auxiliares, desbloqueando, concedidos, signals

Sem == INSTANCE Semaforos WITH Procesos <- Pids, Nadie <- NULO

semaforosVars == <<valor, solicitudes, sem_semaforos, mutex_solicitudes_semaforo,
                   auxiliares, desbloqueando, concedidos, signals>>
nucleoVars == <<cola, lista_procesos, pid_count, cuenta, solicitudes_es, mutex,
                hilo, impreso, caido, semaforosVars>>

Ocioso == [pc |-> "libre", pid |-> NULO, dato |-> NULO]

NucleoInit ==
  /\ cola = [new |-> <<>>, ready |-> <<>>, exec |-> <<>>, block |-> <<>>,
             exit |-> <<>>, cpus |-> <<>>]
  /\ lista_procesos = <<>>
  /\ pid_count = 1
  /\ cuenta = [ready |-> 0, cpu |-> 0, block |-> 0, matar |-> 0]
  /\ solicitudes_es = [d \in Dispositivos |-> <<>>]
  /\ mutex = {}
  /\ hilo = [h \in Hilos |-> Ocioso]
  /\ impreso = {}
  /\ caido = FALSE
  /\ Sem!Init

-----------------------------------------------------------------------------
(* The mutexes in use are in the set mutex.                                *)
Libre(m) == m \notin mutex

En(h, donde) == hilo[h].pc = donde
Ir(h, donde) == hilo' = [hilo EXCEPT ![h].pc = donde]
IrCon(h, donde, p, dato) == hilo' = [hilo EXCEPT ![h] = [pc |-> donde, pid |-> p, dato |-> dato]]
Terminar(h) == hilo' = [hilo EXCEPT ![h] = Ocioso]

(* list_find over lista_procesos: the first row that matches, 0 if none.   *)
FilaPid(p) == SelectInSeq(lista_procesos, LAMBDA f : f.pid = p)
FilaCpu(c) == SelectInSeq(lista_procesos, LAMBDA f : f.cpu = c)
FilaConsola(k) == SelectInSeq(lista_procesos, LAMBDA f : f.consola = k)

(* queue_pop_pid: the first element with that pid, NULL when there is none *)
(* (RemoveFirst then leaves the queue as it is).                           *)
Sacado(q, p) == IF Contains(q, p) THEN p ELSE NULO
(* It reads the pid of every element up to that one: a NULL before it.     *)
NuloAntes(q, p) == \E i \in 1..Len(q) : q[i] = NULO /\ p \notin Range(SubSeq(q, 1, i))

(* agregar_cpu_disponible.                                                 *)
ColaConCpu(q, c) == [q EXCEPT !.cpus = Append(@, c)]
CuentaConCpu(n) == [n EXCEPT !.cpu = @ + 1]

(* actualizar_estado_pcb, and the same followed by saco_socket_cpu;        *)
(* "original" tells whether the row still points to the t_pcb crear_PCB    *)
(* made: the PCB they write is the copy a CPU sent back.                   *)
Actualizar(p, e) ==
  lista_procesos' = [lista_procesos EXCEPT ![FilaPid(p)] =
    [@ EXCEPT !.estado = e, !.original = FALSE]]
ActualizarSinCpu(p, e) ==
  lista_procesos' = [lista_procesos EXCEPT ![FilaPid(p)] =
    [@ EXCEPT !.estado = e, !.cpu = NULO, !.original = FALSE]]

(* Mutant of PonerEnReady: the row keeps the CPU.                          *)
PonerEnReadySinSacarCpu(p, c) ==
  LET i == FilaCpu(c) IN
    lista_procesos' = [lista_procesos EXCEPT ![i] =
      [@ EXCEPT !.pid = p, !.estado = "READY", !.original = FALSE]]

(* actualizar_pcb_y_ponerlo_en_ready_con_socket_cpu: the row is found by   *)
(* the CPU and gets the PCB whatever process it was the row of.            *)
PonerEnReady(p, c) ==
  LET i == FilaCpu(c) IN
    lista_procesos' = [lista_procesos EXCEPT ![i] =
      [@ EXCEPT !.pid = p, !.estado = "READY", !.cpu = NULO, !.original = FALSE]]

(* The message a connection thread starts with, taken from its socket.     *)
LlegaDeCpu(c, id) ==
  /\ En(c, "libre")
  /\ deCpu[c] # <<>>
  /\ Head(deCpu[c]).id = id
  /\ deCpu' = [deCpu EXCEPT ![c] = Tail(@)]
LlegaDeConsola(k, id) ==
  /\ En(k, "libre")
  /\ deConsola[k] # <<>>
  /\ Head(deConsola[k]) = id
  /\ deConsola' = [deConsola EXCEPT ![k] = Tail(@)]
PidDe(c) == Head(deCpu[c]).pid
ArgDe(c) == Head(deCpu[c]).arg

Pedir(id, p) == aUmc' = aUmc \cup {[id |-> id, pid |-> p]}

(* What most steps leave alone.                                            *)
quieto == <<pid_count, impreso, caido, solicitudes_es, pcb, semaforosVars>>
sinMensajes == <<deConsola, aConsola, aCpu, aUmc>>

-----------------------------------------------------------------------------
(* atender_consola, INICIAR: crear_PCB takes the pid and the PCB goes to   *)
(* cola_new.                                                               *)
AtenderIniciar(k) ==
  /\ LlegaDeConsola(k, "INICIAR")
  /\ pid_count' = pid_count + 1
  /\ pcb' = [pcb EXCEPT ![pid_count] = [consola |-> k, pc |-> 0]]
  /\ cola' = [cola EXCEPT !.new = Append(@, pid_count)]
  /\ IrCon(k, "iniciar", pid_count, NULO)
  /\ UNCHANGED <<lista_procesos, cuenta, solicitudes_es, mutex, impreso, caido,
                 semaforosVars, aConsola, deCpu, aCpu, aUmc>>

(* agregar_pcb_a_lista_procesos and enviar_programa_completo_a_umc.        *)
AgregarALista(k) ==
  /\ En(k, "iniciar")
  /\ Libre("lista")
  /\ lista_procesos' = Append(lista_procesos,
       [pid |-> hilo[k].pid, estado |-> "NEW", consola |-> k, cpu |-> NULO,
        original |-> TRUE])
  /\ Pedir("INICIALIZAR", hilo[k].pid)
  /\ Terminar(k)
  /\ UNCHANGED <<cola, cuenta, mutex, quieto, deConsola, aConsola, deCpu, aCpu>>

(* atender_consola, MATAR, and matar_ejecucion, which runs with            *)
(* mutex_lista_procesos taken.  The process has finished: nothing to do.   *)
MatarTerminado(k) ==
  /\ LlegaDeConsola(k, "MATAR")
  /\ Libre("lista")
  /\ FilaConsola(k) # 0
  /\ lista_procesos[FilaConsola(k)].estado = "EXIT"
  /\ UNCHANGED <<cola, lista_procesos, cuenta, mutex, hilo, quieto, aConsola,
                 deCpu, aCpu, aUmc>>

(* It is executing: its CPU is told, and the thread waits for the answer   *)
(* (respuesta_matar) without giving the mutex back.                        *)
MatarEnCpu(k) ==
  LET fila == lista_procesos[FilaConsola(k)] IN
    /\ LlegaDeConsola(k, "MATAR")
    /\ Libre("lista")
    /\ FilaConsola(k) # 0
    /\ fila.estado = "EXEC"
    /\ aCpu' = [aCpu EXCEPT ![fila.cpu] = Append(@, [id |-> "MATAR", pid |-> NULO])]
    /\ mutex' = mutex \cup {"lista"}
    /\ IrCon(k, "matar_programa", fila.pid, NULO)
    /\ UNCHANGED <<cola, lista_procesos, cuenta, quieto, aConsola, deCpu, aUmc>>

(* It is in a queue: READY, NEW or BLOCK.                                  *)
NombreCola(estado) == CASE estado = "READY" -> "ready"
                        [] estado = "NEW" -> "new"
                        [] estado = "BLOCK" -> "block"
MatarEnCola(k) ==
  LET fila == lista_procesos[FilaConsola(k)] IN
    /\ LlegaDeConsola(k, "MATAR")
    /\ Libre("lista")
    /\ FilaConsola(k) # 0
    /\ fila.estado \in {"READY", "NEW", "BLOCK"}
    /\ mutex' = mutex \cup {"lista"}
    /\ IrCon(k, "matar_cola", fila.pid, NombreCola(fila.estado))
    /\ UNCHANGED <<cola, lista_procesos, cuenta, quieto, aConsola, deCpu, aCpu, aUmc>>

(* The UMC is asked to free the process and the mutex is released.         *)
MatarEnUmc(k) ==
  /\ Pedir("MATAR", hilo[k].pid)
  /\ mutex' = mutex \ {"lista"}
  /\ Terminar(k)

(* The answer of the CPU.  The state says READY when AtenderInicializado   *)
(* wrote it late, over the EXEC of the dispatch: the process is looked for *)
(* in cola_ready.                                                          *)
MatarRespondido(k) ==
  LET estado == lista_procesos[FilaPid(hilo[k].pid)].estado IN
    /\ En(k, "matar_programa")
    /\ cuenta.matar > 0
    /\ cuenta' = [cuenta EXCEPT !.matar = @ - 1]
    /\ \/ estado = "EXEC" /\ MatarEnUmc(k)
       \/ /\ estado = "READY"
          /\ IrCon(k, "matar_cola", hilo[k].pid, "ready")
          /\ UNCHANGED <<mutex, aUmc>>
    /\ UNCHANGED <<cola, lista_procesos, quieto, deConsola, aConsola, deCpu, aCpu>>

(* The process is taken out of the queue of its state (perhaps it is no    *)
(* longer there: NULL) and put in cola_exit.  actualizar_estado_pcb then   *)
(* waits for mutex_lista_procesos, which this very thread holds: there is  *)
(* no step out of "matar_trabado".                                         *)
MatarSacar(k) ==
  LET nombre == hilo[k].dato IN
    /\ En(k, "matar_cola")
    /\ Libre(nombre)
    /\ cola' = [cola EXCEPT ![nombre] = RemoveFirst(@, hilo[k].pid)]
    /\ IrCon(k, "matar_exit", Sacado(cola[nombre], hilo[k].pid), NULO)
    /\ UNCHANGED <<lista_procesos, cuenta, mutex, quieto, canales>>
MatarAExit(k) ==
  /\ En(k, "matar_exit")
  /\ Libre("exit")
  /\ cola' = [cola EXCEPT !.exit = Append(@, hilo[k].pid)]
  /\ Ir(k, "matar_trabado")
  /\ UNCHANGED <<lista_procesos, cuenta, mutex, quieto, canales>>

(* AtenderInicializado does not write the state under this mutex: a state  *)
(* that was NEW when compared with READY may be READY when compared with   *)
(* NEW, and then no queue is searched.                                     *)
MatarSinCola(k) ==
  /\ En(k, "matar_cola")
  /\ hilo[k].dato = "new"
  /\ lista_procesos[FilaPid(hilo[k].pid)].estado = "READY"
  /\ MatarEnUmc(k)
  /\ UNCHANGED <<cola, lista_procesos, cuenta, quieto, deConsola, aConsola, deCpu, aCpu>>

(* eliminar_proceso_de_lista_procesos_con_pid.                             *)
EliminarDeLista(p) ==
  lista_procesos' = RemoveFirstMatch(lista_procesos, LAMBDA f : f.pid = p)

(* atender_consola, RESPUESTA_PROGRAMA_FINALIZADO_CONSOLA.                 *)
AtenderFinConsola(k) ==
  /\ LlegaDeConsola(k, "PROGRAMA_FINALIZADO")
  /\ Libre("lista")
  /\ FilaConsola(k) # 0
  /\ EliminarDeLista(lista_procesos[FilaConsola(k)].pid)
  /\ UNCHANGED <<cola, cuenta, mutex, hilo, quieto, aConsola, deCpu, aCpu, aUmc>>

PasoConsola(k) ==
  \/ AtenderIniciar(k) \/ AgregarALista(k) \/ AtenderFinConsola(k)
  \/ MatarTerminado(k) \/ MatarEnCpu(k) \/ MatarEnCola(k)
  \/ MatarRespondido(k) \/ MatarSacar(k) \/ MatarAExit(k) \/ MatarSinCola(k)

-----------------------------------------------------------------------------
(* atender_umc.  The UMC answers a request when the thread is free to      *)
(* attend to the answer.                                                   *)
LlegaDeUmc(id, p) ==
  /\ En(HiloUmc, "libre")
  /\ [id |-> id, pid |-> p] \in aUmc
  /\ aUmc' = aUmc \ {[id |-> id, pid |-> p]}
Rechazado(p) == pcb[p].consola \in escenario.rechaza

(* RESPUESTA_INICIALIZAR_PROGRAMA: from cola_new to cola_ready, and only   *)
(* then, under another mutex, the state and cant_ready.                    *)
AtenderInicializado(p) ==
  /\ LlegaDeUmc("INICIALIZAR", p)
  /\ ~Rechazado(p)
  /\ Contains(cola.new, p)
  /\ cola' = [cola EXCEPT !.new = RemoveFirst(@, p)]
  /\ IrCon(HiloUmc, "inicializado_ready", p, NULO)
  /\ UNCHANGED <<lista_procesos, cuenta, mutex, quieto, deConsola, aConsola, deCpu, aCpu>>
InicializadoAReady ==
  /\ En(HiloUmc, "inicializado_ready")
  /\ Libre("ready")
  /\ cola' = [cola EXCEPT !.ready = Append(@, hilo[HiloUmc].pid)]
  /\ Ir(HiloUmc, "inicializado_estado")
  /\ UNCHANGED <<lista_procesos, cuenta, mutex, quieto, canales>>
InicializadoEstado ==
  LET i == FilaPid(hilo[HiloUmc].pid) IN
    /\ En(HiloUmc, "inicializado_estado")
    /\ lista_procesos' = IF i # 0 /\ lista_procesos[i].original
                           THEN [lista_procesos EXCEPT ![i].estado = "READY"]
                           ELSE lista_procesos
    /\ cuenta' = [cuenta EXCEPT !.ready = @ + 1]
    /\ Terminar(HiloUmc)
    /\ UNCHANGED <<cola, mutex, quieto, canales>>

(* ERROR_INICIALIZAR_PROGRAMA: the row is removed, and then the console is *)
(* told, which answers PROGRAMA_FINALIZADO.                                *)
AtenderErrorInicializar(p) ==
  /\ LlegaDeUmc("INICIALIZAR", p)
  /\ Rechazado(p)
  /\ FilaPid(p) # 0
  /\ cola' = [cola EXCEPT !.new = RemoveFirst(@, p)]
  /\ IrCon(HiloUmc, "error_lista", p, NULO)
  /\ UNCHANGED <<lista_procesos, cuenta, mutex, quieto, deConsola, aConsola, deCpu, aCpu>>
ErrorInicializarLista ==
  LET p == hilo[HiloUmc].pid IN
    /\ En(HiloUmc, "error_lista")
    /\ Libre("lista")
    /\ EliminarDeLista(p)
    /\ aConsola' = [aConsola EXCEPT ![pcb[p].consola] = Append(@, "ERROR_AL_INICIAR")]
    /\ Terminar(HiloUmc)
    /\ UNCHANGED <<cola, cuenta, mutex, quieto, deConsola, deCpu, aCpu, aUmc>>

(* RESPUESTA_FINALIZAR_PROGRAMA: the console is told; its row stays until  *)
(* it answers.                                                             *)
AtenderFinalizado(p) ==
  /\ LlegaDeUmc("FINALIZAR", p)
  /\ Libre("exit")
  /\ Contains(cola.exit, p) /\ ~NuloAntes(cola.exit, p)
  /\ cola' = [cola EXCEPT !.exit = RemoveFirst(@, p)]
  /\ IrCon(HiloUmc, "finalizado_lista", p, NULO)
  /\ UNCHANGED <<lista_procesos, cuenta, mutex, quieto, deConsola, aConsola, deCpu, aCpu>>
FinalizadoAvisar ==
  LET i == FilaPid(hilo[HiloUmc].pid) IN
    /\ En(HiloUmc, "finalizado_lista")
    /\ Libre("lista")
    /\ i # 0
    /\ aConsola' = [aConsola EXCEPT ![lista_procesos[i].consola] = Append(@, "FINALIZO_OK")]
    /\ Terminar(HiloUmc)
    /\ UNCHANGED <<cola, lista_procesos, cuenta, mutex, quieto, deConsola, deCpu, aCpu, aUmc>>

(* RESPUESTA_MATAR_PROGRAMA.                                               *)
AtenderMatado(p) ==
  /\ LlegaDeUmc("MATAR", p)
  /\ Libre("exit") /\ ~NuloAntes(cola.exit, p)
  /\ cola' = [cola EXCEPT !.exit = RemoveFirst(@, p)]
  /\ IrCon(HiloUmc, "matado_lista", p, NULO)
  /\ UNCHANGED <<lista_procesos, cuenta, mutex, quieto, deConsola, aConsola, deCpu, aCpu>>
MatadoLista ==
  /\ En(HiloUmc, "matado_lista")
  /\ Libre("lista")
  /\ EliminarDeLista(hilo[HiloUmc].pid)
  /\ Terminar(HiloUmc)
  /\ UNCHANGED <<cola, cuenta, mutex, quieto, canales>>

PasoUmc ==
  \/ \E p \in Pids : \/ AtenderInicializado(p) \/ AtenderErrorInicializar(p)
                     \/ AtenderFinalizado(p) \/ AtenderMatado(p)
  \/ InicializadoAReady \/ InicializadoEstado \/ ErrorInicializarLista
  \/ FinalizadoAvisar \/ MatadoLista

-----------------------------------------------------------------------------
(* atender_cpu, MENSAJE_HANDSHAKE.                                         *)
AtenderHandshake(c) ==
  /\ LlegaDeCpu(c, "HANDSHAKE")
  /\ cola' = ColaConCpu(cola, c)
  /\ cuenta' = CuentaConCpu(cuenta)
  /\ UNCHANGED <<lista_procesos, mutex, hilo, quieto, sinMensajes>>

(* atiendo_imprimir, atiendo_imprimir_texto: the console is the one of the *)
(* first row with this CPU (NULL, that is fd 0, when there is none).       *)
AtenderImprimir(c) ==
  LET i == FilaCpu(c) IN
    /\ LlegaDeCpu(c, "IMPRIMIR")
    /\ Libre("lista")
    /\ impreso' = impreso \cup
         {<<PidDe(c), IF i = 0 THEN NULO ELSE lista_procesos[i].consola>>}
    /\ UNCHANGED <<cola, lista_procesos, cuenta, mutex, hilo, pid_count, caido,
                   solicitudes_es, pcb, semaforosVars, sinMensajes>>

(* Mutant of SacarDeExec: the pid is found and not taken out.              *)
SacarDeExecSinQuitar(c, id, siguiente) ==
  /\ LlegaDeCpu(c, id)
  /\ Libre("exec")
  /\ Contains(cola.exec, PidDe(c))
  /\ IrCon(c, siguiente, PidDe(c), NULO)
  /\ UNCHANGED <<cola, lista_procesos, cuenta, mutex, quieto, sinMensajes>>

(* queue_pop_pid(cola_exec, pid), the first thing every handler of a PCB   *)
(* does.  siguiente is where the handler continues.                        *)
SacarDeExec(c, id, siguiente) ==
  /\ LlegaDeCpu(c, id)
  /\ Libre("exec")
  /\ Contains(cola.exec, PidDe(c))
  /\ cola' = [cola EXCEPT !.exec = RemoveFirst(@, PidDe(c))]
  /\ IrCon(c, siguiente, PidDe(c), NULO)
  /\ UNCHANGED <<lista_procesos, cuenta, mutex, quieto, sinMensajes>>

(* atiendo_quantum.                                                        *)
QuantumLista(c) ==
  /\ En(c, "quantum_lista")
  /\ Libre("lista")
  /\ FilaCpu(c) # 0
  /\ PonerEnReady(hilo[c].pid, c)
  /\ Ir(c, "quantum_ready")
  /\ UNCHANGED <<cola, cuenta, mutex, quieto, canales>>
(* Mutant of QuantumReady: the process goes to the front of the queue.     *)
QuantumReadyAlFrente(c) ==
  /\ En(c, "quantum_ready")
  /\ Libre("ready")
  /\ cola' = [cola EXCEPT !.ready = <<hilo[c].pid>> \o @]
  /\ Ir(c, "quantum_cpu")
  /\ UNCHANGED <<lista_procesos, cuenta, mutex, quieto, canales>>
QuantumReady(c) ==
  /\ En(c, "quantum_ready")
  /\ Libre("ready")
  /\ cola' = [cola EXCEPT !.ready = Append(@, hilo[c].pid)]
  /\ Ir(c, "quantum_cpu")
  /\ UNCHANGED <<lista_procesos, cuenta, mutex, quieto, canales>>
(* Mutant of QuantumCpu: cant_ready is not posted.                         *)
QuantumCpuSinAvisar(c) ==
  /\ En(c, "quantum_cpu")
  /\ cola' = ColaConCpu(cola, c)
  /\ cuenta' = CuentaConCpu(cuenta)
  /\ Terminar(c)
  /\ UNCHANGED <<lista_procesos, mutex, quieto, canales>>
QuantumCpu(c) ==
  /\ En(c, "quantum_cpu")
  /\ cola' = ColaConCpu(cola, c)
  /\ cuenta' = [CuentaConCpu(cuenta) EXCEPT !.ready = @ + 1]
  /\ Terminar(c)
  /\ UNCHANGED <<lista_procesos, mutex, quieto, canales>>

(* atiendo_programa_finalizado, also for MENSAJE_EXCEPCION_UMC: it keeps   *)
(* mutex_cola_exit until the table is updated and the CPU is free.         *)
FinalizadoExit(c) ==
  /\ En(c, "fin_exit")
  /\ Libre("exit")
  /\ mutex' = mutex \cup {"exit"}
  /\ cola' = [cola EXCEPT !.exit = Append(@, hilo[c].pid)]
  /\ Ir(c, "fin_lista")
  /\ UNCHANGED <<lista_procesos, cuenta, quieto, canales>>
FinalizadoLista(c) ==
  /\ En(c, "fin_lista")
  /\ Libre("lista")
  /\ FilaPid(hilo[c].pid) # 0
  /\ ActualizarSinCpu(hilo[c].pid, "EXIT")
  /\ Ir(c, "fin_cpu")
  /\ UNCHANGED <<cola, cuenta, mutex, quieto, canales>>
FinalizadoCpu(c) ==
  /\ En(c, "fin_cpu")
  /\ cola' = ColaConCpu(cola, c)
  /\ cuenta' = CuentaConCpu(cuenta)
  /\ mutex' = mutex \ {"exit"}
  /\ Pedir("FINALIZAR", hilo[c].pid)
  /\ Terminar(c)
  /\ UNCHANGED <<lista_procesos, quieto, deConsola, aConsola, deCpu, aCpu>>

(* atiendo_entrada_salida_pcb: the row keeps its CPU.                      *)
EsPcbBlock(c) ==
  /\ En(c, "es_block")
  /\ Libre("block")
  /\ mutex' = mutex \cup {"block"}
  /\ cola' = ColaConCpu([cola EXCEPT !.block = Append(@, hilo[c].pid)], c)
  /\ cuenta' = CuentaConCpu(cuenta)
  /\ Ir(c, "es_lista")
  /\ UNCHANGED <<lista_procesos, quieto, canales>>
EsPcbLista(c) ==
  /\ En(c, "es_lista")
  /\ Libre("lista")
  /\ FilaPid(hilo[c].pid) # 0
  /\ Actualizar(hilo[c].pid, "BLOCK")
  /\ mutex' = mutex \ {"block"}
  /\ cuenta' = [cuenta EXCEPT !.block = @ + 1]
  /\ Terminar(c)
  /\ UNCHANGED <<cola, quieto, canales>>

(* atiendo_entrada_salida and bloquear_pcb_dispositivo.                    *)
AtenderEs(c) ==
  /\ LlegaDeCpu(c, "ENTRADA_SALIDA")
  /\ cuenta.block > 0
  /\ cuenta' = [cuenta EXCEPT !.block = @ - 1]
  /\ solicitudes_es' = [solicitudes_es EXCEPT ![ArgDe(c)] = Append(@, PidDe(c))]
  /\ UNCHANGED <<cola, lista_procesos, mutex, hilo, pid_count, impreso, caido, pcb,
                 semaforosVars, sinMensajes>>

(* atiendo_wait and atiendo_signal.                                        *)
AtenderWait(c) ==
  LET responder(id) == aCpu' = [aCpu EXCEPT ![c] = Append(@, [id |-> id, pid |-> NULO])] IN
    /\ LlegaDeCpu(c, "WAIT")
    /\ \/ Sem!WaitConcedido(PidDe(c), ArgDe(c)) /\ responder("SEGUI_RAFAGA")
       \/ Sem!WaitBloquea(PidDe(c), ArgDe(c)) /\ responder("WAIT")
    /\ UNCHANGED <<cola, lista_procesos, cuenta, mutex, hilo, pid_count, impreso,
                   caido, solicitudes_es, pcb, deConsola, aConsola, aUmc>>
AtenderSignal(c) ==
  /\ LlegaDeCpu(c, "SIGNAL")
  /\ Sem!Signal(ArgDe(c))
  /\ UNCHANGED <<cola, lista_procesos, cuenta, mutex, hilo, pid_count, impreso,
                 caido, solicitudes_es, pcb, sinMensajes>>

(* Mutant of WaitPcbBlock: the PCB is not put in cola_block.               *)
WaitPcbSinBlock(c) ==
  /\ En(c, "wait_block")
  /\ Libre("block")
  /\ Ir(c, "wait_lista")
  /\ UNCHANGED <<cola, lista_procesos, cuenta, mutex, quieto, canales>>

(* atiendo_wait_pcb.                                                       *)
WaitPcbBlock(c) ==
  /\ En(c, "wait_block")
  /\ Libre("block")
  /\ cola' = [cola EXCEPT !.block = Append(@, hilo[c].pid)]
  /\ Ir(c, "wait_lista")
  /\ UNCHANGED <<lista_procesos, cuenta, mutex, quieto, canales>>
WaitPcbLista(c) ==
  /\ En(c, "wait_lista")
  /\ Libre("lista")
  /\ FilaPid(hilo[c].pid) # 0
  /\ ActualizarSinCpu(hilo[c].pid, "BLOCK")
  /\ Ir(c, "wait_cpu")
  /\ UNCHANGED <<cola, cuenta, mutex, quieto, canales>>
WaitPcbCpu(c) ==
  /\ En(c, "wait_cpu")
  /\ cola' = ColaConCpu(cola, c)
  /\ cuenta' = CuentaConCpu(cuenta)
  /\ Ir(c, "wait_solicitud")
  /\ UNCHANGED <<lista_procesos, mutex, quieto, canales>>
WaitPcbSolicitud(c) ==
  /\ En(c, "wait_solicitud")
  /\ Sem!WaitPcb(hilo[c].pid)
  /\ Terminar(c)
  /\ UNCHANGED <<cola, lista_procesos, cuenta, mutex, pid_count, impreso, caido,
                 solicitudes_es, pcb, canales>>

(* respuesta_matar: the CPU is free again and the console thread that      *)
(* waits is told; the row of the process is left to it.                    *)
MatadoSacar(c) ==
  /\ LlegaDeCpu(c, "RESPUESTA_MATAR")
  /\ Libre("exec")
  /\ cola' = ColaConCpu([cola EXCEPT !.exec = RemoveFirst(@, PidDe(c))], c)
  /\ cuenta' = CuentaConCpu(cuenta)
  /\ IrCon(c, "matado_exit", Sacado(cola.exec, PidDe(c)), NULO)
  /\ UNCHANGED <<lista_procesos, mutex, quieto, sinMensajes>>
MatadoExit(c) ==
  /\ En(c, "matado_exit")
  /\ Libre("exit")
  /\ cola' = [cola EXCEPT !.exit = Append(@, hilo[c].pid)]
  /\ cuenta' = [cuenta EXCEPT !.matar = @ + 1]
  /\ Terminar(c)
  /\ UNCHANGED <<lista_procesos, mutex, quieto, canales>>

(* MENSAJE_DESCONEXION_CPU: the CPU leaves cola_cpus; cant_cpu, which      *)
(* counted it, is not waited for.                                          *)
AtenderDesconexion(c) ==
  /\ LlegaDeCpu(c, "DESCONEXION")
  /\ cola' = [cola EXCEPT !.cpus = RemoveFirst(@, c)]
  /\ UNCHANGED <<lista_procesos, cuenta, mutex, hilo, quieto, sinMensajes>>

(* atiendo_desconexion_cpu: the PCB goes to cola_ready before its row says *)
(* READY, and the CPU is not added to cola_cpus.                           *)
DesconexionSacar(c) ==
  /\ LlegaDeCpu(c, "MATAR_CPU")
  /\ Libre("exec")
  /\ cola' = [cola EXCEPT !.exec = RemoveFirst(@, PidDe(c))]
  /\ IrCon(c, "desconexion_ready", PidDe(c), NULO)
  /\ UNCHANGED <<lista_procesos, cuenta, mutex, quieto, sinMensajes>>
DesconexionReady(c) ==
  /\ En(c, "desconexion_ready")
  /\ Libre("ready")
  /\ cola' = [cola EXCEPT !.ready = Append(@, hilo[c].pid)]
  /\ Ir(c, "desconexion_lista")
  /\ UNCHANGED <<lista_procesos, cuenta, mutex, quieto, canales>>
DesconexionLista(c) ==
  /\ En(c, "desconexion_lista")
  /\ Libre("lista")
  /\ FilaCpu(c) # 0
  /\ PonerEnReady(hilo[c].pid, c)
  /\ Ir(c, "desconexion_cpu")
  /\ UNCHANGED <<cola, cuenta, mutex, quieto, canales>>
DesconexionCpu(c) ==
  /\ En(c, "desconexion_cpu")
  /\ cola' = [cola EXCEPT !.cpus = RemoveFirst(@, c)]
  /\ cuenta' = [cuenta EXCEPT !.ready = @ + 1]
  /\ Terminar(c)
  /\ UNCHANGED <<lista_procesos, mutex, quieto, canales>>

(* atender_sigint: the process goes to cola_exit with mutex_lista_procesos *)
(* taken; the thread then waits again for mutex_cola_exit, which it holds: *)
(* there is no step out of "sigint_trabado".                               *)
SigintSinProceso(c) ==
  /\ LlegaDeCpu(c, "SIGINT")
  /\ Libre("lista")
  /\ FilaCpu(c) = 0
  /\ UNCHANGED <<cola, lista_procesos, cuenta, mutex, hilo, quieto, sinMensajes>>
SigintLista(c) ==
  /\ LlegaDeCpu(c, "SIGINT")
  /\ Libre("lista")
  /\ FilaCpu(c) # 0
  /\ mutex' = mutex \cup {"lista"}
  /\ IrCon(c, "sigint_exec", lista_procesos[FilaCpu(c)].pid, NULO)
  /\ UNCHANGED <<cola, lista_procesos, cuenta, quieto, sinMensajes>>
SigintExec(c) ==
  /\ En(c, "sigint_exec")
  /\ Libre("exec")
  /\ Contains(cola.exec, hilo[c].pid)
  /\ cola' = [cola EXCEPT !.exec = RemoveFirst(@, hilo[c].pid)]
  /\ Ir(c, "sigint_exit")
  /\ UNCHANGED <<lista_procesos, cuenta, mutex, quieto, canales>>
SigintExit(c) ==
  /\ En(c, "sigint_exit")
  /\ Libre("exit")
  /\ mutex' = mutex \cup {"exit"}
  /\ cola' = [cola EXCEPT !.exit = Append(@, hilo[c].pid)]
  /\ lista_procesos' = [lista_procesos EXCEPT ![FilaCpu(c)] =
       [@ EXCEPT !.estado = "EXIT", !.cpu = NULO]]
  /\ Ir(c, "sigint_trabado")
  /\ UNCHANGED <<cuenta, quieto, canales>>

PasoCpuNucleo(c) ==
  \/ AtenderHandshake(c) \/ AtenderImprimir(c) \/ AtenderEs(c)
  \/ AtenderWait(c) \/ AtenderSignal(c) \/ AtenderDesconexion(c)
  \/ SacarDeExec(c, "QUANTUM", "quantum_lista")
  \/ SacarDeExec(c, "PROGRAMA_FINALIZADO", "fin_exit")
  \/ SacarDeExec(c, "EXCEPCION_UMC", "fin_exit")
  \/ SacarDeExec(c, "ENTRADA_SALIDA_PCB", "es_block")
  \/ SacarDeExec(c, "WAIT_PCB", "wait_block")
  \/ QuantumLista(c) \/ QuantumReady(c) \/ QuantumCpu(c)
  \/ FinalizadoExit(c) \/ FinalizadoLista(c) \/ FinalizadoCpu(c)
  \/ EsPcbBlock(c) \/ EsPcbLista(c)
  \/ WaitPcbBlock(c) \/ WaitPcbLista(c) \/ WaitPcbCpu(c) \/ WaitPcbSolicitud(c)
  \/ MatadoSacar(c) \/ MatadoExit(c)
  \/ DesconexionSacar(c) \/ DesconexionReady(c) \/ DesconexionLista(c) \/ DesconexionCpu(c)
  \/ SigintSinProceso(c) \/ SigintLista(c) \/ SigintExec(c) \/ SigintExit(c)

-----------------------------------------------------------------------------
(* Mutants of TomarCpu: cant_cpu is not waited for; the CPU stays in       *)
(* cola_cpus.                                                              *)
TomarCpuSinEsperarla ==
  /\ En(HiloExec, "libre")
  /\ cuenta.ready > 0
  /\ cola.cpus # <<>>
  /\ cuenta' = [cuenta EXCEPT !.ready = @ - 1]
  /\ cola' = [cola EXCEPT !.cpus = Tail(@)]
  /\ IrCon(HiloExec, "sacar_ready", NULO, Head(cola.cpus))
  /\ UNCHANGED <<lista_procesos, mutex, quieto, canales>>
TomarCpuSinSacarla ==
  /\ En(HiloExec, "libre")
  /\ cuenta.ready > 0 /\ cuenta.cpu > 0
  /\ cola.cpus # <<>>
  /\ cuenta' = [cuenta EXCEPT !.ready = @ - 1, !.cpu = @ - 1]
  /\ IrCon(HiloExec, "sacar_ready", NULO, Head(cola.cpus))
  /\ UNCHANGED <<cola, lista_procesos, mutex, quieto, canales>>

(* asignar_pcb_a_cola_exec: a process and a CPU are counted before the     *)
(* queues are looked at.                                                   *)
TomarCpu ==
  /\ En(HiloExec, "libre")
  /\ cuenta.ready > 0 /\ cuenta.cpu > 0
  /\ cola.cpus # <<>>
  /\ cuenta' = [cuenta EXCEPT !.ready = @ - 1, !.cpu = @ - 1]
  /\ cola' = [cola EXCEPT !.cpus = Tail(@)]
  /\ IrCon(HiloExec, "sacar_ready", NULO, Head(cola.cpus))
  /\ UNCHANGED <<lista_procesos, mutex, quieto, canales>>

(* asignar_pcb_a_cpu: the process is in no queue between the two mutexes.  *)
SacarReady ==
  /\ En(HiloExec, "sacar_ready")
  /\ Libre("ready")
  /\ cola' = [cola EXCEPT !.ready = IF @ = <<>> THEN @ ELSE Tail(@)]
  /\ IrCon(HiloExec, "tomar_exec", IF cola.ready = <<>> THEN NULO ELSE Head(cola.ready),
           hilo[HiloExec].dato)
  /\ UNCHANGED <<lista_procesos, cuenta, mutex, quieto, canales>>
TomarExec ==
  /\ En(HiloExec, "tomar_exec")
  /\ Libre("exec")
  /\ mutex' = mutex \cup {"exec"}
  /\ Ir(HiloExec, "poner_exec")
  /\ UNCHANGED <<cola, lista_procesos, cuenta, quieto, canales>>

(* actualizar_pcb_y_ponerlo_en_exec_con_socket_cpu, with mutex_cola_exec.  *)
PonerEnExec ==
  LET h == hilo[HiloExec] IN
    /\ En(HiloExec, "poner_exec")
    /\ Libre("lista")
    /\ FilaPid(h.pid) # 0
    /\ lista_procesos' = [lista_procesos EXCEPT ![FilaPid(h.pid)] =
         [@ EXCEPT !.cpu = h.dato, !.estado = "EXEC"]]
    /\ cola' = [cola EXCEPT !.exec = Append(@, h.pid)]
    /\ mutex' = mutex \ {"exec"}
    /\ Ir(HiloExec, "enviar_pcb")
    /\ UNCHANGED <<cuenta, quieto, canales>>
EnviarPcb ==
  LET h == hilo[HiloExec] IN
    /\ En(HiloExec, "enviar_pcb")
    /\ aCpu' = [aCpu EXCEPT ![h.dato] = Append(@, [id |-> "PCB", pid |-> h.pid])]
    /\ Terminar(HiloExec)
    /\ UNCHANGED <<cola, lista_procesos, cuenta, mutex, quieto, deConsola, aConsola,
                   deCpu, aUmc>>

PasoExec == TomarCpu \/ SacarReady \/ TomarExec \/ PonerEnExec \/ EnviarPcb

(* atender_solicitudes_entrada_salida, the thread of device d.             *)
SacarSolicitud(d) ==
  /\ En(d, "libre")
  /\ solicitudes_es[d] # <<>>
  /\ solicitudes_es' = [solicitudes_es EXCEPT ![d] = Tail(@)]
  /\ IrCon(d, "es_termina", Head(solicitudes_es[d]), NULO)
  /\ UNCHANGED <<cola, lista_procesos, cuenta, mutex, pid_count, impreso, caido, pcb,
                 semaforosVars, canales>>
EsTermina(d) ==
  /\ En(d, "es_termina")
  /\ Libre("block")
  /\ cola' = [cola EXCEPT !.block = RemoveFirst(@, hilo[d].pid)]
  /\ IrCon(d, "es_ready", Sacado(cola.block, hilo[d].pid), NULO)
  /\ UNCHANGED <<lista_procesos, cuenta, mutex, quieto, canales>>
EsReady(d) ==
  /\ En(d, "es_ready")
  /\ Libre("ready")
  /\ mutex' = mutex \cup {"ready"}
  /\ cola' = [cola EXCEPT !.ready = Append(@, hilo[d].pid)]
  /\ Ir(d, "es_estado")
  /\ UNCHANGED <<lista_procesos, cuenta, quieto, canales>>
EsEstado(d) ==
  /\ En(d, "es_estado")
  /\ Libre("lista")
  /\ FilaPid(hilo[d].pid) # 0
  /\ Actualizar(hilo[d].pid, "READY")
  /\ mutex' = mutex \ {"ready"}
  /\ cuenta' = [cuenta EXCEPT !.ready = @ + 1]
  /\ Terminar(d)
  /\ UNCHANGED <<cola, quieto, canales>>

PasoDispositivo(d) == SacarSolicitud(d) \/ EsTermina(d) \/ EsReady(d) \/ EsEstado(d)

(* desbloquear_pcb_semaforo, the thread of semaphore s.                    *)
SinSemaforos == <<pid_count, impreso, caido, solicitudes_es, pcb, canales>>
SemSacarSolicitud(s) ==
  /\ En(s, "libre")
  /\ Sem!DesbloquearPcb(s)
  /\ IrCon(s, "sem_block", Head(solicitudes[s]), NULO)
  /\ UNCHANGED <<cola, lista_procesos, cuenta, mutex, SinSemaforos>>
SemNadieEspera(s) ==
  /\ En(s, "libre")
  /\ Sem!AumentarSemaforo(s)
  /\ UNCHANGED <<cola, lista_procesos, cuenta, mutex, hilo, SinSemaforos>>
SemBlock(s) ==
  /\ En(s, "sem_block")
  /\ Libre("block")
  /\ cola' = [cola EXCEPT !.block = RemoveFirst(@, hilo[s].pid)]
  /\ IrCon(s, "sem_estado", Sacado(cola.block, hilo[s].pid), NULO)
  /\ UNCHANGED <<lista_procesos, cuenta, mutex, quieto, canales>>
SemEstado(s) ==
  /\ En(s, "sem_estado")
  /\ Libre("lista")
  /\ FilaPid(hilo[s].pid) # 0
  /\ Actualizar(hilo[s].pid, "READY")
  /\ Ir(s, "sem_ready")
  /\ UNCHANGED <<cola, cuenta, mutex, quieto, canales>>
(* Mutant of SemReady: the mutex of the requests is not posted.            *)
SemReadySinSoltar(s) ==
  /\ En(s, "sem_ready")
  /\ Libre("ready")
  /\ cola' = [cola EXCEPT !.ready = Append(@, hilo[s].pid)]
  /\ cuenta' = [cuenta EXCEPT !.ready = @ + 1]
  /\ desbloqueando' = [desbloqueando EXCEPT ![s] = NULO]
  /\ concedidos' = [concedidos EXCEPT ![s] = @ + 1]
  /\ Terminar(s)
  /\ UNCHANGED <<lista_procesos, mutex, SinSemaforos, valor, solicitudes,
                 sem_semaforos, mutex_solicitudes_semaforo, auxiliares, signals>>
SemReady(s) ==
  /\ En(s, "sem_ready")
  /\ Libre("ready")
  /\ cola' = [cola EXCEPT !.ready = Append(@, hilo[s].pid)]
  /\ cuenta' = [cuenta EXCEPT !.ready = @ + 1]
  /\ Sem!FinDesbloqueo(s)
  /\ Terminar(s)
  /\ UNCHANGED <<lista_procesos, mutex, SinSemaforos>>

PasoSemaforo(s) ==
  SemSacarSolicitud(s) \/ SemNadieEspera(s) \/ SemBlock(s) \/ SemEstado(s) \/ SemReady(s)

-----------------------------------------------------------------------------
(* Where the code uses the NULL a search returned: the Nucleo, one         *)
(* process, dies with all its threads.  Each disjunct is the complement of *)
(* a guard above.                                                          *)
ConsolaSinFila(k) ==
  /\ En(k, "libre") /\ deConsola[k] # <<>>
  /\ Head(deConsola[k]) \in {"MATAR", "PROGRAMA_FINALIZADO"}
  /\ Libre("lista") /\ FilaConsola(k) = 0

UmcSinProceso ==
  \/ /\ En(HiloUmc, "libre")
     /\ \E m \in aUmc :
          \/ m.id = "INICIALIZAR" /\ ~Rechazado(m.pid) /\ ~Contains(cola.new, m.pid)
          \/ m.id = "INICIALIZAR" /\ Rechazado(m.pid) /\ FilaPid(m.pid) = 0
          \/ m.id = "FINALIZAR" /\ Libre("exit") /\ ~Contains(cola.exit, m.pid)
          \/ m.id \in {"FINALIZAR", "MATAR"} /\ Libre("exit") /\ NuloAntes(cola.exit, m.pid)
  \/ En(HiloUmc, "finalizado_lista") /\ Libre("lista") /\ FilaPid(hilo[HiloUmc].pid) = 0

CpuSinProceso(c) ==
  \/ /\ En(c, "libre") /\ deCpu[c] # <<>> /\ Libre("exec")
     /\ Head(deCpu[c]).id \in {"QUANTUM", "PROGRAMA_FINALIZADO", "EXCEPCION_UMC",
                               "ENTRADA_SALIDA_PCB", "WAIT_PCB"}
     /\ ~Contains(cola.exec, PidDe(c))
  \/ En(c, "sigint_exec") /\ Libre("exec") /\ ~Contains(cola.exec, hilo[c].pid)
  \/ /\ hilo[c].pc \in {"quantum_lista", "desconexion_lista"}
     /\ Libre("lista") /\ FilaCpu(c) = 0
  \/ /\ hilo[c].pc \in {"fin_lista", "es_lista", "wait_lista"}
     /\ Libre("lista") /\ FilaPid(hilo[c].pid) = 0
  \/ En(c, "wait_solicitud") /\ ~Sem!EnAuxiliares(hilo[c].pid)

ExecSinProceso ==
  \/ En(HiloExec, "libre") /\ cuenta.ready > 0 /\ cuenta.cpu > 0 /\ cola.cpus = <<>>
  \/ En(HiloExec, "poner_exec") /\ Libre("lista") /\ FilaPid(hilo[HiloExec].pid) = 0

DesbloqueoSinProceso(h) ==
  /\ hilo[h].pc \in {"es_estado", "sem_estado"}
  /\ Libre("lista") /\ FilaPid(hilo[h].pid) = 0

DerefNulo ==
  \/ \E k \in Consolas : ConsolaSinFila(k)
  \/ UmcSinProceso
  \/ \E c \in Cpus : CpuSinProceso(c)
  \/ ExecSinProceso
  \/ \E h \in Dispositivos \cup Sems : DesbloqueoSinProceso(h)

NucleoCae ==
  /\ DerefNulo
  /\ caido' = TRUE
  /\ UNCHANGED <<cola, lista_procesos, pid_count, cuenta, solicitudes_es, mutex, hilo,
                 impreso, pcb, semaforosVars, canales>>

NucleoNext ==
  \/ \E k \in Consolas : PasoConsola(k)
  \/ PasoUmc
  \/ \E c \in Cpus : PasoCpuNucleo(c)
  \/ PasoExec
  \/ \E d \in Dispositivos : PasoDispositivo(d)
  \/ \E s \in Sems : PasoSemaforo(s)
  \/ NucleoCae
=============================================================================
