------------------------------ MODULE Sistema ------------------------------
(***************************************************************************)
(* The Nucleo with its CPUs and its consoles.  The consoles                *)
(* (consola/src/consola.c) are small enough to be modelled here; the UMC   *)
(* is the set of requests it has not answered (aUmc).                      *)
(***************************************************************************)
EXTENDS Nucleo, Cpu

vars == <<escenario, consola, pcb, canales, nucleoVars, cpu>>

CanalesInit ==
  /\ escenario \in Escenarios
  /\ pcb = [p \in Pids |-> [consola |-> NULO, pc |-> 0]]
  /\ consola = [k \in Consolas |-> "apagada"]
  /\ deConsola = [k \in Consolas |-> <<>>]
  /\ aConsola = [k \in Consolas |-> <<>>]
  /\ deCpu = [c \in Cpus |-> <<>>]
  /\ aCpu = [c \in Cpus |-> <<>>]
  /\ aUmc = {}

Init == CanalesInit /\ NucleoInit /\ CpuInit

-----------------------------------------------------------------------------
(* consola.c: main and its two threads.                                    *)
Avisar(k, mensaje) == deConsola' = [deConsola EXCEPT ![k] = Append(@, mensaje)]
Pasar(k, estado) == consola' = [consola EXCEPT ![k] = estado]

(* enviar_codigo_al_nucleo.  After an early ^C main goes on to the end.    *)
Arrancar(k) ==
  /\ \/ consola[k] = "apagada" /\ Pasar(k, "viva")
     \/ consola[k] = "avisada" /\ Pasar(k, "cerrada")
  /\ Avisar(k, "INICIAR")
  /\ UNCHANGED <<aConsola, deCpu, aCpu, aUmc>>

(* atender_nucleo: MENSAJE_ERROR_AL_INICIAR and MENSAJE_PROGRAMA_FINALIZADO*)
(* are answered alike, and main is told to end.                            *)
AtenderNucleo(k) ==
  /\ consola[k] = "viva"
  /\ aConsola[k] # <<>>
  /\ aConsola' = [aConsola EXCEPT ![k] = Tail(@)]
  /\ Pasar(k, "terminando")
  /\ Avisar(k, "PROGRAMA_FINALIZADO")
  /\ UNCHANGED <<deCpu, aCpu, aUmc>>

(* avisar_nucleo_de_terminacion_programa, the handler of ^C, installed     *)
(* before the program is sent and not disabled while main ends.            *)
CtrlC(k) ==
  /\ k \in escenario.matables
  /\ \/ consola[k] = "apagada" /\ Pasar(k, "avisada")
     \/ consola[k] \in {"viva", "terminando"} /\ Pasar(k, "cerrada")
  /\ Avisar(k, "MATAR")
  /\ UNCHANGED <<aConsola, deCpu, aCpu, aUmc>>

CerrarConsola(k) ==
  /\ consola[k] = "terminando"
  /\ Pasar(k, "cerrada")
  /\ UNCHANGED canales

LaConsola(k) == Arrancar(k) \/ AtenderNucleo(k) \/ CtrlC(k) \/ CerrarConsola(k)

-----------------------------------------------------------------------------
(* One action per thread, for the fairness of the scheduling.              *)
DelNucleo(paso) == ~caido /\ paso /\ UNCHANGED <<escenario, consola, cpu>>
DelCpu(paso) == paso /\ UNCHANGED <<escenario, consola, nucleoVars>>
DeConsola(paso) == paso /\ UNCHANGED <<escenario, pcb, nucleoVars, cpu>>

Next ==
  \/ DelNucleo(NucleoNext)
  \/ \E c \in Cpus : DelCpu(PasoCpu(c))
  \/ \E k \in DOMAIN escenario.programa : DeConsola(LaConsola(k))

Spec == Init /\ [][Next]_vars

(* No thread of the Nucleo, of a live CPU or of a live console stops       *)
(* for ever while it can run, the UMC answers, and the CPUs are started.   *)
(* Nothing is assumed of the users: consoles, ^C and signals.              *)
Justicia ==
  /\ \A k \in Consolas : WF_vars(DelNucleo(PasoConsola(k)))
  /\ WF_vars(DelNucleo(PasoUmc))
  /\ \A c \in Cpus : WF_vars(DelNucleo(PasoCpuNucleo(c)))
  /\ WF_vars(DelNucleo(PasoExec))
  /\ \A d \in Dispositivos : WF_vars(DelNucleo(PasoDispositivo(d)))
  /\ \A s \in Sems : WF_vars(DelNucleo(PasoSemaforo(s)))
  /\ \A c \in Cpus : /\ WF_vars(DelCpu(LeerCpu(c)))
                     /\ WF_vars(DelCpu(EjecutarCpu(c)))
                     /\ WF_vars(DelCpu(IoCpu(c)))
                     /\ WF_vars(DelCpu(PrincipalCpu(c)))
  /\ \A k \in Consolas : WF_vars(DeConsola(AtenderNucleo(k) \/ CerrarConsola(k)))

SpecJusta == Spec /\ Justicia

-----------------------------------------------------------------------------
Estados == {"NEW", "READY", "EXEC", "BLOCK", "EXIT"}
Fila == [pid : Pids, estado : Estados, consola : Consolas,
         cpu : Cpus \cup {NULO}, original : BOOLEAN]
PidONulo == Pids \cup {NULO}

(* Type invariant of the Nucleo and of the CPUs.                           *)
TypeOK ==
  /\ \A q \in {"new", "ready", "exec", "block", "exit"} : cola[q] \in Seq(PidONulo)
  /\ cola.cpus \in Seq(Cpus)
  /\ lista_procesos \in Seq(Fila)
  /\ pid_count \in Nat
  /\ cuenta \in [{"ready", "cpu", "block", "matar"} -> Nat]
  /\ solicitudes_es \in [Dispositivos -> Seq(PidONulo)]
  /\ mutex \subseteq {"lista", "ready", "exec", "block", "exit"}
  /\ \A h \in Hilos : hilo[h].pid \in PidONulo
  /\ impreso \subseteq Pids \X (Consolas \cup {NULO})
  /\ \A c \in Cpus :
       /\ cpu[c].pid \in PidONulo
       /\ cpu[c].quantum \in 0..Quantum
       /\ cpu[c].banderas \subseteq Range(Prioridad)
       /\ {cpu[c].terminadas, cpu[c].envios, cpu[c].muertes, cpu[c].ioFin} \subseteq Nat

-----------------------------------------------------------------------------
(* Where the Nucleo has a process.  Between two queues it is in the hands  *)
(* of a thread.                                                            *)
Veces(q, x) == Cardinality({i \in 1..Len(q) : q[i] = x})
EnManos(p, donde) == {h \in Hilos : hilo[h].pid = p /\ hilo[h].pc \in donde}

ManosNew == {"inicializado_ready"}
ManosExec == {"tomar_exec", "poner_exec", "quantum_lista", "quantum_ready", "fin_exit",
              "es_block", "wait_block", "desconexion_ready"}
ManosBlock == {"es_ready", "sem_estado", "sem_ready"}
ManosExit == {"matar_exit", "matado_exit", "sigint_exit"}
Manos == ManosNew \cup ManosExec \cup ManosBlock \cup ManosExit

(* The process atender_sigint took out of cola_exec.  It is the one of the *)
(* first row with that CPU, and a row may be out of date: the process may  *)
(* be executing in another CPU, which will bring it back.                  *)
TrasSigint == {"sigint_exit", "sigint_trabado"}
Arrebatado(p) == \E c \in Cpus : hilo[c].pc \in TrasSigint /\ hilo[c].pid = p

(* No interleaving of the handlers, with any mix of ^C, SIGUSR1, SIGINT,   *)
(* failures and rejections, leaves a PCB in two queues, twice in one, or   *)
(* in a queue while a thread is still carrying it to another; except the   *)
(* one a SIGINT took, that SIGUSR1 in its true CPU would put in cola_ready.*)
UnSoloLugar ==
  \A p \in Pids : ~Arrebatado(p) =>
    Veces(cola.new, p) + Veces(cola.ready, p) + Veces(cola.exec, p)
      + Veces(cola.block, p) + Veces(cola.exit, p) + Cardinality(EnManos(p, Manos)) <= 1

(* The PCBs a CPU has or is about to have or has just sent back.           *)
IdsConPcb == Range(IdDe) \cup {"QUANTUM"}
Ida(c) == {i \in 1..Len(aCpu[c]) : aCpu[c][i].id = "PCB"}
Vuelta(c) == {i \in 1..Len(deCpu[c]) : deCpu[c][i].id \in IdsConPcb}
Tiene(c, p) ==
  \/ \E i \in Ida(c) : aCpu[c][i].pid = p
  \/ cpu[c].hilo # "no" /\ cpu[c].pid = p
  \/ \E i \in Vuelta(c) : deCpu[c][i].pid = p

(* A process executes in one CPU at most and a CPU has one process at      *)
(* most, counting the PCBs in the sockets: the only copy of its data that  *)
(* changes is there.  The Nucleo keeps that process in cola_exec until the *)
(* PCB is back (or a SIGINT takes it), and does not offer that CPU to      *)
(* another one.                                                            *)
EjecucionUnica ==
  /\ \A c \in Cpus : Cardinality(Ida(c)) + (IF cpu[c].hilo = "no" THEN 0 ELSE 1)
                     + Cardinality(Vuelta(c)) + Veces(cola.cpus, c) <= 1
  /\ \A c, d \in Cpus, p \in Pids : Tiene(c, p) /\ Tiene(d, p) => c = d
  /\ \A c \in Cpus, p \in Pids :
       Tiene(c, p) => Contains(cola.exec, p) \/ Arrebatado(p)

(* The semaphores are used by the whole system as module Semaforos says:   *)
(* nothing else touches them, a process that waits for one sends no other  *)
(* WAIT, and so what SemaforosPruebas proves holds here.                   *)
SemaforosRespetados == Sem!Spec

(* The five states of the diagram, from where the processes are.           *)
EstadoEnManos(p) ==
  LET pcs == {hilo[h].pc : h \in {g \in Hilos : hilo[g].pid = p}} IN
    CASE pcs \cap ManosNew # {} -> "NEW"
      [] pcs \cap ManosExec # {} -> "EXEC"
      [] pcs \cap ManosBlock # {} -> "BLOCK"
      [] pcs \cap ManosExit # {} -> "EXIT"
      [] OTHER -> "retirado"
EstadoDe(p) ==
  CASE p >= pid_count -> "nunca"
    [] Contains(cola.new, p) -> "NEW"
    [] Contains(cola.ready, p) -> "READY"
    [] Contains(cola.exec, p) -> "EXEC"
    [] Contains(cola.block, p) -> "BLOCK"
    [] Contains(cola.exit, p) -> "EXIT"
    [] OTHER -> EstadoEnManos(p)
Plan == INSTANCE Planificador WITH
  Procesos <- Pids, MaxCpus <- Cardinality(Cpus),
  estado <- [p \in Pids |-> EstadoDe(p)],
  listos <- SelectSeq(cola.ready, LAMBDA p : p # NULO)

(* Whatever the users do, the queues move processes only as the diagram    *)
(* of states allows, cola_ready is FIFO, and no more processes execute     *)
(* than there are CPUs.                                                    *)
ImplementaPlanificador == Plan!Spec

-----------------------------------------------------------------------------
(* Without ^C, signals, failures or rejected programs no handler looks for *)
(* a process, a row or a CPU that is not there.                            *)
NucleoVivo == ~caido

(* The units of cant_ready and cant_cpu stand for elements of cola_ready   *)
(* and cola_cpus: a unit of cant_ready never arrives before its process.   *)
(* A unit is left behind only by a process killed in cola_ready and by a   *)
(* CPU that leaves with SIGUSR1 while it is idle (matar_ejecucion,         *)
(* atender_cpu, asignar_pcb_a_cola_exec).                                  *)
Matadas == {k \in escenario.matables : consola[k] \in {"avisada", "cerrada"}}
Idas == {c \in Cpus : cpu[c].senial = "fin"}
ContadoresRespaldados ==
  /\ cuenta.ready + (IF En(HiloExec, "sacar_ready") THEN 1 ELSE 0)
       <= Len(cola.ready) + Cardinality(Matadas)
  /\ cuenta.cpu \in Len(cola.cpus)..(Len(cola.cpus) + Cardinality(Idas))

(* A program prints on the console that started it, though the Nucleo only *)
(* knows which CPU the text came from.  Only after some program did E/S,   *)
(* or a ^C killed one, can a text go to another console: the row keeps the *)
(* CPU its process left, and the next one to run there prints on its       *)
(* console (atiendo_entrada_salida_pcb, respuesta_matar,                   *)
(* buscar_socket_consola_por_socket_cpu).                                  *)
HizoEs(p) ==
  LET programa == escenario.programa[pcb[p].consola]
  IN \E i \in DOMAIN programa : i <= pcb[p].pc /\ programa[i].op = "es"
ImprimeEnSuConsola ==
  Matadas = {} /\ (\A p \in 1..(pid_count - 1) : ~HizoEs(p))
    => \A x \in impreso : x[2] = pcb[x[1]].consola

(* Every program that was started ends, and its console with it.           *)
TodoProgramaTermina ==
  \A k \in Consolas : consola[k] = "viva" ~> consola[k] = "cerrada"

-----------------------------------------------------------------------------
(* What comments of the code say and the code does not do.                 *)

(* primitivas_ansisop.c:307: the CPU waits on s_envio_pcb so as not to     *)
(* send MENSAJE_ENTRADA_SALIDA before the MENSAJE_ENTRADA_SALIDA_PCB of    *)
(* the same process.                                                       *)
EsDespuesDelPcb ==
  \A c \in Cpus : \A i, j \in 1..Len(deCpu[c]) :
    i < j => ~ /\ deCpu[c][i].id = "ENTRADA_SALIDA"
               /\ deCpu[c][j].id = "ENTRADA_SALIDA_PCB"
               /\ deCpu[c][i].pid = deCpu[c][j].pid

(* atiendo_cpu.c:432, "MAYOR a 0, sigue con rafaga": a process that waits  *)
(* for a semaphore with units left goes on with its quantum.               *)
EsperaConUnidades(c) ==
  /\ cpu[c].hilo = "espera"
  /\ valor[Actual(c).arg] > 0
SigueConRafaga == \A c \in Cpus : EsperaConUnidades(c) ~> cpu[c].hilo # "espera"

(* atiendo_cpu.c:490, "para obtener cual era el semaforo a hacer wait por  *)
(* el pcb": the request of a PCB that comes back to wait is parked.        *)
WaitPcbConSolicitud ==
  \A c \in Cpus : En(c, "wait_solicitud") => Sem!EnAuxiliares(hilo[c].pid)
=============================================================================
