----------------------------- MODULE Compartidas -----------------------------
(***************************************************************************)
(* The shared variables of ANSISOP: the Nucleo keeps them, the CPUs read   *)
(* and assign them with messages (primitivas_ansisop.c, cpu.c,             *)
(* atiendo_cpu.c, nucleo.c).  A read waits for its answer on               *)
(* s_variable_compartida; an assignment does not wait, and its answer is   *)
(* only logged.  A process goes from a CPU to another between two          *)
(* instructions.                                                           *)
(*                                                                         *)
(* Every process runs the program the shared variables are for: it         *)
(* increments one, several times, between a wait and a signal.  The        *)
(* semaphore is the one module Semaforos shows the Nucleo to implement;    *)
(* it says nothing of who is woken, nor that anyone is.                    *)
(***************************************************************************)
EXTENDS Naturals, SequencesExt, FiniteSetsExt

CONSTANTS Cpus, Procesos, NULO,
          Vueltas              (* bound, per process: how many times it    *)
                               (* increments the variable                  *)

ASSUME VueltasAssumption == Vueltas \in [Procesos -> Nat \ {0}]
ASSUME ProcesosAssumption == IsFiniteSet(Procesos) /\ NULO \notin Procesos

VARIABLES
  valor,        (* variables_compartidas: the one the processes share      *)
  semaforo,     (* the value of the semaphore                              *)
  bloqueados,   (* the processes in wait, whose PCB the Nucleo has         *)
  listos,       (* cola_ready                                              *)
  libres,       (* cola_cpus                                               *)
  proceso,      (* per process: paso, the next instruction; local, the     *)
                (* variable of its stack; vueltas, the sections it began   *)
  cpu,          (* per CPU: proceso; espera, what its thread waits for;    *)
                (* valor_pagina; compartida, the value of                  *)
                (* s_variable_compartida; corrio, an instruction since     *)
                (* the PCB came                                            *)
  deCpu, aCpu   (* per CPU, the messages on their way, in order            *)

nucleo == <<valor, semaforo, bloqueados, listos, libres>>
vars == <<nucleo, proceso, cpu, deCpu, aCpu>>

Pasos == {"wait", "obtener", "asignar", "signal"}

Mensaje(tipo, p, v) == [tipo |-> tipo, proceso |-> p, valor |-> v]

(* inicializar_variables_compartidas.                                      *)
Init ==
  /\ valor = 0
  /\ semaforo = 1
  /\ bloqueados = {}
  /\ listos \in SetToSeqs(Procesos)
  /\ libres = Cpus
  /\ proceso = [p \in Procesos |-> [paso |-> "wait", local |-> 0, vueltas |-> 0]]
  /\ cpu = [c \in Cpus |-> [proceso |-> NULO, espera |-> "no", valor_pagina |-> 0,
                            compartida |-> 0, corrio |-> FALSE]]
  /\ deCpu = [c \in Cpus |-> <<>>]
  /\ aCpu = [c \in Cpus |-> <<>>]

-----------------------------------------------------------------------------
(* The instruction thread of a CPU.                                        *)
Ejecuta(c, paso) ==
  /\ cpu[c].proceso # NULO
  /\ cpu[c].espera = "no"
  /\ proceso[cpu[c].proceso].paso = paso

Enviar(c, m) == deCpu' = [deCpu EXCEPT ![c] = Append(@, m)]

(* ansisop_obtener_valor_compartida, up to the sem_wait and from there on. *)
ObtenerValorCompartida(c) ==
  /\ Ejecuta(c, "obtener")
  /\ Enviar(c, Mensaje("OBTENER", cpu[c].proceso, 0))
  /\ cpu' = [cpu EXCEPT ![c].espera = "compartida"]
  /\ UNCHANGED <<nucleo, proceso, aCpu>>

Bajar(n) == n - 1

FinObtener(c) ==
  /\ cpu[c].espera = "compartida"
  /\ cpu[c].compartida > 0
  /\ proceso' = [proceso EXCEPT ![cpu[c].proceso].paso = "asignar",
                                ![cpu[c].proceso].local = cpu[c].valor_pagina]
  /\ cpu' = [cpu EXCEPT ![c].espera = "no", ![c].compartida = Bajar(@), ![c].corrio = TRUE]
  /\ UNCHANGED <<nucleo, deCpu, aCpu>>

(* ansisop_asignar_valor_compartida.                                       *)
AsignarValorCompartida(c) ==
  /\ Ejecuta(c, "asignar")
  /\ Enviar(c, Mensaje("ASIGNAR", cpu[c].proceso, proceso[cpu[c].proceso].local + 1))
  /\ proceso' = [proceso EXCEPT ![cpu[c].proceso].paso = "signal"]
  /\ cpu' = [cpu EXCEPT ![c].corrio = TRUE]
  /\ UNCHANGED <<nucleo, aCpu>>

(* ansisop_wait, and the RESPUESTA_WAIT or SEGUI_RAFAGA that ends it.      *)
Wait(c) ==
  /\ Ejecuta(c, "wait")
  /\ proceso[cpu[c].proceso].vueltas < Vueltas[cpu[c].proceso]
  /\ Enviar(c, Mensaje("WAIT", cpu[c].proceso, 0))
  /\ cpu' = [cpu EXCEPT ![c].espera = "wait", ![c].corrio = TRUE]
  /\ proceso' = [proceso EXCEPT ![cpu[c].proceso].paso = "obtener",
                                ![cpu[c].proceso].vueltas = @ + 1]
  /\ UNCHANGED <<nucleo, aCpu>>

(* ansisop_signal.                                                         *)
Signal(c) ==
  /\ Ejecuta(c, "signal")
  /\ Enviar(c, Mensaje("SIGNAL", cpu[c].proceso, 0))
  /\ proceso' = [proceso EXCEPT ![cpu[c].proceso].paso = "wait"]
  /\ cpu' = [cpu EXCEPT ![c].corrio = TRUE]
  /\ UNCHANGED <<nucleo, aCpu>>

(* enviar_PCB: at the end of the quantum, which lets at least one          *)
(* instruction run, and at the end of the program.                         *)
EnviarPcb(c, tipo) ==
  /\ Enviar(c, Mensaje(tipo, cpu[c].proceso, 0))
  /\ cpu' = [cpu EXCEPT ![c].proceso = NULO, ![c].espera = "no"]

FinQuantum(c) ==
  /\ cpu[c].proceso # NULO /\ cpu[c].espera = "no" /\ cpu[c].corrio
  /\ EnviarPcb(c, "QUANTUM")
  /\ UNCHANGED <<nucleo, proceso, aCpu>>

Finalizar(c) ==
  /\ Ejecuta(c, "wait")
  /\ proceso[cpu[c].proceso].vueltas = Vueltas[cpu[c].proceso]
  /\ EnviarPcb(c, "FINALIZADO")
  /\ UNCHANGED <<nucleo, proceso, aCpu>>

-----------------------------------------------------------------------------
(* atender_nucleo: the thread of the CPU that reads its socket.            *)
Llega(c, tipo) ==
  /\ aCpu[c] # <<>> /\ Head(aCpu[c]).tipo = tipo
  /\ aCpu' = [aCpu EXCEPT ![c] = Tail(@)]

(* recibo_PCB.                                                             *)
ReciboPcb(c) ==
  /\ Llega(c, "PCB")
  /\ cpu' = [cpu EXCEPT ![c].proceso = Head(aCpu[c]).proceso, ![c].corrio = FALSE]
  /\ UNCHANGED <<nucleo, proceso, deCpu>>

(* Mutants: of Subir, nobody is woken; of Recibido, the page is not copied *)
(* before the post.                                                        *)
NoSubir(n) == n
RecibidoAntes(c) == cpu[c].valor_pagina

Subir(n) == n + 1
Recibido(c) == Head(aCpu[c]).valor

RespuestaLeerCompartida(c) ==
  /\ Llega(c, "VALOR")
  /\ cpu' = [cpu EXCEPT ![c].valor_pagina = Recibido(c), ![c].compartida = Subir(@)]
  /\ UNCHANGED <<nucleo, proceso, deCpu>>

RespuestaSeguiRafaga(c) ==
  /\ Llega(c, "SEGUI_RAFAGA")
  /\ cpu' = [cpu EXCEPT ![c].espera = "no"]
  /\ UNCHANGED <<nucleo, proceso, deCpu>>

RespuestaWait(c) ==
  /\ Llega(c, "ESPERA")
  /\ EnviarPcb(c, "WAIT_PCB")
  /\ UNCHANGED <<nucleo, proceso>>

-----------------------------------------------------------------------------
(* atender_cpu: the thread of the Nucleo for each CPU takes the messages   *)
(* in the order they were sent.                                            *)
Atiende(c, tipo) ==
  /\ deCpu[c] # <<>> /\ Head(deCpu[c]).tipo = tipo
  /\ deCpu' = [deCpu EXCEPT ![c] = Tail(@)]
Responder(c, m) == aCpu' = [aCpu EXCEPT ![c] = Append(@, m)]
Emisor(c) == Head(deCpu[c]).proceso

(* The entry of the dictionary stays the same one all along: what is read  *)
(* after the mutex is released is the value of that moment.                *)
AtiendoObtenerCompartida(c) ==
  /\ Atiende(c, "OBTENER")
  /\ Responder(c, Mensaje("VALOR", Emisor(c), valor))
  /\ UNCHANGED <<nucleo, proceso, cpu>>

AtiendoAsignarCompartida(c) ==
  /\ Atiende(c, "ASIGNAR")
  /\ valor' = Head(deCpu[c]).valor
  /\ UNCHANGED <<semaforo, bloqueados, listos, libres, proceso, cpu, aCpu>>

(* The semaphore: a wait that finds it taken sends the PCB away.           *)
AtiendoWait(c) ==
  /\ Atiende(c, "WAIT")
  /\ IF semaforo > 0
       THEN semaforo' = semaforo - 1 /\ Responder(c, Mensaje("SEGUI_RAFAGA", Emisor(c), 0))
       ELSE Responder(c, Mensaje("ESPERA", Emisor(c), 0)) /\ UNCHANGED semaforo
  /\ UNCHANGED <<valor, bloqueados, listos, libres, proceso, cpu>>

AtiendoSignal(c) ==
  /\ Atiende(c, "SIGNAL")
  /\ semaforo' = semaforo + 1
  /\ UNCHANGED <<valor, bloqueados, listos, libres, proceso, cpu, aCpu>>

AtiendoPcb(c) ==
  /\ \/ /\ Atiende(c, "QUANTUM")
        /\ listos' = Append(listos, Emisor(c)) /\ UNCHANGED bloqueados
     \/ /\ Atiende(c, "WAIT_PCB")
        /\ bloqueados' = bloqueados \cup {Emisor(c)} /\ UNCHANGED listos
     \/ /\ Atiende(c, "FINALIZADO")
        /\ UNCHANGED <<listos, bloqueados>>
  /\ libres' = libres \cup {c}
  /\ UNCHANGED <<valor, semaforo, proceso, cpu, aCpu>>

(* A blocked process gets the unit and is ready: when, module Semaforos    *)
(* says.                                                                   *)
Desbloquear(p) ==
  /\ p \in bloqueados /\ semaforo > 0
  /\ semaforo' = semaforo - 1
  /\ bloqueados' = bloqueados \ {p}
  /\ listos' = Append(listos, p)
  /\ UNCHANGED <<valor, libres, proceso, cpu, deCpu, aCpu>>

(* The planner gives the first ready process to a free CPU.                *)
Ejecutar(c) ==
  /\ c \in libres /\ listos # <<>>
  /\ Responder(c, Mensaje("PCB", Head(listos), 0))
  /\ listos' = Tail(listos)
  /\ libres' = libres \ {c}
  /\ UNCHANGED <<valor, semaforo, bloqueados, proceso, cpu, deCpu>>

-----------------------------------------------------------------------------
AtenderNucleo(c) ==
  ReciboPcb(c) \/ RespuestaLeerCompartida(c) \/ RespuestaSeguiRafaga(c) \/ RespuestaWait(c)
AtenderCpu(c) ==
  \/ AtiendoObtenerCompartida(c) \/ AtiendoAsignarCompartida(c)
  \/ AtiendoWait(c) \/ AtiendoSignal(c) \/ AtiendoPcb(c)

Next ==
  \/ \E c \in Cpus :
       \/ Wait(c) \/ ObtenerValorCompartida(c) \/ FinObtener(c) \/ AsignarValorCompartida(c)
       \/ Signal(c) \/ FinQuantum(c) \/ Finalizar(c)
       \/ AtenderNucleo(c) \/ AtenderCpu(c) \/ Ejecutar(c)
  \/ \E p \in Procesos : Desbloquear(p)

(* The threads that read the sockets run, and so does the one they wake.   *)
Spec ==
  /\ Init /\ [][Next]_vars
  /\ \A c \in Cpus : WF_vars(AtenderNucleo(c)) /\ WF_vars(AtenderCpu(c)) /\ WF_vars(FinObtener(c))

-----------------------------------------------------------------------------
(* Properties.                                                             *)

(* No increment is lost: the value the Nucleo has, and the assignments     *)
(* still on their way to it, add up to the sections that assigned,         *)
(* although an assignment does not wait for the Nucleo, the signal that    *)
(* lets the next process in is sent right after it, and a process may      *)
(* assign on a CPU what it read on another (ansisop_asignar_valor_         *)
(* compartida, atiendo_asignar_compartida).                                *)
Asignadas(p) ==
  proceso[p].vueltas - (IF proceso[p].paso \in {"obtener", "asignar"} THEN 1 ELSE 0)
Secciones == UNION {{p} \X (1..Asignadas(p)) : p \in Procesos}
EnCamino ==
  UNION {{c} \X {k \in DOMAIN deCpu[c] : deCpu[c][k].tipo = "ASIGNAR"} : c \in Cpus}
ContadorExacto == valor + Cardinality(EnCamino) = Cardinality(Secciones)

(* The thread that waits for a shared variable gets it                     *)
(* (s_variable_compartida).                                                *)
LecturaCompartidaTermina ==
  \A c \in Cpus : cpu[c].espera = "compartida" ~> cpu[c].espera # "compartida"
=============================================================================
