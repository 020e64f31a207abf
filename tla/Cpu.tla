-------------------------------- MODULE Cpu --------------------------------
(***************************************************************************)
(* The CPU process (cpu.c, primitivas_ansisop.c) as the Nucleo sees it.    *)
(* Four kinds of threads share its globals: the one that reads the socket  *)
(* of the Nucleo (atender_nucleo), one per quantum that executes           *)
(* instructions (ejecuto_instrucciones), one per E/S (enviar_entrada_      *)
(* salida), and the main one, where the signal handler runs.               *)
(*                                                                         *)
(* The globals entrada_salida, wait_nucleo, matar_proceso, fin_proceso,    *)
(* excepcion_umc, matar_cpu and matar_cpu_sigint are the members of        *)
(* banderas that are 1.                                                    *)
(***************************************************************************)
EXTENDS Canales

VARIABLE cpu
  (* per CPU a record:                                                     *)
  (*   proceso     "apagado", "conectando", "vivo" or "cerrado"            *)
  (*   pid         pcb_quantum->pcb->pid                                   *)
  (*   quantum     pcb_quantum->quantum                                    *)
  (*   hilo        of instructions: "no", "bucle", "espera", "sale"; or    *)
  (*               "trabado", see PcbSinUmc                                *)
  (*   banderas    the globals that are 1                                  *)
  (*   ocupada     cpu_ocupada                                             *)
  (*   terminadas  s_instruccion_finalizada                                *)
  (*   envios      s_envio_pcb                                             *)
  (*   muertes     s_matar_cpu                                             *)
  (*   enviado     the message whose enviar_PCB has not returned yet       *)
  (*   io          the E/S threads that wait for s_envio_pcb to send       *)
  (*   ioFin       the E/S threads that wait for it a second time          *)
  (*   senial      the handler: "no", "decide", "espera", "fin"            *)

CpuInit ==
  cpu = [c \in Cpus |->
    [proceso |-> "apagado", pid |-> NULO, quantum |-> 0, hilo |-> "no",
     banderas |-> {}, ocupada |-> FALSE, terminadas |-> 0, envios |-> 0,
     muertes |-> 0, enviado |-> NULO, io |-> <<>>, ioFin |-> 0, senial |-> "no"]]

-----------------------------------------------------------------------------
Vivo(c) == cpu[c].proceso \in {"conectando", "vivo"}
Enviar(c, m) == deCpu' = [deCpu EXCEPT ![c] = Append(@, m)]
SinEnviar == <<deConsola, aConsola, deCpu, aUmc>>

(* conecto_con_nucleo.  Whether main gets to the end of its connections    *)
(* before the first PCB arrives is up to the scenario.                     *)
Conectar(c) ==
  /\ c \in escenario.cpus
  /\ cpu[c].proceso = "apagado"
  /\ cpu' = [cpu EXCEPT ![c].proceso =
                IF c \in escenario.tarde THEN "conectando" ELSE "vivo"]
  /\ Enviar(c, MensajeCpu("HANDSHAKE", NULO, NULO))
  /\ UNCHANGED <<pcb, deConsola, aConsola, aCpu, aUmc>>

(* main after conecto_con_umc; cpu_ocupada is global, and a PCB may have   *)
(* come in the meantime.                                                   *)
FinConectar(c) ==
  /\ cpu[c].proceso = "conectando"
  /\ cpu' = [cpu EXCEPT ![c].proceso = "vivo", ![c].ocupada = FALSE]
  /\ UNCHANGED <<pcb, canales>>

(* atender_nucleo: the reading thread takes the next message.              *)
LlegaDelNucleo(c, id) ==
  /\ Vivo(c)
  /\ cpu[c].hilo # "trabado"
  /\ aCpu[c] # <<>>
  /\ Head(aCpu[c]).id = id
  /\ aCpu' = [aCpu EXCEPT ![c] = Tail(@)]
  /\ UNCHANGED <<pcb, SinEnviar>>

(* recibo_PCB, which starts the thread of instructions; that thread begins *)
(* by clearing fin_proceso.  The previous thread has ended its loop        *)
(* (EjecucionUnica in module Sistema), though not always its enviar_PCB.   *)
RecibirPcb(c) ==
  /\ cpu[c].hilo = "no"
  /\ LlegaDelNucleo(c, "PCB")
  /\ cpu' = [cpu EXCEPT ![c] = [cpu[c] EXCEPT
       !.banderas = @ \ {"fin_proceso"}, !.pid = Head(aCpu[c]).pid,
       !.quantum = Quantum, !.hilo = "bucle", !.ocupada = TRUE]]
(* The first PCB before socket_umc has a value: cambio_proceso_activo      *)
(* writes nowhere and the reading thread waits for s_cambio_proceso.       *)
PcbSinUmc(c) ==
  /\ cpu[c].proceso = "conectando"
  /\ cpu[c].pid = NULO
  /\ LlegaDelNucleo(c, "PCB")
  /\ cpu' = [cpu EXCEPT ![c] = [cpu[c] EXCEPT
       !.pid = Head(aCpu[c]).pid, !.quantum = Quantum, !.hilo = "trabado",
       !.ocupada = TRUE]]
RecibirMatar(c) ==
  /\ LlegaDelNucleo(c, "MATAR")
  /\ cpu' = [cpu EXCEPT ![c].banderas = @ \cup {"matar_proceso"}]
RecibirWait(c) ==
  /\ LlegaDelNucleo(c, "WAIT")
  /\ cpu' = [cpu EXCEPT ![c].terminadas = @ + 1]
RecibirSeguiRafaga(c) ==
  /\ LlegaDelNucleo(c, "SEGUI_RAFAGA")
  /\ cpu' = [cpu EXCEPT ![c] = [cpu[c] EXCEPT !.banderas = @ \ {"wait_nucleo"},
                                              !.terminadas = @ + 1]]

-----------------------------------------------------------------------------
(* Mutant of Sigue: the quantum is not looked at.                          *)
SigueSinQuantum(c) == cpu[c].banderas = {}

(* ejecuto_instrucciones: the condition of the while.                      *)
Sigue(c) == cpu[c].quantum # 0 /\ cpu[c].banderas = {}
EnBucle(c) == Vivo(c) /\ cpu[c].hilo = "bucle"
Actual(c) == Instruccion(cpu[c].pid)

(* After sem_wait(&s_instruccion_finalizada): sem_init sets it to 0, the   *)
(* program counter advances and the quantum runs down.                     *)
InstruccionTerminada(r) == [r EXCEPT !.terminadas = 0, !.quantum = @ - 1]
AvanzarPc(c) == pcb' = [pcb EXCEPT ![cpu[c].pid].pc = @ + 1]

(* The primitives that post s_instruccion_finalizada themselves: nothing   *)
(* keeps the thread from going on.                                         *)
Imprimir(c) ==
  /\ EnBucle(c) /\ Sigue(c)
  /\ Actual(c).op = "imprimir"
  /\ Enviar(c, MensajeCpu("IMPRIMIR", cpu[c].pid, NULO))
  /\ cpu' = [cpu EXCEPT ![c] = InstruccionTerminada(@)]
  /\ AvanzarPc(c)
  /\ UNCHANGED <<deConsola, aConsola, aCpu, aUmc>>
Signal(c) ==
  /\ EnBucle(c) /\ Sigue(c)
  /\ Actual(c).op = "signal"
  /\ Enviar(c, MensajeCpu("SIGNAL", cpu[c].pid, Actual(c).arg))
  /\ cpu' = [cpu EXCEPT ![c] = InstruccionTerminada(@)]
  /\ AvanzarPc(c)
  /\ UNCHANGED <<deConsola, aConsola, aCpu, aUmc>>
Finalizar(c) ==
  /\ EnBucle(c) /\ Sigue(c)
  /\ Actual(c).op = "finalizar"
  /\ cpu' = [cpu EXCEPT ![c] =
       InstruccionTerminada([cpu[c] EXCEPT !.banderas = @ \cup {"fin_proceso"}])]
  /\ AvanzarPc(c)
  /\ UNCHANGED canales
EntradaSalida(c) ==
  /\ EnBucle(c) /\ Sigue(c)
  /\ Actual(c).op = "es"
  /\ cpu' = [cpu EXCEPT ![c] =
       InstruccionTerminada([cpu[c] EXCEPT
          !.banderas = @ \cup {"entrada_salida"},
          !.io = Append(@, MensajeCpu("ENTRADA_SALIDA", cpu[c].pid, Actual(c).arg))])]
  /\ AvanzarPc(c)
  /\ UNCHANGED canales

(* ansisop_wait leaves s_instruccion_finalizada to the answer of the       *)
(* Nucleo.                                                                 *)
Wait(c) ==
  /\ EnBucle(c) /\ Sigue(c)
  /\ Actual(c).op = "wait"
  /\ Enviar(c, MensajeCpu("WAIT", cpu[c].pid, Actual(c).arg))
  /\ cpu' = [cpu EXCEPT ![c].banderas = @ \cup {"wait_nucleo"}, ![c].hilo = "espera"]
  /\ UNCHANGED <<pcb, deConsola, aConsola, aCpu, aUmc>>
FinWait(c) ==
  /\ Vivo(c)
  /\ cpu[c].hilo = "espera"
  /\ cpu[c].terminadas > 0
  /\ cpu' = [cpu EXCEPT ![c] = [InstruccionTerminada(@) EXCEPT !.hilo = "bucle"]]
  /\ AvanzarPc(c)
  /\ UNCHANGED canales

(* The UMC cannot serve the page of the instruction (ERROR_LEER_PAGINA).   *)
Falla(c) ==
  /\ EnBucle(c) /\ Sigue(c)
  /\ Actual(c).op = "falla"
  /\ cpu' = [cpu EXCEPT ![c].banderas = @ \cup {"excepcion_umc"}, ![c].hilo = "sale"]
  /\ UNCHANGED <<pcb, canales>>

SalirDelBucle(c) ==
  /\ EnBucle(c) /\ ~Sigue(c)
  /\ cpu' = [cpu EXCEPT ![c].hilo = "sale"]
  /\ UNCHANGED <<pcb, canales>>

(* devuelve_id_mensaje: the flag that decides, the first of this list, is  *)
(* cleared, except fin_proceso.                                            *)
Prioridad == <<"entrada_salida", "wait_nucleo", "matar_proceso", "fin_proceso",
               "excepcion_umc", "matar_cpu", "matar_cpu_sigint">>
IdDe == [entrada_salida |-> "ENTRADA_SALIDA_PCB", wait_nucleo |-> "WAIT_PCB",
         matar_proceso |-> "RESPUESTA_MATAR", fin_proceso |-> "PROGRAMA_FINALIZADO",
         excepcion_umc |-> "EXCEPCION_UMC", matar_cpu |-> "MATAR_CPU",
         matar_cpu_sigint |-> "SIGINT"]

(* devuelve_id_mensaje and enviar_PCB up to the send.  With an exception,  *)
(* ansisop_imprimir_texto posts s_instruccion_finalizada though no         *)
(* instruction waits for it.  Bound: the thread of the previous quantum    *)
(* has returned from its own enviar_PCB.                                   *)
EnviarPcbAlNucleo(c) ==
  LET p == cpu[c].pid
      i == SelectInSeq(Prioridad, LAMBDA b : b \in cpu[c].banderas)
      id == IF i = 0 THEN "QUANTUM" ELSE IdDe[Prioridad[i]]
      aviso == IF id = "EXCEPCION_UMC" THEN <<MensajeCpu("IMPRIMIR", p, NULO)>> ELSE <<>>
  IN
    /\ Vivo(c)
    /\ cpu[c].hilo = "sale"
    /\ cpu[c].enviado = NULO
    /\ deCpu' = [deCpu EXCEPT ![c] = @ \o aviso \o <<MensajeCpu(id, p, NULO)>>]
    /\ cpu' = [cpu EXCEPT ![c] = [cpu[c] EXCEPT
         !.banderas = @ \ (IF i = 0 THEN {} ELSE {Prioridad[i]} \ {"fin_proceso"}),
         !.hilo = "no",
         !.enviado = id,
         !.terminadas = @ + Len(aviso)]]
    /\ UNCHANGED <<pcb, deConsola, aConsola, aCpu, aUmc>>

(* enviar_PCB after the send: by now the Nucleo may have sent another PCB. *)
FinEnviarPcb(c) ==
  /\ Vivo(c)
  /\ cpu[c].enviado # NULO
  /\ cpu' = [cpu EXCEPT ![c] = [cpu[c] EXCEPT
       !.ocupada = FALSE,
       !.enviado = NULO,
       !.envios = @ + (IF cpu[c].enviado = "ENTRADA_SALIDA_PCB" THEN 2 ELSE 0),
       !.muertes = @ + (IF cpu[c].enviado = "MATAR_CPU" THEN 1 ELSE 0)]]
  /\ UNCHANGED <<pcb, canales>>

-----------------------------------------------------------------------------
(* enviar_entrada_salida: any of the threads that wait may get the unit.   *)
EnviarEs(c) ==
  /\ Vivo(c)
  /\ cpu[c].envios > 0
  /\ \E i \in 1..Len(cpu[c].io) :
       /\ Enviar(c, cpu[c].io[i])
       /\ cpu' = [cpu EXCEPT ![c] = [cpu[c] EXCEPT !.io = RemoveAt(@, i), !.envios = @ - 1,
                                                   !.ioFin = @ + 1]]
  /\ UNCHANGED <<pcb, deConsola, aConsola, aCpu, aUmc>>
FinEs(c) ==
  /\ Vivo(c)
  /\ cpu[c].envios > 0
  /\ cpu[c].ioFin > 0
  /\ cpu' = [cpu EXCEPT ![c].envios = @ - 1, ![c].ioFin = @ - 1]
  /\ UNCHANGED <<pcb, canales>>

-----------------------------------------------------------------------------
(* atender_seniales; bound: one signal per CPU.  With the CPU busy the     *)
(* handler waits for s_matar_cpu, which only MENSAJE_MATAR_CPU posts.      *)
Senial(c, bandera) ==
  /\ cpu[c].proceso = "vivo"
  /\ cpu[c].senial = "no"
  /\ cpu' = [cpu EXCEPT ![c].banderas = @ \cup {bandera}, ![c].senial = "decide"]
  /\ UNCHANGED <<pcb, canales>>
SenialOcupada(c) ==
  /\ Vivo(c)
  /\ cpu[c].senial = "decide"
  /\ cpu[c].ocupada
  /\ cpu' = [cpu EXCEPT ![c].senial = "espera"]
  /\ UNCHANGED <<pcb, canales>>
SenialLibre(c) ==
  /\ Vivo(c)
  /\ cpu[c].senial = "decide"
  /\ ~cpu[c].ocupada
  /\ cpu' = [cpu EXCEPT ![c].senial = "fin"]
  /\ Enviar(c, MensajeCpu("DESCONEXION", NULO, NULO))
  /\ UNCHANGED <<pcb, deConsola, aConsola, aCpu, aUmc>>
FinSenial(c) ==
  /\ Vivo(c)
  /\ cpu[c].senial = "espera"
  /\ cpu[c].muertes > 0
  /\ cpu' = [cpu EXCEPT ![c].muertes = @ - 1, ![c].senial = "fin"]
  /\ UNCHANGED <<pcb, canales>>

(* main after s_cpu_finaliza: the process ends with all its threads, and   *)
(* what it had not read is lost.                                           *)
CerrarCpu(c) ==
  /\ Vivo(c)
  /\ cpu[c].senial = "fin"
  /\ cpu' = [cpu EXCEPT ![c].proceso = "cerrado"]
  /\ UNCHANGED <<pcb, canales>>

-----------------------------------------------------------------------------
(* The threads of CPU c, without the signals its user sends.               *)
LeerCpu(c) ==
  RecibirPcb(c) \/ PcbSinUmc(c) \/ RecibirMatar(c) \/ RecibirWait(c) \/ RecibirSeguiRafaga(c)
EjecutarCpu(c) ==
  \/ Imprimir(c) \/ Signal(c) \/ Finalizar(c) \/ EntradaSalida(c)
  \/ Wait(c) \/ FinWait(c) \/ Falla(c)
  \/ SalirDelBucle(c) \/ EnviarPcbAlNucleo(c) \/ FinEnviarPcb(c)
IoCpu(c) == EnviarEs(c) \/ FinEs(c)
PrincipalCpu(c) ==
  \/ Conectar(c) \/ FinConectar(c)
  \/ SenialOcupada(c) \/ SenialLibre(c) \/ FinSenial(c) \/ CerrarCpu(c)
Seniales(c) ==
  \/ c \in escenario.sigusr1 /\ Senial(c, "matar_cpu")
  \/ c \in escenario.sigint /\ Senial(c, "matar_cpu_sigint")
PasoCpu(c) == LeerCpu(c) \/ EjecutarCpu(c) \/ IoCpu(c) \/ PrincipalCpu(c) \/ Seniales(c)
=============================================================================
