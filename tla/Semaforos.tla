----------------------------- MODULE Semaforos -----------------------------
(***************************************************************************)
(* The ANSISOP semaphores of the Nucleo (atiendo_cpu.c: atiendo_wait,      *)
(* atiendo_wait_pcb, atiendo_signal; nucleo.c: desbloquear_pcb_semaforo).  *)
(*                                                                         *)
(* One binary semaphore, mutex_solicitudes_semaforo, protects all of them, *)
(* and it is handed from thread to thread: a WAIT that must block leaves   *)
(* it taken, and the WAIT_PCB that the same CPU sends next releases it; a  *)
(* SIGNAL leaves it taken too, and the thread of that semaphore            *)
(* (desbloquear_pcb_semaforo) releases it after the wake-up.  No thread    *)
(* remembers that it holds it, so this module keeps the bare counter, as   *)
(* sem_t does, and states as theorems what the hand-over must guarantee.   *)
(*                                                                         *)
(* The connection threads of the Nucleo and the four steps of each handler *)
(* that touch other state are in module Nucleo, which uses these actions.  *)
(***************************************************************************)
EXTENDS Naturals, Sequences

CONSTANTS Procesos,      (* the pids                                       *)
          Sems,          (* SEM_IDS: one t_atributos_semaforo each         *)
          ValorInicial,  (* SEM_INIT                                       *)
          MaxSignals,    (* bound: SIGNALs each semaphore receives         *)
          Nadie          (* "no process", not a pid                        *)

(* SEM_INIT is atoi of a list of the .ini: every configuration of tests/   *)
(* gives non-negative values.                                              *)
ASSUME SupuestoSemaforos ==
  /\ ValorInicial \in [Sems -> Nat]
  /\ Nadie \notin Procesos
  /\ MaxSignals \in Nat

VARIABLES
  valor,                       (* t_atributos_semaforo.valor               *)
  solicitudes,                 (* t_atributos_semaforo.solicitudes, pids   *)
  sem_semaforos,               (* the counters the unblocking threads wait *)
  mutex_solicitudes_semaforo,  (* sem_t: 1 free, 0 taken                   *)
  auxiliares,                  (* solicitudes_auxiliares_lista             *)
  desbloqueando,               (* pid a thread took out of solicitudes     *)
  concedidos,                  (* history: units each semaphore gave       *)
  signals                      (* history: SIGNALs each semaphore received *)

vars == <<valor, solicitudes, sem_semaforos, mutex_solicitudes_semaforo,
          auxiliares, desbloqueando, concedidos, signals>>

-----------------------------------------------------------------------------
Init ==
  /\ valor = ValorInicial
  /\ solicitudes = [s \in Sems |-> <<>>]
  /\ sem_semaforos = [s \in Sems |-> 0]
  /\ mutex_solicitudes_semaforo = 1
  /\ auxiliares = <<>>
  /\ desbloqueando = [s \in Sems |-> Nadie]
  /\ concedidos = [s \in Sems |-> 0]
  /\ signals = [s \in Sems |-> 0]

EnCola(p, s) == \E i \in 1..Len(solicitudes[s]) : solicitudes[s][i] = p
EnAuxiliares(p) == \E i \in 1..Len(auxiliares) : auxiliares[i].pid = p

(* A process that asked for a unit and has not been made READY again.      *)
Espera(p) ==
  \/ EnAuxiliares(p)
  \/ \E s \in Sems : EnCola(p, s) \/ desbloqueando[s] = p

(* sem_wait(&mutex_solicitudes_semaforo) and sem_post of it.               *)
Tomar ==
  /\ mutex_solicitudes_semaforo > 0
  /\ mutex_solicitudes_semaforo' = mutex_solicitudes_semaforo - 1
Soltar == mutex_solicitudes_semaforo' = mutex_solicitudes_semaforo + 1

(* Mutant of WaitConcedido: it posts the mutex without having waited for   *)
(* it.                                                                     *)
WaitConcedidoSinTomar(p, s) ==
  /\ valor[s] > 0
  /\ valor' = [valor EXCEPT ![s] = @ - 1]
  /\ concedidos' = [concedidos EXCEPT ![s] = @ + 1]
  /\ Soltar
  /\ UNCHANGED <<solicitudes, sem_semaforos, auxiliares, desbloqueando, signals>>

(* atiendo_wait, first branch: the unit is taken and the CPU is answered   *)
(* RESPUESTA_SEGUI_RAFAGA; the mutex is taken and released.                *)
WaitConcedido(p, s) ==
  /\ mutex_solicitudes_semaforo > 0
  /\ valor[s] > 0
  /\ valor' = [valor EXCEPT ![s] = @ - 1]
  /\ concedidos' = [concedidos EXCEPT ![s] = @ + 1]
  /\ UNCHANGED <<solicitudes, sem_semaforos, mutex_solicitudes_semaforo,
                 auxiliares, desbloqueando, signals>>

(* Mutant of WaitBloquea: the mutex is released before the PCB arrives.    *)
WaitBloqueaYSuelta(p, s) ==
  /\ valor[s] = 0
  /\ mutex_solicitudes_semaforo > 0
  /\ auxiliares' = Append(auxiliares, [pid |-> p, sem |-> s])
  /\ UNCHANGED <<valor, solicitudes, sem_semaforos, mutex_solicitudes_semaforo,
                 desbloqueando, concedidos, signals>>

(* atiendo_wait, else branch: the request is parked until the PCB arrives, *)
(* the CPU is answered RESPUESTA_WAIT and the mutex stays taken.           *)
WaitBloquea(p, s) ==
  /\ valor[s] = 0
  /\ Tomar
  /\ auxiliares' = Append(auxiliares, [pid |-> p, sem |-> s])
  /\ UNCHANGED <<valor, solicitudes, sem_semaforos, desbloqueando,
                 concedidos, signals>>

(* Mutant of WaitPcb: the request stays in the auxiliary list.             *)
WaitPcbSinQuitar(p) ==
  \E i \in 1..Len(auxiliares) :
    /\ auxiliares[i].pid = p
    /\ solicitudes' = [solicitudes EXCEPT ![auxiliares[i].sem] = Append(@, p)]
    /\ Soltar
    /\ UNCHANGED <<valor, sem_semaforos, auxiliares, desbloqueando, concedidos, signals>>

(* The end of atiendo_wait_pcb: the request of that pid leaves the         *)
(* auxiliary list (agregar_solicitud_semaforo_cola_sem removes the first   *)
(* one that matches) and its pid joins the queue of the semaphore.         *)
WaitPcb(p) ==
  \E i \in 1..Len(auxiliares) :
    /\ auxiliares[i].pid = p
    /\ \A j \in 1..(i - 1) : auxiliares[j].pid # p
    /\ auxiliares' = SubSeq(auxiliares, 1, i - 1) \o SubSeq(auxiliares, i + 1, Len(auxiliares))
    /\ solicitudes' = [solicitudes EXCEPT ![auxiliares[i].sem] = Append(@, p)]
    /\ Soltar
    /\ UNCHANGED <<valor, sem_semaforos, desbloqueando, concedidos, signals>>

(* Mutants of Signal: the unit is counted besides waking the thread; the   *)
(* thread is woken whatever valor says.                                    *)
SignalCuentaDosVeces(s) ==
  /\ Tomar
  /\ signals' = [signals EXCEPT ![s] = @ + 1]
  /\ valor' = [valor EXCEPT ![s] = @ + 1]
  /\ sem_semaforos' = [sem_semaforos EXCEPT ![s] = IF valor[s] = 0 THEN @ + 1 ELSE @]
  /\ UNCHANGED <<solicitudes, auxiliares, desbloqueando, concedidos>>
SignalSinMirarValor(s) ==
  /\ Tomar
  /\ signals' = [signals EXCEPT ![s] = @ + 1]
  /\ sem_semaforos' = [sem_semaforos EXCEPT ![s] = @ + 1]
  /\ UNCHANGED <<valor, solicitudes, auxiliares, desbloqueando, concedidos>>

(* atiendo_signal: with units left it only counts one more; without, it    *)
(* wakes the thread of the semaphore.  Neither branch posts the mutex.     *)
Signal(s) ==
  /\ Tomar
  /\ signals' = [signals EXCEPT ![s] = @ + 1]
  /\ \/ /\ valor[s] > 0
        /\ valor' = [valor EXCEPT ![s] = @ + 1]
        /\ UNCHANGED sem_semaforos
     \/ /\ valor[s] = 0
        /\ sem_semaforos' = [sem_semaforos EXCEPT ![s] = @ + 1]
        /\ UNCHANGED valor
  /\ UNCHANGED <<solicitudes, auxiliares, desbloqueando, concedidos>>

(* Mutant of DesbloquearPcb: the newest request is served.                 *)
DesbloquearUltimo(s) ==
  /\ sem_semaforos[s] > 0
  /\ desbloqueando[s] = Nadie
  /\ solicitudes[s] # <<>>
  /\ sem_semaforos' = [sem_semaforos EXCEPT ![s] = @ - 1]
  /\ desbloqueando' = [desbloqueando EXCEPT ![s] = solicitudes[s][Len(solicitudes[s])]]
  /\ solicitudes' = [solicitudes EXCEPT ![s] = SubSeq(@, 1, Len(@) - 1)]
  /\ UNCHANGED <<valor, mutex_solicitudes_semaforo, auxiliares, concedidos, signals>>

(* desbloquear_pcb_semaforo, with a request in the queue: its pid is       *)
(* popped; making that process READY is the rest of the iteration.         *)
DesbloquearPcb(s) ==
  /\ sem_semaforos[s] > 0
  /\ desbloqueando[s] = Nadie
  /\ solicitudes[s] # <<>>
  /\ sem_semaforos' = [sem_semaforos EXCEPT ![s] = @ - 1]
  /\ desbloqueando' = [desbloqueando EXCEPT ![s] = Head(solicitudes[s])]
  /\ solicitudes' = [solicitudes EXCEPT ![s] = Tail(@)]
  /\ UNCHANGED <<valor, mutex_solicitudes_semaforo, auxiliares, concedidos,
                 signals>>

(* Mutant of AumentarSemaforo: nobody looks whether somebody waits.        *)
AumentarSinMirarCola(s) ==
  /\ sem_semaforos[s] > 0
  /\ desbloqueando[s] = Nadie
  /\ sem_semaforos' = [sem_semaforos EXCEPT ![s] = @ - 1]
  /\ valor' = [valor EXCEPT ![s] = @ + 1]
  /\ Soltar
  /\ UNCHANGED <<solicitudes, auxiliares, desbloqueando, concedidos, signals>>

(* The same thread when nobody waits: the unit stays in the semaphore.     *)
AumentarSemaforo(s) ==
  /\ sem_semaforos[s] > 0
  /\ desbloqueando[s] = Nadie
  /\ solicitudes[s] = <<>>
  /\ sem_semaforos' = [sem_semaforos EXCEPT ![s] = @ - 1]
  /\ valor' = [valor EXCEPT ![s] = @ + 1]
  /\ Soltar
  /\ UNCHANGED <<solicitudes, auxiliares, desbloqueando, concedidos, signals>>

(* The end of an iteration that woke a process: it is in cola_ready and    *)
(* the mutex is released.                                                  *)
FinDesbloqueo(s) ==
  /\ desbloqueando[s] # Nadie
  /\ desbloqueando' = [desbloqueando EXCEPT ![s] = Nadie]
  /\ concedidos' = [concedidos EXCEPT ![s] = @ + 1]
  /\ Soltar
  /\ UNCHANGED <<valor, solicitudes, sem_semaforos, auxiliares, signals>>

(* What the CPUs send: a waiting process executes nothing, so no WAIT      *)
(* arrives on its behalf, and the number of SIGNALs is bounded.  Module    *)
(* Sistema checks the first against the CPUs and the Nucleo together.      *)
Next ==
  \/ \E p \in Procesos, s \in Sems :
       ~Espera(p) /\ (WaitConcedido(p, s) \/ WaitBloquea(p, s))
  \/ \E p \in Procesos : WaitPcb(p)
  \/ \E s \in Sems : \/ signals[s] < MaxSignals /\ Signal(s)
                     \/ DesbloquearPcb(s)
                     \/ AumentarSemaforo(s)
                     \/ FinDesbloqueo(s)

Spec == Init /\ [][Next]_vars

-----------------------------------------------------------------------------
Solicitud == [pid : Procesos, sem : Sems]

(* Type invariant of the semaphores of the Nucleo.                         *)
TypeOK ==
  /\ valor \in [Sems -> Nat]
  /\ solicitudes \in [Sems -> Seq(Procesos)]
  /\ sem_semaforos \in [Sems -> Nat]
  /\ mutex_solicitudes_semaforo \in {0, 1}
  /\ auxiliares \in Seq(Solicitud)
  /\ desbloqueando \in [Sems -> Procesos \cup {Nadie}]
  /\ concedidos \in [Sems -> Nat]
  /\ signals \in [Sems -> Nat]

(* A signal on its way to the unblocking thread, or a wake-up in progress. *)
Despierta(s) == sem_semaforos[s] > 0 \/ desbloqueando[s] # Nadie

(* The hand-over of the mutex never duplicates it: while it is free nobody *)
(* is between WAIT and WAIT_PCB or between SIGNAL and the end of the       *)
(* wake-up, and while it is taken at most one such hand-over is going on.  *)
TraspasoExclusivo ==
  /\ mutex_solicitudes_semaforo = 1 =>
       auxiliares = <<>> /\ \A s \in Sems : ~Despierta(s)
  /\ Len(auxiliares) <= 1
  /\ auxiliares # <<>> => \A s \in Sems : ~Despierta(s)
  /\ \A s, t \in Sems : Despierta(s) /\ Despierta(t) => s = t
  /\ \A s \in Sems : /\ sem_semaforos[s] <= 1
                     /\ desbloqueando[s] # Nadie => sem_semaforos[s] = 0

(* No process sleeps on a semaphore that has units left: the reason for    *)
(* holding the mutex from the WAIT until the PCB is queued.                *)
NadieDuermeConUnidades ==
  \A s \in Sems : valor[s] > 0 => solicitudes[s] = <<>>

(* Units still to be given for SIGNALs the unblocking thread has not       *)
(* finished with.                                                          *)
EnViaje(s) == sem_semaforos[s] + (IF desbloqueando[s] = Nadie THEN 0 ELSE 1)

(* No SIGNAL is lost and none counts twice: the units given, the units     *)
(* left and the ones on their way add up to SEM_INIT plus the SIGNALs.     *)
UnidadesConservadas ==
  \A s \in Sems :
    valor[s] + concedidos[s] + EnViaje(s) = ValorInicial[s] + signals[s]

(* A process waits for one unit at a time: its pid is once in one queue,   *)
(* or parked in the auxiliary list, or being woken up, and never in two of *)
(* these, so a single SIGNAL cannot make it READY twice.                   *)
EsperaUnica ==
  /\ \A s, t \in Sems : \A i \in 1..Len(solicitudes[s]), j \in 1..Len(solicitudes[t]) :
       solicitudes[s][i] = solicitudes[t][j] => s = t /\ i = j
  /\ \A i \in 1..Len(auxiliares), s \in Sems : ~EnCola(auxiliares[i].pid, s)
  /\ \A s, t \in Sems : ~EnCola(desbloqueando[s], t)

(* The semaphore a hand-over is about has no units left.                   *)
TraspasoSinUnidades ==
  /\ \A i \in 1..Len(auxiliares) : valor[auxiliares[i].sem] = 0
  /\ \A s \in Sems : Despierta(s) => valor[s] = 0

-----------------------------------------------------------------------------
(* The sleepers of the abstract semaphore: the queue, then the process     *)
(* whose request is still parked in solicitudes_auxiliares_lista.          *)
Dormidos == [s \in Sems |->
  IF auxiliares # <<>> /\ auxiliares[1].sem = s
    THEN Append(solicitudes[s], auxiliares[1].pid)
    ELSE solicitudes[s]]

(* The requests the abstract semaphore sees: a process that is being woken *)
(* up has left its queue there.                                            *)
Abstracto == INSTANCE SemaforoAbstracto WITH dormidos <- Dormidos

(* The three handlers and the unblocking threads implement counting        *)
(* semaphores with FIFO queues: a WAIT that blocks takes effect when it is *)
(* parked, a SIGNAL on an empty semaphore when the thread of the semaphore *)
(* runs.                                                                   *)
ImplementaAbstracto == Abstracto!Spec
=============================================================================
