------------------------------ MODULE Canales -------------------------------
(***************************************************************************)
(* What the processes of the system share: the programs, the PCBs that     *)
(* travel between the Nucleo and the CPUs, and the connections.  Each      *)
(* connection is a TCP socket read by one thread (recibir_mensaje in       *)
(* comunicaciones.c), which calls the handler of a message to its end      *)
(* before it reads the next one: a FIFO queue per direction.               *)
(***************************************************************************)
EXTENDS Naturals, SequencesExt, FiniteSets

CONSTANTS Consolas,      (* the consoles, one program each                 *)
          Cpus,          (* the CPU processes, named by their socket       *)
          Dispositivos,  (* IO_IDS                                         *)
          Sems,          (* SEM_IDS                                        *)
          ValorInicial,  (* SEM_INIT                                       *)
          Quantum,       (* QUANTUM                                        *)
          MaxSignals,    (* bound of module Semaforos                      *)
          Escenarios,    (* the programs and the events a run explores     *)
          NULO           (* NULL, NO_ASIGNADO, "no process"                *)

(* pid_count starts at 1 and every INICIAR takes the next one.             *)
Pids == 1..Cardinality(Consolas)

(* What a program asks the Nucleo for names devices and semaphores of the  *)
(* configuration.                                                          *)
Argumentos == Dispositivos \cup Sems \cup {NULO}
Instrucciones ==
  [op : {"imprimir", "falla"}, arg : {NULO}] \cup [op : {"es"}, arg : Dispositivos]
    \cup [op : {"wait", "signal"}, arg : Sems]

ASSUME SupuestoCanales ==
  /\ IsFiniteSet(Consolas)
  /\ Quantum \in Nat \ {0}
  /\ ValorInicial \in [Sems -> Nat]
  /\ NULO \notin Pids \cup Consolas \cup Cpus
  /\ \A e \in Escenarios :
       /\ DOMAIN e.programa \subseteq Consolas
       /\ \A k \in DOMAIN e.programa : e.programa[k] \in Seq(Instrucciones)

VARIABLES
  escenario,  (* the member of Escenarios this behaviour follows           *)
  pcb,        (* per pid, what its PCB says: the console and the pc        *)
  consola,    (* per console: "apagada", "avisada", "viva",              *)
              (* "terminando", "cerrada"                                 *)
  deConsola,  (* console -> Nucleo                                         *)
  aConsola,   (* Nucleo -> console                                         *)
  deCpu,      (* CPU -> Nucleo                                             *)
  aCpu,       (* Nucleo -> CPU                                             *)
  aUmc        (* requests the UMC has not answered, in no order            *)

canales == <<deConsola, aConsola, deCpu, aCpu, aUmc>>

(* A program is the sequence of its instructions that reach the Nucleo     *)
(* (or fail in the UMC); after the last one comes ansisop_finalizar.       *)
Instruccion(p) ==
  LET programa == escenario.programa[pcb[p].consola] IN
    IF pcb[p].pc < Len(programa) THEN programa[pcb[p].pc + 1]
                                 ELSE [op |-> "finalizar", arg |-> NULO]

MensajeCpu(id, p, arg) == [id |-> id, pid |-> p, arg |-> arg]
=============================================================================
