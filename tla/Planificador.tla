---------------------------- MODULE Planificador ----------------------------
(***************************************************************************)
(* What the scheduler of the Nucleo promises: the five states of a process *)
(* with the moves between them, a FIFO queue of READY processes, and no    *)
(* more processes executing than there are CPUs.  Module Sistema           *)
(* implements it; the threads, queues, mutexes and messages of the code    *)
(* are not visible here.                                                   *)
(***************************************************************************)
EXTENDS Naturals, Sequences, FiniteSets

CONSTANTS Procesos, MaxCpus

VARIABLES estado,  (* per process "nunca", "NEW", "READY", "EXEC", "BLOCK",  *)
                   (* "EXIT" or "retirado"                                   *)
          listos   (* the READY processes, in the order they became READY    *)

vars == <<estado, listos>>

Init ==
  /\ estado = [p \in Procesos |-> "nunca"]
  /\ listos = <<>>

Mover(p, desde, hacia) ==
  /\ estado[p] \in desde
  /\ estado' = [estado EXCEPT ![p] = hacia]

(* A console sends a program; the UMC accepts it or not.                   *)
Crear(p) == Mover(p, {"nunca"}, "NEW") /\ UNCHANGED listos
Rechazar(p) == Mover(p, {"NEW"}, "retirado") /\ UNCHANGED listos

(* NEW, the end of a quantum and a wake-up all go to the end of the queue. *)
PasarAReady(p) ==
  /\ Mover(p, {"NEW", "EXEC", "BLOCK"}, "READY")
  /\ listos' = Append(listos, p)

(* The first of the queue gets a CPU, if there is one.                     *)
Ejecutando == {p \in Procesos : estado[p] = "EXEC"}
Despachar(p) ==
  /\ listos # <<>> /\ p = Head(listos)
  /\ Cardinality(Ejecutando) < MaxCpus
  /\ Mover(p, {"READY"}, "EXEC")
  /\ listos' = Tail(listos)

Bloquear(p) == Mover(p, {"EXEC"}, "BLOCK") /\ UNCHANGED listos

(* The program ends, fails or is killed, whatever it was doing.            *)
Terminar(p) ==
  /\ Mover(p, {"NEW", "READY", "EXEC", "BLOCK"}, "EXIT")
  /\ listos' = SelectSeq(listos, LAMBDA q : q # p)
Retirar(p) == Mover(p, {"EXIT"}, "retirado") /\ UNCHANGED listos

Next ==
  \E p \in Procesos :
    \/ Crear(p) \/ Rechazar(p) \/ PasarAReady(p) \/ Despachar(p)
    \/ Bloquear(p) \/ Terminar(p) \/ Retirar(p)

Spec == Init /\ [][Next]_vars
=============================================================================
