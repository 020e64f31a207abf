------------------------- MODULE SemaforoAbstracto -------------------------
(***************************************************************************)
(* What the ANSISOP programs are promised by the Nucleo: a family of       *)
(* counting semaphores with a FIFO queue of sleeping processes.  A wait on *)
(* a positive semaphore takes a unit at once, any other wait puts the      *)
(* process to sleep; a signal hands its unit to the process that has slept *)
(* longest or, when nobody sleeps, leaves it in the semaphore.  There is   *)
(* no mutex, no solicitudes_auxiliares_lista and no thread here: module    *)
(* Semaforos shows how the code gets the same effect with them.            *)
(***************************************************************************)
EXTENDS Naturals, Sequences

CONSTANTS Procesos,      (* the pids                                       *)
          Sems,          (* SEM_IDS of the configuration                   *)
          ValorInicial   (* SEM_INIT of the configuration                  *)

VARIABLES valor,         (* units left in each semaphore                   *)
          dormidos       (* the processes asleep on each one, oldest first *)

vars == <<valor, dormidos>>

Init ==
  /\ valor = ValorInicial
  /\ dormidos = [s \in Sems |-> <<>>]

Duerme(p, s) == \E i \in 1..Len(dormidos[s]) : dormidos[s][i] = p

Wait(p, s) ==
  /\ \A t \in Sems : ~Duerme(p, t)
  /\ \/ /\ valor[s] > 0
        /\ valor' = [valor EXCEPT ![s] = @ - 1]
        /\ UNCHANGED dormidos
     \/ /\ valor[s] = 0
        /\ dormidos' = [dormidos EXCEPT ![s] = Append(@, p)]
        /\ UNCHANGED valor

Signal(s) ==
  \/ /\ dormidos[s] # <<>>
     /\ dormidos' = [dormidos EXCEPT ![s] = Tail(@)]
     /\ UNCHANGED valor
  \/ /\ dormidos[s] = <<>>
     /\ valor' = [valor EXCEPT ![s] = @ + 1]
     /\ UNCHANGED dormidos

Next == \E s \in Sems : Signal(s) \/ \E p \in Procesos : Wait(p, s)

Spec == Init /\ [][Next]_vars
=============================================================================
