---------------------------- MODULE MCSemaforos ----------------------------
(***************************************************************************)
(* Semaforos on a small instance: the semaphores b and c of the .ini files *)
(* of tests/ (SEM_INIT=[1,0]) and three processes.                         *)
(***************************************************************************)
EXTENDS Semaforos, TLC

CONSTANTS p1, p2, p3, b, c

MCProcesos == {p1, p2, p3}
MCSems == {b, c}
MCValorInicial == b :> 1 @@ c :> 0
=============================================================================
