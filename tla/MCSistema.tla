----------------------------- MODULE MCSistema -----------------------------
(***************************************************************************)
(* Module Sistema for TLC: two consoles, two CPUs, one device and one      *)
(* semaphore.  A scenario is a program per console that starts and the     *)
(* things the users may do; a behaviour follows one scenario.              *)
(***************************************************************************)
EXTENDS Sistema

CONSTANTS k1, k2, c1, c2, impresora, turno

imprimir == [op |-> "imprimir", arg |-> NULO]
es == [op |-> "es", arg |-> impresora]
wait == [op |-> "wait", arg |-> turno]
signal == [op |-> "signal", arg |-> turno]
falla == [op |-> "falla", arg |-> NULO]

Uno(p) == k1 :> p
Dos(p, q) == k1 :> p @@ k2 :> q
Con(cpus, programas) ==
  [programa |-> programas, cpus |-> cpus, matables |-> {}, rechaza |-> {},
   sigusr1 |-> {}, sigint |-> {}, tarde |-> {}]

(* ^C at console k, SIGUSR1 and SIGINT at CPU c1, a program the UMC has no *)
(* room for, a CPU that is slow to connect with the UMC.                   *)
MatarEn(k, e) == [e EXCEPT !.matables = {k}]
Sigusr1(e) == [e EXCEPT !.sigusr1 = {c1}]
Sigint(e) == [e EXCEPT !.sigint = {c1}]
RechazarA(k, e) == [e EXCEPT !.rechaza = {k}]
Tarde(e) == [e EXCEPT !.tarde = {c1}]

ValorInicialMC == turno :> 1

(* A program that moves between CPUs, a CPU that two programs print from,  *)
(* two CPUs at once, turno used as a mutex, and E/S while the other        *)
(* program does not come back to the queues.                               *)
EscenariosNormales ==
  { Con(Cpus, Uno(<<imprimir, imprimir>>)),
    Con({c1}, Dos(<<imprimir>>, <<imprimir>>)),
    Con(Cpus, Dos(<<>>, <<>>)),
    Con({c1}, Dos(<<wait, signal>>, <<wait, signal>>)),
    Con({c1}, Dos(<<es>>, <<>>)) }

EscenariosConFallas ==
  { MatarEn(k1, Con({c1}, Dos(<<imprimir>>, <<>>))),
    MatarEn(k1, Sigint(Con({c1}, Uno(<<es>>)))),
    MatarEn(k2, Con({c1}, Dos(<<wait, signal>>, <<wait>>))),
    Sigusr1(Con(Cpus, Uno(<<imprimir>>))),
    Sigint(Con({c1}, Dos(<<>>, <<>>))),
    RechazarA(k2, Con(Cpus, Dos(<<>>, <<>>))),
    Con({c1}, Dos(<<falla>>, <<wait>>)),
    Con({c1}, Uno(<<signal>>)),
    Tarde(Sigusr1(Con({c1}, Uno(<<imprimir>>)))),
    Con({c1}, Dos(<<es>>, <<imprimir>>)),
    Con(Cpus, Dos(<<>>, <<>>)) }

EscenariosEs == { Con({c1}, Dos(<<es>>, <<es>>)) }
EscenariosSignal == { Con({c1}, Uno(<<signal, wait>>)) }
EscenariosExcepcion == { Con({c1}, Dos(<<falla>>, <<wait>>)) }
=============================================================================
