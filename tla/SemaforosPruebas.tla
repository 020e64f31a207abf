-------------------------- MODULE SemaforosPruebas --------------------------
(***************************************************************************)
(* Proofs about the semaphores of the Nucleo, for every set of processes   *)
(* and semaphores, every SEM_INIT and every number of SIGNALs.             *)
(***************************************************************************)
EXTENDS Semaforos, SequenceTheorems, TLAPS

(* The conjunction of the invariants is inductive: exclusion of the        *)
(* hand-over needs to know that a hand-over holds the mutex, "nobody       *)
(* sleeps beside a unit" needs that a hand-over is about a semaphore       *)
(* without units, and both need the exclusion.                             *)
Inv ==
  /\ TypeOK
  /\ TraspasoExclusivo
  /\ TraspasoSinUnidades
  /\ NadieDuermeConUnidades
  /\ UnidadesConservadas
  /\ EsperaUnica

-----------------------------------------------------------------------------
(* Removing the only element of a sequence leaves the empty one.           *)
LEMMA QuitarUnico ==
  ASSUME NEW S, NEW q \in Seq(S), Len(q) <= 1, NEW i \in 1..Len(q)
  PROVE  /\ i = 1 /\ Len(q) = 1
         /\ SubSeq(q, 1, i - 1) \o SubSeq(q, i + 1, Len(q)) = <<>>
<1>1. i = 1 /\ Len(q) = 1
  <2>1. Len(q) \in Nat
    BY LenProperties
  <2>2. \A n \in Nat : n <= 1 => \A k \in 1..n : k = 1 /\ n = 1
    OBVIOUS
  <2> QED
    BY <2>1, <2>2
<1>2. SubSeq(q, 1, 0) = <<>> /\ SubSeq(q, 2, 1) = <<>>
  OBVIOUS
<1>3. SubSeq(q, 1, i - 1) \o SubSeq(q, i + 1, Len(q)) = <<>> \o <<>>
  BY <1>1, <1>2
<1> QED
  BY <1>1, <1>3

(* A mutex that can be taken is free, so no hand-over is going on.         *)
LEMMA MutexLibre ==
  ASSUME Inv, mutex_solicitudes_semaforo > 0
  PROVE  /\ mutex_solicitudes_semaforo = 1
         /\ auxiliares = <<>>
         /\ \A s \in Sems : sem_semaforos[s] = 0 /\ desbloqueando[s] = Nadie
<1>1. mutex_solicitudes_semaforo = 1
  BY DEF Inv, TypeOK
<1> QED
  BY <1>1 DEF Inv, TypeOK, TraspasoExclusivo, Despierta

(* Every number UnidadesConservadas adds up is a natural number.           *)
LEMMA Naturales ==
  ASSUME TypeOK, NEW t \in Sems
  PROVE  /\ valor[t] \in Nat /\ concedidos[t] \in Nat
         /\ sem_semaforos[t] \in Nat /\ signals[t] \in Nat
         /\ ValorInicial[t] \in Nat
BY SupuestoSemaforos DEF TypeOK

LEMMA InvInicial == Init => Inv
<1> SUFFICES ASSUME Init PROVE Inv
  OBVIOUS
<1> USE SupuestoSemaforos DEF Init
<1>1. TypeOK
  BY EmptySeq DEF TypeOK
<1>2. TraspasoExclusivo /\ TraspasoSinUnidades
  BY DEF TraspasoExclusivo, TraspasoSinUnidades, Despierta
<1>3. NadieDuermeConUnidades
  BY DEF NadieDuermeConUnidades
<1>4. UnidadesConservadas
  BY DEF UnidadesConservadas, EnViaje
<1>5. EsperaUnica
  BY DEF EsperaUnica, EnCola
<1> QED
  BY <1>1, <1>2, <1>3, <1>4, <1>5 DEF Inv

-----------------------------------------------------------------------------
LEMMA InvWaitConcedido ==
  ASSUME Inv, NEW p \in Procesos, NEW s \in Sems,
         ~Espera(p), WaitConcedido(p, s)
  PROVE  Inv'
<1> USE DEF WaitConcedido, Inv
<1>1. /\ auxiliares = <<>>
      /\ \A t \in Sems : sem_semaforos[t] = 0 /\ desbloqueando[t] = Nadie
  BY MutexLibre
<1>2. TypeOK'
  BY DEF TypeOK
<1>3. TraspasoExclusivo'
  BY DEF TraspasoExclusivo, Despierta
<1>4. TraspasoSinUnidades'
  BY <1>1 DEF TraspasoSinUnidades, Despierta
<1>5. NadieDuermeConUnidades'
  BY DEF NadieDuermeConUnidades, TypeOK
<1>6. UnidadesConservadas'
  <2> SUFFICES ASSUME NEW t \in Sems
               PROVE  (valor[t] + concedidos[t] + EnViaje(t)
                         = ValorInicial[t] + signals[t])'
    BY DEF UnidadesConservadas
  <2>1. valor[t] + concedidos[t] + EnViaje(t) = ValorInicial[t] + signals[t]
    BY DEF UnidadesConservadas
  <2>2. TypeOK
    OBVIOUS
  <2>3. CASE t = s
    BY <2>1, <2>2, <2>3, Naturales DEF EnViaje, TypeOK
  <2>4. CASE t # s
    BY <2>1, <2>2, <2>4, Naturales DEF EnViaje, TypeOK
  <2> QED
    BY <2>3, <2>4
<1>7. EsperaUnica'
  BY DEF EsperaUnica, EnCola
<1> QED
  BY <1>2, <1>3, <1>4, <1>5, <1>6, <1>7

LEMMA InvWaitBloquea ==
  ASSUME Inv, NEW p \in Procesos, NEW s \in Sems,
         ~Espera(p), WaitBloquea(p, s)
  PROVE  Inv'
<1> USE DEF WaitBloquea, Tomar, Inv
<1>1. /\ mutex_solicitudes_semaforo = 1
      /\ auxiliares = <<>>
      /\ \A t \in Sems : sem_semaforos[t] = 0 /\ desbloqueando[t] = Nadie
  BY MutexLibre
<1>2. /\ auxiliares' = <<[pid |-> p, sem |-> s]>>
      /\ auxiliares' \in Seq(Solicitud)
      /\ Len(auxiliares') = 1
      /\ auxiliares'[1].pid = p /\ auxiliares'[1].sem = s
  BY <1>1 DEF Solicitud
<1>3. TypeOK'
  BY <1>1, <1>2 DEF TypeOK
<1>4. TraspasoExclusivo'
  BY <1>1, <1>2 DEF TraspasoExclusivo, Despierta
<1>5. TraspasoSinUnidades'
  BY <1>1, <1>2 DEF TraspasoSinUnidades, Despierta
<1>6. NadieDuermeConUnidades'
  BY DEF NadieDuermeConUnidades
<1>7. UnidadesConservadas'
  BY DEF UnidadesConservadas, EnViaje
<1>8. EsperaUnica'
  <2>1. \A t \in Sems : ~EnCola(p, t)
    BY DEF Espera
  <2> QED
    BY <1>1, <1>2, <2>1 DEF EsperaUnica, EnCola
<1> QED
  BY <1>3, <1>4, <1>5, <1>6, <1>7, <1>8

LEMMA InvWaitPcb ==
  ASSUME Inv, NEW p \in Procesos, WaitPcb(p)
  PROVE  Inv'
<1> USE DEF Inv
<1>1. PICK i \in 1..Len(auxiliares) :
        /\ auxiliares[i].pid = p
        /\ auxiliares' = SubSeq(auxiliares, 1, i - 1) \o SubSeq(auxiliares, i + 1, Len(auxiliares))
        /\ solicitudes' = [solicitudes EXCEPT ![auxiliares[i].sem] = Append(@, p)]
        /\ mutex_solicitudes_semaforo' = mutex_solicitudes_semaforo + 1
        /\ UNCHANGED <<valor, sem_semaforos, desbloqueando, concedidos, signals>>
  BY DEF WaitPcb, Soltar
<1>2. i = 1 /\ Len(auxiliares) = 1 /\ auxiliares' = <<>>
  BY <1>1, QuitarUnico DEF TypeOK, TraspasoExclusivo
<1> DEFINE s == auxiliares[1].sem
<1>3. s \in Sems /\ auxiliares[1].pid = p
  <2>1. auxiliares[1] \in Solicitud
    BY <1>2, ElementOfSeq DEF TypeOK
  <2> QED
    BY <1>1, <1>2, <2>1 DEF Solicitud
<1>4. /\ mutex_solicitudes_semaforo = 0
      /\ mutex_solicitudes_semaforo' = 1
      /\ \A t \in Sems : sem_semaforos[t] = 0 /\ desbloqueando[t] = Nadie
      /\ valor[s] = 0
  <2>1. auxiliares # <<>>
    BY <1>2
  <2>2. mutex_solicitudes_semaforo = 0
    BY <2>1 DEF TypeOK, TraspasoExclusivo
  <2>3. \A t \in Sems : ~Despierta(t)
    BY <2>1 DEF TraspasoExclusivo
  <2>4. valor[s] = 0
    BY <1>2 DEF TraspasoSinUnidades
  <2> QED
    BY <1>1, <2>2, <2>3, <2>4 DEF Despierta, TypeOK
<1>5. TypeOK'
  <2>1. solicitudes' \in [Sems -> Seq(Procesos)]
    BY <1>1, <1>2, <1>3, AppendProperties DEF TypeOK
  <2>2. auxiliares' \in Seq(Solicitud)
    BY <1>2, EmptySeq
  <2> QED
    BY <1>1, <1>4, <2>1, <2>2 DEF TypeOK
<1>6. TraspasoExclusivo'
  BY <1>1, <1>2, <1>4 DEF TraspasoExclusivo, Despierta, TypeOK
<1>7. TraspasoSinUnidades'
  BY <1>1, <1>2, <1>4 DEF TraspasoSinUnidades, Despierta, TypeOK
<1>8. NadieDuermeConUnidades'
  BY <1>1, <1>2, <1>3, <1>4 DEF NadieDuermeConUnidades, TypeOK
<1>9. UnidadesConservadas'
  BY <1>1 DEF UnidadesConservadas, EnViaje
<1>10. EsperaUnica'
  <2>1. \A t \in Sems : ~EnCola(p, t)
    BY <1>2, <1>3 DEF EsperaUnica
  <2>2. /\ solicitudes'[s] = Append(solicitudes[s], p)
        /\ \A t \in Sems : t # s => solicitudes'[t] = solicitudes[t]
        /\ \A t \in Sems : solicitudes[t] \in Seq(Procesos)
    BY <1>1, <1>2, <1>3 DEF TypeOK
  <2>3. ASSUME NEW t \in Sems, NEW u \in Sems,
               NEW j \in 1..Len(solicitudes'[t]), NEW k \in 1..Len(solicitudes'[u]),
               solicitudes'[t][j] = solicitudes'[u][k]
        PROVE  t = u /\ j = k
    <3>1. \A v \in Sems : \A m \in 1..Len(solicitudes[v]) : solicitudes[v][m] # p
      BY <2>1 DEF EnCola
    <3>2. ASSUME NEW v \in Sems, NEW m \in 1..Len(solicitudes'[v])
          PROVE  \/ m \in 1..Len(solicitudes[v]) /\ solicitudes'[v][m] = solicitudes[v][m]
                 \/ v = s /\ m = Len(solicitudes[s]) + 1 /\ solicitudes'[v][m] = p
      <4>1. /\ Len(solicitudes'[s]) = Len(solicitudes[s]) + 1
            /\ \A n \in 1..Len(solicitudes[s]) : solicitudes'[s][n] = solicitudes[s][n]
            /\ solicitudes'[s][Len(solicitudes[s]) + 1] = p
            /\ Len(solicitudes[s]) \in Nat
        BY <1>3, <2>2, AppendProperties, LenProperties
      <4>2. CASE v = s
        <5>1. m \in 1..(Len(solicitudes[s]) + 1)
          BY <4>1, <4>2
        <5>2. m \in 1..Len(solicitudes[s]) \/ m = Len(solicitudes[s]) + 1
          BY <4>1, <5>1
        <5> QED
          BY <4>1, <4>2, <5>2
      <4>3. CASE v # s
        BY <2>2, <4>3
      <4> QED
        BY <4>2, <4>3
    <3>3. CASE solicitudes'[t][j] = p
      <4>1. t = s /\ j = Len(solicitudes[s]) + 1
        BY <3>1, <3>2, <3>3
      <4>2. u = s /\ k = Len(solicitudes[s]) + 1
        BY <2>3, <3>1, <3>2, <3>3
      <4> QED
        BY <4>1, <4>2
    <3>4. CASE solicitudes'[t][j] # p
      <4>1. /\ j \in 1..Len(solicitudes[t]) /\ k \in 1..Len(solicitudes[u])
            /\ solicitudes[t][j] = solicitudes[u][k]
        BY <2>3, <3>2, <3>4
      <4> QED
        BY <4>1 DEF EsperaUnica
    <3> QED
      BY <3>3, <3>4
  <2>4. \A t, u \in Sems : ~EnCola(desbloqueando[t], u)'
    <3>1. \A u \in Sems : ~\E j \in 1..Len(solicitudes'[u]) : solicitudes'[u][j] = Nadie
      BY <1>5, SupuestoSemaforos DEF TypeOK
    <3> QED
      BY <1>1, <1>4, <3>1 DEF EnCola
  <2> QED
    BY <1>2, <2>3, <2>4 DEF EsperaUnica
<1> QED
  BY <1>5, <1>6, <1>7, <1>8, <1>9, <1>10

LEMMA InvSignal ==
  ASSUME Inv, NEW s \in Sems, Signal(s)
  PROVE  Inv'
<1> USE DEF Inv
<1>1. /\ mutex_solicitudes_semaforo = 1
      /\ mutex_solicitudes_semaforo' = 0
      /\ auxiliares = <<>>
      /\ \A t \in Sems : sem_semaforos[t] = 0 /\ desbloqueando[t] = Nadie
  BY MutexLibre DEF Signal, Tomar
<1>s. /\ signals' = [signals EXCEPT ![s] = @ + 1]
      /\ UNCHANGED <<solicitudes, auxiliares, desbloqueando, concedidos>>
      /\ \/ /\ valor[s] > 0
            /\ valor' = [valor EXCEPT ![s] = @ + 1]
            /\ UNCHANGED sem_semaforos
         \/ /\ valor[s] = 0
            /\ sem_semaforos' = [sem_semaforos EXCEPT ![s] = @ + 1]
            /\ UNCHANGED valor
  BY DEF Signal
<1>a. ASSUME valor[s] > 0, valor' = [valor EXCEPT ![s] = @ + 1], UNCHANGED sem_semaforos
      PROVE  TypeOK' /\ TraspasoExclusivo' /\ TraspasoSinUnidades'
  <2>1. TypeOK'
    BY <1>1, <1>s, <1>a DEF TypeOK
  <2>2. TraspasoExclusivo' /\ TraspasoSinUnidades'
    BY <1>1, <1>s, <1>a DEF TraspasoExclusivo, TraspasoSinUnidades, Despierta
  <2> QED
    BY <2>1, <2>2
<1>b. ASSUME valor[s] = 0, sem_semaforos' = [sem_semaforos EXCEPT ![s] = @ + 1], UNCHANGED valor
      PROVE  TypeOK' /\ TraspasoExclusivo' /\ TraspasoSinUnidades'
  <2>1. sem_semaforos' = [sem_semaforos EXCEPT ![s] = 1]
    <3>1. sem_semaforos[s] + 1 = 1
      BY <1>1
    <3> QED
      BY <1>b, <3>1
  <2>2. TypeOK'
    BY <1>1, <1>s, <1>b, <2>1 DEF TypeOK
  <2>3. TraspasoExclusivo'
    BY <1>1, <1>s, <1>b, <2>1 DEF TraspasoExclusivo, Despierta, TypeOK
  <2>4. TraspasoSinUnidades'
    BY <1>1, <1>s, <1>b, <2>1 DEF TraspasoSinUnidades, Despierta, TypeOK
  <2> QED
    BY <2>2, <2>3, <2>4
<1>2. TypeOK' /\ TraspasoExclusivo' /\ TraspasoSinUnidades'
  BY <1>s, <1>a, <1>b
<1>5. NadieDuermeConUnidades'
  BY <1>s DEF NadieDuermeConUnidades, TypeOK
<1>6. UnidadesConservadas'
  <2> SUFFICES ASSUME NEW t \in Sems
               PROVE  (valor[t] + concedidos[t] + EnViaje(t)
                         = ValorInicial[t] + signals[t])'
    BY DEF UnidadesConservadas
  <2>1. valor[t] + concedidos[t] + EnViaje(t) = ValorInicial[t] + signals[t]
    BY DEF UnidadesConservadas
  <2>2. TypeOK
    OBVIOUS
  <2>3. CASE t = s
    <3>1. /\ signals'[s] = signals[s] + 1
          /\ valor'[s] + sem_semaforos'[s] = valor[s] + sem_semaforos[s] + 1
      BY <1>s, <2>2, Naturales, SMTT(30) DEF TypeOK
    <3>2. /\ concedidos'[s] = concedidos[s] /\ desbloqueando'[s] = Nadie
          /\ desbloqueando[s] = Nadie
      BY <1>1, <1>s
    <3>3. valor'[s] \in Nat /\ sem_semaforos'[s] \in Nat
      BY <1>2 DEF TypeOK
    <3> QED
      BY <2>1, <2>2, <2>3, <3>1, <3>2, <3>3, Naturales DEF EnViaje
  <2>4. CASE t # s
    BY <1>s, <2>1, <2>4 DEF EnViaje, TypeOK
  <2> QED
    BY <2>3, <2>4
<1>7. EsperaUnica'
  <2>1. /\ solicitudes' = solicitudes /\ auxiliares' = auxiliares
        /\ desbloqueando' = desbloqueando
    BY <1>s
  <2> QED
    BY <2>1 DEF EsperaUnica, EnCola
<1> QED
  BY <1>2, <1>5, <1>6, <1>7

LEMMA InvDesbloquearPcb ==
  ASSUME Inv, NEW s \in Sems, DesbloquearPcb(s)
  PROVE  Inv'
<1> USE DEF Inv
<1> DEFINE p == Head(solicitudes[s])
<1>1. /\ solicitudes[s] \in Seq(Procesos) /\ solicitudes[s] # <<>>
      /\ p \in Procesos /\ p = solicitudes[s][1] /\ 1 \in 1..Len(solicitudes[s])
      /\ p # Nadie
  BY SupuestoSemaforos DEF DesbloquearPcb, TypeOK
<1>2. /\ mutex_solicitudes_semaforo = 0
      /\ auxiliares = <<>>
      /\ sem_semaforos[s] = 1 /\ valor[s] = 0
      /\ \A t \in Sems : t # s => sem_semaforos[t] = 0 /\ desbloqueando[t] = Nadie
  BY DEF DesbloquearPcb, TypeOK, TraspasoExclusivo, TraspasoSinUnidades, Despierta
<1>3. /\ sem_semaforos' = [sem_semaforos EXCEPT ![s] = 0]
      /\ desbloqueando' = [desbloqueando EXCEPT ![s] = p]
      /\ solicitudes' = [solicitudes EXCEPT ![s] = Tail(@)]
      /\ UNCHANGED <<valor, mutex_solicitudes_semaforo, auxiliares, concedidos,
                     signals>>
  BY <1>2 DEF DesbloquearPcb
<1>d. desbloqueando[s] = Nadie
  BY DEF DesbloquearPcb
<1>4. TypeOK'
  BY <1>1, <1>3 DEF TypeOK
<1>5. TraspasoExclusivo'
  BY <1>1, <1>2, <1>3, SMTT(30) DEF TraspasoExclusivo, Despierta, TypeOK
<1>6. TraspasoSinUnidades'
  BY <1>2, <1>3 DEF TraspasoSinUnidades, Despierta, TypeOK
<1>7. NadieDuermeConUnidades'
  BY <1>2, <1>3 DEF NadieDuermeConUnidades, TypeOK
<1>8. UnidadesConservadas'
  <2> SUFFICES ASSUME NEW t \in Sems
               PROVE  (valor[t] + concedidos[t] + EnViaje(t)
                         = ValorInicial[t] + signals[t])'
    BY DEF UnidadesConservadas
  <2>1. valor[t] + concedidos[t] + EnViaje(t) = ValorInicial[t] + signals[t]
    BY DEF UnidadesConservadas
  <2>2. TypeOK
    OBVIOUS
  <2>3. CASE t = s
    BY <1>1, <1>2, <1>3, <1>d, <2>1, <2>2, <2>3, Naturales DEF EnViaje, TypeOK
  <2>4. CASE t # s
    BY <1>1, <1>2, <1>3, <1>d, <2>1, <2>2, <2>4, Naturales DEF EnViaje, TypeOK
  <2> QED
    BY <2>3, <2>4
<1>9. EsperaUnica'
  <2>1. /\ Len(solicitudes'[s]) = Len(solicitudes[s]) - 1
        /\ \A j \in 1..Len(solicitudes'[s]) : solicitudes'[s][j] = solicitudes[s][j+1]
        /\ \A t \in Sems : t # s => solicitudes'[t] = solicitudes[t]
    BY <1>1, <1>3 DEF TypeOK
  <2>2. ASSUME NEW t \in Sems, NEW u \in Sems,
               NEW j \in 1..Len(solicitudes'[t]), NEW k \in 1..Len(solicitudes'[u]),
               solicitudes'[t][j] = solicitudes'[u][k]
        PROVE  t = u /\ j = k
    <3> DEFINE jj == IF t = s THEN j + 1 ELSE j
               kk == IF u = s THEN k + 1 ELSE k
    <3>1. /\ jj \in 1..Len(solicitudes[t]) /\ kk \in 1..Len(solicitudes[u])
          /\ solicitudes[t][jj] = solicitudes[u][kk]
      <4>1. Len(solicitudes[t]) \in Nat /\ Len(solicitudes[u]) \in Nat
        BY LenProperties DEF TypeOK
      <4>2. jj \in 1..Len(solicitudes[t]) /\ solicitudes[t][jj] = solicitudes'[t][j]
        <5>1. CASE t = s
          BY <2>1, <4>1, <5>1
        <5>2. CASE t # s
          BY <2>1, <5>2
        <5> QED
          BY <5>1, <5>2
      <4>3. kk \in 1..Len(solicitudes[u]) /\ solicitudes[u][kk] = solicitudes'[u][k]
        <5>1. CASE u = s
          BY <2>1, <4>1, <5>1
        <5>2. CASE u # s
          BY <2>1, <5>2
        <5> QED
          BY <5>1, <5>2
      <4> QED
        BY <2>2, <4>2, <4>3
    <3>2. t = u /\ jj = kk
      BY <3>1 DEF EsperaUnica
    <3> QED
      BY <3>2
  <2>3. ASSUME NEW t \in Sems, NEW u \in Sems, NEW k \in 1..Len(solicitudes'[u]),
               solicitudes'[u][k] = desbloqueando'[t]
        PROVE  FALSE
    <3>1. CASE t = s
      <4> DEFINE kk == IF u = s THEN k + 1 ELSE k
      <4>1. kk \in 1..Len(solicitudes[u]) /\ solicitudes[u][kk] = solicitudes[s][1]
        BY <1>1, <1>3, <2>1, <2>3, <3>1 DEF TypeOK
      <4>2. u = s /\ kk = 1
        BY <1>1, <4>1 DEF EsperaUnica
      <4> QED
        BY <4>2
    <3>2. CASE t # s
      <4>1. desbloqueando'[t] = Nadie /\ solicitudes'[u][k] \in Procesos
        BY <1>2, <1>3, <1>4, <3>2, SMTT(30) DEF TypeOK
      <4> QED
        BY <2>3, <4>1, SupuestoSemaforos
    <3> QED
      BY <3>1, <3>2
  <2> QED
    BY <1>2, <1>3, <2>2, <2>3 DEF EsperaUnica, EnCola
<1> QED
  BY <1>4, <1>5, <1>6, <1>7, <1>8, <1>9

LEMMA InvAumentarSemaforo ==
  ASSUME Inv, NEW s \in Sems, AumentarSemaforo(s)
  PROVE  Inv'
<1> USE DEF Inv, AumentarSemaforo, Soltar
<1>1. /\ mutex_solicitudes_semaforo = 0
      /\ auxiliares = <<>>
      /\ sem_semaforos[s] = 1 /\ valor[s] = 0
      /\ \A t \in Sems : t # s => sem_semaforos[t] = 0 /\ desbloqueando[t] = Nadie
  <2>1. Despierta(s)
    BY DEF Despierta
  <2>2. mutex_solicitudes_semaforo = 0 /\ auxiliares = <<>>
    BY <2>1 DEF TypeOK, TraspasoExclusivo
  <2>3. sem_semaforos[s] = 1 /\ valor[s] = 0
    BY <2>1 DEF TypeOK, TraspasoExclusivo, TraspasoSinUnidades
  <2>4. \A t \in Sems : t # s => ~Despierta(t)
    BY <2>1 DEF TraspasoExclusivo
  <2> QED
    BY <2>2, <2>3, <2>4 DEF Despierta, TypeOK
<1>2. TypeOK'
  BY <1>1 DEF TypeOK
<1>3. TraspasoExclusivo'
  BY <1>1 DEF TraspasoExclusivo, Despierta, TypeOK
<1>4. TraspasoSinUnidades'
  BY <1>1 DEF TraspasoSinUnidades, Despierta, TypeOK
<1>5. NadieDuermeConUnidades'
  BY DEF NadieDuermeConUnidades, TypeOK
<1>6. UnidadesConservadas'
  <2> SUFFICES ASSUME NEW t \in Sems
               PROVE  (valor[t] + concedidos[t] + EnViaje(t)
                         = ValorInicial[t] + signals[t])'
    BY DEF UnidadesConservadas
  <2>1. valor[t] + concedidos[t] + EnViaje(t) = ValorInicial[t] + signals[t]
    BY DEF UnidadesConservadas
  <2>2. TypeOK
    OBVIOUS
  <2>3. CASE t = s
    BY <1>1, <1>2, <2>1, <2>2, <2>3, Naturales DEF EnViaje, TypeOK
  <2>4. CASE t # s
    BY <1>1, <1>2, <2>1, <2>2, <2>4, Naturales DEF EnViaje, TypeOK
  <2> QED
    BY <2>3, <2>4
<1>7. EsperaUnica'
  BY DEF EsperaUnica, EnCola
<1> QED
  BY <1>2, <1>3, <1>4, <1>5, <1>6, <1>7

LEMMA InvFinDesbloqueo ==
  ASSUME Inv, NEW s \in Sems, FinDesbloqueo(s)
  PROVE  Inv'
<1> USE DEF Inv, FinDesbloqueo, Soltar
<1>1. /\ mutex_solicitudes_semaforo = 0
      /\ auxiliares = <<>>
      /\ \A t \in Sems : sem_semaforos[t] = 0
      /\ \A t \in Sems : t # s => desbloqueando[t] = Nadie
  <2>1. Despierta(s)
    BY DEF Despierta
  <2>2. mutex_solicitudes_semaforo = 0 /\ auxiliares = <<>>
    BY <2>1 DEF TypeOK, TraspasoExclusivo
  <2>3. sem_semaforos[s] = 0
    BY DEF TraspasoExclusivo
  <2>4. \A t \in Sems : t # s => ~Despierta(t)
    BY <2>1 DEF TraspasoExclusivo
  <2>5. ASSUME NEW t \in Sems, t # s
        PROVE  sem_semaforos[t] = 0 /\ desbloqueando[t] = Nadie
    <3>1. sem_semaforos[t] \in Nat
      BY DEF TypeOK
    <3> QED
      BY <2>4, <2>5, <3>1 DEF Despierta
  <2> QED
    BY <2>2, <2>3, <2>5
<1>2. TypeOK'
  BY <1>1 DEF TypeOK
<1>3. TraspasoExclusivo'
  BY <1>1 DEF TraspasoExclusivo, Despierta, TypeOK
<1>4. TraspasoSinUnidades'
  BY <1>1 DEF TraspasoSinUnidades, Despierta, TypeOK
<1>5. NadieDuermeConUnidades'
  BY DEF NadieDuermeConUnidades
<1>6. UnidadesConservadas'
  <2> SUFFICES ASSUME NEW t \in Sems
               PROVE  (valor[t] + concedidos[t] + EnViaje(t)
                         = ValorInicial[t] + signals[t])'
    BY DEF UnidadesConservadas
  <2>1. valor[t] + concedidos[t] + EnViaje(t) = ValorInicial[t] + signals[t]
    BY DEF UnidadesConservadas
  <2>2. TypeOK
    OBVIOUS
  <2>3. CASE t = s
    BY <1>1, <1>2, <2>1, <2>2, <2>3, Naturales DEF EnViaje, TypeOK
  <2>4. CASE t # s
    BY <1>1, <1>2, <2>1, <2>2, <2>4, Naturales DEF EnViaje, TypeOK
  <2> QED
    BY <2>3, <2>4
<1>7. EsperaUnica'
  <2>1. \A t \in Sems : desbloqueando'[t] = Nadie
    BY <1>1 DEF TypeOK
  <2>2. \A u \in Sems : \A j \in 1..Len(solicitudes[u]) : solicitudes[u][j] # Nadie
    BY SupuestoSemaforos, SMTT(30) DEF TypeOK
  <2> QED
    BY <2>1, <2>2 DEF EsperaUnica, EnCola
<1> QED
  BY <1>2, <1>3, <1>4, <1>5, <1>6, <1>7

LEMMA InvPaso == Inv /\ [Next]_vars => Inv'
<1> SUFFICES ASSUME Inv, [Next]_vars PROVE Inv'
  OBVIOUS
<1>1. ASSUME NEW p \in Procesos, NEW s \in Sems,
             ~Espera(p), WaitConcedido(p, s)
      PROVE  Inv'
  BY <1>1, InvWaitConcedido
<1>2. ASSUME NEW p \in Procesos, NEW s \in Sems,
             ~Espera(p), WaitBloquea(p, s)
      PROVE  Inv'
  BY <1>2, InvWaitBloquea
<1>3. ASSUME NEW p \in Procesos, WaitPcb(p) PROVE Inv'
  BY <1>3, InvWaitPcb
<1>4. ASSUME NEW s \in Sems, Signal(s) PROVE Inv'
  BY <1>4, InvSignal
<1>5. ASSUME NEW s \in Sems, DesbloquearPcb(s) PROVE Inv'
  BY <1>5, InvDesbloquearPcb
<1>6. ASSUME NEW s \in Sems, AumentarSemaforo(s) PROVE Inv'
  BY <1>6, InvAumentarSemaforo
<1>7. ASSUME NEW s \in Sems, FinDesbloqueo(s) PROVE Inv'
  BY <1>7, InvFinDesbloqueo
<1>8. CASE UNCHANGED vars
  BY <1>8 DEF vars, Inv, TypeOK, TraspasoExclusivo, TraspasoSinUnidades,
     NadieDuermeConUnidades, UnidadesConservadas, EsperaUnica, Despierta,
     EnViaje, EnCola
<1> QED
  BY <1>1, <1>2, <1>3, <1>4, <1>5, <1>6, <1>7, <1>8 DEF Next

-----------------------------------------------------------------------------
(* The invariants together, from which the theorems below follow.          *)
THEOREM Invariante == Spec => []Inv
  BY InvInicial, InvPaso, PTL DEF Spec

(* The variables keep their types; in particular the mutex handed from     *)
(* atiendo_wait to atiendo_wait_pcb and from atiendo_signal to             *)
(* desbloquear_pcb_semaforo is never posted twice.                         *)
THEOREM TiposCorrectos == Spec => []TypeOK
  BY Invariante, PTL DEF Inv

(* At most one hand-over of mutex_solicitudes_semaforo is going on, and    *)
(* none while it is free.                                                  *)
THEOREM Traspaso == Spec => []TraspasoExclusivo
  BY Invariante, PTL DEF Inv

(* A hand-over is about a semaphore without units: atiendo_wait and        *)
(* atiendo_signal decided on a value that nobody can change since.         *)
THEOREM DecisionVigente == Spec => []TraspasoSinUnidades
  BY Invariante, PTL DEF Inv

(* No process sleeps on a semaphore with units.                            *)
THEOREM SinDormidosConUnidades == Spec => []NadieDuermeConUnidades
  BY Invariante, PTL DEF Inv

(* Units are neither lost nor created by the hand-over between threads.    *)
THEOREM Conservacion == Spec => []UnidadesConservadas
  BY Invariante, PTL DEF Inv

(* A pid waits in one place at most, so one SIGNAL wakes it once.          *)
THEOREM UnaEsperaPorProceso == Spec => []EsperaUnica
  BY Invariante, PTL DEF Inv

-----------------------------------------------------------------------------
(* The refinement: WaitConcedido and WaitBloquea are the abstract Wait,    *)
(* DesbloquearPcb, AumentarSemaforo and a Signal that finds units are the  *)
(* abstract Signal, every other step is a stutter.                         *)
LEMMA SinAuxiliares ==
  ASSUME TypeOK, auxiliares = <<>>
  PROVE  Dormidos = solicitudes
BY DEF Dormidos, TypeOK

LEMMA PasoWaitConcedido ==
  ASSUME Inv, Inv', NEW p \in Procesos, NEW s \in Sems,
         ~Espera(p), WaitConcedido(p, s)
  PROVE  Abstracto!Wait(p, s)
<1>1. auxiliares = <<>> /\ auxiliares' = <<>> /\ solicitudes' = solicitudes
  BY MutexLibre DEF WaitConcedido
<1>2. Dormidos = solicitudes /\ Dormidos' = solicitudes
  BY <1>1 DEF Dormidos, Inv, TypeOK
<1>3. \A t \in Sems : ~Abstracto!Duerme(p, t)
  BY <1>2 DEF Espera, EnCola, Abstracto!Duerme
<1> QED
  BY <1>2, <1>3 DEF WaitConcedido, Abstracto!Wait

LEMMA PasoWaitBloquea ==
  ASSUME Inv, Inv', NEW p \in Procesos, NEW s \in Sems,
         ~Espera(p), WaitBloquea(p, s)
  PROVE  Abstracto!Wait(p, s)
<1>1. auxiliares = <<>> /\ solicitudes' = solicitudes
  BY MutexLibre DEF WaitBloquea, Tomar
<1>2. auxiliares' = <<[pid |-> p, sem |-> s]>>
  BY <1>1 DEF WaitBloquea
<1>3. Dormidos = solicitudes
  BY <1>1, SinAuxiliares DEF Inv
<1>4. /\ auxiliares' # <<>>
      /\ auxiliares'[1].sem = s /\ auxiliares'[1].pid = p
  BY <1>2
<1>5. Dormidos' = [solicitudes EXCEPT ![s] = Append(@, p)]
  <2>1. solicitudes = [t \in Sems |-> solicitudes[t]]
    BY DEF Inv, TypeOK
  <2> QED
    BY <1>1, <1>4, <2>1 DEF Dormidos
<1>6. \A t \in Sems : ~Abstracto!Duerme(p, t)
  BY <1>3 DEF Espera, EnCola, Abstracto!Duerme
<1> QED
  BY <1>3, <1>5, <1>6 DEF WaitBloquea, Abstracto!Wait

LEMMA PasoWaitPcb ==
  ASSUME Inv, Inv', NEW p \in Procesos, WaitPcb(p)
  PROVE  UNCHANGED <<valor, Dormidos>>
<1>1. PICK i \in 1..Len(auxiliares) :
        /\ auxiliares[i].pid = p
        /\ auxiliares' = SubSeq(auxiliares, 1, i - 1) \o SubSeq(auxiliares, i + 1, Len(auxiliares))
        /\ solicitudes' = [solicitudes EXCEPT ![auxiliares[i].sem] = Append(@, p)]
        /\ valor' = valor
  BY DEF WaitPcb
<1>2. i = 1 /\ Len(auxiliares) = 1 /\ auxiliares' = <<>>
  BY <1>1, QuitarUnico DEF Inv, TypeOK, TraspasoExclusivo
<1>3. auxiliares # <<>> /\ auxiliares[1].pid = p
  BY <1>1, <1>2
<1>4. Dormidos' = solicitudes'
  BY <1>2 DEF Dormidos, Inv, TypeOK
<1>5. solicitudes = [t \in Sems |-> solicitudes[t]]
  BY DEF Inv, TypeOK
<1>6. Dormidos = [solicitudes EXCEPT ![auxiliares[1].sem] = Append(@, p)]
  BY <1>3, <1>5 DEF Dormidos
<1> QED
  BY <1>1, <1>2, <1>4, <1>6

LEMMA PasoSignal ==
  ASSUME Inv, Inv', NEW s \in Sems, Signal(s)
  PROVE  Abstracto!Signal(s) \/ UNCHANGED <<valor, Dormidos>>
<1>1. auxiliares = <<>> /\ auxiliares' = <<>> /\ solicitudes' = solicitudes
  BY MutexLibre DEF Signal, Tomar
<1>2. Dormidos = solicitudes /\ Dormidos' = solicitudes
  BY <1>1 DEF Dormidos, Inv, TypeOK
<1>3. valor[s] > 0 => solicitudes[s] = <<>>
  BY DEF Inv, NadieDuermeConUnidades
<1> QED
  BY <1>2, <1>3 DEF Signal, Abstracto!Signal

LEMMA PasoDesbloquearPcb ==
  ASSUME Inv, Inv', NEW s \in Sems, DesbloquearPcb(s)
  PROVE  Abstracto!Signal(s)
<1>1. Despierta(s)
  BY DEF DesbloquearPcb, Despierta
<1>2. auxiliares = <<>> /\ auxiliares' = <<>>
  BY <1>1 DEF DesbloquearPcb, Inv, TraspasoExclusivo
<1>3. Dormidos = solicitudes /\ Dormidos' = solicitudes'
  BY <1>2 DEF Dormidos, Inv, TypeOK
<1> QED
  BY <1>3 DEF DesbloquearPcb, Abstracto!Signal

LEMMA PasoAumentarSemaforo ==
  ASSUME Inv, Inv', NEW s \in Sems, AumentarSemaforo(s)
  PROVE  Abstracto!Signal(s)
<1>1. Despierta(s)
  BY DEF AumentarSemaforo, Despierta
<1>2. auxiliares = <<>> /\ auxiliares' = <<>>
  BY <1>1 DEF AumentarSemaforo, Inv, TraspasoExclusivo
<1>3. Dormidos = solicitudes /\ Dormidos' = solicitudes'
  BY <1>2 DEF Dormidos, Inv, TypeOK
<1> QED
  BY <1>3 DEF AumentarSemaforo, Abstracto!Signal

LEMMA PasoAbstracto ==
  Inv /\ Inv' /\ [Next]_vars => [Abstracto!Next]_(Abstracto!vars)
<1> SUFFICES ASSUME Inv, Inv', [Next]_vars
             PROVE  [Abstracto!Next]_(Abstracto!vars)
  OBVIOUS
<1> USE DEF Abstracto!Next, Abstracto!vars
<1>1. ASSUME NEW p \in Procesos, NEW s \in Sems,
         ~Espera(p), WaitConcedido(p, s)
      PROVE  Abstracto!Next
  BY <1>1, PasoWaitConcedido
<1>2. ASSUME NEW p \in Procesos, NEW s \in Sems,
         ~Espera(p), WaitBloquea(p, s)
      PROVE  Abstracto!Next
  BY <1>2, PasoWaitBloquea
<1>3. ASSUME NEW p \in Procesos, WaitPcb(p) PROVE UNCHANGED Abstracto!vars
  BY <1>3, PasoWaitPcb
<1>4. ASSUME NEW s \in Sems, Signal(s) PROVE [Abstracto!Next]_(Abstracto!vars)
  BY <1>4, PasoSignal
<1>5. ASSUME NEW s \in Sems, DesbloquearPcb(s) PROVE Abstracto!Next
  BY <1>5, PasoDesbloquearPcb
<1>6. ASSUME NEW s \in Sems, AumentarSemaforo(s) PROVE Abstracto!Next
  BY <1>6, PasoAumentarSemaforo
<1>7. ASSUME NEW s \in Sems, FinDesbloqueo(s) PROVE UNCHANGED Abstracto!vars
  BY <1>7 DEF FinDesbloqueo, Dormidos
<1>8. CASE UNCHANGED vars
  BY <1>8 DEF vars, Dormidos
<1> QED
  BY <1>1, <1>2, <1>3, <1>4, <1>5, <1>6, <1>7, <1>8 DEF Next

(* The code of the semaphores implements FIFO counting semaphores.         *)
THEOREM Refinamiento == Spec => ImplementaAbstracto
<1>1. Init => Abstracto!Init
  BY DEF Init, Abstracto!Init, Dormidos
<1> QED
  BY <1>1, PasoAbstracto, Invariante, PTL DEF Spec, Abstracto!Spec, ImplementaAbstracto
=============================================================================
