-------------------------- MODULE SistemaPruebas --------------------------
(***************************************************************************)
(* Proofs about the Nucleo with its CPUs and consoles, for every set of    *)
(* consoles, CPUs, devices and semaphores, every QUANTUM, every program    *)
(* and any mix of ^C, SIGUSR1 and SIGINT.                                  *)
(***************************************************************************)
EXTENDS Sistema, SequenceTheorems, FiniteSetTheorems, WellFoundedInduction, TLAPS

(* The pids crear_PCB gave.                                                *)
Usados == 1..(pid_count - 1)
UsadoONulo == Usados \cup {NULO}
Colas == {"new", "ready", "exec", "block", "exit"}

-----------------------------------------------------------------------------
(* Types.                                                                  *)
MensajesDeCpu ==
  [id : {"HANDSHAKE", "DESCONEXION"}, pid : {NULO}, arg : {NULO}]
    \cup [id : {"WAIT", "SIGNAL"}, pid : Usados, arg : Sems]
    \cup [id : {"ENTRADA_SALIDA"}, pid : Usados, arg : Dispositivos]
    \cup [id : IdsConPcb \cup {"IMPRIMIR"}, pid : Usados, arg : {NULO}]
MensajesACpu ==
  [id : {"PCB"}, pid : Usados] \cup [id : {"MATAR", "WAIT", "SEGUI_RAFAGA"}, pid : {NULO}]
MensajesAUmc == [id : {"INICIALIZAR", "MATAR", "FINALIZAR"}, pid : Usados]

TiposCanales ==
  /\ escenario \in Escenarios
  /\ pcb \in [Pids -> [consola : Consolas \cup {NULO}, pc : Nat]]
  /\ \A p \in Usados : pcb[p].consola \in DOMAIN escenario.programa
  /\ consola \in [Consolas -> {"apagada", "avisada", "viva", "terminando", "cerrada"}]
  /\ deConsola \in [Consolas -> Seq({"INICIAR", "MATAR", "PROGRAMA_FINALIZADO"})]
  /\ deCpu \in [Cpus -> Seq(MensajesDeCpu)]
  /\ aCpu \in [Cpus -> Seq(MensajesACpu)]
  /\ aUmc \subseteq MensajesAUmc

(* The places where a thread has no process, or perhaps the NULL of a      *)
(* search, and those where it has one.                                     *)
SinProceso == {"libre", "sacar_ready", "tomar_exec", "poner_exec", "matar_exit",
               "matar_trabado", "es_ready", "es_estado", "sem_estado", "sem_ready",
               "matado_exit", "matado_lista"}
ConProceso == {"iniciar", "matar_programa", "matar_cola", "inicializado_ready",
               "inicializado_estado", "error_lista", "finalizado_lista", "quantum_lista",
               "quantum_ready", "quantum_cpu", "fin_exit", "fin_lista", "fin_cpu", "es_block",
               "es_lista", "wait_block", "wait_lista", "wait_cpu", "wait_solicitud",
               "desconexion_ready", "desconexion_lista", "desconexion_cpu", "sigint_exec",
               "sigint_exit", "sigint_trabado", "enviar_pcb", "es_termina", "sem_block"}
Puntos == SinProceso \cup ConProceso
FilaUsada == [pid : Usados, estado : Estados, consola : Consolas,
              cpu : Cpus \cup {NULO}, original : BOOLEAN]
HiloTipo == [pc : Puntos, pid : UsadoONulo,
             dato : Cpus \cup {NULO, "ready", "new", "block"}]

TiposCola ==
  /\ DOMAIN cola = Colas \cup {"cpus"}
  /\ \A q \in Colas : cola[q] \in Seq(UsadoONulo)
  /\ cola.cpus \in Seq(Cpus)
TiposHilo ==
  /\ hilo \in [Hilos -> HiloTipo]
  /\ \A h \in Hilos : hilo[h].pc \in ConProceso => hilo[h].pid \in Usados
  /\ \A h \in Hilos : hilo[h].pc = "matar_cola" => hilo[h].dato \in {"ready", "new", "block"}
  /\ hilo[HiloExec].pc # "libre" => hilo[HiloExec].dato \in Cpus
TiposNucleo ==
  /\ lista_procesos \in Seq(FilaUsada)
  /\ pid_count \in Nat \ {0}
  /\ cuenta \in [{"ready", "cpu", "block", "matar"} -> Nat]
  /\ solicitudes_es \in [Dispositivos -> Seq(Usados)]
  /\ mutex \subseteq {"lista", "ready", "exec", "block", "exit"}
  /\ impreso \subseteq Usados \X (Consolas \cup {NULO})
  /\ solicitudes \in [Sems -> Seq(Usados)]

Banderas == Range(Prioridad)
CpuTipo ==
  [proceso : {"apagado", "conectando", "vivo", "cerrado"}, pid : UsadoONulo,
   quantum : 0..Quantum, hilo : {"no", "bucle", "espera", "sale", "trabado"},
   banderas : SUBSET Banderas, ocupada : BOOLEAN, terminadas : Nat, envios : Nat,
   muertes : Nat, enviado : IdsConPcb \cup {NULO},
   io : Seq([id : {"ENTRADA_SALIDA"}, pid : Usados, arg : Dispositivos]),
   ioFin : Nat, senial : {"no", "decide", "espera", "fin"}]
TiposCpu ==
  /\ cpu \in [Cpus -> CpuTipo]
  /\ \A c \in Cpus : cpu[c].hilo # "no" => cpu[c].pid \in Usados
  /\ \A c \in Cpus : cpu[c].hilo = "espera" => cpu[c].quantum > 0

Tipos == TiposCanales /\ TiposCola /\ TiposHilo /\ TiposNucleo /\ TiposCpu

-----------------------------------------------------------------------------
(* Each console sends one INICIAR, so there is a pid for every one.        *)
PorIniciar ==
  {k \in Consolas : consola[k] \in {"apagada", "avisada"} \/ Contains(deConsola[k], "INICIAR")}
UnaVez(s, x) == \A i, j \in 1..Len(s) : s[i] = x /\ s[j] = x => i = j
PidsContados ==
  /\ Cardinality(PorIniciar) + pid_count <= Cardinality(Consolas) + 1
  /\ \A k \in Consolas :
       /\ consola[k] \in {"apagada", "avisada"} => ~Contains(deConsola[k], "INICIAR")
       /\ UnaVez(deConsola[k], "INICIAR")
       /\ deConsola[k] # <<>> => k \in DOMAIN escenario.programa

(* mutex_lista_procesos is held across steps by one thread at most.        *)
ConLista == {"matar_programa", "matar_cola", "matar_exit", "matar_trabado",
             "sigint_exec", "sigint_exit", "sigint_trabado"}
ListaTomada ==
  /\ \A h \in Hilos : hilo[h].pc \in ConLista => "lista" \in mutex
  /\ \A g, h \in Hilos : hilo[g].pc \in ConLista /\ hilo[h].pc \in ConLista => g = h

(* The places of a process, as facts about each of them.                   *)
EnMano(h, p) == hilo[h].pid = p /\ hilo[h].pc \in Manos
Lugares(p) ==
  /\ \A q \in Colas : UnaVez(cola[q], p)
  /\ \A q, r \in Colas : Contains(cola[q], p) /\ Contains(cola[r], p) => q = r
  /\ \A q \in Colas, h \in Hilos : Contains(cola[q], p) => ~EnMano(h, p)
  /\ \A g, h \in Hilos : EnMano(g, p) /\ EnMano(h, p) => g = h
UnLugar == \A p \in Usados : ~Arrebatado(p) => Lugares(p)

(* The right to execute in a CPU is a token: it is in one place.           *)
IdsFicha == IdsConPcb \cup {"HANDSHAKE"}
ConCpu == {"quantum_lista", "quantum_ready", "quantum_cpu", "fin_exit", "fin_lista",
           "fin_cpu", "es_block", "wait_block", "wait_lista", "wait_cpu",
           "desconexion_ready", "desconexion_lista", "desconexion_cpu"}
HayId(s, I) == \E i \in 1..Len(s) : s[i].id \in I
UnId(s, I) == \A i, j \in 1..Len(s) : s[i].id \in I /\ s[j].id \in I => i = j
FichaEnDe(c) == HayId(deCpu[c], IdsFicha)
FichaEnA(c) == HayId(aCpu[c], {"PCB"})
FichaLibre(c) == Contains(cola.cpus, c)
FichaEnExec(c) == hilo[HiloExec].pc # "libre" /\ hilo[HiloExec].dato = c
FichaEnCpu(c) == cpu[c].hilo # "no"
FichaEnHilo(c) == hilo[c].pc \in ConCpu
FichaPorNacer(c) == cpu[c].proceso = "apagado"
UnaFicha(c) ==
  /\ UnId(deCpu[c], IdsFicha) /\ UnId(aCpu[c], {"PCB"})
  /\ UnaVez(cola.cpus, c)
  /\ FichaEnDe(c) => ~FichaEnA(c) /\ ~FichaLibre(c) /\ ~FichaEnExec(c) /\ ~FichaEnCpu(c)
                     /\ ~FichaEnHilo(c) /\ ~FichaPorNacer(c)
  /\ FichaEnA(c) => ~FichaLibre(c) /\ ~FichaEnExec(c) /\ ~FichaEnCpu(c)
                    /\ ~FichaEnHilo(c) /\ ~FichaPorNacer(c)
  /\ FichaLibre(c) => ~FichaEnExec(c) /\ ~FichaEnCpu(c) /\ ~FichaEnHilo(c)
                      /\ ~FichaPorNacer(c)
  /\ FichaEnExec(c) => ~FichaEnCpu(c) /\ ~FichaEnHilo(c) /\ ~FichaPorNacer(c)
  /\ FichaEnCpu(c) => ~FichaEnHilo(c) /\ ~FichaPorNacer(c)
  /\ FichaEnHilo(c) => ~FichaPorNacer(c)
CpuUnica == \A c \in Cpus : UnaFicha(c)

(* The processes that execute, with the one about to be sent.              *)
HayPcb(s, I, p) == \E i \in 1..Len(s) : s[i].id \in I /\ s[i].pid = p
Ejecuta(c, p) ==
  \/ HayPcb(aCpu[c], {"PCB"}, p)
  \/ cpu[c].hilo # "no" /\ cpu[c].pid = p
  \/ HayPcb(deCpu[c], IdsConPcb, p)
  \/ hilo[HiloExec].pc = "enviar_pcb" /\ hilo[HiloExec].dato = c /\ hilo[HiloExec].pid = p
EjecucionPropia ==
  /\ \A c, d \in Cpus, p \in Usados : Ejecuta(c, p) /\ Ejecuta(d, p) => c = d
  /\ \A c \in Cpus, p \in Usados : Ejecuta(c, p) => Contains(cola.exec, p) \/ Arrebatado(p)

Exclusion == ListaTomada /\ UnLugar /\ CpuUnica /\ EjecucionPropia


-----------------------------------------------------------------------------
(* Sequences.  A set of naturals that is not empty has a first one.        *)
LEMMA Minimo ==
  ASSUME NEW S \in SUBSET Nat, S # {}
  PROVE  Min(S) \in S
<1>1. PICK n \in S : TRUE
  OBVIOUS
<1> DEFINE T == {0..i : i \in {j \in S : j <= n}}
<1>2. IsWellFoundedOn(StrictSubsetOrdering(0..n), SUBSET (0..n))
  <2>1. IsFiniteSet(0..n)
    BY FS_Interval
  <2> QED
    BY <2>1, FS_StrictSubsetOrderingWellFounded, FS_FiniteSubsetsOfFinite
<1>3. T \subseteq SUBSET (0..n) /\ T # {}
  OBVIOUS
<1> HIDE DEF T
<1>4. PICK x \in T : \A y \in T : <<y, x>> \notin StrictSubsetOrdering(0..n)
  BY <1>2, <1>3, WFMin
<1>5. PICK i \in S : i <= n /\ x = 0..i
  BY DEF T
<1>6. \A j \in S : i <= j
  <2> SUFFICES ASSUME NEW j \in S, j < i
               PROVE  FALSE
    OBVIOUS
  <2>1. 0..j \in T /\ 0..j \subseteq 0..n /\ 0..i \subseteq 0..n
    BY <1>5 DEF T
  <2>2. 0..j # 0..i /\ 0..j \subseteq 0..i
    <3>1. i \in 0..i /\ i \notin 0..j
      OBVIOUS
    <3> QED
      BY <3>1
  <2> QED
    BY <1>4, <1>5, <2>1, <2>2 DEF StrictSubsetOrdering
<1>7. \E x1 \in S : \A y \in S : x1 <= y
  BY <1>6
<1> QED
  BY <1>7 DEF Min

(* RemoveAt: an element less, and the others in their order.               *)
LEMMA SinUno ==
  ASSUME NEW S, NEW s \in Seq(S), NEW k \in 1..Len(s)
  PROVE  /\ RemoveAt(s, k) \in Seq(S)
         /\ Len(RemoveAt(s, k)) = Len(s) - 1
         /\ \A m \in 1..(Len(s) - 1) : RemoveAt(s, k)[m] = s[IF m < k THEN m ELSE m + 1]
<1> DEFINE t == RemoveAt(s, k)
           antes == SubSeq(s, 1, k - 1)
           despues == SubSeq(s, k + 1, Len(s))
<1>0. Len(s) \in Nat /\ \A m \in 1..Len(s) : s[m] \in S
  BY LenProperties, ElementOfSeq
<1>1. /\ antes \in Seq(S) /\ Len(antes) = k - 1
      /\ \A m \in 1..(k - 1) : antes[m] = s[m]
  BY <1>0, SubSeqProperties
<1>2. /\ despues \in Seq(S) /\ Len(despues) = Len(s) - k
      /\ \A m \in 1..(Len(s) - k) : despues[m] = s[m + k]
  BY <1>0, SubSeqProperties
<1> HIDE DEF antes, despues
<1>3. t = antes \o despues
  BY DEF RemoveAt, antes, despues
<1>4. /\ t \in Seq(S) /\ Len(t) = Len(antes) + Len(despues)
      /\ \A m \in 1..(Len(antes) + Len(despues)) :
           t[m] = IF m <= Len(antes) THEN antes[m] ELSE despues[m - Len(antes)]
  <2>1. antes \in Seq(S) /\ despues \in Seq(S)
    BY <1>1, <1>2
  <2> QED
    BY <2>1, <1>3, ConcatProperties, ZenonT(30)
<1> HIDE DEF t
<1>5. Len(antes) + Len(despues) = Len(s) - 1
  BY <1>0, <1>1, <1>2
<1>6. ASSUME NEW m \in 1..(Len(s) - 1)
      PROVE  t[m] = s[IF m < k THEN m ELSE m + 1]
  <2>1. CASE m < k
    <3>1. m <= Len(antes) /\ antes[m] = s[m]
      BY <1>0, <1>1, <2>1
    <3> QED
      BY <1>4, <1>5, <2>1, <3>1
  <2>2. CASE ~(m < k)
    <3>1. m - (k - 1) \in 1..(Len(s) - k) /\ m - (k - 1) + k = m + 1
      BY <1>0, <2>2
    <3>2. despues[m - (k - 1)] = s[m + 1]
      BY <3>1, <1>2
    <3>3. ~(m <= Len(antes)) /\ t[m] = despues[m - (k - 1)]
      BY <1>0, <1>1, <1>4, <1>5, <2>2
    <3> QED
      BY <2>2, <3>2, <3>3
  <2> QED
    BY <2>1, <2>2
<1> QED
  BY <1>4, <1>5, <1>6 DEF t

(* RemoveFirst, queue_pop_pid: it takes out one occurrence, if there is    *)
(* one, and moves nothing else in or out.                                  *)
LEMMA SinPrimero ==
  ASSUME NEW S, NEW s \in Seq(S), NEW e
  PROVE  /\ RemoveFirst(s, e) \in Seq(S)
         /\ Len(RemoveFirst(s, e)) = IF Contains(s, e) THEN Len(s) - 1 ELSE Len(s)
         /\ ~Contains(s, e) => RemoveFirst(s, e) = s
         /\ \A x : Contains(RemoveFirst(s, e), x) => Contains(s, x)
         /\ \A x : x # e /\ Contains(s, x) => Contains(RemoveFirst(s, e), x)
         /\ \A x : UnaVez(s, x) => UnaVez(RemoveFirst(s, e), x)
         /\ UnaVez(s, e) => ~Contains(RemoveFirst(s, e), e)
<1> DEFINE n == Len(s)
           I == {i \in 1..n : s[i] = e}
           t == RemoveFirst(s, e)
<1>1. n \in Nat /\ I \in SUBSET Nat
  BY LenProperties
<1>2. CASE I = {}
  <2>1. ~Contains(s, e) /\ t = s
    BY <1>2 DEF Contains, RemoveFirst
  <2> QED
    BY <2>1
<1>3. CASE I # {}
  <2> DEFINE k == Min(I)
  <2>1. k \in I
    BY <1>1, <1>3, Minimo
  <2>2. t = RemoveAt(s, k) /\ Contains(s, e)
    BY <1>3 DEF RemoveFirst, SelectInSeq, Contains
  <2> HIDE DEF k
  <2>3. k \in 1..n /\ s[k] = e
    BY <2>1
  <2> HIDE DEF I, t
  <2>4. /\ t \in Seq(S) /\ Len(t) = n - 1
        /\ \A m \in 1..(n - 1) : t[m] = s[IF m < k THEN m ELSE m + 1]
    BY <2>2, <2>3, SinUno
  <2> DEFINE j(m) == IF m < k THEN m ELSE m + 1
  <2>5. \A m \in 1..(n - 1) : j(m) \in 1..n /\ j(m) # k /\ t[m] = s[j(m)]
    BY <1>1, <2>3, <2>4
  <2>6. \A l, m \in 1..(n - 1) : j(l) = j(m) => l = m
    BY <1>1, <2>3
  <2>7. \A i \in 1..n : i # k => \E m \in 1..(n - 1) : j(m) = i
    <3> SUFFICES ASSUME NEW i \in 1..n, i # k
                 PROVE  \E m \in 1..(n - 1) : j(m) = i
      OBVIOUS
    <3>1. CASE i < k
      <4>1. i \in 1..(n - 1) /\ j(i) = i
        BY <1>1, <2>3, <3>1
      <4> QED
        BY <4>1
    <3>2. CASE i > k
      <4>1. i - 1 \in 1..(n - 1) /\ j(i - 1) = i
        BY <1>1, <2>3, <3>2
      <4> QED
        BY <4>1
    <3> QED
      BY <1>1, <2>3, <3>1, <3>2
  <2> HIDE DEF j, n
  <2>8. Len(t) = n - 1 /\ Len(s) = n
    BY <2>4 DEF n
  <2>9. \A x : Contains(t, x) => Contains(s, x)
    BY <2>5, <2>8 DEF Contains
  <2>10. \A x : x # e /\ Contains(s, x) => Contains(t, x)
    BY <2>3, <2>5, <2>7, <2>8 DEF Contains
  <2>11. \A x : UnaVez(s, x) => UnaVez(t, x)
    BY <2>5, <2>6, <2>8 DEF UnaVez
  <2>12. UnaVez(s, e) => ~Contains(t, e)
    BY <2>3, <2>5, <2>8 DEF UnaVez, Contains
  <2> QED
    BY <2>2, <2>4, <2>8, <2>9, <2>10, <2>11, <2>12 DEF t
<1> QED
  BY <1>2, <1>3

LEMMA ConUltimo ==
  ASSUME NEW S, NEW s \in Seq(S), NEW e \in S
  PROVE  /\ Append(s, e) \in Seq(S)
         /\ Len(Append(s, e)) = Len(s) + 1 /\ Len(s) \in Nat
         /\ \A x : Contains(Append(s, e), x) <=> Contains(s, x) \/ x = e
         /\ \A x : UnaVez(s, x) /\ (x = e => ~Contains(s, x)) => UnaVez(Append(s, e), x)
         /\ \A I : HayId(Append(s, e), I) <=> HayId(s, I) \/ e.id \in I
         /\ \A I : UnId(s, I) /\ (e.id \in I => ~HayId(s, I)) => UnId(Append(s, e), I)
         /\ \A I, p : HayPcb(Append(s, e), I, p) <=> HayPcb(s, I, p) \/ (e.id \in I /\ e.pid = p)
<1> DEFINE n == Len(s)
           t == Append(s, e)
<1>1. /\ n \in Nat /\ t \in Seq(S) /\ Len(t) = n + 1
      /\ \A i \in 1..n : t[i] = s[i]
      /\ t[n + 1] = e
  BY AppendProperties, LenProperties
<1>2. /\ 1..Len(t) = (1..n) \cup {n + 1} /\ 1..Len(s) = 1..n
      /\ n + 1 \notin 1..n
  BY <1>1
<1> HIDE DEF n, t
<1> DEFINE m == n + 1
<1>0. /\ 1..Len(t) = 1..Len(s) \cup {m} /\ m \notin 1..Len(s)
      /\ \A i \in 1..Len(s) : t[i] = s[i]
      /\ t[m] = e
  BY <1>1, <1>2
<1> HIDE DEF m
<1>3. \A x : Contains(t, x) <=> Contains(s, x) \/ x = e
  BY <1>0 DEF Contains
<1>4. \A x : UnaVez(s, x) /\ (x = e => ~Contains(s, x)) => UnaVez(t, x)
  BY <1>0 DEF UnaVez, Contains
<1>5. \A I : HayId(t, I) <=> HayId(s, I) \/ e.id \in I
  BY <1>0 DEF HayId
<1>6. \A I : UnId(s, I) /\ (e.id \in I => ~HayId(s, I)) => UnId(t, I)
  BY <1>0 DEF UnId, HayId
<1>7. \A I, p : HayPcb(t, I, p) <=> HayPcb(s, I, p) \/ (e.id \in I /\ e.pid = p)
  BY <1>0 DEF HayPcb
<1> QED
  BY <1>1, <1>3, <1>4, <1>5, <1>6, <1>7 DEF n, t

LEMMA SinCabeza ==
  ASSUME NEW S, NEW s \in Seq(S), s # <<>>
  PROVE  /\ Tail(s) \in Seq(S) /\ Head(s) \in S
         /\ Len(s) \in Nat \ {0} /\ Len(Tail(s)) = Len(s) - 1
         /\ Contains(s, Head(s))
         /\ \A x : Contains(s, x) <=> Contains(Tail(s), x) \/ x = Head(s)
         /\ \A x : UnaVez(s, x) => UnaVez(Tail(s), x)
         /\ UnaVez(s, Head(s)) => ~Contains(Tail(s), Head(s))
         /\ \A I : HayId(s, I) <=> HayId(Tail(s), I) \/ Head(s).id \in I
         /\ \A I : UnId(s, I) => UnId(Tail(s), I) /\ (Head(s).id \in I => ~HayId(Tail(s), I))
         /\ \A I, p : HayPcb(s, I, p) <=> HayPcb(Tail(s), I, p)
                                           \/ (Head(s).id \in I /\ Head(s).pid = p)
<1> DEFINE n == Len(s)
           t == Tail(s)
           e == Head(s)
<1>1. /\ n \in Nat \ {0} /\ t \in Seq(S) /\ e \in S /\ Len(t) = n - 1
      /\ \A i \in 1..(n - 1) : t[i] = s[i + 1]
      /\ e = s[1]
  BY HeadTailProperties, EmptySeq
<1>2. /\ 1..Len(t) = 1..(n - 1) /\ 1..Len(s) = 1..n
      /\ 1 \in 1..n
      /\ \A i \in 1..(n - 1) : i + 1 \in 1..n /\ i + 1 # 1
      /\ \A i \in 1..n : i = 1 \/ (i - 1 \in 1..(n - 1) /\ (i - 1) + 1 = i)
      /\ \A i, j \in 1..(n - 1) : i + 1 = j + 1 => i = j
  BY <1>1
<1> HIDE DEF n, t, e
<1>0. /\ 1 \in 1..Len(s) /\ s[1] = e
      /\ \A i \in 1..Len(t) : \E j \in 1..Len(s) : j # 1 /\ s[j] = t[i]
      /\ \A j \in 1..Len(s) : j = 1 \/ \E i \in 1..Len(t) : t[i] = s[j]
  <2>1. \A i \in 1..Len(t) : i + 1 \in 1..Len(s) /\ i + 1 # 1 /\ s[i + 1] = t[i]
    BY <1>1, <1>2
  <2>2. \A j \in 1..Len(s) : j = 1 \/ (j - 1 \in 1..Len(t) /\ t[j - 1] = s[j])
    BY <1>1, <1>2
  <2> QED
    BY <1>1, <1>2, <2>1, <2>2
<1>3. Contains(s, e)
  BY <1>0 DEF Contains
<1>4. \A x : Contains(s, x) <=> Contains(t, x) \/ x = e
  BY <1>0 DEF Contains
<1>5. \A x : UnaVez(s, x) => UnaVez(t, x)
  <2> SUFFICES ASSUME NEW x, UnaVez(s, x), NEW i \in 1..Len(t), NEW j \in 1..Len(t),
                      t[i] = x, t[j] = x
               PROVE  i = j
    BY DEF UnaVez
  <2>1. /\ i + 1 \in 1..Len(s) /\ j + 1 \in 1..Len(s)
        /\ s[i + 1] = x /\ s[j + 1] = x
    BY <1>1, <1>2
  <2>2. i + 1 = j + 1
    BY <2>1 DEF UnaVez
  <2> QED
    BY <1>2, <2>2
<1>6. UnaVez(s, e) => ~Contains(t, e)
  BY <1>0 DEF UnaVez, Contains
<1>7. \A I : HayId(s, I) <=> HayId(t, I) \/ e.id \in I
  BY <1>0 DEF HayId
<1>8. \A I : UnId(s, I) => UnId(t, I) /\ (e.id \in I => ~HayId(t, I))
  <2>1. ASSUME NEW I, UnId(s, I), NEW i \in 1..Len(t), NEW j \in 1..Len(t),
               t[i].id \in I, t[j].id \in I
        PROVE  i = j
    <3>1. /\ i + 1 \in 1..Len(s) /\ j + 1 \in 1..Len(s)
          /\ s[i + 1].id \in I /\ s[j + 1].id \in I
      BY <1>1, <1>2, <2>1
    <3>2. i + 1 = j + 1
      BY <2>1, <3>1 DEF UnId
    <3> QED
      BY <1>2, <3>2
  <2>2. \A I : UnId(s, I) /\ e.id \in I => ~HayId(t, I)
    BY <1>0 DEF UnId, HayId
  <2> QED
    BY <2>1, <2>2 DEF UnId
<1>9. ASSUME NEW I, NEW p
      PROVE  HayPcb(s, I, p) <=> HayPcb(t, I, p) \/ (e.id \in I /\ e.pid = p)
  <2>1. HayPcb(t, I, p) => HayPcb(s, I, p)
    BY <1>0 DEF HayPcb
  <2>2. e.id \in I /\ e.pid = p => HayPcb(s, I, p)
    BY <1>0 DEF HayPcb
  <2>3. HayPcb(s, I, p) => HayPcb(t, I, p) \/ (e.id \in I /\ e.pid = p)
    <3> SUFFICES ASSUME NEW j \in 1..Len(s), s[j].id \in I, s[j].pid = p, j # 1
                 PROVE  HayPcb(t, I, p)
      BY <1>0 DEF HayPcb
    <3>1. \E i \in 1..Len(t) : t[i] = s[j]
      BY <1>0
    <3> QED
      BY <3>1 DEF HayPcb
  <2> QED
    BY <2>1, <2>2, <2>3
<1> QED
  BY <1>1, <1>3, <1>4, <1>5, <1>6, <1>7, <1>8, <1>9 DEF n, t, e

-----------------------------------------------------------------------------
(* Identifiers, threads and constants.                                     *)
LEMMA Banderines ==
  Banderas = {"entrada_salida", "wait_nucleo", "matar_proceso", "fin_proceso",
              "excepcion_umc", "matar_cpu", "matar_cpu_sigint"}
<1>1. /\ Len(Prioridad) = 7 /\ DOMAIN Prioridad = 1..7
      /\ Prioridad[1] = "entrada_salida" /\ Prioridad[2] = "wait_nucleo"
      /\ Prioridad[3] = "matar_proceso" /\ Prioridad[4] = "fin_proceso"
      /\ Prioridad[5] = "excepcion_umc" /\ Prioridad[6] = "matar_cpu"
      /\ Prioridad[7] = "matar_cpu_sigint"
  BY DEF Prioridad
<1>2. 1..7 = {1, 2, 3, 4, 5, 6, 7}
  OBVIOUS
<1> QED
  BY <1>1, <1>2 DEF Banderas, Range

LEMMA Mensajes ==
  IdsConPcb = {"ENTRADA_SALIDA_PCB", "WAIT_PCB", "RESPUESTA_MATAR", "PROGRAMA_FINALIZADO",
               "EXCEPCION_UMC", "MATAR_CPU", "SIGINT", "QUANTUM"}
<1>1. /\ DOMAIN IdDe = {"entrada_salida", "wait_nucleo", "matar_proceso", "fin_proceso",
                        "excepcion_umc", "matar_cpu", "matar_cpu_sigint"}
      /\ IdDe["entrada_salida"] = "ENTRADA_SALIDA_PCB" /\ IdDe["wait_nucleo"] = "WAIT_PCB"
      /\ IdDe["matar_proceso"] = "RESPUESTA_MATAR"
      /\ IdDe["fin_proceso"] = "PROGRAMA_FINALIZADO"
      /\ IdDe["excepcion_umc"] = "EXCEPCION_UMC" /\ IdDe["matar_cpu"] = "MATAR_CPU"
      /\ IdDe["matar_cpu_sigint"] = "SIGINT"
  BY DEF IdDe
<1> QED
  BY <1>1 DEF IdsConPcb, Range

(* Whose thread a name is, and that a CPU has no other.                    *)
LEMMA HilosDistintos ==
  /\ Consolas \subseteq Hilos /\ Cpus \subseteq Hilos
  /\ Dispositivos \subseteq Hilos /\ Sems \subseteq Hilos
  /\ HiloUmc \in Hilos /\ HiloExec \in Hilos /\ HiloUmc # HiloExec
  /\ \A k \in Consolas : k \notin Cpus /\ k # HiloUmc /\ k # HiloExec
  /\ \A c \in Cpus : c \notin Consolas /\ c # HiloUmc /\ c # HiloExec
  /\ \A d \in Dispositivos \cup Sems :
       d \notin Consolas /\ d \notin Cpus /\ d # HiloUmc /\ d # HiloExec
  /\ HiloUmc \notin Consolas \cup Cpus /\ HiloExec \notin Consolas \cup Cpus
  BY SupuestoHilos DEF Hilos

LEMMA PidsNat ==
  /\ Cardinality(Consolas) \in Nat
  /\ Pids \subseteq Nat \ {0}
  /\ NULO \notin Pids /\ NULO \notin Consolas /\ NULO \notin Cpus
  BY SupuestoCanales, FS_CardinalityType DEF Pids

LEMMA UsadosPids ==
  ASSUME pid_count \in Nat \ {0}, PidsContados
  PROVE  /\ Usados \subseteq Pids /\ NULO \notin Usados /\ pid_count <= Cardinality(Consolas) + 1
         /\ pid_count \notin Usados /\ IsFiniteSet(PorIniciar)
<1>1. IsFiniteSet(PorIniciar)
  BY SupuestoCanales, FS_Subset DEF PorIniciar
<1>2. Cardinality(PorIniciar) \in Nat
  BY <1>1, FS_CardinalityType
<1>3. pid_count <= Cardinality(Consolas) + 1
  BY <1>2, PidsNat DEF PidsContados
<1> QED
  BY <1>1, <1>3, PidsNat DEF Usados, Pids

-----------------------------------------------------------------------------
(* The rows: a search gives the place of a row that matches, or 0.         *)
LEMMA Buscada ==
  ASSUME TiposNucleo
  PROVE  /\ Len(lista_procesos) \in Nat
         /\ \A p : /\ FilaPid(p) \in 0..Len(lista_procesos)
                   /\ FilaPid(p) # 0 => lista_procesos[FilaPid(p)].pid = p
         /\ \A c : /\ FilaCpu(c) \in 0..Len(lista_procesos)
                   /\ FilaCpu(c) # 0 => lista_procesos[FilaCpu(c)].cpu = c
         /\ \A k : /\ FilaConsola(k) \in 0..Len(lista_procesos)
                   /\ FilaConsola(k) # 0 => lista_procesos[FilaConsola(k)].consola = k
         /\ \A i \in 1..Len(lista_procesos) : lista_procesos[i] \in FilaUsada
<1> DEFINE n == Len(lista_procesos)
<1>1. n \in Nat /\ \A i \in 1..n : lista_procesos[i] \in FilaUsada
  BY LenProperties, ElementOfSeq DEF TiposNucleo
<1>2. ASSUME NEW p
      PROVE  /\ FilaPid(p) \in 0..n
             /\ FilaPid(p) # 0 => lista_procesos[FilaPid(p)].pid = p
  <2> DEFINE I == {i \in 1..n : lista_procesos[i].pid = p}
  <2>1. FilaPid(p) = IF I # {} THEN Min(I) ELSE 0
    BY DEF FilaPid, SelectInSeq
  <2>2. I # {} => Min(I) \in I
    <3>1. I \in SUBSET Nat
      BY <1>1
    <3> QED
      BY <3>1, Minimo
  <2>3. I \subseteq 1..n /\ \A i \in I : lista_procesos[i].pid = p
    OBVIOUS
  <2> HIDE DEF I, n
  <2>4. CASE I = {}
    BY <1>1, <2>1, <2>4
  <2>5. CASE I # {}
    <3>1. FilaPid(p) \in I
      BY <2>1, <2>2, <2>5
    <3>2. FilaPid(p) \in 1..n /\ lista_procesos[FilaPid(p)].pid = p
      BY <2>3, <3>1
    <3> QED
      BY <1>1, <3>2
  <2> QED
    BY <2>4, <2>5
<1>3. ASSUME NEW c
      PROVE  /\ FilaCpu(c) \in 0..n
             /\ FilaCpu(c) # 0 => lista_procesos[FilaCpu(c)].cpu = c
  <2> DEFINE I == {i \in 1..n : lista_procesos[i].cpu = c}
  <2>1. FilaCpu(c) = IF I # {} THEN Min(I) ELSE 0
    BY DEF FilaCpu, SelectInSeq
  <2>2. I # {} => Min(I) \in I
    <3>1. I \in SUBSET Nat
      BY <1>1
    <3> QED
      BY <3>1, Minimo
  <2>3. I \subseteq 1..n /\ \A i \in I : lista_procesos[i].cpu = c
    OBVIOUS
  <2> HIDE DEF I, n
  <2>4. CASE I = {}
    BY <1>1, <2>1, <2>4
  <2>5. CASE I # {}
    <3>1. FilaCpu(c) \in I
      BY <2>1, <2>2, <2>5
    <3>2. FilaCpu(c) \in 1..n /\ lista_procesos[FilaCpu(c)].cpu = c
      BY <2>3, <3>1
    <3> QED
      BY <1>1, <3>2
  <2> QED
    BY <2>4, <2>5
<1>4. ASSUME NEW k
      PROVE  /\ FilaConsola(k) \in 0..n
             /\ FilaConsola(k) # 0 => lista_procesos[FilaConsola(k)].consola = k
  <2> DEFINE I == {i \in 1..n : lista_procesos[i].consola = k}
  <2>1. FilaConsola(k) = IF I # {} THEN Min(I) ELSE 0
    BY DEF FilaConsola, SelectInSeq
  <2>2. I # {} => Min(I) \in I
    <3>1. I \in SUBSET Nat
      BY <1>1
    <3> QED
      BY <3>1, Minimo
  <2>3. I \subseteq 1..n /\ \A i \in I : lista_procesos[i].consola = k
    OBVIOUS
  <2> HIDE DEF I, n
  <2>4. CASE I = {}
    BY <1>1, <2>1, <2>4
  <2>5. CASE I # {}
    <3>1. FilaConsola(k) \in I
      BY <2>1, <2>2, <2>5
    <3>2. FilaConsola(k) \in 1..n /\ lista_procesos[FilaConsola(k)].consola = k
      BY <2>3, <3>1
    <3> QED
      BY <1>1, <3>2
  <2> QED
    BY <2>4, <2>5
<1> QED
  BY <1>1, <1>2, <1>3, <1>4

(* A row is replaced by another, or none is when the search failed.        *)
LEMMA FilaCambiada ==
  ASSUME NEW S, NEW s \in Seq(S), NEW i \in 0..Len(s), NEW f, i # 0 => f \in S
  PROVE  [s EXCEPT ![i] = f] \in Seq(S)
<1>1. CASE i # 0
  <2>1. i \in 1..Len(s) /\ f \in S
    BY <1>1, LenProperties
  <2> QED
    BY <2>1, ExceptSeq
<1>2. CASE i = 0
  <2>1. i \notin DOMAIN s /\ s \in [DOMAIN s -> S]
    BY <1>2, LenProperties
  <2>2. [s EXCEPT ![i] = f] = s
    BY <2>1
  <2> QED
    BY <2>2
<1> QED
  BY <1>1, <1>2

(* eliminar_proceso_de_lista_procesos_con_pid.                             *)
LEMMA FilaEliminada ==
  ASSUME TiposNucleo, NEW p, EliminarDeLista(p)
  PROVE  lista_procesos' \in Seq(FilaUsada)
<1> DEFINE I == {i \in 1..Len(lista_procesos) : lista_procesos[i].pid = p}
           k == FilaPid(p)
<1>1. k = IF I # {} THEN Min(I) ELSE 0
  BY DEF FilaPid, SelectInSeq
<1>2. I # {} => k \in 1..Len(lista_procesos)
  <2>1. I \in SUBSET Nat
    BY Buscada
  <2> QED
    BY <1>1, <2>1, Minimo
<1>3. lista_procesos' = IF I # {} THEN RemoveAt(lista_procesos, k) ELSE lista_procesos
  <2>1. k = SelectInSeq(lista_procesos, LAMBDA f : f.pid = p)
    BY DEF FilaPid
  <2> HIDE DEF k
  <2>2. lista_procesos' =
          IF \E i \in 1..Len(lista_procesos) : lista_procesos[i].pid = p
            THEN RemoveAt(lista_procesos, k) ELSE lista_procesos
    BY <2>1 DEF EliminarDeLista, RemoveFirstMatch
  <2> QED
    BY <2>2
<1> HIDE DEF I, k
<1>4. lista_procesos \in Seq(FilaUsada)
  BY DEF TiposNucleo
<1>5. CASE I # {}
  <2>1. RemoveAt(lista_procesos, k) \in Seq(FilaUsada)
    BY <1>2, <1>4, <1>5, SinUno
  <2> QED
    BY <1>3, <1>5, <2>1
<1>6. CASE I = {}
  BY <1>3, <1>4, <1>6
<1> QED
  BY <1>5, <1>6

(* The instruction a process is at.                                        *)
LEMMA InstruccionTipo ==
  ASSUME TiposCanales, PidsContados, pid_count \in Nat \ {0}, NEW p \in Usados
  PROVE  /\ Instruccion(p).op = "es" => Instruccion(p).arg \in Dispositivos
         /\ Instruccion(p).op \in {"wait", "signal"} => Instruccion(p).arg \in Sems
<1> DEFINE s == escenario.programa[pcb[p].consola]
<1>1. s \in Seq(Instrucciones)
  BY SupuestoCanales DEF TiposCanales
<1>2. p \in Pids /\ pcb[p].pc \in Nat
  BY UsadosPids DEF TiposCanales
<1>3. Len(s) \in Nat /\ \A i \in 1..Len(s) : s[i] \in Instrucciones
  BY <1>1, LenProperties, ElementOfSeq
<1>4. Instruccion(p) = IF pcb[p].pc < Len(s) THEN s[pcb[p].pc + 1]
                                             ELSE [op |-> "finalizar", arg |-> NULO]
  BY DEF Instruccion
<1> HIDE DEF s
<1>5. CASE pcb[p].pc < Len(s)
  <2>1. Instruccion(p) \in Instrucciones
    BY <1>2, <1>3, <1>4, <1>5
  <2> QED
    BY <2>1 DEF Instrucciones
<1>6. CASE ~(pcb[p].pc < Len(s))
  BY <1>4, <1>6
<1> QED
  BY <1>5, <1>6

-----------------------------------------------------------------------------
(* A thread moves: everything else about the threads stays.                *)
LEMMA AlIr ==
  ASSUME TiposHilo, NEW h \in Hilos, NEW b, Ir(h, b)
  PROVE  IrCon(h, b, hilo[h].pid, hilo[h].dato)
<1>1. hilo[h] \in [pc : Puntos, pid : UsadoONulo, dato : Cpus \cup {NULO, "ready", "new", "block"}]
  BY DEF TiposHilo, HiloTipo
<1>2. [hilo[h] EXCEPT !.pc = b] = [pc |-> b, pid |-> hilo[h].pid, dato |-> hilo[h].dato]
  BY <1>1
<1>3. hilo' = [hilo EXCEPT ![h] = [hilo[h] EXCEPT !.pc = b]]
  BY DEF Ir
<1> QED
  BY <1>2, <1>3 DEF IrCon

LEMMA AlTerminar ==
  ASSUME NEW h \in Hilos, Terminar(h)
  PROVE  IrCon(h, "libre", NULO, NULO)
  BY DEF Terminar, IrCon, Ocioso

LEMMA AlMoverse ==
  ASSUME TiposHilo, NEW h \in Hilos, NEW b, NEW p, NEW d, IrCon(h, b, p, d)
  PROVE  /\ hilo'[h].pc = b /\ hilo'[h].pid = p /\ hilo'[h].dato = d
         /\ \A g \in Hilos : g # h => hilo'[g] = hilo[g]
  BY DEF TiposHilo, IrCon

LEMMA UsadosCrecen ==
  ASSUME pid_count \in Nat, pid_count' \in Nat, pid_count' >= pid_count
  PROVE  Usados \subseteq Usados'
<1>1. ASSUME NEW m \in Nat, NEW n \in Nat, n >= m
      PROVE  1..(m - 1) \subseteq 1..(n - 1)
  BY <1>1
<1> QED
  BY <1>1 DEF Usados

LEMMA HiloTipado ==
  ASSUME TiposHilo, pid_count \in Nat, pid_count' \in Nat, pid_count' >= pid_count,
         NEW h \in Hilos, NEW b \in Puntos, NEW p, NEW d, IrCon(h, b, p, d),
         p = NULO \/ p \in Usados', d \in Cpus \cup {NULO, "ready", "new", "block"},
         b \in ConProceso => p \in Usados',
         b = "matar_cola" => d \in {"ready", "new", "block"},
         h = HiloExec /\ b # "libre" => d \in Cpus
  PROVE  TiposHilo'
<1>1. Usados \subseteq Usados'
  BY UsadosCrecen
<1> USE DEF UsadoONulo
<1>2. \A g \in Hilos : hilo[g] \in HiloTipo
  BY DEF TiposHilo
<1>3. \A g \in Hilos : hilo[g] \in HiloTipo'
  BY <1>1, <1>2 DEF HiloTipo
<1>4. [pc |-> b, pid |-> p, dato |-> d] \in HiloTipo'
  BY DEF HiloTipo
<1>5. hilo' \in [Hilos -> HiloTipo']
  BY <1>3, <1>4 DEF IrCon, TiposHilo
<1>6. \A g \in Hilos : hilo'[g].pc \in ConProceso => hilo'[g].pid \in Usados'
  BY <1>1, AlMoverse DEF TiposHilo
<1>7. \A g \in Hilos : hilo'[g].pc = "matar_cola" => hilo'[g].dato \in {"ready", "new", "block"}
  BY AlMoverse DEF TiposHilo
<1>8. hilo'[HiloExec].pc # "libre" => hilo'[HiloExec].dato \in Cpus
  BY AlMoverse, HilosDistintos DEF TiposHilo
<1> QED
  BY <1>5, <1>6, <1>7, <1>8 DEF TiposHilo

LEMMA HiloCon ==
  ASSUME TiposHilo, pid_count \in Nat, pid_count' = pid_count,
         NEW h \in Hilos, NEW b \in Puntos, NEW p \in UsadoONulo, NEW d, IrCon(h, b, p, d),
         d \in Cpus \cup {NULO, "ready", "new", "block"},
         b \in ConProceso => p \in Usados,
         b = "matar_cola" => d \in {"ready", "new", "block"},
         h = HiloExec /\ b # "libre" => d \in Cpus
  PROVE  TiposHilo'
<1>1. Usados' = Usados /\ pid_count' \in Nat /\ pid_count' >= pid_count
  BY DEF Usados
<1> QED
  BY <1>1, HiloTipado DEF UsadoONulo

LEMMA HiloSigue ==
  ASSUME TiposHilo, pid_count \in Nat, pid_count' = pid_count,
         NEW h \in Hilos, NEW b \in Puntos, Ir(h, b),
         b \in ConProceso => hilo[h].pc \in ConProceso,
         b # "matar_cola", h = HiloExec => hilo[h].pc # "libre"
  PROVE  TiposHilo'
<1>1. /\ hilo[h].pid \in UsadoONulo
      /\ hilo[h].dato \in Cpus \cup {NULO, "ready", "new", "block"}
      /\ IrCon(h, b, hilo[h].pid, hilo[h].dato)
  BY AlIr DEF TiposHilo, HiloTipo
<1>2. /\ b \in ConProceso => hilo[h].pid \in Usados
      /\ h = HiloExec /\ b # "libre" => hilo[h].dato \in Cpus
  BY DEF TiposHilo
<1> QED
  BY <1>1, <1>2, HiloCon

LEMMA HiloTermina ==
  ASSUME TiposHilo, pid_count \in Nat, pid_count' = pid_count, NEW h \in Hilos, Terminar(h)
  PROVE  TiposHilo'
<1>1. IrCon(h, "libre", NULO, NULO) /\ "libre" \notin ConProceso
  BY AlTerminar DEF ConProceso
<1>2. "libre" \in Puntos /\ "libre" # "matar_cola" /\ NULO \in UsadoONulo
  BY DEF Puntos, SinProceso, UsadoONulo
<1> QED
  BY <1>1, <1>2, HiloCon

LEMMA HiloQuieto ==
  ASSUME TiposHilo, pid_count' = pid_count, hilo' = hilo
  PROVE  TiposHilo'
  BY DEF TiposHilo, HiloTipo, UsadoONulo, Usados

-----------------------------------------------------------------------------
(* A queue changes, and perhaps the queue of CPUs: the others stay.        *)
LEMMA ColaTipada ==
  ASSUME TiposCola, pid_count' = pid_count, NEW q \in Colas, NEW s \in Seq(UsadoONulo),
         cola' = [cola EXCEPT ![q] = s]
  PROVE  /\ TiposCola' /\ cola'[q] = s /\ cola'.cpus = cola.cpus
         /\ \A r \in Colas : r # q => cola'[r] = cola[r]
<1>1. "cpus" \notin Colas /\ DOMAIN cola = Colas \cup {"cpus"}
  BY DEF Colas, TiposCola
<1>2. /\ cola'[q] = s /\ cola'["cpus"] = cola["cpus"] /\ DOMAIN cola' = Colas \cup {"cpus"}
      /\ \A r \in Colas : r # q => cola'[r] = cola[r]
  BY <1>1
<1>3. UsadoONulo' = UsadoONulo
  BY DEF UsadoONulo, Usados
<1> QED
  BY <1>2, <1>3 DEF TiposCola

LEMMA ColaTipadaCpus ==
  ASSUME TiposCola, pid_count' = pid_count, NEW s \in Seq(Cpus),
         cola' = [cola EXCEPT !.cpus = s]
  PROVE  /\ TiposCola' /\ cola'.cpus = s
         /\ \A r \in Colas : cola'[r] = cola[r]
<1>1. "cpus" \notin Colas /\ DOMAIN cola = Colas \cup {"cpus"}
  BY DEF Colas, TiposCola
<1>2. /\ cola'["cpus"] = s /\ DOMAIN cola' = Colas \cup {"cpus"}
      /\ \A r \in Colas : cola'[r] = cola[r]
  BY <1>1
<1>3. UsadoONulo' = UsadoONulo
  BY DEF UsadoONulo, Usados
<1> QED
  BY <1>2, <1>3 DEF TiposCola

LEMMA ColaTipadaConCpu ==
  ASSUME TiposCola, pid_count' = pid_count, NEW q \in Colas, NEW s \in Seq(UsadoONulo),
         NEW c \in Cpus, cola' = ColaConCpu([cola EXCEPT ![q] = s], c)
  PROVE  /\ TiposCola' /\ cola'[q] = s /\ cola'.cpus = Append(cola.cpus, c)
         /\ \A r \in Colas : r # q => cola'[r] = cola[r]
<1>1. "cpus" \notin Colas /\ DOMAIN cola = Colas \cup {"cpus"}
  BY DEF Colas, TiposCola
<1> DEFINE x == [cola EXCEPT ![q] = s]
<1>2. /\ x[q] = s /\ x["cpus"] = cola["cpus"] /\ DOMAIN x = Colas \cup {"cpus"}
      /\ \A r \in Colas : r # q => x[r] = cola[r]
  BY <1>1
<1>3. cola' = [x EXCEPT !["cpus"] = Append(x["cpus"], c)]
  BY DEF ColaConCpu
<1> HIDE DEF x
<1>4. /\ cola'[q] = s /\ cola'["cpus"] = Append(cola["cpus"], c)
      /\ DOMAIN cola' = Colas \cup {"cpus"}
      /\ \A r \in Colas : r # q => cola'[r] = cola[r]
  BY <1>1, <1>2, <1>3
<1>5. UsadoONulo' = UsadoONulo
  BY DEF UsadoONulo, Usados
<1>6. Append(cola["cpus"], c) \in Seq(Cpus)
  BY AppendProperties DEF TiposCola
<1> QED
  BY <1>4, <1>5, <1>6 DEF TiposCola

LEMMA ColaQuieta ==
  ASSUME TiposCola, pid_count' = pid_count, cola' = cola
  PROVE  TiposCola'
  BY DEF TiposCola, UsadoONulo, Usados

-----------------------------------------------------------------------------
(* A connection thread takes a message: its type, and the one of the       *)
(* sockets afterwards.                                                     *)
LEMMA DeCpuTipado ==
  ASSUME TiposCanales, NEW c \in Cpus, NEW id, LlegaDeCpu(c, id)
  PROVE  /\ deCpu' \in [Cpus -> Seq(MensajesDeCpu)]
         /\ Head(deCpu[c]) \in MensajesDeCpu /\ Head(deCpu[c]).id = id
         /\ deCpu[c] \in Seq(MensajesDeCpu) /\ deCpu[c] # <<>>
         /\ deCpu'[c] = Tail(deCpu[c])
         /\ \A d \in Cpus : d # c => deCpu'[d] = deCpu[d]
<1>1. deCpu[c] \in Seq(MensajesDeCpu) /\ deCpu[c] # <<>>
  BY DEF LlegaDeCpu, TiposCanales
<1>2. Tail(deCpu[c]) \in Seq(MensajesDeCpu) /\ Head(deCpu[c]) \in MensajesDeCpu
  BY <1>1, HeadTailProperties
<1> QED
  BY <1>1, <1>2 DEF LlegaDeCpu, TiposCanales

LEMMA MensajeTipado ==
  ASSUME NEW m \in MensajesDeCpu
  PROVE  /\ m.id \in IdsConPcb \cup {"IMPRIMIR", "WAIT", "SIGNAL", "ENTRADA_SALIDA"}
              => m.pid \in Usados
         /\ m.id \in {"WAIT", "SIGNAL"} => m.arg \in Sems
         /\ m.id = "ENTRADA_SALIDA" => m.arg \in Dispositivos
  BY Mensajes DEF MensajesDeCpu

LEMMA DeConsolaTipado ==
  ASSUME TiposCanales, NEW k \in Consolas, NEW id, LlegaDeConsola(k, id)
  PROVE  /\ deConsola' \in [Consolas -> Seq({"INICIAR", "MATAR", "PROGRAMA_FINALIZADO"})]
         /\ deConsola[k] \in Seq({"INICIAR", "MATAR", "PROGRAMA_FINALIZADO"})
         /\ deConsola[k] # <<>> /\ Head(deConsola[k]) = id
         /\ deConsola'[k] = Tail(deConsola[k])
         /\ \A j \in Consolas : j # k => deConsola'[j] = deConsola[j]
<1> DEFINE S == {"INICIAR", "MATAR", "PROGRAMA_FINALIZADO"}
<1>0. deConsola \in [Consolas -> Seq(S)]
  BY DEF TiposCanales
<1> HIDE DEF S
<1>1. deConsola[k] \in Seq(S) /\ deConsola[k] # <<>>
  BY <1>0 DEF LlegaDeConsola
<1>2. Tail(deConsola[k]) \in Seq(S)
  BY <1>1, HeadTailProperties
<1>3. deConsola' \in [Consolas -> Seq(S)]
  BY <1>0, <1>2 DEF LlegaDeConsola
<1> QED
  BY <1>0, <1>1, <1>3 DEF LlegaDeConsola, S

(* What each part of the channels must be for their types to hold.         *)
LEMMA CanalesTipados ==
  ASSUME TiposCanales, pid_count' = pid_count, UNCHANGED <<escenario, pcb>>,
         consola' \in [Consolas -> {"apagada", "avisada", "viva", "terminando", "cerrada"}],
         deConsola' \in [Consolas -> Seq({"INICIAR", "MATAR", "PROGRAMA_FINALIZADO"})],
         deCpu' \in [Cpus -> Seq(MensajesDeCpu)],
         aCpu' \in [Cpus -> Seq(MensajesACpu)],
         aUmc' \subseteq MensajesAUmc
  PROVE  TiposCanales'
<1>1. Usados' = Usados
  BY DEF Usados
<1>2. /\ MensajesDeCpu' = MensajesDeCpu /\ MensajesACpu' = MensajesACpu
      /\ MensajesAUmc' = MensajesAUmc
  BY <1>1 DEF MensajesDeCpu, MensajesACpu, MensajesAUmc, UsadoONulo
<1> QED
  BY <1>1, <1>2 DEF TiposCanales

LEMMA CpuQuieta ==
  ASSUME TiposCpu, pid_count' = pid_count, cpu' = cpu
  PROVE  TiposCpu'
  BY DEF TiposCpu, CpuTipo, UsadoONulo, Usados

LEMMA NucleoTipado ==
  ASSUME TiposNucleo, pid_count' = pid_count,
         lista_procesos' \in Seq(FilaUsada),
         cuenta' \in [{"ready", "cpu", "block", "matar"} -> Nat],
         solicitudes_es' \in [Dispositivos -> Seq(Usados)],
         mutex' \subseteq {"lista", "ready", "exec", "block", "exit"},
         impreso' \subseteq Usados \X (Consolas \cup {NULO}),
         solicitudes' \in [Sems -> Seq(Usados)]
  PROVE  TiposNucleo'
<1>1. Usados' = Usados /\ FilaUsada' = FilaUsada
  BY DEF Usados, FilaUsada
<1> QED
  BY <1>1 DEF TiposNucleo

(* The shapes in which a queue changes.                                    *)
LEMMA ColaSacada ==
  ASSUME TiposCola, pid_count' = pid_count, NEW q \in Colas, NEW x,
         cola' = [cola EXCEPT ![q] = RemoveFirst(@, x)]
  PROVE  /\ TiposCola' /\ cola'[q] = RemoveFirst(cola[q], x) /\ cola'.cpus = cola.cpus
         /\ \A r \in Colas : r # q => cola'[r] = cola[r]
<1>1. RemoveFirst(cola[q], x) \in Seq(UsadoONulo)
  BY SinPrimero DEF TiposCola
<1>2. cola' = [cola EXCEPT ![q] = RemoveFirst(cola[q], x)]
  OBVIOUS
<1> QED
  BY <1>1, <1>2, ColaTipada

LEMMA ColaPuesta ==
  ASSUME TiposCola, pid_count' = pid_count, NEW q \in Colas, NEW x \in UsadoONulo,
         cola' = [cola EXCEPT ![q] = Append(@, x)]
  PROVE  /\ TiposCola' /\ cola'[q] = Append(cola[q], x) /\ cola'.cpus = cola.cpus
         /\ \A r \in Colas : r # q => cola'[r] = cola[r]
<1>1. Append(cola[q], x) \in Seq(UsadoONulo)
  BY AppendProperties DEF TiposCola
<1>2. cola' = [cola EXCEPT ![q] = Append(cola[q], x)]
  OBVIOUS
<1> QED
  BY <1>1, <1>2, ColaTipada

LEMMA ColaSacadaConCpu ==
  ASSUME TiposCola, pid_count' = pid_count, NEW q \in Colas, NEW x, NEW c \in Cpus,
         cola' = ColaConCpu([cola EXCEPT ![q] = RemoveFirst(@, x)], c)
  PROVE  /\ TiposCola' /\ cola'[q] = RemoveFirst(cola[q], x)
         /\ cola'.cpus = Append(cola.cpus, c)
         /\ \A r \in Colas : r # q => cola'[r] = cola[r]
<1>1. RemoveFirst(cola[q], x) \in Seq(UsadoONulo)
  BY SinPrimero DEF TiposCola
<1>2. cola' = ColaConCpu([cola EXCEPT ![q] = RemoveFirst(cola[q], x)], c)
  OBVIOUS
<1> QED
  BY <1>1, <1>2, ColaTipadaConCpu

LEMMA ColaPuestaConCpu ==
  ASSUME TiposCola, pid_count' = pid_count, NEW q \in Colas, NEW x \in UsadoONulo,
         NEW c \in Cpus, cola' = ColaConCpu([cola EXCEPT ![q] = Append(@, x)], c)
  PROVE  /\ TiposCola' /\ cola'[q] = Append(cola[q], x)
         /\ cola'.cpus = Append(cola.cpus, c)
         /\ \A r \in Colas : r # q => cola'[r] = cola[r]
<1>1. Append(cola[q], x) \in Seq(UsadoONulo)
  BY AppendProperties DEF TiposCola
<1>2. cola' = ColaConCpu([cola EXCEPT ![q] = Append(cola[q], x)], c)
  OBVIOUS
<1> QED
  BY <1>1, <1>2, ColaTipadaConCpu

LEMMA CpuPuesta ==
  ASSUME TiposCola, pid_count' = pid_count, NEW c \in Cpus, cola' = ColaConCpu(cola, c)
  PROVE  /\ TiposCola' /\ cola'.cpus = Append(cola.cpus, c)
         /\ \A r \in Colas : cola'[r] = cola[r]
<1>1. Append(cola.cpus, c) \in Seq(Cpus)
  BY AppendProperties DEF TiposCola
<1>2. cola' = [cola EXCEPT !.cpus = Append(cola.cpus, c)]
  BY DEF ColaConCpu
<1> QED
  BY <1>1, <1>2, ColaTipadaCpus

LEMMA CpuQuitada ==
  ASSUME TiposCola, pid_count' = pid_count, NEW c,
         cola' = [cola EXCEPT !.cpus = RemoveFirst(@, c)]
  PROVE  /\ TiposCola' /\ cola'.cpus = RemoveFirst(cola.cpus, c)
         /\ \A r \in Colas : cola'[r] = cola[r]
<1>1. RemoveFirst(cola.cpus, c) \in Seq(Cpus)
  BY SinPrimero DEF TiposCola
<1>2. cola' = [cola EXCEPT !.cpus = RemoveFirst(cola.cpus, c)]
  OBVIOUS
<1> QED
  BY <1>1, <1>2, ColaTipadaCpus

LEMMA CpuTomada ==
  ASSUME TiposCola, pid_count' = pid_count, cola.cpus # <<>>,
         cola' = [cola EXCEPT !.cpus = Tail(@)]
  PROVE  /\ TiposCola' /\ cola'.cpus = Tail(cola.cpus) /\ Head(cola.cpus) \in Cpus
         /\ \A r \in Colas : cola'[r] = cola[r]
<1>1. Tail(cola.cpus) \in Seq(Cpus) /\ Head(cola.cpus) \in Cpus
  BY HeadTailProperties DEF TiposCola
<1>2. cola' = [cola EXCEPT !.cpus = Tail(cola.cpus)]
  OBVIOUS
<1> QED
  BY <1>1, <1>2, ColaTipadaCpus

(* actualizar_estado_pcb and the other ways a row changes.                 *)
LEMMA FilaDesasignada ==
  ASSUME TiposNucleo, NEW p, FilaPid(p) # 0, NEW e \in Estados, ActualizarSinCpu(p, e)
  PROVE  lista_procesos' \in Seq(FilaUsada)
<1> DEFINE i == FilaPid(p)
           f == [lista_procesos[i] EXCEPT !.estado = e, !.cpu = NULO, !.original = FALSE]
<1>1. i \in 1..Len(lista_procesos)
  BY Buscada
<1>2. lista_procesos[i] \in FilaUsada /\ lista_procesos \in Seq(FilaUsada)
  BY <1>1, Buscada DEF TiposNucleo
<1>3. lista_procesos' = [lista_procesos EXCEPT ![i] = f]
  BY DEF ActualizarSinCpu
<1> HIDE DEF i
<1>4. f \in FilaUsada
  BY <1>2 DEF FilaUsada
<1> HIDE DEF f
<1>5. [lista_procesos EXCEPT ![i] = f] \in Seq(FilaUsada)
  BY <1>1, <1>2, <1>4, ExceptSeq
<1> QED
  BY <1>3, <1>5

LEMMA FilaActualizada ==
  ASSUME TiposNucleo, NEW p, FilaPid(p) # 0, NEW e \in Estados, Actualizar(p, e)
  PROVE  lista_procesos' \in Seq(FilaUsada)
<1> DEFINE i == FilaPid(p)
           f == [lista_procesos[i] EXCEPT !.estado = e, !.original = FALSE]
<1>1. i \in 1..Len(lista_procesos)
  BY Buscada
<1>2. lista_procesos[i] \in FilaUsada /\ lista_procesos \in Seq(FilaUsada)
  BY <1>1, Buscada DEF TiposNucleo
<1>3. lista_procesos' = [lista_procesos EXCEPT ![i] = f]
  BY DEF Actualizar
<1> HIDE DEF i
<1>4. f \in FilaUsada
  BY <1>2 DEF FilaUsada
<1> HIDE DEF f
<1>5. [lista_procesos EXCEPT ![i] = f] \in Seq(FilaUsada)
  BY <1>1, <1>2, <1>4, ExceptSeq
<1> QED
  BY <1>3, <1>5

LEMMA FilaEnReady ==
  ASSUME TiposNucleo, NEW p \in Usados, NEW c, FilaCpu(c) # 0, PonerEnReady(p, c)
  PROVE  lista_procesos' \in Seq(FilaUsada)
<1> DEFINE i == FilaCpu(c)
           f == [lista_procesos[i] EXCEPT !.pid = p, !.estado = "READY", !.cpu = NULO,
                                          !.original = FALSE]
<1>1. i \in 1..Len(lista_procesos)
  BY Buscada
<1>2. lista_procesos[i] \in FilaUsada
  BY <1>1, Buscada
<1> HIDE DEF i
<1>3. f \in FilaUsada
  BY <1>2 DEF FilaUsada, Estados
<1>4. lista_procesos' = [lista_procesos EXCEPT ![i] = f]
  BY DEF PonerEnReady, i
<1>5. lista_procesos \in Seq(FilaUsada)
  BY DEF TiposNucleo
<1> HIDE DEF f
<1>6. [lista_procesos EXCEPT ![i] = f] \in Seq(FilaUsada)
  BY <1>1, <1>3, <1>5, ExceptSeq
<1> QED
  BY <1>4, <1>6

LEMMA FilaEnExec ==
  ASSUME TiposNucleo, NEW p, NEW c \in Cpus, FilaPid(p) # 0,
         lista_procesos' = [lista_procesos EXCEPT ![FilaPid(p)] =
                              [@ EXCEPT !.cpu = c, !.estado = "EXEC"]]
  PROVE  lista_procesos' \in Seq(FilaUsada)
<1> DEFINE i == FilaPid(p)
           f == [lista_procesos[i] EXCEPT !.cpu = c, !.estado = "EXEC"]
<1>1. i \in 1..Len(lista_procesos)
  BY Buscada
<1>2. lista_procesos[i] \in FilaUsada
  BY <1>1, Buscada
<1>3. lista_procesos' = [lista_procesos EXCEPT ![i] = f]
  OBVIOUS
<1> HIDE DEF i
<1>4. f \in FilaUsada
  BY <1>2 DEF FilaUsada, Estados
<1>5. lista_procesos \in Seq(FilaUsada)
  BY DEF TiposNucleo
<1> HIDE DEF f
<1>6. [lista_procesos EXCEPT ![i] = f] \in Seq(FilaUsada)
  BY <1>1, <1>4, <1>5, ExceptSeq
<1> QED
  BY <1>3, <1>6

(* InicializadoEstado: the state is written when there is such a row.      *)
LEMMA FilaEscrita ==
  ASSUME TiposNucleo, NEW p, NEW e \in Estados,
         lista_procesos' = IF FilaPid(p) # 0 /\ lista_procesos[FilaPid(p)].original
                             THEN [lista_procesos EXCEPT ![FilaPid(p)].estado = e]
                             ELSE lista_procesos
  PROVE  lista_procesos' \in Seq(FilaUsada)
<1> DEFINE i == FilaPid(p)
           f == [lista_procesos[i] EXCEPT !.estado = e]
<1>0. CASE i = 0
  BY <1>0 DEF TiposNucleo
<1>1. CASE i # 0
  <2>1. i \in 1..Len(lista_procesos)
    BY <1>1, Buscada
  <2>2. lista_procesos[i] \in FilaUsada
    BY <2>1, Buscada
  <2>3. lista_procesos' = [lista_procesos EXCEPT ![i] = f] \/ lista_procesos' = lista_procesos
    OBVIOUS
  <2> HIDE DEF i
  <2>4. f \in FilaUsada
    BY <2>2 DEF FilaUsada
  <2>5. lista_procesos \in Seq(FilaUsada)
    BY DEF TiposNucleo
  <2> HIDE DEF f
  <2>6. [lista_procesos EXCEPT ![i] = f] \in Seq(FilaUsada)
    BY <2>1, <2>4, <2>5, ExceptSeq
  <2> QED
    BY <2>3, <2>5, <2>6
<1> QED
  BY <1>0, <1>1

(* atender_sigint: the row of the CPU, that may have none.                 *)
LEMMA FilaConExit ==
  ASSUME TiposNucleo, NEW c,
         lista_procesos' = [lista_procesos EXCEPT ![FilaCpu(c)] =
                              [@ EXCEPT !.estado = "EXIT", !.cpu = NULO]]
  PROVE  lista_procesos' \in Seq(FilaUsada)
<1> DEFINE i == FilaCpu(c)
           f == [lista_procesos[i] EXCEPT !.estado = "EXIT", !.cpu = NULO]
<1>1. i \in 0..Len(lista_procesos)
  BY Buscada
<1>2. i # 0 => lista_procesos[i] \in FilaUsada
  BY <1>1, Buscada
<1>3. lista_procesos' = [lista_procesos EXCEPT ![i] = f]
  OBVIOUS
<1> HIDE DEF i
<1>4. i # 0 => f \in FilaUsada
  BY <1>2 DEF FilaUsada, Estados
<1>5. lista_procesos \in Seq(FilaUsada)
  BY DEF TiposNucleo
<1> HIDE DEF f
<1>6. [lista_procesos EXCEPT ![i] = f] \in Seq(FilaUsada)
  BY <1>1, <1>4, <1>5, FilaCambiada
<1> QED
  BY <1>3, <1>6

(* What the Nucleo sends to a CPU, besides a PCB.                          *)
LEMMA AlMatar ==
  ASSUME TiposCanales, NEW c, aCpu' = [aCpu EXCEPT ![c] = Append(@, [id |-> "MATAR", pid |-> NULO])]
  PROVE  aCpu' \in [Cpus -> Seq(MensajesACpu)]
<1>1. [id |-> "MATAR", pid |-> NULO] \in MensajesACpu
  BY DEF MensajesACpu
<1> QED
  BY <1>1, AppendProperties DEF TiposCanales

LEMMA AlResponder ==
  ASSUME TiposCanales, NEW c, NEW id \in {"WAIT", "SEGUI_RAFAGA"},
         aCpu' = [aCpu EXCEPT ![c] = Append(@, [id |-> id, pid |-> NULO])]
  PROVE  aCpu' \in [Cpus -> Seq(MensajesACpu)]
<1>1. [id |-> id, pid |-> NULO] \in MensajesACpu
  BY DEF MensajesACpu
<1> QED
  BY <1>1, AppendProperties DEF TiposCanales

(* The counting semaphores are posted and waited for.                      *)
LEMMA CuentaMas ==
  ASSUME NEW n \in [{"ready", "cpu", "block", "matar"} -> Nat],
         NEW x \in {"ready", "cpu", "block", "matar"}
  PROVE  /\ [n EXCEPT ![x] = @ + 1] \in [{"ready", "cpu", "block", "matar"} -> Nat]
         /\ n[x] > 0 => [n EXCEPT ![x] = @ - 1] \in [{"ready", "cpu", "block", "matar"} -> Nat]
<1> DEFINE D == {"ready", "cpu", "block", "matar"}
<1>1. n \in [D -> Nat] /\ x \in D /\ n[x] + 1 \in Nat /\ (n[x] > 0 => n[x] - 1 \in Nat)
  OBVIOUS
<1> HIDE DEF D
<1>2. /\ [n EXCEPT ![x] = n[x] + 1] \in [D -> Nat]
      /\ n[x] > 0 => [n EXCEPT ![x] = n[x] - 1] \in [D -> Nat]
  BY <1>1
<1> QED
  BY <1>2 DEF D

LEMMA SolicitudesTipadas ==
  ASSUME TiposNucleo, NEW p \in Usados, NEW s,
         solicitudes' = [solicitudes EXCEPT ![s] = Append(@, p)]
  PROVE  solicitudes' \in [Sems -> Seq(Usados)]
<1>1. solicitudes \in [Sems -> Seq(Usados)]
  BY DEF TiposNucleo
<1>2. CASE s \in Sems
  <2>1. Append(solicitudes[s], p) \in Seq(Usados)
    BY <1>1, <1>2, AppendProperties
  <2> QED
    BY <1>1, <1>2, <2>1
<1>3. CASE s \notin Sems
  <2>1. solicitudes' = solicitudes
    BY <1>1, <1>3
  <2> QED
    BY <1>1, <2>1
<1> QED
  BY <1>2, <1>3

-----------------------------------------------------------------------------
(* Types: the threads of the consoles.                                     *)
LEMMA PidLibre ==
  ASSUME Tipos, PidsContados, NEW k \in Consolas, AtenderIniciar(k)
  PROVE  pid_count \in Pids
<1> USE DEF Tipos
<1>1. k \in PorIniciar
  <2>1. Contains(deConsola[k], "INICIAR")
    BY DeConsolaTipado, SinCabeza DEF AtenderIniciar
  <2> QED
    BY <2>1 DEF PorIniciar
<1>2. IsFiniteSet(PorIniciar) /\ Cardinality(PorIniciar) \in Nat /\ Cardinality(PorIniciar) # 0
  BY <1>1, UsadosPids, FS_CardinalityType, FS_EmptySet DEF TiposNucleo
<1> QED
  BY <1>2, PidsNat DEF PidsContados, TiposNucleo, Pids

LEMMA TiposIniciar ==
  ASSUME Tipos, PidsContados, NEW k \in Consolas, AtenderIniciar(k),
         UNCHANGED <<escenario, consola, cpu>>
  PROVE  Tipos'
<1> USE DEF Tipos
<1>1. /\ pid_count \in Nat /\ pid_count' = pid_count + 1 /\ pid_count' \in Nat \ {0}
      /\ pid_count' >= pid_count
  BY DEF AtenderIniciar, TiposNucleo
<1>2. Usados \subseteq Usados' /\ pid_count \in Usados' /\ Usados' \subseteq Usados \cup {pid_count}
  <2>1. ASSUME NEW m \in Nat \ {0}, NEW n \in Nat, n = m + 1
        PROVE  /\ 1..(m - 1) \subseteq 1..(n - 1) /\ m \in 1..(n - 1)
               /\ 1..(n - 1) \subseteq 1..(m - 1) \cup {m}
    BY <2>1
  <2> QED
    BY <1>1, <2>1 DEF Usados, TiposNucleo
<1>3. k \in DOMAIN escenario.programa
  BY DeConsolaTipado DEF AtenderIniciar, PidsContados
<1>4. pid_count \in Pids
  BY PidLibre
<1>5. TiposCanales'
  <2>1. pcb' \in [Pids -> [consola : Consolas \cup {NULO}, pc : Nat]]
    BY <1>4 DEF AtenderIniciar, TiposCanales
  <2>2. \A p \in Usados' : pcb'[p].consola \in DOMAIN escenario'.programa
    <3>1. \A p \in Usados : p # pid_count => pcb'[p] = pcb[p]
      BY UsadosPids DEF AtenderIniciar, TiposCanales, TiposNucleo
    <3>2. pcb'[pid_count].consola = k
      BY <1>4 DEF AtenderIniciar, TiposCanales
    <3> QED
      BY <1>2, <1>3, <3>1, <3>2 DEF TiposCanales
  <2>3. deConsola' \in [Consolas -> Seq({"INICIAR", "MATAR", "PROGRAMA_FINALIZADO"})]
    BY DeConsolaTipado DEF AtenderIniciar
  <2>4. deCpu' \in [Cpus -> Seq(MensajesDeCpu')] /\ aCpu' \in [Cpus -> Seq(MensajesACpu')]
    <3>1. MensajesDeCpu \subseteq MensajesDeCpu'
      BY <1>2 DEF MensajesDeCpu
    <3>2. MensajesACpu \subseteq MensajesACpu'
      BY <1>2 DEF MensajesACpu
    <3>3. /\ \A c \in Cpus : deCpu[c] \in Seq(MensajesDeCpu')
          /\ \A c \in Cpus : aCpu[c] \in Seq(MensajesACpu')
      BY <3>1, <3>2, SeqMonotonic DEF TiposCanales
    <3> QED
      BY <3>3 DEF TiposCanales, AtenderIniciar
  <2>5. aUmc' \subseteq MensajesAUmc'
    BY <1>2 DEF AtenderIniciar, TiposCanales, MensajesAUmc, UsadoONulo
  <2> QED
    BY <2>1, <2>2, <2>3, <2>4, <2>5 DEF TiposCanales, AtenderIniciar
<1>6. TiposCola'
  <2>1. DOMAIN cola = Colas \cup {"cpus"} /\ "new" \in Colas /\ "cpus" \notin Colas
    BY DEF TiposCola, Colas
  <2>2. /\ DOMAIN cola' = Colas \cup {"cpus"} /\ cola'["new"] = Append(cola["new"], pid_count)
        /\ \A q \in Colas \cup {"cpus"} : q # "new" => cola'[q] = cola[q]
    BY <2>1 DEF AtenderIniciar
  <2>3. UsadoONulo \subseteq UsadoONulo' /\ pid_count \in UsadoONulo'
    BY <1>2 DEF UsadoONulo
  <2>4. \A q \in Colas : cola[q] \in Seq(UsadoONulo')
    BY <2>3, SeqMonotonic DEF TiposCola
  <2>5. Append(cola["new"], pid_count) \in Seq(UsadoONulo')
    BY <2>1, <2>3, <2>4, AppendProperties
  <2> QED
    BY <2>1, <2>2, <2>4, <2>5 DEF TiposCola
<1>7. TiposHilo'
  <2>1. k \in Hilos /\ k # HiloExec /\ "iniciar" \in Puntos
    BY HilosDistintos DEF Puntos, ConProceso
  <2>2. IrCon(k, "iniciar", pid_count, NULO)
    BY DEF AtenderIniciar
  <2> QED
    BY <1>1, <1>2, <2>1, <2>2, HiloTipado
<1>8. TiposNucleo'
  <2>1. FilaUsada \subseteq FilaUsada'
    BY <1>2 DEF FilaUsada
  <2>2. lista_procesos' \in Seq(FilaUsada')
    BY <2>1, SeqMonotonic DEF AtenderIniciar, TiposNucleo
  <2>3. \A d \in Dispositivos : solicitudes_es[d] \in Seq(Usados')
    BY <1>2, SeqMonotonic DEF TiposNucleo
  <2>4. \A s \in Sems : solicitudes[s] \in Seq(Usados')
    BY <1>2, SeqMonotonic DEF TiposNucleo
  <2>5. impreso' \subseteq Usados' \X (Consolas \cup {NULO})
    BY <1>2 DEF TiposNucleo, AtenderIniciar
  <2>6. solicitudes_es' = solicitudes_es /\ solicitudes' = solicitudes
    BY DEF AtenderIniciar, semaforosVars
  <2> QED
    BY <1>1, <2>2, <2>3, <2>4, <2>5, <2>6 DEF TiposNucleo, AtenderIniciar
<1>9. TiposCpu'
  <2>1. /\ cpu \in [Cpus -> CpuTipo]
        /\ \A c \in Cpus : cpu[c].hilo # "no" => cpu[c].pid \in Usados
        /\ \A c \in Cpus : cpu[c].hilo = "espera" => cpu[c].quantum > 0
    BY DEF TiposCpu
  <2>2. CpuTipo \subseteq CpuTipo'
    <3> DEFINE M == [id : {"ENTRADA_SALIDA"}, pid : Usados, arg : Dispositivos]
               M2 == [id : {"ENTRADA_SALIDA"}, pid : Usados', arg : Dispositivos]
    <3>1. Seq(M) \subseteq Seq(M2)
      BY <1>2, SeqMonotonic
    <3>2. UsadoONulo \subseteq UsadoONulo'
      BY <1>2 DEF UsadoONulo
    <3> QED
      BY <3>1, <3>2 DEF CpuTipo
  <2> QED
    BY <1>2, <2>1, <2>2 DEF TiposCpu
<1> QED
  BY <1>5, <1>6, <1>7, <1>8, <1>9

(* The threads of the consoles.                                            *)
LEMMA TiposConsola ==
  ASSUME Tipos, PidsContados, NEW k \in Consolas, PasoConsola(k),
         UNCHANGED <<escenario, consola, cpu>>
  PROVE  Tipos'
<1> USE DEF Tipos, quieto, semaforosVars, sinMensajes, canales
<1>0. pid_count \in Nat /\ NULO \notin Usados /\ Usados \subseteq UsadoONulo /\ NULO \in UsadoONulo
  BY UsadosPids DEF TiposNucleo, UsadoONulo
<1>1. CASE AtenderIniciar(k)
  BY <1>1, TiposIniciar
<1>2. CASE AgregarALista(k)
  <2>1. pid_count' = pid_count /\ cpu' = cpu
    BY <1>2 DEF AgregarALista
  <2>2. hilo[k].pid \in Usados
    BY <1>2, HilosDistintos DEF AgregarALista, En, TiposHilo, ConProceso
  <2>3. lista_procesos' \in Seq(FilaUsada)
    BY <1>2, <2>2, AppendProperties DEF AgregarALista, TiposNucleo, FilaUsada, Estados
  <2>4. aUmc' \subseteq MensajesAUmc
    BY <1>2, <2>2, <1>0 DEF AgregarALista, Pedir, MensajesAUmc, TiposCanales
  <2>5. TiposCanales'
    BY <1>2, <2>1, <2>2, <2>4, CanalesTipados DEF AgregarALista, TiposCanales
  <2>6. TiposCola'
    BY <1>2, <2>1, ColaQuieta DEF AgregarALista
  <2>7. TiposHilo'
    BY <1>2, <2>1, <2>2, <1>0, HilosDistintos, HiloTermina DEF AgregarALista
  <2>8. TiposNucleo'
    BY <1>2, <2>1, <2>3, NucleoTipado DEF AgregarALista, TiposNucleo
  <2>9. TiposCpu'
    BY <2>1, CpuQuieta
  <2> QED
    BY <2>5, <2>6, <2>7, <2>8, <2>9
<1>3. CASE AtenderFinConsola(k)
  <2>1. pid_count' = pid_count /\ cpu' = cpu
    BY <1>3 DEF AtenderFinConsola
  <2>2. lista_procesos' \in Seq(FilaUsada)
    BY <1>3, FilaEliminada DEF AtenderFinConsola
  <2>3. TiposCanales'
    BY <1>3, <2>1, DeConsolaTipado, CanalesTipados DEF AtenderFinConsola, TiposCanales
  <2>4. TiposCola'
    BY <1>3, <2>1, ColaQuieta DEF AtenderFinConsola
  <2>5. TiposHilo'
    BY <1>3, <2>1, HiloQuieto DEF AtenderFinConsola
  <2>6. TiposNucleo'
    BY <1>3, <2>1, <2>2, NucleoTipado DEF AtenderFinConsola, TiposNucleo
  <2>7. TiposCpu'
    BY <2>1, CpuQuieta
  <2> QED
    BY <2>3, <2>4, <2>5, <2>6, <2>7
<1>4. CASE MatarTerminado(k)
  <2>1. pid_count' = pid_count /\ cpu' = cpu
    BY <1>4 DEF MatarTerminado
  <2>2. TiposCanales'
    BY <1>4, <2>1, DeConsolaTipado, CanalesTipados DEF MatarTerminado, TiposCanales
  <2>3. TiposCola'
    BY <1>4, <2>1, ColaQuieta DEF MatarTerminado
  <2>4. TiposHilo'
    BY <1>4, <2>1, HiloQuieto DEF MatarTerminado
  <2>5. TiposNucleo'
    BY <1>4, <2>1, NucleoTipado DEF MatarTerminado, TiposNucleo
  <2>6. TiposCpu'
    BY <2>1, CpuQuieta
  <2> QED
    BY <2>2, <2>3, <2>4, <2>5, <2>6
<1>5. CASE MatarEnCpu(k)
  <2>1. pid_count' = pid_count /\ cpu' = cpu
    BY <1>5 DEF MatarEnCpu
  <2>2. lista_procesos[FilaConsola(k)] \in FilaUsada
    BY <1>5, Buscada DEF MatarEnCpu, TiposNucleo
  <2>3. mutex' \subseteq {"lista", "ready", "exec", "block", "exit"}
    BY <1>5 DEF MatarEnCpu, TiposNucleo
  <2>4. aCpu' \in [Cpus -> Seq(MensajesACpu)]
    BY <1>5, AlMatar DEF MatarEnCpu
  <2>5. TiposCanales'
    BY <1>5, <2>1, <2>4, DeConsolaTipado, CanalesTipados DEF MatarEnCpu, TiposCanales
  <2>6. TiposCola'
    BY <1>5, <2>1, ColaQuieta DEF MatarEnCpu
  <2>7. TiposHilo'
    BY <1>5, <2>1, <2>2, <1>0, HilosDistintos, HiloCon DEF MatarEnCpu, FilaUsada, Puntos,
          ConProceso
  <2>8. TiposNucleo'
    BY <1>5, <2>1, <2>3, NucleoTipado DEF MatarEnCpu, TiposNucleo
  <2>9. TiposCpu'
    BY <2>1, CpuQuieta
  <2> QED
    BY <2>5, <2>6, <2>7, <2>8, <2>9
<1>6. CASE MatarEnCola(k)
  <2>1. pid_count' = pid_count /\ cpu' = cpu
    BY <1>6 DEF MatarEnCola
  <2>2. lista_procesos[FilaConsola(k)] \in FilaUsada
    BY <1>6, Buscada DEF MatarEnCola, TiposNucleo
  <2>3. mutex' \subseteq {"lista", "ready", "exec", "block", "exit"}
    BY <1>6 DEF MatarEnCola, TiposNucleo
  <2>4. hilo[k].pc = "libre" /\ NombreCola(lista_procesos[FilaConsola(k)].estado) \in {"ready", "new", "block"}
    BY <1>6 DEF MatarEnCola, NombreCola, LlegaDeConsola, En
  <2>5. TiposCanales'
    BY <1>6, <2>1, <2>4, DeConsolaTipado, CanalesTipados DEF MatarEnCola, TiposCanales
  <2>6. TiposCola'
    BY <1>6, <2>1, ColaQuieta DEF MatarEnCola
  <2>7. TiposHilo'
    BY <1>6, <2>1, <2>2, <2>4, <1>0, HilosDistintos, HiloCon DEF MatarEnCola, FilaUsada,
          Puntos, ConProceso, Colas
  <2>8. TiposNucleo'
    BY <1>6, <2>1, <2>3, NucleoTipado DEF MatarEnCola, TiposNucleo
  <2>9. TiposCpu'
    BY <2>1, CpuQuieta
  <2> QED
    BY <2>5, <2>6, <2>7, <2>8, <2>9
<1>7. CASE MatarRespondido(k)
  <2>1. pid_count' = pid_count /\ cpu' = cpu
    BY <1>7 DEF MatarRespondido
  <2>2. hilo[k].pid \in Usados
    BY <1>7, HilosDistintos DEF MatarRespondido, En, TiposHilo, ConProceso
  <2>3. cuenta' \in [{"ready", "cpu", "block", "matar"} -> Nat]
    BY <1>7, CuentaMas DEF MatarRespondido, TiposNucleo
  <2>4. aUmc' \subseteq MensajesAUmc /\ mutex' \subseteq mutex
    BY <1>7, <2>2, <1>0 DEF MatarRespondido, MatarEnUmc, Pedir, MensajesAUmc, TiposCanales
  <2>5. Terminar(k) \/ IrCon(k, "matar_cola", hilo[k].pid, "ready")
    BY <1>7 DEF MatarRespondido, MatarEnUmc
  <2>6. TiposCanales'
    BY <1>7, <2>1, <2>2, <2>4, CanalesTipados DEF MatarRespondido, TiposCanales
  <2>7. TiposCola'
    BY <1>7, <2>1, ColaQuieta DEF MatarRespondido
  <2>8. TiposHilo'
    BY <1>7, <2>1, <2>2, <2>5, <1>0, HilosDistintos, HiloTermina, HiloCon DEF Puntos,
          ConProceso, Colas
  <2>9. TiposNucleo'
    BY <1>7, <2>1, <2>3, <2>4, NucleoTipado DEF MatarRespondido, TiposNucleo
  <2>10. TiposCpu'
    BY <2>1, CpuQuieta
  <2> QED
    BY <2>6, <2>7, <2>8, <2>9, <2>10
<1>8. CASE MatarSacar(k)
  <2>1. pid_count' = pid_count /\ cpu' = cpu
    BY <1>8 DEF MatarSacar
  <2>2. hilo[k].dato \in Colas
    BY <1>8, HilosDistintos DEF MatarSacar, En, TiposHilo, Colas
  <2>3. hilo[k].pid \in Usados
    BY <1>8, HilosDistintos DEF MatarSacar, En, TiposHilo, ConProceso
  <2>4. Sacado(cola[hilo[k].dato], hilo[k].pid) \in UsadoONulo
    BY <1>8, <2>3, <1>0 DEF Sacado
  <2>5. TiposCanales'
    BY <1>8, <2>1, <2>2, <2>3, CanalesTipados DEF MatarSacar, TiposCanales
  <2>6. TiposCola'
    BY <1>8, <2>1, <2>2, <2>3, <2>4, ColaSacada DEF MatarSacar, Colas
  <2>7. TiposHilo'
    BY <1>8, <2>1, <2>2, <2>3, <2>4, <1>0, HilosDistintos, HiloCon DEF MatarSacar, Puntos,
          SinProceso, ConProceso
  <2>8. TiposNucleo'
    BY <1>8, <2>1, NucleoTipado DEF MatarSacar, TiposNucleo
  <2>9. TiposCpu'
    BY <2>1, CpuQuieta
  <2> QED
    BY <2>5, <2>6, <2>7, <2>8, <2>9
<1>9. CASE MatarAExit(k)
  <2>1. pid_count' = pid_count /\ cpu' = cpu
    BY <1>9 DEF MatarAExit
  <2>2. hilo[k].pid \in UsadoONulo
    BY <1>9, HilosDistintos DEF MatarAExit, TiposHilo, HiloTipo
  <2>3. TiposCanales'
    BY <1>9, <2>1, <2>2, CanalesTipados DEF MatarAExit, TiposCanales
  <2>4. TiposCola'
    BY <1>9, <2>1, <2>2, ColaPuesta DEF MatarAExit, Colas
  <2>5. TiposHilo'
    BY <1>9, <2>1, <2>2, <1>0, HilosDistintos, HiloSigue DEF MatarAExit, En, Puntos,
          SinProceso, ConProceso
  <2>6. TiposNucleo'
    BY <1>9, <2>1, NucleoTipado DEF MatarAExit, TiposNucleo
  <2>7. TiposCpu'
    BY <2>1, CpuQuieta
  <2> QED
    BY <2>3, <2>4, <2>5, <2>6, <2>7
<1>10. CASE MatarSinCola(k)
  <2>1. pid_count' = pid_count /\ cpu' = cpu
    BY <1>10 DEF MatarSinCola
  <2>2. hilo[k].pid \in Usados
    BY <1>10, HilosDistintos DEF MatarSinCola, En, TiposHilo, ConProceso
  <2>3. aUmc' \subseteq MensajesAUmc /\ mutex' \subseteq mutex
    BY <1>10, <2>2, <1>0 DEF MatarSinCola, MatarEnUmc, Pedir, MensajesAUmc, TiposCanales
  <2>4. Terminar(k)
    BY <1>10 DEF MatarSinCola, MatarEnUmc
  <2>5. TiposCanales'
    BY <1>10, <2>1, <2>2, <2>3, CanalesTipados DEF MatarSinCola, TiposCanales
  <2>6. TiposCola'
    BY <1>10, <2>1, ColaQuieta DEF MatarSinCola
  <2>7. TiposHilo'
    BY <1>10, <2>1, <2>2, <2>4, <1>0, HilosDistintos, HiloTermina DEF MatarSinCola
  <2>8. TiposNucleo'
    BY <1>10, <2>1, <2>3, NucleoTipado DEF MatarSinCola, TiposNucleo
  <2>9. TiposCpu'
    BY <2>1, CpuQuieta
  <2> QED
    BY <2>5, <2>6, <2>7, <2>8, <2>9
<1> QED
  BY <1>1, <1>2, <1>3, <1>4, <1>5, <1>6, <1>7, <1>8, <1>9, <1>10 DEF PasoConsola

(* A message of the UMC.                                                   *)
LEMMA TiposMensajeDeUmc ==
  ASSUME Tipos, PidsContados, NEW p \in Pids,
         AtenderInicializado(p) \/ AtenderErrorInicializar(p) \/ AtenderFinalizado(p)
           \/ AtenderMatado(p),
         UNCHANGED <<escenario, consola, cpu>>
  PROVE  Tipos'
<1> USE DEF Tipos, quieto, semaforosVars, sinMensajes, canales
<1>0. pid_count \in Nat /\ NULO \notin Usados /\ Usados \subseteq UsadoONulo /\ NULO \in UsadoONulo
  BY UsadosPids DEF TiposNucleo, UsadoONulo
<1>1. CASE AtenderInicializado(p)
  <2>1. pid_count' = pid_count /\ cpu' = cpu
    BY <1>1 DEF AtenderInicializado
  <2>2. p \in Usados /\ aUmc' \subseteq MensajesAUmc
    BY <1>1 DEF AtenderInicializado, LlegaDeUmc, MensajesAUmc, TiposCanales
  <2>3. TiposCanales'
    BY <1>1, <2>1, <2>2, CanalesTipados DEF AtenderInicializado, TiposCanales
  <2>4. TiposCola'
    BY <1>1, <2>1, <2>2, ColaSacada DEF AtenderInicializado, Colas
  <2>5. TiposHilo'
    BY <1>1, <2>1, <2>2, <1>0, HilosDistintos, HiloCon DEF AtenderInicializado, Puntos,
          SinProceso, ConProceso
  <2>6. TiposNucleo'
    BY <1>1, <2>1, NucleoTipado DEF AtenderInicializado, TiposNucleo
  <2>7. TiposCpu'
    BY <2>1, CpuQuieta
  <2> QED
    BY <2>3, <2>4, <2>5, <2>6, <2>7
<1>2. CASE AtenderErrorInicializar(p)
  <2>1. pid_count' = pid_count /\ cpu' = cpu
    BY <1>2 DEF AtenderErrorInicializar
  <2>2. p \in Usados /\ aUmc' \subseteq MensajesAUmc
    BY <1>2 DEF AtenderErrorInicializar, LlegaDeUmc, MensajesAUmc, TiposCanales
  <2>3. TiposCanales'
    BY <1>2, <2>1, <2>2, CanalesTipados DEF AtenderErrorInicializar, TiposCanales
  <2>4. TiposCola'
    BY <1>2, <2>1, <2>2, ColaSacada DEF AtenderErrorInicializar, Colas
  <2>5. TiposHilo'
    BY <1>2, <2>1, <2>2, <1>0, HilosDistintos, HiloCon DEF AtenderErrorInicializar, Puntos,
          SinProceso, ConProceso
  <2>6. TiposNucleo'
    BY <1>2, <2>1, NucleoTipado DEF AtenderErrorInicializar, TiposNucleo
  <2>7. TiposCpu'
    BY <2>1, CpuQuieta
  <2> QED
    BY <2>3, <2>4, <2>5, <2>6, <2>7
<1>3. CASE AtenderFinalizado(p)
  <2>1. pid_count' = pid_count /\ cpu' = cpu
    BY <1>3 DEF AtenderFinalizado
  <2>2. p \in Usados /\ aUmc' \subseteq MensajesAUmc
    BY <1>3 DEF AtenderFinalizado, LlegaDeUmc, MensajesAUmc, TiposCanales
  <2>3. TiposCanales'
    BY <1>3, <2>1, <2>2, CanalesTipados DEF AtenderFinalizado, TiposCanales
  <2>4. TiposCola'
    BY <1>3, <2>1, <2>2, ColaSacada DEF AtenderFinalizado, Colas
  <2>5. TiposHilo'
    BY <1>3, <2>1, <2>2, <1>0, HilosDistintos, HiloCon DEF AtenderFinalizado, Puntos,
          SinProceso, ConProceso
  <2>6. TiposNucleo'
    BY <1>3, <2>1, NucleoTipado DEF AtenderFinalizado, TiposNucleo
  <2>7. TiposCpu'
    BY <2>1, CpuQuieta
  <2> QED
    BY <2>3, <2>4, <2>5, <2>6, <2>7
<1>4. CASE AtenderMatado(p)
  <2>1. pid_count' = pid_count /\ cpu' = cpu
    BY <1>4 DEF AtenderMatado
  <2>2. p \in Usados /\ aUmc' \subseteq MensajesAUmc
    BY <1>4 DEF AtenderMatado, LlegaDeUmc, MensajesAUmc, TiposCanales
  <2>3. TiposCanales'
    BY <1>4, <2>1, <2>2, CanalesTipados DEF AtenderMatado, TiposCanales
  <2>4. TiposCola'
    BY <1>4, <2>1, <2>2, ColaSacada DEF AtenderMatado, Colas
  <2>5. TiposHilo'
    BY <1>4, <2>1, <2>2, <1>0, HilosDistintos, HiloCon DEF AtenderMatado, Puntos, SinProceso,
          ConProceso
  <2>6. TiposNucleo'
    BY <1>4, <2>1, NucleoTipado DEF AtenderMatado, TiposNucleo
  <2>7. TiposCpu'
    BY <2>1, CpuQuieta
  <2> QED
    BY <2>3, <2>4, <2>5, <2>6, <2>7
<1> QED
  BY <1>1, <1>2, <1>3, <1>4

(* The thread of the UMC.                                                  *)
LEMMA TiposUmc ==
  ASSUME Tipos, PidsContados, PasoUmc,
         UNCHANGED <<escenario, consola, cpu>>
  PROVE  Tipos'
<1> USE DEF Tipos, quieto, semaforosVars, sinMensajes, canales
<1>0. pid_count \in Nat /\ NULO \notin Usados /\ Usados \subseteq UsadoONulo /\ NULO \in UsadoONulo
  BY UsadosPids DEF TiposNucleo, UsadoONulo
<1>1. CASE \E p \in Pids : \/ AtenderInicializado(p) \/ AtenderErrorInicializar(p)
                           \/ AtenderFinalizado(p) \/ AtenderMatado(p)
  BY <1>1, TiposMensajeDeUmc
<1>2. CASE InicializadoAReady
  <2>1. pid_count' = pid_count /\ cpu' = cpu
    BY <1>2 DEF InicializadoAReady
  <2>2. hilo[HiloUmc].pid \in UsadoONulo
    BY <1>2, HilosDistintos DEF InicializadoAReady, TiposHilo, HiloTipo
  <2>3. TiposCanales'
    BY <1>2, <2>1, <2>2, CanalesTipados DEF InicializadoAReady, TiposCanales
  <2>4. TiposCola'
    BY <1>2, <2>1, <2>2, ColaPuesta DEF InicializadoAReady, Colas
  <2>5. TiposHilo'
    BY <1>2, <2>1, <2>2, <1>0, HilosDistintos, HiloSigue DEF InicializadoAReady, En, Puntos,
          SinProceso, ConProceso
  <2>6. TiposNucleo'
    BY <1>2, <2>1, NucleoTipado DEF InicializadoAReady, TiposNucleo
  <2>7. TiposCpu'
    BY <2>1, CpuQuieta
  <2> QED
    BY <2>3, <2>4, <2>5, <2>6, <2>7
<1>3. CASE InicializadoEstado
  <2>1. pid_count' = pid_count /\ cpu' = cpu
    BY <1>3 DEF InicializadoEstado
  <2>2. cuenta' \in [{"ready", "cpu", "block", "matar"} -> Nat]
    BY <1>3, CuentaMas DEF InicializadoEstado, TiposNucleo
  <2>3. lista_procesos' \in Seq(FilaUsada)
    BY <1>3, FilaEscrita DEF InicializadoEstado, Estados
  <2>4. TiposCanales'
    BY <1>3, <2>1, CanalesTipados DEF InicializadoEstado, TiposCanales
  <2>5. TiposCola'
    BY <1>3, <2>1, ColaQuieta DEF InicializadoEstado
  <2>6. TiposHilo'
    BY <1>3, <2>1, <1>0, HilosDistintos, HiloTermina DEF InicializadoEstado
  <2>7. TiposNucleo'
    BY <1>3, <2>1, <2>2, <2>3, NucleoTipado DEF InicializadoEstado, TiposNucleo
  <2>8. TiposCpu'
    BY <2>1, CpuQuieta
  <2> QED
    BY <2>4, <2>5, <2>6, <2>7, <2>8
<1>4. CASE ErrorInicializarLista
  <2>1. pid_count' = pid_count /\ cpu' = cpu
    BY <1>4 DEF ErrorInicializarLista
  <2>2. lista_procesos' \in Seq(FilaUsada)
    BY <1>4, FilaEliminada DEF ErrorInicializarLista
  <2>3. TiposCanales'
    BY <1>4, <2>1, CanalesTipados DEF ErrorInicializarLista, TiposCanales
  <2>4. TiposCola'
    BY <1>4, <2>1, ColaQuieta DEF ErrorInicializarLista
  <2>5. TiposHilo'
    BY <1>4, <2>1, <1>0, HilosDistintos, HiloTermina DEF ErrorInicializarLista
  <2>6. TiposNucleo'
    BY <1>4, <2>1, <2>2, NucleoTipado DEF ErrorInicializarLista, TiposNucleo
  <2>7. TiposCpu'
    BY <2>1, CpuQuieta
  <2> QED
    BY <2>3, <2>4, <2>5, <2>6, <2>7
<1>5. CASE FinalizadoAvisar
  <2>1. pid_count' = pid_count /\ cpu' = cpu
    BY <1>5 DEF FinalizadoAvisar
  <2>2. TiposCanales'
    BY <1>5, <2>1, CanalesTipados DEF FinalizadoAvisar, TiposCanales
  <2>3. TiposCola'
    BY <1>5, <2>1, ColaQuieta DEF FinalizadoAvisar
  <2>4. TiposHilo'
    BY <1>5, <2>1, <1>0, HilosDistintos, HiloTermina DEF FinalizadoAvisar
  <2>5. TiposNucleo'
    BY <1>5, <2>1, NucleoTipado DEF FinalizadoAvisar, TiposNucleo
  <2>6. TiposCpu'
    BY <2>1, CpuQuieta
  <2> QED
    BY <2>2, <2>3, <2>4, <2>5, <2>6
<1>6. CASE MatadoLista
  <2>1. pid_count' = pid_count /\ cpu' = cpu
    BY <1>6 DEF MatadoLista
  <2>2. lista_procesos' \in Seq(FilaUsada)
    BY <1>6, FilaEliminada DEF MatadoLista
  <2>3. TiposCanales'
    BY <1>6, <2>1, CanalesTipados DEF MatadoLista, TiposCanales
  <2>4. TiposCola'
    BY <1>6, <2>1, ColaQuieta DEF MatadoLista
  <2>5. TiposHilo'
    BY <1>6, <2>1, <1>0, HilosDistintos, HiloTermina DEF MatadoLista
  <2>6. TiposNucleo'
    BY <1>6, <2>1, <2>2, NucleoTipado DEF MatadoLista, TiposNucleo
  <2>7. TiposCpu'
    BY <2>1, CpuQuieta
  <2> QED
    BY <2>3, <2>4, <2>5, <2>6, <2>7
<1> QED
  BY <1>1, <1>2, <1>3, <1>4, <1>5, <1>6 DEF PasoUmc

(* A message of a CPU.                                                     *)
LEMMA TiposMensajeDeCpu ==
  ASSUME Tipos, PidsContados, NEW c \in Cpus,
         \/ AtenderHandshake(c) \/ AtenderImprimir(c) \/ AtenderEs(c) \/ AtenderWait(c)
         \/ AtenderSignal(c) \/ AtenderDesconexion(c) \/ MatadoSacar(c) \/ DesconexionSacar(c)
         \/ SigintSinProceso(c) \/ SigintLista(c),
         UNCHANGED <<escenario, consola, cpu>>
  PROVE  Tipos'
<1> USE DEF Tipos, quieto, semaforosVars, sinMensajes, canales
<1>0. pid_count \in Nat /\ NULO \notin Usados /\ Usados \subseteq UsadoONulo /\ NULO \in UsadoONulo
  BY UsadosPids DEF TiposNucleo, UsadoONulo
<1>1. CASE AtenderHandshake(c)
  <2>1. pid_count' = pid_count /\ cpu' = cpu
    BY <1>1 DEF AtenderHandshake
  <2>2. cuenta' \in [{"ready", "cpu", "block", "matar"} -> Nat]
    BY <1>1, CuentaMas DEF AtenderHandshake, TiposNucleo, CuentaConCpu
  <2>3. TiposCanales'
    BY <1>1, <2>1, DeCpuTipado, CanalesTipados DEF AtenderHandshake, TiposCanales
  <2>4. TiposCola'
    BY <1>1, <2>1, <2>2, CpuPuesta DEF AtenderHandshake
  <2>5. TiposHilo'
    BY <1>1, <2>1, HiloQuieto DEF AtenderHandshake
  <2>6. TiposNucleo'
    BY <1>1, <2>1, <2>2, NucleoTipado DEF AtenderHandshake, TiposNucleo
  <2>7. TiposCpu'
    BY <2>1, CpuQuieta
  <2> QED
    BY <2>3, <2>4, <2>5, <2>6, <2>7
<1>2. CASE AtenderImprimir(c)
  <2>1. pid_count' = pid_count /\ cpu' = cpu
    BY <1>2 DEF AtenderImprimir
  <2>2. Head(deCpu[c]) \in MensajesDeCpu /\ Head(deCpu[c]).id = "IMPRIMIR"
    BY <1>2, DeCpuTipado DEF AtenderImprimir
  <2>3. PidDe(c) \in Usados
    BY <1>2, <2>2, MensajeTipado, Mensajes DEF PidDe
  <2>4. impreso' \subseteq Usados \X (Consolas \cup {NULO})
    BY <1>2, <2>3, Buscada DEF AtenderImprimir, TiposNucleo, FilaUsada
  <2>5. TiposCanales'
    BY <1>2, <2>1, <2>2, <2>3, DeCpuTipado, CanalesTipados DEF AtenderImprimir, TiposCanales
  <2>6. TiposCola'
    BY <1>2, <2>1, ColaQuieta DEF AtenderImprimir
  <2>7. TiposHilo'
    BY <1>2, <2>1, HiloQuieto DEF AtenderImprimir
  <2>8. TiposNucleo'
    BY <1>2, <2>1, <2>4, NucleoTipado DEF AtenderImprimir, TiposNucleo
  <2>9. TiposCpu'
    BY <2>1, CpuQuieta
  <2> QED
    BY <2>5, <2>6, <2>7, <2>8, <2>9
<1>3. CASE AtenderEs(c)
  <2>1. pid_count' = pid_count /\ cpu' = cpu
    BY <1>3 DEF AtenderEs
  <2>2. Head(deCpu[c]) \in MensajesDeCpu /\ Head(deCpu[c]).id = "ENTRADA_SALIDA"
    BY <1>3, DeCpuTipado DEF AtenderEs
  <2>3. PidDe(c) \in Usados
    BY <1>3, <2>2, MensajeTipado, Mensajes DEF PidDe
  <2>4. ArgDe(c) \in Dispositivos
    BY <1>3, <2>2, MensajeTipado DEF ArgDe
  <2>5. cuenta' \in [{"ready", "cpu", "block", "matar"} -> Nat]
    BY <1>3, CuentaMas DEF AtenderEs, TiposNucleo
  <2>6. solicitudes_es' \in [Dispositivos -> Seq(Usados)]
    BY <1>3, <2>3, <2>4, AppendProperties DEF AtenderEs, TiposNucleo
  <2>7. TiposCanales'
    BY <1>3, <2>1, <2>2, <2>3, DeCpuTipado, CanalesTipados DEF AtenderEs, TiposCanales
  <2>8. TiposCola'
    BY <1>3, <2>1, ColaQuieta DEF AtenderEs
  <2>9. TiposHilo'
    BY <1>3, <2>1, HiloQuieto DEF AtenderEs
  <2>10. TiposNucleo'
    BY <1>3, <2>1, <2>5, <2>6, NucleoTipado DEF AtenderEs, TiposNucleo
  <2>11. TiposCpu'
    BY <2>1, CpuQuieta
  <2> QED
    BY <2>7, <2>8, <2>9, <2>10, <2>11
<1>4. CASE AtenderWait(c)
  <2>1. pid_count' = pid_count /\ cpu' = cpu
    BY <1>4 DEF AtenderWait
  <2>2. aCpu' \in [Cpus -> Seq(MensajesACpu)]
    BY <1>4, AlResponder DEF AtenderWait
  <2>3. solicitudes' = solicitudes
    BY <1>4 DEF AtenderWait, Sem!WaitConcedido, Sem!WaitBloquea
  <2>4. TiposCanales'
    BY <1>4, <2>1, <2>2, DeCpuTipado, CanalesTipados DEF AtenderWait, TiposCanales
  <2>5. TiposCola'
    BY <1>4, <2>1, ColaQuieta DEF AtenderWait
  <2>6. TiposHilo'
    BY <1>4, <2>1, HiloQuieto DEF AtenderWait
  <2>7. TiposNucleo'
    BY <1>4, <2>1, <2>3, NucleoTipado DEF AtenderWait, TiposNucleo
  <2>8. TiposCpu'
    BY <2>1, CpuQuieta
  <2> QED
    BY <2>4, <2>5, <2>6, <2>7, <2>8
<1>5. CASE AtenderSignal(c)
  <2>1. pid_count' = pid_count /\ cpu' = cpu
    BY <1>5 DEF AtenderSignal
  <2>2. solicitudes' = solicitudes
    BY <1>5 DEF AtenderSignal, Sem!Signal
  <2>3. TiposCanales'
    BY <1>5, <2>1, DeCpuTipado, CanalesTipados DEF AtenderSignal, TiposCanales
  <2>4. TiposCola'
    BY <1>5, <2>1, ColaQuieta DEF AtenderSignal
  <2>5. TiposHilo'
    BY <1>5, <2>1, HiloQuieto DEF AtenderSignal
  <2>6. TiposNucleo'
    BY <1>5, <2>1, <2>2, NucleoTipado DEF AtenderSignal, TiposNucleo
  <2>7. TiposCpu'
    BY <2>1, CpuQuieta
  <2> QED
    BY <2>3, <2>4, <2>5, <2>6, <2>7
<1>6. CASE AtenderDesconexion(c)
  <2>1. pid_count' = pid_count /\ cpu' = cpu
    BY <1>6 DEF AtenderDesconexion
  <2>2. TiposCanales'
    BY <1>6, <2>1, DeCpuTipado, CanalesTipados DEF AtenderDesconexion, TiposCanales
  <2>3. TiposCola'
    BY <1>6, <2>1, CpuQuitada DEF AtenderDesconexion
  <2>4. TiposHilo'
    BY <1>6, <2>1, HiloQuieto DEF AtenderDesconexion
  <2>5. TiposNucleo'
    BY <1>6, <2>1, NucleoTipado DEF AtenderDesconexion, TiposNucleo
  <2>6. TiposCpu'
    BY <2>1, CpuQuieta
  <2> QED
    BY <2>2, <2>3, <2>4, <2>5, <2>6
<1>7. CASE MatadoSacar(c)
  <2>1. pid_count' = pid_count /\ cpu' = cpu
    BY <1>7 DEF MatadoSacar
  <2>2. Head(deCpu[c]) \in MensajesDeCpu /\ Head(deCpu[c]).id = "RESPUESTA_MATAR"
    BY <1>7, DeCpuTipado DEF MatadoSacar
  <2>3. PidDe(c) \in Usados
    BY <1>7, <2>2, MensajeTipado, Mensajes DEF PidDe
  <2>4. Sacado(cola.exec, PidDe(c)) \in UsadoONulo
    BY <1>7, <2>3, <1>0 DEF Sacado
  <2>5. cuenta' \in [{"ready", "cpu", "block", "matar"} -> Nat]
    BY <1>7, CuentaMas DEF MatadoSacar, TiposNucleo, CuentaConCpu
  <2>6. TiposCanales'
    BY <1>7, <2>1, <2>2, <2>3, <2>4, DeCpuTipado, CanalesTipados DEF MatadoSacar, TiposCanales
  <2>7. TiposCola'
    BY <1>7, <2>1, <2>2, <2>3, <2>4, <2>5, ColaSacadaConCpu DEF MatadoSacar, Colas
  <2>8. TiposHilo'
    BY <1>7, <2>1, <2>2, <2>3, <2>4, <1>0, HilosDistintos, HiloCon DEF MatadoSacar, Puntos,
          SinProceso, ConProceso
  <2>9. TiposNucleo'
    BY <1>7, <2>1, <2>5, NucleoTipado DEF MatadoSacar, TiposNucleo
  <2>10. TiposCpu'
    BY <2>1, CpuQuieta
  <2> QED
    BY <2>6, <2>7, <2>8, <2>9, <2>10
<1>8. CASE DesconexionSacar(c)
  <2>1. pid_count' = pid_count /\ cpu' = cpu
    BY <1>8 DEF DesconexionSacar
  <2>2. Head(deCpu[c]) \in MensajesDeCpu /\ Head(deCpu[c]).id = "MATAR_CPU"
    BY <1>8, DeCpuTipado DEF DesconexionSacar
  <2>3. PidDe(c) \in Usados
    BY <1>8, <2>2, MensajeTipado, Mensajes DEF PidDe
  <2>4. TiposCanales'
    BY <1>8, <2>1, <2>2, <2>3, DeCpuTipado, CanalesTipados DEF DesconexionSacar, TiposCanales
  <2>5. TiposCola'
    BY <1>8, <2>1, <2>2, <2>3, ColaSacada DEF DesconexionSacar, Colas
  <2>6. TiposHilo'
    BY <1>8, <2>1, <2>2, <2>3, <1>0, HilosDistintos, HiloCon DEF DesconexionSacar, Puntos,
          ConProceso
  <2>7. TiposNucleo'
    BY <1>8, <2>1, NucleoTipado DEF DesconexionSacar, TiposNucleo
  <2>8. TiposCpu'
    BY <2>1, CpuQuieta
  <2> QED
    BY <2>4, <2>5, <2>6, <2>7, <2>8
<1>9. CASE SigintSinProceso(c)
  <2>1. pid_count' = pid_count /\ cpu' = cpu
    BY <1>9 DEF SigintSinProceso
  <2>2. TiposCanales'
    BY <1>9, <2>1, DeCpuTipado, CanalesTipados DEF SigintSinProceso, TiposCanales
  <2>3. TiposCola'
    BY <1>9, <2>1, ColaQuieta DEF SigintSinProceso
  <2>4. TiposHilo'
    BY <1>9, <2>1, HiloQuieto DEF SigintSinProceso
  <2>5. TiposNucleo'
    BY <1>9, <2>1, NucleoTipado DEF SigintSinProceso, TiposNucleo
  <2>6. TiposCpu'
    BY <2>1, CpuQuieta
  <2> QED
    BY <2>2, <2>3, <2>4, <2>5, <2>6
<1>10. CASE SigintLista(c)
  <2>1. pid_count' = pid_count /\ cpu' = cpu
    BY <1>10 DEF SigintLista
  <2>2. mutex' \subseteq {"lista", "ready", "exec", "block", "exit"}
    BY <1>10 DEF SigintLista, TiposNucleo
  <2>3. lista_procesos[FilaCpu(c)].pid \in Usados
    BY <1>10, Buscada DEF SigintLista, FilaUsada
  <2>4. TiposCanales'
    BY <1>10, <2>1, <2>3, DeCpuTipado, CanalesTipados DEF SigintLista, TiposCanales
  <2>5. TiposCola'
    BY <1>10, <2>1, ColaQuieta DEF SigintLista
  <2>6. TiposHilo'
    BY <1>10, <2>1, <2>3, <1>0, HilosDistintos, HiloCon DEF SigintLista, Puntos, ConProceso
  <2>7. TiposNucleo'
    BY <1>10, <2>1, <2>2, NucleoTipado DEF SigintLista, TiposNucleo
  <2>8. TiposCpu'
    BY <2>1, CpuQuieta
  <2> QED
    BY <2>4, <2>5, <2>6, <2>7, <2>8
<1> QED
  BY <1>1, <1>2, <1>3, <1>4, <1>5, <1>6, <1>7, <1>8, <1>9, <1>10

(* The handlers that take a process out of cola_exec.                      *)
LEMMA TiposSacarDeExec ==
  ASSUME Tipos, PidsContados, NEW c \in Cpus, NEW id \in IdsConPcb, NEW siguiente \in ConProceso \ {"matar_cola"},
         SacarDeExec(c, id, siguiente),
         UNCHANGED <<escenario, consola, cpu>>
  PROVE  Tipos'
<1> USE DEF Tipos, quieto, semaforosVars, sinMensajes, canales
<1>0. pid_count \in Nat /\ NULO \notin Usados /\ Usados \subseteq UsadoONulo /\ NULO \in UsadoONulo
  BY UsadosPids DEF TiposNucleo, UsadoONulo
<1>1. CASE TRUE
  <2>1. pid_count' = pid_count /\ cpu' = cpu
    BY <1>1 DEF SacarDeExec
  <2>2. Head(deCpu[c]) \in MensajesDeCpu /\ Head(deCpu[c]).id = id
    BY <1>1, DeCpuTipado DEF SacarDeExec
  <2>3. PidDe(c) \in Usados
    BY <1>1, <2>2, MensajeTipado, Mensajes DEF PidDe
  <2>4. TiposCanales'
    BY <1>1, <2>1, <2>2, <2>3, DeCpuTipado, CanalesTipados DEF SacarDeExec, TiposCanales
  <2>5. TiposCola'
    BY <1>1, <2>1, <2>2, <2>3, ColaSacada DEF SacarDeExec, Colas
  <2>6. TiposHilo'
    BY <1>1, <2>1, <2>2, <2>3, <1>0, HilosDistintos, HiloCon DEF SacarDeExec, Puntos
  <2>7. TiposNucleo'
    BY <1>1, <2>1, NucleoTipado DEF SacarDeExec, TiposNucleo
  <2>8. TiposCpu'
    BY <2>1, CpuQuieta
  <2> QED
    BY <2>4, <2>5, <2>6, <2>7, <2>8
<1> QED
  BY <1>1

(* The rest of the handlers of a PCB.                                      *)
LEMMA TiposHandlerDeCpu ==
  ASSUME Tipos, PidsContados, NEW c \in Cpus,
         \/ QuantumLista(c) \/ QuantumReady(c) \/ QuantumCpu(c) \/ FinalizadoExit(c)
         \/ FinalizadoLista(c) \/ FinalizadoCpu(c) \/ EsPcbBlock(c) \/ EsPcbLista(c)
         \/ WaitPcbBlock(c) \/ WaitPcbLista(c) \/ WaitPcbCpu(c) \/ WaitPcbSolicitud(c)
         \/ MatadoExit(c) \/ DesconexionReady(c) \/ DesconexionLista(c) \/ DesconexionCpu(c)
         \/ SigintExec(c) \/ SigintExit(c),
         UNCHANGED <<escenario, consola, cpu>>
  PROVE  Tipos'
<1> USE DEF Tipos, quieto, semaforosVars, sinMensajes, canales
<1>0. pid_count \in Nat /\ NULO \notin Usados /\ Usados \subseteq UsadoONulo /\ NULO \in UsadoONulo
  BY UsadosPids DEF TiposNucleo, UsadoONulo
<1>1. CASE QuantumLista(c)
  <2>1. pid_count' = pid_count /\ cpu' = cpu
    BY <1>1 DEF QuantumLista
  <2>2. hilo[c].pid \in Usados
    BY <1>1, HilosDistintos DEF QuantumLista, En, TiposHilo, ConProceso
  <2>3. lista_procesos' \in Seq(FilaUsada)
    BY <1>1, <2>2, FilaEnReady DEF QuantumLista
  <2>4. TiposCanales'
    BY <1>1, <2>1, <2>2, CanalesTipados DEF QuantumLista, TiposCanales
  <2>5. TiposCola'
    BY <1>1, <2>1, ColaQuieta DEF QuantumLista
  <2>6. TiposHilo'
    BY <1>1, <2>1, <2>2, <1>0, HilosDistintos, HiloSigue DEF QuantumLista, En, Puntos,
          SinProceso, ConProceso
  <2>7. TiposNucleo'
    BY <1>1, <2>1, <2>3, NucleoTipado DEF QuantumLista, TiposNucleo
  <2>8. TiposCpu'
    BY <2>1, CpuQuieta
  <2> QED
    BY <2>4, <2>5, <2>6, <2>7, <2>8
<1>2. CASE QuantumReady(c)
  <2>1. pid_count' = pid_count /\ cpu' = cpu
    BY <1>2 DEF QuantumReady
  <2>2. hilo[c].pid \in UsadoONulo
    BY <1>2, HilosDistintos DEF QuantumReady, TiposHilo, HiloTipo
  <2>3. TiposCanales'
    BY <1>2, <2>1, <2>2, CanalesTipados DEF QuantumReady, TiposCanales
  <2>4. TiposCola'
    BY <1>2, <2>1, <2>2, ColaPuesta DEF QuantumReady, Colas
  <2>5. TiposHilo'
    BY <1>2, <2>1, <2>2, <1>0, HilosDistintos, HiloSigue DEF QuantumReady, En, Puntos,
          SinProceso, ConProceso
  <2>6. TiposNucleo'
    BY <1>2, <2>1, NucleoTipado DEF QuantumReady, TiposNucleo
  <2>7. TiposCpu'
    BY <2>1, CpuQuieta
  <2> QED
    BY <2>3, <2>4, <2>5, <2>6, <2>7
<1>3. CASE QuantumCpu(c)
  <2>1. pid_count' = pid_count /\ cpu' = cpu
    BY <1>3 DEF QuantumCpu
  <2>2. cuenta' \in [{"ready", "cpu", "block", "matar"} -> Nat]
    BY <1>3, CuentaMas DEF QuantumCpu, TiposNucleo, CuentaConCpu
  <2>3. TiposCanales'
    BY <1>3, <2>1, CanalesTipados DEF QuantumCpu, TiposCanales
  <2>4. TiposCola'
    BY <1>3, <2>1, <2>2, CpuPuesta DEF QuantumCpu
  <2>5. TiposHilo'
    BY <1>3, <2>1, <1>0, HilosDistintos, HiloTermina DEF QuantumCpu
  <2>6. TiposNucleo'
    BY <1>3, <2>1, <2>2, NucleoTipado DEF QuantumCpu, TiposNucleo
  <2>7. TiposCpu'
    BY <2>1, CpuQuieta
  <2> QED
    BY <2>3, <2>4, <2>5, <2>6, <2>7
<1>4. CASE FinalizadoExit(c)
  <2>1. pid_count' = pid_count /\ cpu' = cpu
    BY <1>4 DEF FinalizadoExit
  <2>2. hilo[c].pid \in UsadoONulo
    BY <1>4, HilosDistintos DEF FinalizadoExit, TiposHilo, HiloTipo
  <2>3. mutex' \subseteq {"lista", "ready", "exec", "block", "exit"}
    BY <1>4 DEF FinalizadoExit, TiposNucleo
  <2>4. TiposCanales'
    BY <1>4, <2>1, <2>2, CanalesTipados DEF FinalizadoExit, TiposCanales
  <2>5. TiposCola'
    BY <1>4, <2>1, <2>2, <2>3, ColaPuesta DEF FinalizadoExit, Colas
  <2>6. TiposHilo'
    BY <1>4, <2>1, <2>2, <1>0, HilosDistintos, HiloSigue DEF FinalizadoExit, En, Puntos,
          SinProceso, ConProceso
  <2>7. TiposNucleo'
    BY <1>4, <2>1, <2>3, NucleoTipado DEF FinalizadoExit, TiposNucleo
  <2>8. TiposCpu'
    BY <2>1, CpuQuieta
  <2> QED
    BY <2>4, <2>5, <2>6, <2>7, <2>8
<1>5. CASE FinalizadoLista(c)
  <2>1. pid_count' = pid_count /\ cpu' = cpu
    BY <1>5 DEF FinalizadoLista
  <2>2. lista_procesos' \in Seq(FilaUsada)
    BY <1>5, FilaActualizada, FilaDesasignada DEF FinalizadoLista, Estados
  <2>3. TiposCanales'
    BY <1>5, <2>1, CanalesTipados DEF FinalizadoLista, TiposCanales
  <2>4. TiposCola'
    BY <1>5, <2>1, ColaQuieta DEF FinalizadoLista
  <2>5. TiposHilo'
    BY <1>5, <2>1, <1>0, HilosDistintos, HiloSigue DEF FinalizadoLista, En, Puntos, SinProceso,
          ConProceso
  <2>6. TiposNucleo'
    BY <1>5, <2>1, <2>2, NucleoTipado DEF FinalizadoLista, TiposNucleo
  <2>7. TiposCpu'
    BY <2>1, CpuQuieta
  <2> QED
    BY <2>3, <2>4, <2>5, <2>6, <2>7
<1>6. CASE FinalizadoCpu(c)
  <2>1. pid_count' = pid_count /\ cpu' = cpu
    BY <1>6 DEF FinalizadoCpu
  <2>2. hilo[c].pid \in Usados
    BY <1>6, HilosDistintos DEF FinalizadoCpu, En, TiposHilo, ConProceso
  <2>3. cuenta' \in [{"ready", "cpu", "block", "matar"} -> Nat]
    BY <1>6, CuentaMas DEF FinalizadoCpu, TiposNucleo, CuentaConCpu
  <2>4. mutex' \subseteq {"lista", "ready", "exec", "block", "exit"}
    BY <1>6 DEF FinalizadoCpu, TiposNucleo
  <2>5. aUmc' \subseteq MensajesAUmc
    BY <1>6, <2>2 DEF FinalizadoCpu, Pedir, MensajesAUmc, TiposCanales
  <2>6. TiposCanales'
    BY <1>6, <2>1, <2>2, <2>5, CanalesTipados DEF FinalizadoCpu, TiposCanales
  <2>7. TiposCola'
    BY <1>6, <2>1, <2>2, <2>3, <2>4, <2>5, CpuPuesta DEF FinalizadoCpu
  <2>8. TiposHilo'
    BY <1>6, <2>1, <2>2, <1>0, HilosDistintos, HiloTermina DEF FinalizadoCpu
  <2>9. TiposNucleo'
    BY <1>6, <2>1, <2>3, <2>4, NucleoTipado DEF FinalizadoCpu, TiposNucleo
  <2>10. TiposCpu'
    BY <2>1, CpuQuieta
  <2> QED
    BY <2>6, <2>7, <2>8, <2>9, <2>10
<1>7. CASE EsPcbBlock(c)
  <2>1. pid_count' = pid_count /\ cpu' = cpu
    BY <1>7 DEF EsPcbBlock
  <2>2. hilo[c].pid \in UsadoONulo
    BY <1>7, HilosDistintos DEF EsPcbBlock, TiposHilo, HiloTipo
  <2>3. cuenta' \in [{"ready", "cpu", "block", "matar"} -> Nat]
    BY <1>7, CuentaMas DEF EsPcbBlock, TiposNucleo, CuentaConCpu
  <2>4. mutex' \subseteq {"lista", "ready", "exec", "block", "exit"}
    BY <1>7 DEF EsPcbBlock, TiposNucleo
  <2>5. TiposCanales'
    BY <1>7, <2>1, <2>2, CanalesTipados DEF EsPcbBlock, TiposCanales
  <2>6. TiposCola'
    BY <1>7, <2>1, <2>2, <2>3, <2>4, ColaPuestaConCpu DEF EsPcbBlock, Colas
  <2>7. TiposHilo'
    BY <1>7, <2>1, <2>2, <1>0, HilosDistintos, HiloSigue DEF EsPcbBlock, En, Puntos,
          SinProceso, ConProceso
  <2>8. TiposNucleo'
    BY <1>7, <2>1, <2>3, <2>4, NucleoTipado DEF EsPcbBlock, TiposNucleo
  <2>9. TiposCpu'
    BY <2>1, CpuQuieta
  <2> QED
    BY <2>5, <2>6, <2>7, <2>8, <2>9
<1>8. CASE EsPcbLista(c)
  <2>1. pid_count' = pid_count /\ cpu' = cpu
    BY <1>8 DEF EsPcbLista
  <2>2. lista_procesos' \in Seq(FilaUsada)
    BY <1>8, FilaActualizada, FilaDesasignada DEF EsPcbLista, Estados
  <2>3. mutex' \subseteq {"lista", "ready", "exec", "block", "exit"}
    BY <1>8 DEF EsPcbLista, TiposNucleo
  <2>4. cuenta' \in [{"ready", "cpu", "block", "matar"} -> Nat]
    BY <1>8, CuentaMas DEF EsPcbLista, TiposNucleo
  <2>5. TiposCanales'
    BY <1>8, <2>1, CanalesTipados DEF EsPcbLista, TiposCanales
  <2>6. TiposCola'
    BY <1>8, <2>1, ColaQuieta DEF EsPcbLista
  <2>7. TiposHilo'
    BY <1>8, <2>1, <1>0, HilosDistintos, HiloTermina DEF EsPcbLista
  <2>8. TiposNucleo'
    BY <1>8, <2>1, <2>2, <2>3, <2>4, NucleoTipado DEF EsPcbLista, TiposNucleo
  <2>9. TiposCpu'
    BY <2>1, CpuQuieta
  <2> QED
    BY <2>5, <2>6, <2>7, <2>8, <2>9
<1>9. CASE WaitPcbBlock(c)
  <2>1. pid_count' = pid_count /\ cpu' = cpu
    BY <1>9 DEF WaitPcbBlock
  <2>2. hilo[c].pid \in UsadoONulo
    BY <1>9, HilosDistintos DEF WaitPcbBlock, TiposHilo, HiloTipo
  <2>3. TiposCanales'
    BY <1>9, <2>1, <2>2, CanalesTipados DEF WaitPcbBlock, TiposCanales
  <2>4. TiposCola'
    BY <1>9, <2>1, <2>2, ColaPuesta DEF WaitPcbBlock, Colas
  <2>5. TiposHilo'
    BY <1>9, <2>1, <2>2, <1>0, HilosDistintos, HiloSigue DEF WaitPcbBlock, En, Puntos,
          SinProceso, ConProceso
  <2>6. TiposNucleo'
    BY <1>9, <2>1, NucleoTipado DEF WaitPcbBlock, TiposNucleo
  <2>7. TiposCpu'
    BY <2>1, CpuQuieta
  <2> QED
    BY <2>3, <2>4, <2>5, <2>6, <2>7
<1>10. CASE WaitPcbLista(c)
  <2>1. pid_count' = pid_count /\ cpu' = cpu
    BY <1>10 DEF WaitPcbLista
  <2>2. lista_procesos' \in Seq(FilaUsada)
    BY <1>10, FilaActualizada, FilaDesasignada DEF WaitPcbLista, Estados
  <2>3. TiposCanales'
    BY <1>10, <2>1, CanalesTipados DEF WaitPcbLista, TiposCanales
  <2>4. TiposCola'
    BY <1>10, <2>1, ColaQuieta DEF WaitPcbLista
  <2>5. TiposHilo'
    BY <1>10, <2>1, <1>0, HilosDistintos, HiloSigue DEF WaitPcbLista, En, Puntos, SinProceso,
          ConProceso
  <2>6. TiposNucleo'
    BY <1>10, <2>1, <2>2, NucleoTipado DEF WaitPcbLista, TiposNucleo
  <2>7. TiposCpu'
    BY <2>1, CpuQuieta
  <2> QED
    BY <2>3, <2>4, <2>5, <2>6, <2>7
<1>11. CASE WaitPcbCpu(c)
  <2>1. pid_count' = pid_count /\ cpu' = cpu
    BY <1>11 DEF WaitPcbCpu
  <2>2. cuenta' \in [{"ready", "cpu", "block", "matar"} -> Nat]
    BY <1>11, CuentaMas DEF WaitPcbCpu, TiposNucleo, CuentaConCpu
  <2>3. TiposCanales'
    BY <1>11, <2>1, CanalesTipados DEF WaitPcbCpu, TiposCanales
  <2>4. TiposCola'
    BY <1>11, <2>1, <2>2, CpuPuesta DEF WaitPcbCpu
  <2>5. TiposHilo'
    BY <1>11, <2>1, <1>0, HilosDistintos, HiloSigue DEF WaitPcbCpu, En, Puntos, SinProceso,
          ConProceso
  <2>6. TiposNucleo'
    BY <1>11, <2>1, <2>2, NucleoTipado DEF WaitPcbCpu, TiposNucleo
  <2>7. TiposCpu'
    BY <2>1, CpuQuieta
  <2> QED
    BY <2>3, <2>4, <2>5, <2>6, <2>7
<1>12. CASE WaitPcbSolicitud(c)
  <2>1. pid_count' = pid_count /\ cpu' = cpu
    BY <1>12 DEF WaitPcbSolicitud
  <2>2. hilo[c].pid \in Usados
    BY <1>12, HilosDistintos DEF WaitPcbSolicitud, En, TiposHilo, ConProceso
  <2>3. \E s : solicitudes' = [solicitudes EXCEPT ![s] = Append(@, hilo[c].pid)]
    BY <1>12 DEF WaitPcbSolicitud, Sem!WaitPcb
  <2>4. solicitudes' \in [Sems -> Seq(Usados)]
    BY <1>12, <2>2, <2>3, SolicitudesTipadas
  <2>5. TiposCanales'
    BY <1>12, <2>1, <2>2, CanalesTipados DEF WaitPcbSolicitud, TiposCanales
  <2>6. TiposCola'
    BY <1>12, <2>1, ColaQuieta DEF WaitPcbSolicitud
  <2>7. TiposHilo'
    BY <1>12, <2>1, <2>2, <2>3, <1>0, HilosDistintos, HiloTermina DEF WaitPcbSolicitud
  <2>8. TiposNucleo'
    BY <1>12, <2>1, <2>3, <2>4, NucleoTipado DEF WaitPcbSolicitud, TiposNucleo
  <2>9. TiposCpu'
    BY <2>1, CpuQuieta
  <2> QED
    BY <2>5, <2>6, <2>7, <2>8, <2>9
<1>13. CASE MatadoExit(c)
  <2>1. pid_count' = pid_count /\ cpu' = cpu
    BY <1>13 DEF MatadoExit
  <2>2. hilo[c].pid \in UsadoONulo
    BY <1>13, HilosDistintos DEF MatadoExit, TiposHilo, HiloTipo
  <2>3. cuenta' \in [{"ready", "cpu", "block", "matar"} -> Nat]
    BY <1>13, CuentaMas DEF MatadoExit, TiposNucleo
  <2>4. TiposCanales'
    BY <1>13, <2>1, <2>2, CanalesTipados DEF MatadoExit, TiposCanales
  <2>5. TiposCola'
    BY <1>13, <2>1, <2>2, <2>3, ColaPuesta DEF MatadoExit, Colas
  <2>6. TiposHilo'
    BY <1>13, <2>1, <2>2, <1>0, HilosDistintos, HiloTermina DEF MatadoExit
  <2>7. TiposNucleo'
    BY <1>13, <2>1, <2>3, NucleoTipado DEF MatadoExit, TiposNucleo
  <2>8. TiposCpu'
    BY <2>1, CpuQuieta
  <2> QED
    BY <2>4, <2>5, <2>6, <2>7, <2>8
<1>14. CASE DesconexionReady(c)
  <2>1. pid_count' = pid_count /\ cpu' = cpu
    BY <1>14 DEF DesconexionReady
  <2>2. hilo[c].pid \in UsadoONulo
    BY <1>14, HilosDistintos DEF DesconexionReady, TiposHilo, HiloTipo
  <2>3. TiposCanales'
    BY <1>14, <2>1, <2>2, CanalesTipados DEF DesconexionReady, TiposCanales
  <2>4. TiposCola'
    BY <1>14, <2>1, <2>2, ColaPuesta DEF DesconexionReady, Colas
  <2>5. TiposHilo'
    BY <1>14, <2>1, <2>2, <1>0, HilosDistintos, HiloSigue DEF DesconexionReady, En, Puntos,
          SinProceso, ConProceso
  <2>6. TiposNucleo'
    BY <1>14, <2>1, NucleoTipado DEF DesconexionReady, TiposNucleo
  <2>7. TiposCpu'
    BY <2>1, CpuQuieta
  <2> QED
    BY <2>3, <2>4, <2>5, <2>6, <2>7
<1>15. CASE DesconexionLista(c)
  <2>1. pid_count' = pid_count /\ cpu' = cpu
    BY <1>15 DEF DesconexionLista
  <2>2. hilo[c].pid \in Usados
    BY <1>15, HilosDistintos DEF DesconexionLista, En, TiposHilo, ConProceso
  <2>3. lista_procesos' \in Seq(FilaUsada)
    BY <1>15, <2>2, FilaEnReady DEF DesconexionLista
  <2>4. TiposCanales'
    BY <1>15, <2>1, <2>2, CanalesTipados DEF DesconexionLista, TiposCanales
  <2>5. TiposCola'
    BY <1>15, <2>1, ColaQuieta DEF DesconexionLista
  <2>6. TiposHilo'
    BY <1>15, <2>1, <2>2, <1>0, HilosDistintos, HiloSigue DEF DesconexionLista, En, Puntos,
          SinProceso, ConProceso
  <2>7. TiposNucleo'
    BY <1>15, <2>1, <2>3, NucleoTipado DEF DesconexionLista, TiposNucleo
  <2>8. TiposCpu'
    BY <2>1, CpuQuieta
  <2> QED
    BY <2>4, <2>5, <2>6, <2>7, <2>8
<1>16. CASE DesconexionCpu(c)
  <2>1. pid_count' = pid_count /\ cpu' = cpu
    BY <1>16 DEF DesconexionCpu
  <2>2. cuenta' \in [{"ready", "cpu", "block", "matar"} -> Nat]
    BY <1>16, CuentaMas DEF DesconexionCpu, TiposNucleo
  <2>3. TiposCanales'
    BY <1>16, <2>1, CanalesTipados DEF DesconexionCpu, TiposCanales
  <2>4. TiposCola'
    BY <1>16, <2>1, <2>2, CpuQuitada DEF DesconexionCpu
  <2>5. TiposHilo'
    BY <1>16, <2>1, <1>0, HilosDistintos, HiloTermina DEF DesconexionCpu
  <2>6. TiposNucleo'
    BY <1>16, <2>1, <2>2, NucleoTipado DEF DesconexionCpu, TiposNucleo
  <2>7. TiposCpu'
    BY <2>1, CpuQuieta
  <2> QED
    BY <2>3, <2>4, <2>5, <2>6, <2>7
<1>17. CASE SigintExec(c)
  <2>1. pid_count' = pid_count /\ cpu' = cpu
    BY <1>17 DEF SigintExec
  <2>2. TiposCanales'
    BY <1>17, <2>1, CanalesTipados DEF SigintExec, TiposCanales
  <2>3. TiposCola'
    BY <1>17, <2>1, ColaSacada DEF SigintExec, Colas
  <2>4. TiposHilo'
    BY <1>17, <2>1, <1>0, HilosDistintos, HiloSigue DEF SigintExec, En, Puntos, SinProceso,
          ConProceso
  <2>5. TiposNucleo'
    BY <1>17, <2>1, NucleoTipado DEF SigintExec, TiposNucleo
  <2>6. TiposCpu'
    BY <2>1, CpuQuieta
  <2> QED
    BY <2>2, <2>3, <2>4, <2>5, <2>6
<1>18. CASE SigintExit(c)
  <2>1. pid_count' = pid_count /\ cpu' = cpu
    BY <1>18 DEF SigintExit
  <2>2. hilo[c].pid \in UsadoONulo
    BY <1>18, HilosDistintos DEF SigintExit, TiposHilo, HiloTipo
  <2>3. mutex' \subseteq {"lista", "ready", "exec", "block", "exit"}
    BY <1>18 DEF SigintExit, TiposNucleo
  <2>4. lista_procesos' \in Seq(FilaUsada)
    BY <1>18, FilaConExit DEF SigintExit
  <2>5. TiposCanales'
    BY <1>18, <2>1, <2>2, CanalesTipados DEF SigintExit, TiposCanales
  <2>6. TiposCola'
    BY <1>18, <2>1, <2>2, <2>3, <2>4, ColaPuesta DEF SigintExit, Colas
  <2>7. TiposHilo'
    BY <1>18, <2>1, <2>2, <1>0, HilosDistintos, HiloSigue DEF SigintExit, En, Puntos,
          SinProceso, ConProceso
  <2>8. TiposNucleo'
    BY <1>18, <2>1, <2>3, <2>4, NucleoTipado DEF SigintExit, TiposNucleo
  <2>9. TiposCpu'
    BY <2>1, CpuQuieta
  <2> QED
    BY <2>5, <2>6, <2>7, <2>8, <2>9
<1> QED
  BY <1>1, <1>2, <1>3, <1>4, <1>5, <1>6, <1>7, <1>8, <1>9, <1>10, <1>11, <1>12, <1>13, <1>14,
        <1>15, <1>16, <1>17, <1>18

(* The threads of the CPUs in the Nucleo.                                  *)
LEMMA TiposCpuNucleo ==
  ASSUME Tipos, PidsContados, NEW c \in Cpus, PasoCpuNucleo(c),
         UNCHANGED <<escenario, consola, cpu>>
  PROVE  Tipos'
<1> USE DEF Tipos, quieto, semaforosVars, sinMensajes, canales
<1>0. pid_count \in Nat /\ NULO \notin Usados /\ Usados \subseteq UsadoONulo /\ NULO \in UsadoONulo
  BY UsadosPids DEF TiposNucleo, UsadoONulo
<1>1. /\ {"QUANTUM", "PROGRAMA_FINALIZADO", "EXCEPCION_UMC", "ENTRADA_SALIDA_PCB", "WAIT_PCB"}
           \subseteq IdsConPcb
      /\ {"quantum_lista", "fin_exit", "es_block", "wait_block"} \subseteq ConProceso \ {"matar_cola"}
  BY Mensajes DEF ConProceso
<1>2. CASE \/ AtenderHandshake(c) \/ AtenderImprimir(c) \/ AtenderEs(c) \/ AtenderWait(c)
           \/ AtenderSignal(c) \/ AtenderDesconexion(c) \/ MatadoSacar(c)
           \/ DesconexionSacar(c) \/ SigintSinProceso(c) \/ SigintLista(c)
  BY <1>2, TiposMensajeDeCpu
<1>3. CASE \/ QuantumLista(c) \/ QuantumReady(c) \/ QuantumCpu(c) \/ FinalizadoExit(c)
           \/ FinalizadoLista(c) \/ FinalizadoCpu(c) \/ EsPcbBlock(c) \/ EsPcbLista(c)
           \/ WaitPcbBlock(c) \/ WaitPcbLista(c) \/ WaitPcbCpu(c) \/ WaitPcbSolicitud(c)
           \/ MatadoExit(c) \/ DesconexionReady(c) \/ DesconexionLista(c)
           \/ DesconexionCpu(c) \/ SigintExec(c) \/ SigintExit(c)
  BY <1>3, TiposHandlerDeCpu
<1>4. CASE \/ SacarDeExec(c, "QUANTUM", "quantum_lista")
           \/ SacarDeExec(c, "PROGRAMA_FINALIZADO", "fin_exit")
           \/ SacarDeExec(c, "EXCEPCION_UMC", "fin_exit")
           \/ SacarDeExec(c, "ENTRADA_SALIDA_PCB", "es_block")
           \/ SacarDeExec(c, "WAIT_PCB", "wait_block")
  BY <1>1, <1>4, TiposSacarDeExec
<1> QED
  BY <1>2, <1>3, <1>4 DEF PasoCpuNucleo

(* The thread of asignar_pcb_a_cola_exec.                                  *)
LEMMA TiposExec ==
  ASSUME Tipos, PidsContados, PasoExec,
         UNCHANGED <<escenario, consola, cpu>>
  PROVE  Tipos'
<1> USE DEF Tipos, quieto, semaforosVars, sinMensajes, canales
<1>0. pid_count \in Nat /\ NULO \notin Usados /\ Usados \subseteq UsadoONulo /\ NULO \in UsadoONulo
  BY UsadosPids DEF TiposNucleo, UsadoONulo
<1>1. CASE TomarCpu
  <2>1. pid_count' = pid_count /\ cpu' = cpu
    BY <1>1 DEF TomarCpu
  <2>2. Head(cola.cpus) \in Cpus
    BY <1>1, HeadTailProperties DEF TomarCpu, TiposCola
  <2>3. cuenta' \in [{"ready", "cpu", "block", "matar"} -> Nat]
    BY <1>1, CuentaMas DEF TomarCpu, TiposNucleo
  <2>4. TiposCanales'
    BY <1>1, <2>1, CanalesTipados DEF TomarCpu, TiposCanales
  <2>5. TiposCola'
    BY <1>1, <2>1, <2>2, <2>3, CpuTomada DEF TomarCpu
  <2>6. TiposHilo'
    BY <1>1, <2>1, <2>2, <1>0, HilosDistintos, HiloCon DEF TomarCpu, Puntos, SinProceso,
          ConProceso
  <2>7. TiposNucleo'
    BY <1>1, <2>1, <2>3, NucleoTipado DEF TomarCpu, TiposNucleo
  <2>8. TiposCpu'
    BY <2>1, CpuQuieta
  <2> QED
    BY <2>4, <2>5, <2>6, <2>7, <2>8
<1>2. CASE SacarReady
  <2>1. pid_count' = pid_count /\ cpu' = cpu
    BY <1>2 DEF SacarReady
  <2>2. cola["ready"] \in Seq(UsadoONulo)
    BY <1>2 DEF TiposCola, Colas
  <2>3. hilo[HiloExec].dato \in Cpus
    BY <1>2 DEF SacarReady, En, TiposHilo
  <2>4. \E s \in Seq(UsadoONulo), p \in UsadoONulo :
           /\ cola' = [cola EXCEPT !["ready"] = s]
           /\ IrCon(HiloExec, "tomar_exec", p, hilo[HiloExec].dato)
    BY <1>2, <2>2, <1>0, HeadTailProperties DEF SacarReady
  <2>5. TiposCanales'
    BY <1>2, <2>1, <2>3, CanalesTipados DEF SacarReady, TiposCanales
  <2>6. TiposCola'
    BY <1>2, <2>1, <2>2, <2>3, <2>4, ColaTipada DEF Colas
  <2>7. TiposHilo'
    BY <1>2, <2>1, <2>2, <2>3, <2>4, <1>0, HilosDistintos, HiloCon DEF Puntos, SinProceso,
          ConProceso
  <2>8. TiposNucleo'
    BY <1>2, <2>1, NucleoTipado DEF SacarReady, TiposNucleo
  <2>9. TiposCpu'
    BY <2>1, CpuQuieta
  <2> QED
    BY <2>5, <2>6, <2>7, <2>8, <2>9
<1>3. CASE TomarExec
  <2>1. pid_count' = pid_count /\ cpu' = cpu
    BY <1>3 DEF TomarExec
  <2>2. mutex' \subseteq {"lista", "ready", "exec", "block", "exit"}
    BY <1>3 DEF TomarExec, TiposNucleo
  <2>3. TiposCanales'
    BY <1>3, <2>1, CanalesTipados DEF TomarExec, TiposCanales
  <2>4. TiposCola'
    BY <1>3, <2>1, ColaQuieta DEF TomarExec
  <2>5. TiposHilo'
    BY <1>3, <2>1, <1>0, HilosDistintos, HiloSigue DEF TomarExec, En, Puntos, SinProceso,
          ConProceso
  <2>6. TiposNucleo'
    BY <1>3, <2>1, <2>2, NucleoTipado DEF TomarExec, TiposNucleo
  <2>7. TiposCpu'
    BY <2>1, CpuQuieta
  <2> QED
    BY <2>3, <2>4, <2>5, <2>6, <2>7
<1>4. CASE PonerEnExec
  <2>1. pid_count' = pid_count /\ cpu' = cpu
    BY <1>4 DEF PonerEnExec
  <2>2. hilo[HiloExec].dato \in Cpus
    BY <1>4 DEF PonerEnExec, En, TiposHilo
  <2>3. hilo[HiloExec].pid \in Usados
    BY <1>4, Buscada DEF PonerEnExec, FilaUsada
  <2>4. lista_procesos' \in Seq(FilaUsada)
    BY <1>4, <2>2, FilaEnExec DEF PonerEnExec
  <2>5. mutex' \subseteq {"lista", "ready", "exec", "block", "exit"}
    BY <1>4 DEF PonerEnExec, TiposNucleo
  <2>6. IrCon(HiloExec, "enviar_pcb", hilo[HiloExec].pid, hilo[HiloExec].dato)
    BY <1>4, HilosDistintos, AlIr DEF PonerEnExec
  <2>7. TiposCanales'
    BY <1>4, <2>1, <2>2, <2>3, CanalesTipados DEF PonerEnExec, TiposCanales
  <2>8. TiposCola'
    BY <1>4, <2>1, <2>2, <2>3, <2>4, <2>5, <2>6, <1>0, ColaPuesta DEF PonerEnExec, Colas
  <2>9. TiposHilo'
    BY <1>4, <2>1, <2>2, <2>3, <2>6, <1>0, HilosDistintos, HiloCon DEF PonerEnExec, En, Puntos,
          ConProceso
  <2>10. TiposNucleo'
    BY <1>4, <2>1, <2>4, <2>5, NucleoTipado DEF PonerEnExec, TiposNucleo
  <2>11. TiposCpu'
    BY <2>1, CpuQuieta
  <2> QED
    BY <2>7, <2>8, <2>9, <2>10, <2>11
<1>5. CASE EnviarPcb
  <2>1. pid_count' = pid_count /\ cpu' = cpu
    BY <1>5 DEF EnviarPcb
  <2>2. hilo[HiloExec].dato \in Cpus
    BY <1>5 DEF EnviarPcb, En, TiposHilo
  <2>3. hilo[HiloExec].pid \in Usados
    BY <1>5, HilosDistintos DEF EnviarPcb, En, TiposHilo, ConProceso
  <2>4. aCpu' \in [Cpus -> Seq(MensajesACpu)]
    BY <1>5, <2>2, <2>3, AppendProperties DEF EnviarPcb, TiposCanales, MensajesACpu
  <2>5. TiposCanales'
    BY <1>5, <2>1, <2>2, <2>3, <2>4, CanalesTipados DEF EnviarPcb, TiposCanales
  <2>6. TiposCola'
    BY <1>5, <2>1, ColaQuieta DEF EnviarPcb
  <2>7. TiposHilo'
    BY <1>5, <2>1, <2>2, <2>3, <1>0, HilosDistintos, HiloTermina DEF EnviarPcb
  <2>8. TiposNucleo'
    BY <1>5, <2>1, NucleoTipado DEF EnviarPcb, TiposNucleo
  <2>9. TiposCpu'
    BY <2>1, CpuQuieta
  <2> QED
    BY <2>5, <2>6, <2>7, <2>8, <2>9
<1> QED
  BY <1>1, <1>2, <1>3, <1>4, <1>5 DEF PasoExec

(* The threads of the devices.                                             *)
LEMMA TiposDispositivo ==
  ASSUME Tipos, PidsContados, NEW d \in Dispositivos, PasoDispositivo(d),
         UNCHANGED <<escenario, consola, cpu>>
  PROVE  Tipos'
<1> USE DEF Tipos, quieto, semaforosVars, sinMensajes, canales
<1>0. pid_count \in Nat /\ NULO \notin Usados /\ Usados \subseteq UsadoONulo /\ NULO \in UsadoONulo
  BY UsadosPids DEF TiposNucleo, UsadoONulo
<1>1. CASE SacarSolicitud(d)
  <2>1. pid_count' = pid_count /\ cpu' = cpu
    BY <1>1 DEF SacarSolicitud
  <2>2. Tail(solicitudes_es[d]) \in Seq(Usados) /\ Head(solicitudes_es[d]) \in Usados
    BY <1>1, HeadTailProperties DEF SacarSolicitud, TiposNucleo
  <2>3. solicitudes_es' \in [Dispositivos -> Seq(Usados)]
    BY <1>1, <2>2 DEF SacarSolicitud, TiposNucleo
  <2>4. TiposCanales'
    BY <1>1, <2>1, CanalesTipados DEF SacarSolicitud, TiposCanales
  <2>5. TiposCola'
    BY <1>1, <2>1, ColaQuieta DEF SacarSolicitud
  <2>6. TiposHilo'
    BY <1>1, <2>1, <2>2, <1>0, HilosDistintos, HiloCon DEF SacarSolicitud, Puntos, ConProceso
  <2>7. TiposNucleo'
    BY <1>1, <2>1, <2>2, <2>3, NucleoTipado DEF SacarSolicitud, TiposNucleo
  <2>8. TiposCpu'
    BY <2>1, CpuQuieta
  <2> QED
    BY <2>4, <2>5, <2>6, <2>7, <2>8
<1>2. CASE EsTermina(d)
  <2>1. pid_count' = pid_count /\ cpu' = cpu
    BY <1>2 DEF EsTermina
  <2>2. hilo[d].pid \in Usados
    BY <1>2, HilosDistintos DEF EsTermina, En, TiposHilo, ConProceso
  <2>3. Sacado(cola.block, hilo[d].pid) \in UsadoONulo
    BY <1>2, <2>2, <1>0 DEF Sacado
  <2>4. TiposCanales'
    BY <1>2, <2>1, <2>2, CanalesTipados DEF EsTermina, TiposCanales
  <2>5. TiposCola'
    BY <1>2, <2>1, <2>2, <2>3, ColaSacada DEF EsTermina, Colas
  <2>6. TiposHilo'
    BY <1>2, <2>1, <2>2, <2>3, <1>0, HilosDistintos, HiloCon DEF EsTermina, Puntos, SinProceso,
          ConProceso
  <2>7. TiposNucleo'
    BY <1>2, <2>1, NucleoTipado DEF EsTermina, TiposNucleo
  <2>8. TiposCpu'
    BY <2>1, CpuQuieta
  <2> QED
    BY <2>4, <2>5, <2>6, <2>7, <2>8
<1>3. CASE EsReady(d)
  <2>1. pid_count' = pid_count /\ cpu' = cpu
    BY <1>3 DEF EsReady
  <2>2. hilo[d].pid \in UsadoONulo
    BY <1>3, HilosDistintos DEF EsReady, TiposHilo, HiloTipo
  <2>3. mutex' \subseteq {"lista", "ready", "exec", "block", "exit"}
    BY <1>3 DEF EsReady, TiposNucleo
  <2>4. TiposCanales'
    BY <1>3, <2>1, <2>2, CanalesTipados DEF EsReady, TiposCanales
  <2>5. TiposCola'
    BY <1>3, <2>1, <2>2, <2>3, ColaPuesta DEF EsReady, Colas
  <2>6. TiposHilo'
    BY <1>3, <2>1, <2>2, <1>0, HilosDistintos, HiloSigue DEF EsReady, En, Puntos, SinProceso,
          ConProceso
  <2>7. TiposNucleo'
    BY <1>3, <2>1, <2>3, NucleoTipado DEF EsReady, TiposNucleo
  <2>8. TiposCpu'
    BY <2>1, CpuQuieta
  <2> QED
    BY <2>4, <2>5, <2>6, <2>7, <2>8
<1>4. CASE EsEstado(d)
  <2>1. pid_count' = pid_count /\ cpu' = cpu
    BY <1>4 DEF EsEstado
  <2>2. lista_procesos' \in Seq(FilaUsada)
    BY <1>4, FilaActualizada, FilaDesasignada DEF EsEstado, Estados
  <2>3. mutex' \subseteq {"lista", "ready", "exec", "block", "exit"}
    BY <1>4 DEF EsEstado, TiposNucleo
  <2>4. cuenta' \in [{"ready", "cpu", "block", "matar"} -> Nat]
    BY <1>4, CuentaMas DEF EsEstado, TiposNucleo
  <2>5. TiposCanales'
    BY <1>4, <2>1, CanalesTipados DEF EsEstado, TiposCanales
  <2>6. TiposCola'
    BY <1>4, <2>1, ColaQuieta DEF EsEstado
  <2>7. TiposHilo'
    BY <1>4, <2>1, <1>0, HilosDistintos, HiloTermina DEF EsEstado
  <2>8. TiposNucleo'
    BY <1>4, <2>1, <2>2, <2>3, <2>4, NucleoTipado DEF EsEstado, TiposNucleo
  <2>9. TiposCpu'
    BY <2>1, CpuQuieta
  <2> QED
    BY <2>5, <2>6, <2>7, <2>8, <2>9
<1> QED
  BY <1>1, <1>2, <1>3, <1>4 DEF PasoDispositivo

(* The threads of the semaphores.                                          *)
LEMMA TiposSemaforo ==
  ASSUME Tipos, PidsContados, NEW s \in Sems, PasoSemaforo(s),
         UNCHANGED <<escenario, consola, cpu>>
  PROVE  Tipos'
<1> USE DEF Tipos, quieto, semaforosVars, sinMensajes, canales
<1>0. pid_count \in Nat /\ NULO \notin Usados /\ Usados \subseteq UsadoONulo /\ NULO \in UsadoONulo
  BY UsadosPids DEF TiposNucleo, UsadoONulo
<1>1. CASE SemSacarSolicitud(s)
  <2>1. pid_count' = pid_count /\ cpu' = cpu
    BY <1>1 DEF SemSacarSolicitud, SinSemaforos
  <2>2. Tail(solicitudes[s]) \in Seq(Usados) /\ Head(solicitudes[s]) \in Usados
    BY <1>1, HeadTailProperties DEF SemSacarSolicitud, SinSemaforos, Sem!DesbloquearPcb,
          TiposNucleo
  <2>3. solicitudes' \in [Sems -> Seq(Usados)]
    BY <1>1, <2>2 DEF SemSacarSolicitud, SinSemaforos, Sem!DesbloquearPcb, TiposNucleo
  <2>4. TiposCanales'
    BY <1>1, <2>1, CanalesTipados DEF SemSacarSolicitud, SinSemaforos, TiposCanales
  <2>5. TiposCola'
    BY <1>1, <2>1, ColaQuieta DEF SemSacarSolicitud, SinSemaforos
  <2>6. TiposHilo'
    BY <1>1, <2>1, <2>2, <1>0, HilosDistintos, HiloCon DEF SemSacarSolicitud, SinSemaforos,
          Puntos, ConProceso
  <2>7. TiposNucleo'
    BY <1>1, <2>1, <2>2, <2>3, NucleoTipado DEF SemSacarSolicitud, SinSemaforos, TiposNucleo
  <2>8. TiposCpu'
    BY <2>1, CpuQuieta
  <2> QED
    BY <2>4, <2>5, <2>6, <2>7, <2>8
<1>2. CASE SemNadieEspera(s)
  <2>1. pid_count' = pid_count /\ cpu' = cpu
    BY <1>2 DEF SemNadieEspera, SinSemaforos
  <2>2. solicitudes' = solicitudes
    BY <1>2 DEF SemNadieEspera, SinSemaforos, Sem!AumentarSemaforo
  <2>3. TiposCanales'
    BY <1>2, <2>1, CanalesTipados DEF SemNadieEspera, SinSemaforos, TiposCanales
  <2>4. TiposCola'
    BY <1>2, <2>1, ColaQuieta DEF SemNadieEspera, SinSemaforos
  <2>5. TiposHilo'
    BY <1>2, <2>1, HiloQuieto DEF SemNadieEspera, SinSemaforos
  <2>6. TiposNucleo'
    BY <1>2, <2>1, <2>2, NucleoTipado DEF SemNadieEspera, SinSemaforos, TiposNucleo
  <2>7. TiposCpu'
    BY <2>1, CpuQuieta
  <2> QED
    BY <2>3, <2>4, <2>5, <2>6, <2>7
<1>3. CASE SemBlock(s)
  <2>1. pid_count' = pid_count /\ cpu' = cpu
    BY <1>3 DEF SemBlock
  <2>2. hilo[s].pid \in Usados
    BY <1>3, HilosDistintos DEF SemBlock, En, TiposHilo, ConProceso
  <2>3. Sacado(cola.block, hilo[s].pid) \in UsadoONulo
    BY <1>3, <2>2, <1>0 DEF Sacado
  <2>4. TiposCanales'
    BY <1>3, <2>1, <2>2, CanalesTipados DEF SemBlock, TiposCanales
  <2>5. TiposCola'
    BY <1>3, <2>1, <2>2, <2>3, ColaSacada DEF SemBlock, Colas
  <2>6. TiposHilo'
    BY <1>3, <2>1, <2>2, <2>3, <1>0, HilosDistintos, HiloCon DEF SemBlock, Puntos, SinProceso,
          ConProceso
  <2>7. TiposNucleo'
    BY <1>3, <2>1, NucleoTipado DEF SemBlock, TiposNucleo
  <2>8. TiposCpu'
    BY <2>1, CpuQuieta
  <2> QED
    BY <2>4, <2>5, <2>6, <2>7, <2>8
<1>4. CASE SemEstado(s)
  <2>1. pid_count' = pid_count /\ cpu' = cpu
    BY <1>4 DEF SemEstado
  <2>2. lista_procesos' \in Seq(FilaUsada)
    BY <1>4, FilaActualizada, FilaDesasignada DEF SemEstado, Estados
  <2>3. TiposCanales'
    BY <1>4, <2>1, CanalesTipados DEF SemEstado, TiposCanales
  <2>4. TiposCola'
    BY <1>4, <2>1, ColaQuieta DEF SemEstado
  <2>5. TiposHilo'
    BY <1>4, <2>1, <1>0, HilosDistintos, HiloSigue DEF SemEstado, En, Puntos, SinProceso,
          ConProceso
  <2>6. TiposNucleo'
    BY <1>4, <2>1, <2>2, NucleoTipado DEF SemEstado, TiposNucleo
  <2>7. TiposCpu'
    BY <2>1, CpuQuieta
  <2> QED
    BY <2>3, <2>4, <2>5, <2>6, <2>7
<1>5. CASE SemReady(s)
  <2>1. pid_count' = pid_count /\ cpu' = cpu
    BY <1>5 DEF SemReady, SinSemaforos
  <2>2. hilo[s].pid \in UsadoONulo
    BY <1>5, HilosDistintos DEF SemReady, SinSemaforos, TiposHilo, HiloTipo
  <2>3. cuenta' \in [{"ready", "cpu", "block", "matar"} -> Nat]
    BY <1>5, CuentaMas DEF SemReady, SinSemaforos, TiposNucleo
  <2>4. solicitudes' = solicitudes
    BY <1>5 DEF SemReady, SinSemaforos, Sem!FinDesbloqueo
  <2>5. TiposCanales'
    BY <1>5, <2>1, <2>2, CanalesTipados DEF SemReady, SinSemaforos, TiposCanales
  <2>6. TiposCola'
    BY <1>5, <2>1, <2>2, <2>3, <2>4, ColaPuesta DEF SemReady, SinSemaforos, Colas
  <2>7. TiposHilo'
    BY <1>5, <2>1, <2>2, <1>0, HilosDistintos, HiloTermina DEF SemReady, SinSemaforos
  <2>8. TiposNucleo'
    BY <1>5, <2>1, <2>3, <2>4, NucleoTipado DEF SemReady, SinSemaforos, TiposNucleo
  <2>9. TiposCpu'
    BY <2>1, CpuQuieta
  <2> QED
    BY <2>5, <2>6, <2>7, <2>8, <2>9
<1> QED
  BY <1>1, <1>2, <1>3, <1>4, <1>5 DEF PasoSemaforo

-----------------------------------------------------------------------------
(* Types: the CPUs and the consoles.                                       *)
LEMMA CpuTipada ==
  ASSUME Tipos, UNCHANGED <<escenario, consola, nucleoVars, deConsola, aUmc>>,
         NEW c \in Cpus, NEW r \in CpuTipo, cpu' = [cpu EXCEPT ![c] = r],
         r.hilo # "no" => r.pid \in Usados,
         r.hilo = "espera" => r.quantum > 0,
         pcb' \in [Pids -> [consola : Consolas \cup {NULO}, pc : Nat]],
         \A p \in Usados : pcb'[p].consola = pcb[p].consola,
         deCpu' \in [Cpus -> Seq(MensajesDeCpu)],
         aCpu' \in [Cpus -> Seq(MensajesACpu)]
  PROVE  Tipos'
<1> USE DEF Tipos, nucleoVars, semaforosVars
<1>0. Usados' = Usados /\ UsadoONulo' = UsadoONulo
  BY DEF Usados, UsadoONulo
<1>1. TiposCanales'
  <2>1. /\ MensajesDeCpu' = MensajesDeCpu /\ MensajesACpu' = MensajesACpu
        /\ MensajesAUmc' = MensajesAUmc
    BY <1>0 DEF MensajesDeCpu, MensajesACpu, MensajesAUmc
  <2> QED
    BY <1>0, <2>1 DEF TiposCanales
<1>2. TiposCola' /\ TiposHilo' /\ TiposNucleo'
  BY ColaQuieta, HiloQuieto, NucleoTipado DEF TiposNucleo
<1>3. TiposCpu'
  <2>1. CpuTipo' = CpuTipo
    BY <1>0 DEF CpuTipo
  <2>2. cpu' \in [Cpus -> CpuTipo] /\ cpu'[c] = r /\ \A d \in Cpus : d # c => cpu'[d] = cpu[d]
    BY DEF TiposCpu
  <2> QED
    BY <1>0, <2>1, <2>2 DEF TiposCpu
<1> QED
  BY <1>1, <1>2, <1>3

LEMMA PcAvanzado ==
  ASSUME TiposCanales, NEW c \in Cpus, cpu[c].pid \in Pids, AvanzarPc(c)
  PROVE  /\ pcb' \in [Pids -> [consola : Consolas \cup {NULO}, pc : Nat]]
         /\ \A q \in Pids : pcb'[q].consola = pcb[q].consola
         /\ \A q \in Pids : pcb'[q].pc >= pcb[q].pc
<1> DEFINE p == cpu[c].pid
<1>1. pcb[p] \in [consola : Consolas \cup {NULO}, pc : Nat] /\ p \in Pids
  BY DEF TiposCanales
<1>2. pcb' = [pcb EXCEPT ![p] = [pcb[p] EXCEPT !.pc = pcb[p].pc + 1]]
  BY DEF AvanzarPc
<1> HIDE DEF p
<1>3. /\ [pcb[p] EXCEPT !.pc = pcb[p].pc + 1] \in [consola : Consolas \cup {NULO}, pc : Nat]
      /\ [pcb[p] EXCEPT !.pc = pcb[p].pc + 1].consola = pcb[p].consola
      /\ [pcb[p] EXCEPT !.pc = pcb[p].pc + 1].pc = pcb[p].pc + 1
  BY <1>1
<1>4. \A q \in Pids : pcb[q].pc \in Nat
  BY DEF TiposCanales
<1> QED
  BY <1>1, <1>2, <1>3, <1>4 DEF TiposCanales

LEMMA EnviarTipado ==
  ASSUME TiposCanales, NEW c \in Cpus, NEW m \in MensajesDeCpu, Enviar(c, m)
  PROVE  /\ deCpu' \in [Cpus -> Seq(MensajesDeCpu)]
         /\ deCpu'[c] = Append(deCpu[c], m)
         /\ \A d \in Cpus : d # c => deCpu'[d] = deCpu[d]
<1>1. deCpu \in [Cpus -> Seq(MensajesDeCpu)] /\ Append(deCpu[c], m) \in Seq(MensajesDeCpu)
  BY AppendProperties DEF TiposCanales
<1> QED
  BY <1>1 DEF Enviar

LEMMA ACpuTipado ==
  ASSUME TiposCanales, NEW c \in Cpus, NEW id, LlegaDelNucleo(c, id)
  PROVE  /\ aCpu' \in [Cpus -> Seq(MensajesACpu)]
         /\ Head(aCpu[c]) \in MensajesACpu /\ Head(aCpu[c]).id = id
         /\ aCpu[c] \in Seq(MensajesACpu) /\ aCpu[c] # <<>>
         /\ aCpu'[c] = Tail(aCpu[c])
         /\ \A d \in Cpus : d # c => aCpu'[d] = aCpu[d]
         /\ UNCHANGED <<pcb, deConsola, aConsola, deCpu, aUmc>>
         /\ Vivo(c) /\ cpu[c].hilo # "trabado"
<1>1. aCpu[c] \in Seq(MensajesACpu) /\ aCpu[c] # <<>>
  BY DEF LlegaDelNucleo, TiposCanales
<1>2. Tail(aCpu[c]) \in Seq(MensajesACpu) /\ Head(aCpu[c]) \in MensajesACpu
  BY <1>1, HeadTailProperties
<1> QED
  BY <1>1, <1>2 DEF LlegaDelNucleo, TiposCanales, SinEnviar

(* What the types say of a CPU and of the process in it.                   *)
DeLaCpu(c) ==
  /\ cpu \in [Cpus -> CpuTipo] /\ cpu[c] \in CpuTipo
  /\ NULO \in UsadoONulo /\ Usados \subseteq UsadoONulo /\ Usados \subseteq Pids
  /\ cpu[c].hilo # "no" => cpu[c].pid \in Usados
  /\ cpu[c].hilo = "espera" => cpu[c].quantum > 0
  /\ cpu[c].quantum \in Nat
  /\ pcb \in [Pids -> [consola : Consolas \cup {NULO}, pc : Nat]]
  /\ deCpu \in [Cpus -> Seq(MensajesDeCpu)] /\ aCpu \in [Cpus -> Seq(MensajesACpu)]

LEMMA CpuConocida ==
  ASSUME Tipos, PidsContados, NEW c \in Cpus
  PROVE  DeLaCpu(c)
<1>1. cpu \in [Cpus -> CpuTipo] /\ cpu[c] \in CpuTipo
  BY DEF Tipos, TiposCpu
<1>2. cpu[c].quantum \in Nat
  <2>1. cpu[c].quantum \in 0..Quantum
    BY <1>1 DEF CpuTipo
  <2> QED
    BY <2>1, SupuestoCanales
<1>3. Usados \subseteq Pids
  BY UsadosPids DEF Tipos, TiposNucleo
<1>4. /\ cpu[c].hilo # "no" => cpu[c].pid \in Usados
      /\ cpu[c].hilo = "espera" => cpu[c].quantum > 0
  BY DEF Tipos, TiposCpu
<1> QED
  BY <1>1, <1>2, <1>3, <1>4 DEF Tipos, TiposCanales, DeLaCpu, UsadoONulo

(* The thread of a CPU that reads.                                         *)
LEMMA TiposLeerCpu ==
  ASSUME Tipos, PidsContados, NEW c \in Cpus, LeerCpu(c),
         UNCHANGED <<escenario, consola, nucleoVars>>
  PROVE  Tipos'
<1> USE DEF Tipos, canales, SinEnviar, UsadoONulo
<1>0. DeLaCpu(c)
  BY CpuConocida DEF DeLaCpu
<1>1. CASE RecibirPcb(c)
  <2> DEFINE r == [cpu[c] EXCEPT
           !.banderas = cpu[c].banderas \ {"fin_proceso"}, !.pid = Head(aCpu[c]).pid,
           !.quantum = Quantum, !.hilo = "bucle", !.ocupada = TRUE]
  <2>1. Head(aCpu[c]) \in MensajesACpu /\ Head(aCpu[c]).pid \in Usados
    BY <1>0, <1>1, ACpuTipado DEF RecibirPcb, MensajesACpu, DeLaCpu
  <2>2. Quantum \in 0..Quantum
    BY <1>0, <1>1, SupuestoCanales DEF RecibirPcb, DeLaCpu
  <2>3. cpu' = [cpu EXCEPT ![c] = r]
    BY <1>0, <1>1 DEF RecibirPcb, InstruccionTerminada, LlegaDelNucleo, DeLaCpu
  <2>4. r \in CpuTipo
    BY <1>0, <2>1, <2>2 DEF DeLaCpu, CpuTipo
  <2>5. (r.hilo # "no" => r.pid \in Usados) /\ (r.hilo = "espera" => r.quantum > 0)
    BY <1>0, <1>1, <2>1, <2>2 DEF RecibirPcb, DeLaCpu, CpuTipo, EnBucle, Sigue, Senial, DeLaCpu
  <2> HIDE DEF r
  <2>6. /\ deCpu' = deCpu /\ aCpu' \in [Cpus -> Seq(MensajesACpu)]
        /\ UNCHANGED <<pcb, deConsola, aUmc>>
    BY <1>0, <1>1, ACpuTipado DEF RecibirPcb, DeLaCpu
  <2> QED
    BY <1>0, <2>3, <2>4, <2>5, <2>6, CpuTipada DEF DeLaCpu
<1>2. CASE PcbSinUmc(c)
  <2> DEFINE r == [cpu[c] EXCEPT
           !.pid = Head(aCpu[c]).pid, !.quantum = Quantum, !.hilo = "trabado",
           !.ocupada = TRUE]
  <2>1. Head(aCpu[c]) \in MensajesACpu /\ Head(aCpu[c]).pid \in Usados
    BY <1>0, <1>2, ACpuTipado DEF PcbSinUmc, MensajesACpu, DeLaCpu
  <2>2. Quantum \in 0..Quantum
    BY <1>0, <1>2, SupuestoCanales DEF PcbSinUmc, DeLaCpu
  <2>3. cpu' = [cpu EXCEPT ![c] = r]
    BY <1>0, <1>2 DEF PcbSinUmc, InstruccionTerminada, LlegaDelNucleo, DeLaCpu
  <2>4. r \in CpuTipo
    BY <1>0, <2>1, <2>2 DEF DeLaCpu, CpuTipo
  <2>5. (r.hilo # "no" => r.pid \in Usados) /\ (r.hilo = "espera" => r.quantum > 0)
    BY <1>0, <1>2, <2>1, <2>2 DEF PcbSinUmc, DeLaCpu, CpuTipo, EnBucle, Sigue, Senial, DeLaCpu
  <2> HIDE DEF r
  <2>6. /\ deCpu' = deCpu /\ aCpu' \in [Cpus -> Seq(MensajesACpu)]
        /\ UNCHANGED <<pcb, deConsola, aUmc>>
    BY <1>0, <1>2, ACpuTipado DEF PcbSinUmc, DeLaCpu
  <2> QED
    BY <1>0, <2>3, <2>4, <2>5, <2>6, CpuTipada DEF DeLaCpu
<1>3. CASE RecibirMatar(c)
  <2> DEFINE r == [cpu[c] EXCEPT !.banderas = cpu[c].banderas \cup {"matar_proceso"}]
  <2>1. "matar_proceso" \in Banderas
    BY <1>0, <1>3, Banderines
  <2>2. cpu' = [cpu EXCEPT ![c] = r]
    BY <1>0, <1>3 DEF RecibirMatar, InstruccionTerminada, LlegaDelNucleo, DeLaCpu
  <2>3. r \in CpuTipo
    BY <1>0, <2>1 DEF DeLaCpu, CpuTipo
  <2>4. (r.hilo # "no" => r.pid \in Usados) /\ (r.hilo = "espera" => r.quantum > 0)
    BY <1>0, <1>3, <2>1 DEF RecibirMatar, DeLaCpu, CpuTipo, EnBucle, Sigue, Senial, DeLaCpu
  <2> HIDE DEF r
  <2>5. /\ deCpu' = deCpu /\ aCpu' \in [Cpus -> Seq(MensajesACpu)]
        /\ UNCHANGED <<pcb, deConsola, aUmc>>
    BY <1>0, <1>3, ACpuTipado DEF RecibirMatar, DeLaCpu
  <2> QED
    BY <1>0, <2>2, <2>3, <2>4, <2>5, CpuTipada DEF DeLaCpu
<1>4. CASE RecibirWait(c)
  <2> DEFINE r == [cpu[c] EXCEPT !.terminadas = cpu[c].terminadas + 1]
  <2>1. cpu[c].terminadas + 1 \in Nat
    BY <1>0, <1>4 DEF RecibirWait, CpuTipo, DeLaCpu
  <2>2. cpu' = [cpu EXCEPT ![c] = r]
    BY <1>0, <1>4 DEF RecibirWait, InstruccionTerminada, LlegaDelNucleo, DeLaCpu
  <2>3. r \in CpuTipo
    BY <1>0, <2>1 DEF DeLaCpu, CpuTipo
  <2>4. (r.hilo # "no" => r.pid \in Usados) /\ (r.hilo = "espera" => r.quantum > 0)
    BY <1>0, <1>4, <2>1 DEF RecibirWait, DeLaCpu, CpuTipo, EnBucle, Sigue, Senial, DeLaCpu
  <2> HIDE DEF r
  <2>5. /\ deCpu' = deCpu /\ aCpu' \in [Cpus -> Seq(MensajesACpu)]
        /\ UNCHANGED <<pcb, deConsola, aUmc>>
    BY <1>0, <1>4, ACpuTipado DEF RecibirWait, DeLaCpu
  <2> QED
    BY <1>0, <2>2, <2>3, <2>4, <2>5, CpuTipada DEF DeLaCpu
<1>5. CASE RecibirSeguiRafaga(c)
  <2> DEFINE r == [cpu[c] EXCEPT !.banderas = cpu[c].banderas \ {"wait_nucleo"},
                                !.terminadas = cpu[c].terminadas + 1]
  <2>1. cpu[c].terminadas + 1 \in Nat
    BY <1>0, <1>5 DEF RecibirSeguiRafaga, CpuTipo, DeLaCpu
  <2>2. cpu' = [cpu EXCEPT ![c] = r]
    BY <1>0, <1>5 DEF RecibirSeguiRafaga, InstruccionTerminada, LlegaDelNucleo, DeLaCpu
  <2>3. r \in CpuTipo
    BY <1>0, <2>1 DEF DeLaCpu, CpuTipo
  <2>4. (r.hilo # "no" => r.pid \in Usados) /\ (r.hilo = "espera" => r.quantum > 0)
    BY <1>0, <1>5, <2>1 DEF RecibirSeguiRafaga, DeLaCpu, CpuTipo, EnBucle, Sigue, Senial,
          DeLaCpu
  <2> HIDE DEF r
  <2>5. /\ deCpu' = deCpu /\ aCpu' \in [Cpus -> Seq(MensajesACpu)]
        /\ UNCHANGED <<pcb, deConsola, aUmc>>
    BY <1>0, <1>5, ACpuTipado DEF RecibirSeguiRafaga, DeLaCpu
  <2> QED
    BY <1>0, <2>2, <2>3, <2>4, <2>5, CpuTipada DEF DeLaCpu
<1> QED
  BY <1>1, <1>2, <1>3, <1>4, <1>5 DEF LeerCpu

(* What enviar_PCB sends: the PCB and, with an exception, a text before.   *)
LEMMA AlEnviarPcb ==
  ASSUME TiposCanales, TiposCpu, NEW c \in Cpus, EnviarPcbAlNucleo(c)
  PROVE  /\ cpu[c].pid \in Usados
         /\ \E id \in IdsConPcb, n \in Nat, b \in SUBSET cpu[c].banderas, s \in Seq(MensajesDeCpu) :
              /\ cpu' = [cpu EXCEPT ![c] = [cpu[c] EXCEPT !.banderas = b, !.hilo = "no", !.enviado = id,
                                                       !.terminadas = cpu[c].terminadas + n]]
              /\ s = deCpu[c] \/ s = Append(deCpu[c], MensajeCpu("IMPRIMIR", cpu[c].pid, NULO))
              /\ deCpu' = [deCpu EXCEPT ![c] = Append(s, MensajeCpu(id, cpu[c].pid, NULO))]
         /\ cpu[c].hilo = "sale" /\ UNCHANGED <<pcb, deConsola, aConsola, aCpu, aUmc>>
<1> DEFINE p == cpu[c].pid
           i == SelectInSeq(Prioridad, LAMBDA x : x \in cpu[c].banderas)
           id == IF i = 0 THEN "QUANTUM" ELSE IdDe[Prioridad[i]]
           texto == MensajeCpu("IMPRIMIR", p, NULO)
           aviso == IF id = "EXCEPCION_UMC" THEN <<texto>> ELSE <<>>
           b == cpu[c].banderas \ (IF i = 0 THEN {} ELSE {Prioridad[i]} \ {"fin_proceso"})
           s == deCpu[c] \o aviso
<1>1. /\ cpu' = [cpu EXCEPT ![c] = [cpu[c] EXCEPT !.banderas = b, !.hilo = "no", !.enviado = id,
                                               !.terminadas = cpu[c].terminadas + Len(aviso)]]
      /\ deCpu' = [deCpu EXCEPT ![c] = s \o <<MensajeCpu(id, p, NULO)>>]
      /\ cpu[c].hilo = "sale" /\ UNCHANGED <<pcb, deConsola, aConsola, aCpu, aUmc>>
  BY DEF EnviarPcbAlNucleo
<1>2. p \in Usados /\ deCpu[c] \in Seq(MensajesDeCpu)
  BY <1>1 DEF TiposCpu, TiposCanales
<1>3. texto \in MensajesDeCpu
  BY <1>2 DEF MensajesDeCpu, MensajeCpu
<1>4. id \in IdsConPcb /\ b \subseteq cpu[c].banderas
  <2> DEFINE I == {j \in 1..Len(Prioridad) : Prioridad[j] \in cpu[c].banderas}
  <2>1. i = IF I # {} THEN Min(I) ELSE 0
    BY DEF SelectInSeq
  <2>2. I \in SUBSET Nat /\ I \subseteq 1..7
    BY DEF Prioridad
  <2>3. \A j \in 1..7 : Prioridad[j] \in Banderas
    BY DEF Banderas, Range, Prioridad
  <2> HIDE DEF I, i
  <2>4. CASE I = {}
    BY <2>1, <2>4 DEF IdsConPcb
  <2>5. CASE I # {}
    <3>1. i \in I
      BY <2>1, <2>2, <2>5, Minimo
    <3>2. Prioridad[i] \in Banderas /\ Banderas = DOMAIN IdDe
      BY <2>2, <2>3, <3>1, Banderines DEF IdDe
    <3>3. IdDe[Prioridad[i]] \in Range(IdDe)
      BY <3>2 DEF Range
    <3> QED
      BY <3>3 DEF IdsConPcb
  <2> QED
    BY <2>4, <2>5
<1> HIDE DEF i, id, texto, p, b
<1>5. /\ Len(aviso) \in Nat /\ s \in Seq(MensajesDeCpu)
      /\ s = deCpu[c] \/ s = Append(deCpu[c], texto)
  <2>1. CASE id = "EXCEPCION_UMC"
    <3>1. aviso = <<texto>>
      BY <2>1
    <3>2. s = Append(deCpu[c], texto)
      BY <1>2, <1>3, <3>1, AppendIsConcat
    <3>3. Len(aviso) \in Nat
      BY <3>1
    <3>4. Append(deCpu[c], texto) \in Seq(MensajesDeCpu)
      BY <1>2, <1>3, AppendProperties
    <3> HIDE DEF s, aviso
    <3> QED
      BY <3>2, <3>3, <3>4
  <2>2. CASE id # "EXCEPCION_UMC"
    <3>1. aviso = <<>>
      BY <2>2
    <3>2. s = deCpu[c]
      BY <1>2, <3>1, ConcatEmptySeq
    <3> QED
      BY <1>2, <3>1, <3>2
  <2> QED
    BY <2>1, <2>2
<1> HIDE DEF aviso, s
<1>6. MensajeCpu(id, p, NULO) \in MensajesDeCpu
  BY <1>2, <1>4 DEF MensajesDeCpu, MensajeCpu
<1>7. s \o <<MensajeCpu(id, p, NULO)>> = Append(s, MensajeCpu(id, p, NULO))
  BY <1>5, <1>6, AppendIsConcat
<1> QED
  BY <1>1, <1>2, <1>4, <1>5, <1>7 DEF texto, p

LEMMA TiposEnviarPcbAlNucleo ==
  ASSUME Tipos, PidsContados, NEW c \in Cpus, EnviarPcbAlNucleo(c),
         UNCHANGED <<escenario, consola, nucleoVars>>
  PROVE  Tipos'
<1> USE DEF Tipos
<1>1. PICK id \in IdsConPcb, n \in Nat, b \in SUBSET cpu[c].banderas, s \in Seq(MensajesDeCpu) :
        /\ cpu' = [cpu EXCEPT ![c] = [cpu[c] EXCEPT !.banderas = b, !.hilo = "no", !.enviado = id,
                                                 !.terminadas = cpu[c].terminadas + n]]
        /\ s = deCpu[c] \/ s = Append(deCpu[c], MensajeCpu("IMPRIMIR", cpu[c].pid, NULO))
        /\ deCpu' = [deCpu EXCEPT ![c] = Append(s, MensajeCpu(id, cpu[c].pid, NULO))]
  BY AlEnviarPcb
<1>2. cpu[c].pid \in Usados /\ UNCHANGED <<pcb, deConsola, aConsola, aCpu, aUmc>>
  BY AlEnviarPcb
<1> DEFINE r == [cpu[c] EXCEPT !.banderas = b, !.hilo = "no", !.enviado = id,
                               !.terminadas = cpu[c].terminadas + n]
<1>3. cpu[c] \in CpuTipo /\ b \in SUBSET Banderas /\ cpu[c].terminadas + n \in Nat
  <2>1. cpu[c] \in CpuTipo
    BY DEF TiposCpu
  <2>2. cpu[c].banderas \in SUBSET Banderas /\ cpu[c].terminadas \in Nat
    BY <2>1 DEF CpuTipo
  <2> QED
    BY <2>1, <2>2
<1>4. r \in CpuTipo /\ r.hilo = "no"
  BY <1>3 DEF CpuTipo
<1>5. cpu' = [cpu EXCEPT ![c] = r]
  BY <1>1
<1> HIDE DEF r
<1>6. MensajeCpu(id, cpu[c].pid, NULO) \in MensajesDeCpu
  BY <1>2 DEF MensajesDeCpu, MensajeCpu
<1>7. deCpu' \in [Cpus -> Seq(MensajesDeCpu)]
  <2>1. Append(s, MensajeCpu(id, cpu[c].pid, NULO)) \in Seq(MensajesDeCpu)
    BY <1>6, AppendProperties
  <2> QED
    BY <1>1, <2>1 DEF TiposCanales
<1> QED
  BY <1>2, <1>4, <1>5, <1>7, CpuTipada DEF TiposCanales

(* The thread of a CPU that executes instructions.                         *)
LEMMA TiposEjecutarCpu ==
  ASSUME Tipos, PidsContados, NEW c \in Cpus, EjecutarCpu(c),
         UNCHANGED <<escenario, consola, nucleoVars>>
  PROVE  Tipos'
<1> USE DEF Tipos, canales, SinEnviar, UsadoONulo
<1>0. DeLaCpu(c)
  BY CpuConocida DEF DeLaCpu
<1>1. CASE Imprimir(c)
  <2> DEFINE r == [cpu[c] EXCEPT !.terminadas = 0, !.quantum = cpu[c].quantum - 1]
  <2>1. cpu[c].pid \in Usados /\ cpu[c].pid \in Pids
    BY <1>0, <1>1 DEF Imprimir, EnBucle, DeLaCpu
  <2>2. cpu[c].quantum - 1 \in 0..Quantum
    BY <1>0, <1>1, SupuestoCanales DEF Imprimir, Sigue, CpuTipo, DeLaCpu
  <2>3. MensajeCpu("IMPRIMIR", cpu[c].pid, NULO) \in MensajesDeCpu
    BY <1>0, <1>1, <2>1, InstruccionTipo DEF Imprimir, MensajeCpu, MensajesDeCpu, Actual,
          TiposNucleo, DeLaCpu
  <2>4. cpu' = [cpu EXCEPT ![c] = r]
    BY <1>0, <1>1 DEF Imprimir, InstruccionTerminada, LlegaDelNucleo, DeLaCpu
  <2>5. r \in CpuTipo
    BY <1>0, <2>1, <2>2, <2>3 DEF DeLaCpu, CpuTipo
  <2>6. (r.hilo # "no" => r.pid \in Usados) /\ (r.hilo = "espera" => r.quantum > 0)
    BY <1>0, <1>1, <2>1, <2>2, <2>3 DEF Imprimir, DeLaCpu, CpuTipo, EnBucle, Sigue, Senial,
          DeLaCpu
  <2> HIDE DEF r
  <2>7. /\ pcb' \in [Pids -> [consola : Consolas \cup {NULO}, pc : Nat]]
        /\ \A p \in Usados : pcb'[p].consola = pcb[p].consola
    BY <1>0, <1>1, <2>1, <2>2, <2>3, PcAvanzado DEF Imprimir, EnBucle, DeLaCpu
  <2>8. deCpu' \in [Cpus -> Seq(MensajesDeCpu)] /\ aCpu' = aCpu /\ UNCHANGED <<deConsola, aUmc>>
    BY <1>0, <1>1, <2>1, <2>2, <2>3, EnviarTipado DEF Imprimir, DeLaCpu
  <2> QED
    BY <1>0, <2>4, <2>5, <2>6, <2>7, <2>8, CpuTipada DEF DeLaCpu
<1>2. CASE Signal(c)
  <2> DEFINE r == [cpu[c] EXCEPT !.terminadas = 0, !.quantum = cpu[c].quantum - 1]
  <2>1. cpu[c].pid \in Usados /\ cpu[c].pid \in Pids
    BY <1>0, <1>2 DEF Signal, EnBucle, DeLaCpu
  <2>2. cpu[c].quantum - 1 \in 0..Quantum
    BY <1>0, <1>2, SupuestoCanales DEF Signal, Sigue, CpuTipo, DeLaCpu
  <2>3. MensajeCpu("SIGNAL", cpu[c].pid, Actual(c).arg) \in MensajesDeCpu
    BY <1>0, <1>2, <2>1, InstruccionTipo DEF Signal, MensajeCpu, MensajesDeCpu, Actual,
          TiposNucleo, DeLaCpu
  <2>4. cpu' = [cpu EXCEPT ![c] = r]
    BY <1>0, <1>2 DEF Signal, InstruccionTerminada, LlegaDelNucleo, DeLaCpu
  <2>5. r \in CpuTipo
    BY <1>0, <2>1, <2>2, <2>3 DEF DeLaCpu, CpuTipo
  <2>6. (r.hilo # "no" => r.pid \in Usados) /\ (r.hilo = "espera" => r.quantum > 0)
    BY <1>0, <1>2, <2>1, <2>2, <2>3 DEF Signal, DeLaCpu, CpuTipo, EnBucle, Sigue, Senial,
          DeLaCpu
  <2> HIDE DEF r
  <2>7. /\ pcb' \in [Pids -> [consola : Consolas \cup {NULO}, pc : Nat]]
        /\ \A p \in Usados : pcb'[p].consola = pcb[p].consola
    BY <1>0, <1>2, <2>1, <2>2, <2>3, PcAvanzado DEF Signal, EnBucle, DeLaCpu
  <2>8. deCpu' \in [Cpus -> Seq(MensajesDeCpu)] /\ aCpu' = aCpu /\ UNCHANGED <<deConsola, aUmc>>
    BY <1>0, <1>2, <2>1, <2>2, <2>3, EnviarTipado DEF Signal, DeLaCpu
  <2> QED
    BY <1>0, <2>4, <2>5, <2>6, <2>7, <2>8, CpuTipada DEF DeLaCpu
<1>3. CASE Finalizar(c)
  <2> DEFINE r == [cpu[c] EXCEPT !.banderas = cpu[c].banderas \cup {"fin_proceso"},
                                !.terminadas = 0, !.quantum = cpu[c].quantum - 1]
  <2>1. cpu[c].pid \in Usados /\ cpu[c].pid \in Pids
    BY <1>0, <1>3 DEF Finalizar, EnBucle, DeLaCpu
  <2>2. cpu[c].quantum - 1 \in 0..Quantum
    BY <1>0, <1>3, SupuestoCanales DEF Finalizar, Sigue, CpuTipo, DeLaCpu
  <2>3. "fin_proceso" \in Banderas
    BY <1>0, <1>3, Banderines
  <2>4. cpu' = [cpu EXCEPT ![c] = r]
    BY <1>0, <1>3 DEF Finalizar, InstruccionTerminada, LlegaDelNucleo, DeLaCpu
  <2>5. r \in CpuTipo
    BY <1>0, <2>1, <2>2, <2>3 DEF DeLaCpu, CpuTipo
  <2>6. (r.hilo # "no" => r.pid \in Usados) /\ (r.hilo = "espera" => r.quantum > 0)
    BY <1>0, <1>3, <2>1, <2>2, <2>3 DEF Finalizar, DeLaCpu, CpuTipo, EnBucle, Sigue, Senial,
          DeLaCpu
  <2> HIDE DEF r
  <2>7. /\ pcb' \in [Pids -> [consola : Consolas \cup {NULO}, pc : Nat]]
        /\ \A p \in Usados : pcb'[p].consola = pcb[p].consola
    BY <1>0, <1>3, <2>1, <2>2, <2>3, PcAvanzado DEF Finalizar, EnBucle, DeLaCpu
  <2>8. UNCHANGED <<deCpu, aCpu, deConsola, aUmc>>
    BY <1>0, <1>3 DEF Finalizar, DeLaCpu
  <2> QED
    BY <1>0, <2>4, <2>5, <2>6, <2>7, <2>8, CpuTipada DEF DeLaCpu
<1>4. CASE EntradaSalida(c)
  <2> DEFINE r == [cpu[c] EXCEPT
           !.banderas = cpu[c].banderas \cup {"entrada_salida"},
           !.io = Append(cpu[c].io, MensajeCpu("ENTRADA_SALIDA", cpu[c].pid, Actual(c).arg)),
           !.terminadas = 0, !.quantum = cpu[c].quantum - 1]
  <2>1. cpu[c].pid \in Usados /\ cpu[c].pid \in Pids
    BY <1>0, <1>4 DEF EntradaSalida, EnBucle, DeLaCpu
  <2>2. cpu[c].quantum - 1 \in 0..Quantum
    BY <1>0, <1>4, SupuestoCanales DEF EntradaSalida, Sigue, CpuTipo, DeLaCpu
  <2>3. "entrada_salida" \in Banderas
    BY <1>0, <1>4, Banderines
  <2>4. Append(cpu[c].io, MensajeCpu("ENTRADA_SALIDA", cpu[c].pid, Actual(c).arg))
          \in Seq([id : {"ENTRADA_SALIDA"}, pid : Usados, arg : Dispositivos])
    BY <1>0, <1>4, <2>1, InstruccionTipo, AppendProperties DEF EntradaSalida, MensajeCpu,
          Actual, TiposNucleo, CpuTipo, DeLaCpu
  <2>5. cpu' = [cpu EXCEPT ![c] = r]
    BY <1>0, <1>4 DEF EntradaSalida, InstruccionTerminada, LlegaDelNucleo, DeLaCpu
  <2>6. r \in CpuTipo
    BY <1>0, <2>1, <2>2, <2>3, <2>4 DEF DeLaCpu, CpuTipo
  <2>7. (r.hilo # "no" => r.pid \in Usados) /\ (r.hilo = "espera" => r.quantum > 0)
    BY <1>0, <1>4, <2>1, <2>2, <2>3, <2>4 DEF EntradaSalida, DeLaCpu, CpuTipo, EnBucle, Sigue,
          Senial, DeLaCpu
  <2> HIDE DEF r
  <2>8. /\ pcb' \in [Pids -> [consola : Consolas \cup {NULO}, pc : Nat]]
        /\ \A p \in Usados : pcb'[p].consola = pcb[p].consola
    BY <1>0, <1>4, <2>1, <2>2, <2>3, <2>4, PcAvanzado DEF EntradaSalida, EnBucle, DeLaCpu
  <2>9. UNCHANGED <<deCpu, aCpu, deConsola, aUmc>>
    BY <1>0, <1>4 DEF EntradaSalida, DeLaCpu
  <2> QED
    BY <1>0, <2>5, <2>6, <2>7, <2>8, <2>9, CpuTipada DEF DeLaCpu
<1>5. CASE Wait(c)
  <2> DEFINE r == [cpu[c] EXCEPT !.banderas = cpu[c].banderas \cup {"wait_nucleo"}, !.hilo = "espera"]
  <2>1. cpu[c].pid \in Usados /\ cpu[c].pid \in Pids
    BY <1>0, <1>5 DEF Wait, EnBucle, DeLaCpu
  <2>2. MensajeCpu("WAIT", cpu[c].pid, Actual(c).arg) \in MensajesDeCpu
    BY <1>0, <1>5, <2>1, InstruccionTipo DEF Wait, MensajeCpu, MensajesDeCpu, Actual,
          TiposNucleo, DeLaCpu
  <2>3. "wait_nucleo" \in Banderas
    BY <1>0, <1>5, Banderines
  <2>4. cpu[c].quantum > 0
    BY <1>0, <1>5 DEF Wait, Sigue, DeLaCpu
  <2>5. cpu' = [cpu EXCEPT ![c] = r]
    BY <1>0, <1>5 DEF Wait, InstruccionTerminada, LlegaDelNucleo, DeLaCpu
  <2>6. r \in CpuTipo
    BY <1>0, <2>1, <2>2, <2>3, <2>4 DEF DeLaCpu, CpuTipo
  <2>7. (r.hilo # "no" => r.pid \in Usados) /\ (r.hilo = "espera" => r.quantum > 0)
    BY <1>0, <1>5, <2>1, <2>2, <2>3, <2>4 DEF Wait, DeLaCpu, CpuTipo, EnBucle, Sigue, Senial,
          DeLaCpu
  <2> HIDE DEF r
  <2>8. pcb' = pcb
    BY <1>0, <1>5 DEF Wait, DeLaCpu
  <2>9. deCpu' \in [Cpus -> Seq(MensajesDeCpu)] /\ aCpu' = aCpu /\ UNCHANGED <<deConsola, aUmc>>
    BY <1>0, <1>5, <2>1, <2>2, <2>3, <2>4, EnviarTipado DEF Wait, DeLaCpu
  <2> QED
    BY <1>0, <2>5, <2>6, <2>7, <2>8, <2>9, CpuTipada DEF DeLaCpu
<1>6. CASE FinWait(c)
  <2> DEFINE r == [cpu[c] EXCEPT !.terminadas = 0, !.quantum = cpu[c].quantum - 1, !.hilo = "bucle"]
  <2>1. cpu[c].pid \in Usados /\ cpu[c].pid \in Pids
    BY <1>0, <1>6 DEF FinWait, EnBucle, DeLaCpu
  <2>2. cpu[c].quantum - 1 \in 0..Quantum
    BY <1>0, <1>6, SupuestoCanales DEF FinWait, CpuTipo, DeLaCpu
  <2>3. cpu' = [cpu EXCEPT ![c] = r]
    BY <1>0, <1>6 DEF FinWait, InstruccionTerminada, LlegaDelNucleo, DeLaCpu
  <2>4. r \in CpuTipo
    BY <1>0, <2>1, <2>2 DEF DeLaCpu, CpuTipo
  <2>5. (r.hilo # "no" => r.pid \in Usados) /\ (r.hilo = "espera" => r.quantum > 0)
    BY <1>0, <1>6, <2>1, <2>2 DEF FinWait, DeLaCpu, CpuTipo, EnBucle, Sigue, Senial, DeLaCpu
  <2> HIDE DEF r
  <2>6. /\ pcb' \in [Pids -> [consola : Consolas \cup {NULO}, pc : Nat]]
        /\ \A p \in Usados : pcb'[p].consola = pcb[p].consola
    BY <1>0, <1>6, <2>1, <2>2, PcAvanzado DEF FinWait, EnBucle, DeLaCpu
  <2>7. UNCHANGED <<deCpu, aCpu, deConsola, aUmc>>
    BY <1>0, <1>6 DEF FinWait, DeLaCpu
  <2> QED
    BY <1>0, <2>3, <2>4, <2>5, <2>6, <2>7, CpuTipada DEF DeLaCpu
<1>7. CASE Falla(c)
  <2> DEFINE r == [cpu[c] EXCEPT !.banderas = cpu[c].banderas \cup {"excepcion_umc"}, !.hilo = "sale"]
  <2>1. cpu[c].pid \in Usados /\ cpu[c].pid \in Pids
    BY <1>0, <1>7 DEF Falla, EnBucle, DeLaCpu
  <2>2. "excepcion_umc" \in Banderas
    BY <1>0, <1>7, Banderines
  <2>3. cpu' = [cpu EXCEPT ![c] = r]
    BY <1>0, <1>7 DEF Falla, InstruccionTerminada, LlegaDelNucleo, DeLaCpu
  <2>4. r \in CpuTipo
    BY <1>0, <2>1, <2>2 DEF DeLaCpu, CpuTipo
  <2>5. (r.hilo # "no" => r.pid \in Usados) /\ (r.hilo = "espera" => r.quantum > 0)
    BY <1>0, <1>7, <2>1, <2>2 DEF Falla, DeLaCpu, CpuTipo, EnBucle, Sigue, Senial, DeLaCpu
  <2> HIDE DEF r
  <2>6. pcb' = pcb
    BY <1>0, <1>7 DEF Falla, DeLaCpu
  <2>7. UNCHANGED <<deCpu, aCpu, deConsola, aUmc>>
    BY <1>0, <1>7 DEF Falla, DeLaCpu
  <2> QED
    BY <1>0, <2>3, <2>4, <2>5, <2>6, <2>7, CpuTipada DEF DeLaCpu
<1>8. CASE SalirDelBucle(c)
  <2> DEFINE r == [cpu[c] EXCEPT !.hilo = "sale"]
  <2>1. cpu[c].pid \in Usados /\ cpu[c].pid \in Pids
    BY <1>0, <1>8 DEF SalirDelBucle, EnBucle, DeLaCpu
  <2>2. cpu' = [cpu EXCEPT ![c] = r]
    BY <1>0, <1>8 DEF SalirDelBucle, InstruccionTerminada, LlegaDelNucleo, DeLaCpu
  <2>3. r \in CpuTipo
    BY <1>0, <2>1 DEF DeLaCpu, CpuTipo
  <2>4. (r.hilo # "no" => r.pid \in Usados) /\ (r.hilo = "espera" => r.quantum > 0)
    BY <1>0, <1>8, <2>1 DEF SalirDelBucle, DeLaCpu, CpuTipo, EnBucle, Sigue, Senial, DeLaCpu
  <2> HIDE DEF r
  <2>5. pcb' = pcb
    BY <1>0, <1>8 DEF SalirDelBucle, DeLaCpu
  <2>6. UNCHANGED <<deCpu, aCpu, deConsola, aUmc>>
    BY <1>0, <1>8 DEF SalirDelBucle, DeLaCpu
  <2> QED
    BY <1>0, <2>2, <2>3, <2>4, <2>5, <2>6, CpuTipada DEF DeLaCpu
<1>9. CASE EnviarPcbAlNucleo(c)
  BY <1>9, TiposEnviarPcbAlNucleo
<1>10. CASE FinEnviarPcb(c)
  <2> DEFINE r == [cpu[c] EXCEPT
           !.ocupada = FALSE,
           !.enviado = NULO,
           !.envios = cpu[c].envios + (IF cpu[c].enviado = "ENTRADA_SALIDA_PCB" THEN 2 ELSE 0),
           !.muertes = cpu[c].muertes + (IF cpu[c].enviado = "MATAR_CPU" THEN 1 ELSE 0)]
  <2>1. /\ cpu[c].envios + (IF cpu[c].enviado = "ENTRADA_SALIDA_PCB" THEN 2 ELSE 0) \in Nat
        /\ cpu[c].muertes + (IF cpu[c].enviado = "MATAR_CPU" THEN 1 ELSE 0) \in Nat
    BY <1>0, <1>10 DEF FinEnviarPcb, CpuTipo, DeLaCpu
  <2>2. cpu' = [cpu EXCEPT ![c] = r]
    BY <1>0, <1>10 DEF FinEnviarPcb, InstruccionTerminada, LlegaDelNucleo, DeLaCpu
  <2>3. r \in CpuTipo
    BY <1>0, <2>1 DEF DeLaCpu, CpuTipo
  <2>4. (r.hilo # "no" => r.pid \in Usados) /\ (r.hilo = "espera" => r.quantum > 0)
    BY <1>0, <1>10, <2>1 DEF FinEnviarPcb, DeLaCpu, CpuTipo, EnBucle, Sigue, Senial, DeLaCpu
  <2> HIDE DEF r
  <2>5. pcb' = pcb
    BY <1>0, <1>10 DEF FinEnviarPcb, DeLaCpu
  <2>6. UNCHANGED <<deCpu, aCpu, deConsola, aUmc>>
    BY <1>0, <1>10 DEF FinEnviarPcb, DeLaCpu
  <2> QED
    BY <1>0, <2>2, <2>3, <2>4, <2>5, <2>6, CpuTipada DEF DeLaCpu
<1> QED
  BY <1>1, <1>2, <1>3, <1>4, <1>5, <1>6, <1>7, <1>8, <1>9, <1>10 DEF EjecutarCpu

(* The threads of a CPU that send E/S.                                     *)
LEMMA TiposIoCpu ==
  ASSUME Tipos, PidsContados, NEW c \in Cpus, IoCpu(c),
         UNCHANGED <<escenario, consola, nucleoVars>>
  PROVE  Tipos'
<1> USE DEF Tipos, canales, SinEnviar, UsadoONulo
<1>0. DeLaCpu(c)
  BY CpuConocida DEF DeLaCpu
<1>1. CASE EnviarEs(c)
  <2>1. PICK i \in 1..Len(cpu[c].io) :
          /\ Enviar(c, cpu[c].io[i])
          /\ cpu' = [cpu EXCEPT ![c] = [cpu[c] EXCEPT !.io = RemoveAt(@, i), !.envios = @ - 1,
                                                      !.ioFin = @ + 1]]
    BY <1>1 DEF EnviarEs
  <2> DEFINE S == [id : {"ENTRADA_SALIDA"}, pid : Usados, arg : Dispositivos]
             r == [cpu[c] EXCEPT !.io = RemoveAt(cpu[c].io, i), !.envios = cpu[c].envios - 1,
                                 !.ioFin = cpu[c].ioFin + 1]
  <2>12. cpu[c].envios > 0
    BY <1>1 DEF EnviarEs
  <2>13. cpu[c].io \in Seq(S) /\ cpu[c].envios \in Nat /\ cpu[c].ioFin \in Nat
    BY <1>0 DEF DeLaCpu, CpuTipo
  <2>2. cpu[c].io \in Seq(S) /\ cpu[c].envios - 1 \in Nat /\ cpu[c].ioFin + 1 \in Nat
    BY <2>12, <2>13
  <2>3. cpu[c].io[i] \in S /\ RemoveAt(cpu[c].io, i) \in Seq(S)
    BY <2>2, SinUno, ElementOfSeq
  <2>4. cpu[c].io[i] \in MensajesDeCpu
    BY <2>3 DEF MensajesDeCpu
  <2>5. cpu' = [cpu EXCEPT ![c] = r]
    BY <1>0, <2>1 DEF DeLaCpu
  <2>6. r \in CpuTipo /\ r.hilo = cpu[c].hilo /\ r.pid = cpu[c].pid /\ r.quantum = cpu[c].quantum
    BY <1>0, <2>2, <2>3 DEF DeLaCpu, CpuTipo
  <2> HIDE DEF r
  <2>7. /\ deCpu' \in [Cpus -> Seq(MensajesDeCpu)] /\ aCpu' = aCpu
        /\ UNCHANGED <<pcb, deConsola, aUmc>>
    BY <1>0, <1>1, <2>1, <2>4, EnviarTipado DEF DeLaCpu, EnviarEs
  <2> QED
    BY <1>0, <2>5, <2>6, <2>7, CpuTipada DEF DeLaCpu
<1>2. CASE FinEs(c)
  <2> DEFINE r == [cpu[c] EXCEPT !.envios = cpu[c].envios - 1, !.ioFin = cpu[c].ioFin - 1]
  <2>1. cpu[c].envios - 1 \in Nat
    BY <1>0, <1>2 DEF FinEs, CpuTipo, DeLaCpu
  <2>2. cpu[c].ioFin - 1 \in Nat
    BY <1>0, <1>2 DEF FinEs, CpuTipo, DeLaCpu
  <2>3. cpu' = [cpu EXCEPT ![c] = r]
    BY <1>0, <1>2 DEF FinEs, InstruccionTerminada, LlegaDelNucleo, DeLaCpu
  <2>4. r \in CpuTipo
    BY <1>0, <2>1, <2>2 DEF DeLaCpu, CpuTipo
  <2>5. (r.hilo # "no" => r.pid \in Usados) /\ (r.hilo = "espera" => r.quantum > 0)
    BY <1>0, <1>2, <2>1, <2>2 DEF FinEs, DeLaCpu, CpuTipo, EnBucle, Sigue, Senial, DeLaCpu
  <2> HIDE DEF r
  <2>6. pcb' = pcb
    BY <1>0, <1>2 DEF FinEs, DeLaCpu
  <2>7. UNCHANGED <<deCpu, aCpu, deConsola, aUmc>>
    BY <1>0, <1>2 DEF FinEs, DeLaCpu
  <2> QED
    BY <1>0, <2>3, <2>4, <2>5, <2>6, <2>7, CpuTipada DEF DeLaCpu
<1> QED
  BY <1>1, <1>2 DEF IoCpu

(* The main thread of a CPU, and its signals.                              *)
LEMMA TiposPrincipalCpu ==
  ASSUME Tipos, PidsContados, NEW c \in Cpus, PrincipalCpu(c) \/ Seniales(c),
         UNCHANGED <<escenario, consola, nucleoVars>>
  PROVE  Tipos'
<1> USE DEF Tipos, canales, SinEnviar, UsadoONulo
<1>0. DeLaCpu(c)
  BY CpuConocida DEF DeLaCpu
<1>1. CASE Conectar(c)
  <2> DEFINE r == [cpu[c] EXCEPT !.proceso =
           IF c \in escenario.tarde THEN "conectando" ELSE "vivo"]
  <2>1. MensajeCpu("HANDSHAKE", NULO, NULO) \in MensajesDeCpu
    BY <1>0, <1>1 DEF MensajeCpu, MensajesDeCpu, DeLaCpu
  <2>2. cpu' = [cpu EXCEPT ![c] = r]
    BY <1>0, <1>1 DEF Conectar, InstruccionTerminada, LlegaDelNucleo, DeLaCpu
  <2>3. r \in CpuTipo
    BY <1>0, <2>1 DEF DeLaCpu, CpuTipo
  <2>4. (r.hilo # "no" => r.pid \in Usados) /\ (r.hilo = "espera" => r.quantum > 0)
    BY <1>0, <1>1, <2>1 DEF Conectar, DeLaCpu, CpuTipo, EnBucle, Sigue, Senial, DeLaCpu
  <2> HIDE DEF r
  <2>5. pcb' = pcb
    BY <1>0, <1>1 DEF Conectar, DeLaCpu
  <2>6. deCpu' \in [Cpus -> Seq(MensajesDeCpu)] /\ aCpu' = aCpu /\ UNCHANGED <<deConsola, aUmc>>
    BY <1>0, <1>1, <2>1, EnviarTipado DEF Conectar, DeLaCpu
  <2> QED
    BY <1>0, <2>2, <2>3, <2>4, <2>5, <2>6, CpuTipada DEF DeLaCpu
<1>2. CASE FinConectar(c)
  <2> DEFINE r == [cpu[c] EXCEPT !.proceso = "vivo", !.ocupada = FALSE]
  <2>1. cpu' = [cpu EXCEPT ![c] = r]
    BY <1>0, <1>2 DEF FinConectar, InstruccionTerminada, LlegaDelNucleo, DeLaCpu
  <2>2. r \in CpuTipo
    BY <1>0 DEF DeLaCpu, CpuTipo
  <2>3. (r.hilo # "no" => r.pid \in Usados) /\ (r.hilo = "espera" => r.quantum > 0)
    BY <1>0, <1>2 DEF FinConectar, DeLaCpu, CpuTipo, EnBucle, Sigue, Senial, DeLaCpu
  <2> HIDE DEF r
  <2>4. pcb' = pcb
    BY <1>0, <1>2 DEF FinConectar, DeLaCpu
  <2>5. UNCHANGED <<deCpu, aCpu, deConsola, aUmc>>
    BY <1>0, <1>2 DEF FinConectar, DeLaCpu
  <2> QED
    BY <1>0, <2>1, <2>2, <2>3, <2>4, <2>5, CpuTipada DEF DeLaCpu
<1>3. CASE SenialOcupada(c)
  <2> DEFINE r == [cpu[c] EXCEPT !.senial = "espera"]
  <2>1. cpu' = [cpu EXCEPT ![c] = r]
    BY <1>0, <1>3 DEF SenialOcupada, InstruccionTerminada, LlegaDelNucleo, DeLaCpu
  <2>2. r \in CpuTipo
    BY <1>0 DEF DeLaCpu, CpuTipo
  <2>3. (r.hilo # "no" => r.pid \in Usados) /\ (r.hilo = "espera" => r.quantum > 0)
    BY <1>0, <1>3 DEF SenialOcupada, DeLaCpu, CpuTipo, EnBucle, Sigue, Senial, DeLaCpu
  <2> HIDE DEF r
  <2>4. pcb' = pcb
    BY <1>0, <1>3 DEF SenialOcupada, DeLaCpu
  <2>5. UNCHANGED <<deCpu, aCpu, deConsola, aUmc>>
    BY <1>0, <1>3 DEF SenialOcupada, DeLaCpu
  <2> QED
    BY <1>0, <2>1, <2>2, <2>3, <2>4, <2>5, CpuTipada DEF DeLaCpu
<1>4. CASE SenialLibre(c)
  <2> DEFINE r == [cpu[c] EXCEPT !.senial = "fin"]
  <2>1. MensajeCpu("DESCONEXION", NULO, NULO) \in MensajesDeCpu
    BY <1>0, <1>4 DEF MensajeCpu, MensajesDeCpu, DeLaCpu
  <2>2. cpu' = [cpu EXCEPT ![c] = r]
    BY <1>0, <1>4 DEF SenialLibre, InstruccionTerminada, LlegaDelNucleo, DeLaCpu
  <2>3. r \in CpuTipo
    BY <1>0, <2>1 DEF DeLaCpu, CpuTipo
  <2>4. (r.hilo # "no" => r.pid \in Usados) /\ (r.hilo = "espera" => r.quantum > 0)
    BY <1>0, <1>4, <2>1 DEF SenialLibre, DeLaCpu, CpuTipo, EnBucle, Sigue, Senial, DeLaCpu
  <2> HIDE DEF r
  <2>5. pcb' = pcb
    BY <1>0, <1>4 DEF SenialLibre, DeLaCpu
  <2>6. deCpu' \in [Cpus -> Seq(MensajesDeCpu)] /\ aCpu' = aCpu /\ UNCHANGED <<deConsola, aUmc>>
    BY <1>0, <1>4, <2>1, EnviarTipado DEF SenialLibre, DeLaCpu
  <2> QED
    BY <1>0, <2>2, <2>3, <2>4, <2>5, <2>6, CpuTipada DEF DeLaCpu
<1>5. CASE FinSenial(c)
  <2> DEFINE r == [cpu[c] EXCEPT !.muertes = cpu[c].muertes - 1, !.senial = "fin"]
  <2>1. cpu[c].muertes - 1 \in Nat
    BY <1>0, <1>5 DEF FinSenial, CpuTipo, DeLaCpu
  <2>2. cpu' = [cpu EXCEPT ![c] = r]
    BY <1>0, <1>5 DEF FinSenial, InstruccionTerminada, LlegaDelNucleo, DeLaCpu
  <2>3. r \in CpuTipo
    BY <1>0, <2>1 DEF DeLaCpu, CpuTipo
  <2>4. (r.hilo # "no" => r.pid \in Usados) /\ (r.hilo = "espera" => r.quantum > 0)
    BY <1>0, <1>5, <2>1 DEF FinSenial, DeLaCpu, CpuTipo, EnBucle, Sigue, Senial, DeLaCpu
  <2> HIDE DEF r
  <2>5. pcb' = pcb
    BY <1>0, <1>5 DEF FinSenial, DeLaCpu
  <2>6. UNCHANGED <<deCpu, aCpu, deConsola, aUmc>>
    BY <1>0, <1>5 DEF FinSenial, DeLaCpu
  <2> QED
    BY <1>0, <2>2, <2>3, <2>4, <2>5, <2>6, CpuTipada DEF DeLaCpu
<1>6. CASE CerrarCpu(c)
  <2> DEFINE r == [cpu[c] EXCEPT !.proceso = "cerrado"]
  <2>1. cpu' = [cpu EXCEPT ![c] = r]
    BY <1>0, <1>6 DEF CerrarCpu, InstruccionTerminada, LlegaDelNucleo, DeLaCpu
  <2>2. r \in CpuTipo
    BY <1>0 DEF DeLaCpu, CpuTipo
  <2>3. (r.hilo # "no" => r.pid \in Usados) /\ (r.hilo = "espera" => r.quantum > 0)
    BY <1>0, <1>6 DEF CerrarCpu, DeLaCpu, CpuTipo, EnBucle, Sigue, Senial, DeLaCpu
  <2> HIDE DEF r
  <2>4. pcb' = pcb
    BY <1>0, <1>6 DEF CerrarCpu, DeLaCpu
  <2>5. UNCHANGED <<deCpu, aCpu, deConsola, aUmc>>
    BY <1>0, <1>6 DEF CerrarCpu, DeLaCpu
  <2> QED
    BY <1>0, <2>1, <2>2, <2>3, <2>4, <2>5, CpuTipada DEF DeLaCpu
<1>7. CASE Senial(c, "matar_cpu")
  <2> DEFINE r == [cpu[c] EXCEPT !.banderas = cpu[c].banderas \cup {"matar_cpu"}, !.senial = "decide"]
  <2>1. "matar_cpu" \in Banderas
    BY <1>0, <1>7, Banderines
  <2>2. cpu' = [cpu EXCEPT ![c] = r]
    BY <1>0, <1>7 DEF Senial, InstruccionTerminada, LlegaDelNucleo, DeLaCpu
  <2>3. r \in CpuTipo
    BY <1>0, <2>1 DEF DeLaCpu, CpuTipo
  <2>4. (r.hilo # "no" => r.pid \in Usados) /\ (r.hilo = "espera" => r.quantum > 0)
    BY <1>0, <1>7, <2>1 DEF Senial, DeLaCpu, CpuTipo, EnBucle, Sigue, Senial, DeLaCpu
  <2> HIDE DEF r
  <2>5. pcb' = pcb
    BY <1>0, <1>7 DEF Senial, DeLaCpu
  <2>6. UNCHANGED <<deCpu, aCpu, deConsola, aUmc>>
    BY <1>0, <1>7 DEF Senial, DeLaCpu
  <2> QED
    BY <1>0, <2>2, <2>3, <2>4, <2>5, <2>6, CpuTipada DEF DeLaCpu
<1>8. CASE Senial(c, "matar_cpu_sigint")
  <2> DEFINE r == [cpu[c] EXCEPT !.banderas = cpu[c].banderas \cup {"matar_cpu_sigint"}, !.senial = "decide"]
  <2>1. "matar_cpu_sigint" \in Banderas
    BY <1>0, <1>8, Banderines
  <2>2. cpu' = [cpu EXCEPT ![c] = r]
    BY <1>0, <1>8 DEF Senial, InstruccionTerminada, LlegaDelNucleo, DeLaCpu
  <2>3. r \in CpuTipo
    BY <1>0, <2>1 DEF DeLaCpu, CpuTipo
  <2>4. (r.hilo # "no" => r.pid \in Usados) /\ (r.hilo = "espera" => r.quantum > 0)
    BY <1>0, <1>8, <2>1 DEF Senial, DeLaCpu, CpuTipo, EnBucle, Sigue, Senial, DeLaCpu
  <2> HIDE DEF r
  <2>5. pcb' = pcb
    BY <1>0, <1>8 DEF Senial, DeLaCpu
  <2>6. UNCHANGED <<deCpu, aCpu, deConsola, aUmc>>
    BY <1>0, <1>8 DEF Senial, DeLaCpu
  <2> QED
    BY <1>0, <2>2, <2>3, <2>4, <2>5, <2>6, CpuTipada DEF DeLaCpu
<1> QED
  BY <1>1, <1>2, <1>3, <1>4, <1>5, <1>6, <1>7, <1>8 DEF PrincipalCpu, Seniales

-----------------------------------------------------------------------------
(* Types: the consoles, the death of the Nucleo, and a step that moves     *)
(* nothing.                                                                *)
LEMMA TiposLaConsola ==
  ASSUME Tipos, NEW k \in Consolas, LaConsola(k),
         UNCHANGED <<escenario, pcb, nucleoVars, cpu>>
  PROVE  Tipos'
<1> USE DEF Tipos, nucleoVars, semaforosVars, canales
<1> DEFINE S == {"INICIAR", "MATAR", "PROGRAMA_FINALIZADO"}
           E == {"apagada", "avisada", "viva", "terminando", "cerrada"}
<1>1. /\ pid_count' = pid_count /\ cpu' = cpu /\ UNCHANGED <<escenario, pcb>>
      /\ UNCHANGED <<deCpu, aCpu, aUmc>>
  BY DEF LaConsola, Arrancar, AtenderNucleo, CtrlC, CerrarConsola
<1>2. consola \in [Consolas -> E] /\ deConsola \in [Consolas -> Seq(S)]
  BY DEF TiposCanales
<1>3. consola' \in [Consolas -> E]
  BY <1>2 DEF LaConsola, Arrancar, AtenderNucleo, CtrlC, CerrarConsola, Pasar
<1>4. deConsola' \in [Consolas -> Seq(S)]
  <2>1. \A m \in S : Append(deConsola[k], m) \in Seq(S)
    BY <1>2, AppendProperties
  <2>2. deConsola' = deConsola \/ \E m \in S : deConsola' = [deConsola EXCEPT ![k] = Append(deConsola[k], m)]
    BY DEF LaConsola, Arrancar, AtenderNucleo, CtrlC, CerrarConsola, Avisar
  <2> HIDE DEF S
  <2> QED
    BY <1>2, <2>1, <2>2
<1>5. TiposCanales'
  BY <1>1, <1>3, <1>4, CanalesTipados DEF TiposCanales
<1>6. TiposCola' /\ TiposHilo' /\ TiposNucleo' /\ TiposCpu'
  BY <1>1, ColaQuieta, HiloQuieto, NucleoTipado, CpuQuieta DEF TiposNucleo
<1> QED
  BY <1>5, <1>6

LEMMA TiposQuietos ==
  ASSUME Tipos, UNCHANGED <<escenario, consola, deConsola, deCpu, aCpu, aUmc, pcb, cola,
                            lista_procesos, pid_count, cuenta, solicitudes_es, mutex, hilo,
                            impreso, solicitudes, cpu>>
  PROVE  Tipos'
<1> USE DEF Tipos
<1>1. TiposCanales'
  BY CanalesTipados DEF TiposCanales
<1>2. TiposCola' /\ TiposHilo' /\ TiposNucleo' /\ TiposCpu'
  BY ColaQuieta, HiloQuieto, NucleoTipado, CpuQuieta DEF TiposNucleo
<1> QED
  BY <1>1, <1>2

LEMMA TiposNucleoNext ==
  ASSUME Tipos, PidsContados, DelNucleo(NucleoNext)
  PROVE  Tipos'
<1>1. UNCHANGED <<escenario, consola, cpu>> /\ NucleoNext
  BY DEF DelNucleo
<1>2. ASSUME NucleoCae
      PROVE  Tipos'
  BY <1>1, <1>2, TiposQuietos DEF NucleoCae, semaforosVars, canales
<1> QED
  BY <1>1, <1>2, TiposConsola, TiposUmc, TiposCpuNucleo, TiposExec, TiposDispositivo,
        TiposSemaforo
     DEF NucleoNext

LEMMA TiposCpuNext ==
  ASSUME Tipos, PidsContados, NEW c \in Cpus, DelCpu(PasoCpu(c))
  PROVE  Tipos'
<1>1. UNCHANGED <<escenario, consola, nucleoVars>> /\ PasoCpu(c)
  BY DEF DelCpu
<1> QED
  BY <1>1, TiposLeerCpu, TiposEjecutarCpu, TiposIoCpu, TiposPrincipalCpu DEF PasoCpu

(* The consoles that run a program of the scenario are consoles.           *)
LEMMA ConsolasDelEscenario ==
  ASSUME TiposCanales
  PROVE  DOMAIN escenario.programa \subseteq Consolas
  BY SupuestoCanales DEF TiposCanales

LEMMA TiposNext ==
  ASSUME Tipos, PidsContados, [Next]_vars
  PROVE  Tipos'
<1>1. CASE DelNucleo(NucleoNext)
  BY <1>1, TiposNucleoNext
<1>2. ASSUME NEW c \in Cpus, DelCpu(PasoCpu(c))
      PROVE  Tipos'
  BY <1>2, TiposCpuNext
<1>3. ASSUME NEW k \in DOMAIN escenario.programa, DeConsola(LaConsola(k))
      PROVE  Tipos'
  BY <1>3, TiposLaConsola, ConsolasDelEscenario DEF DeConsola, Tipos
<1>4. CASE UNCHANGED vars
  BY <1>4, TiposQuietos DEF vars, canales, nucleoVars, semaforosVars
<1> QED
  BY <1>1, <1>2, <1>3, <1>4 DEF Next

-----------------------------------------------------------------------------
(* The pids: one INICIAR of each console.                                  *)
LEMMA PidsMovidos ==
  ASSUME Tipos, PidsContados, escenario' = escenario, pid_count' = pid_count,
         PorIniciar' \subseteq PorIniciar,
         \A k \in Consolas :
           /\ consola'[k] \in {"apagada", "avisada"} => ~Contains(deConsola'[k], "INICIAR")
           /\ UnaVez(deConsola'[k], "INICIAR")
           /\ deConsola'[k] # <<>> => k \in DOMAIN escenario.programa
  PROVE  PidsContados'
<1>1. IsFiniteSet(PorIniciar)
  BY UsadosPids DEF Tipos, TiposNucleo
<1>2. /\ Cardinality(PorIniciar') <= Cardinality(PorIniciar)
      /\ Cardinality(PorIniciar') \in Nat /\ Cardinality(PorIniciar) \in Nat
  BY <1>1, FS_Subset, FS_CardinalityType
<1>3. Cardinality(PorIniciar') + pid_count' <= Cardinality(Consolas) + 1
  BY <1>2, PidsNat DEF PidsContados, Tipos, TiposNucleo
<1> QED
  BY <1>3 DEF PidsContados

LEMMA PidsQuietos ==
  ASSUME PidsContados, UNCHANGED <<escenario, pid_count, consola, deConsola>>
  PROVE  PidsContados'
  BY DEF PidsContados, PorIniciar

LEMMA PidsMensaje ==
  ASSUME Tipos, PidsContados, NEW k \in Consolas, NEW id, LlegaDeConsola(k, id),
         UNCHANGED <<escenario, pid_count, consola>>
  PROVE  PidsContados'
<1>1. /\ deConsola[k] \in Seq({"INICIAR", "MATAR", "PROGRAMA_FINALIZADO"}) /\ deConsola[k] # <<>>
      /\ deConsola'[k] = Tail(deConsola[k])
      /\ \A j \in Consolas : j # k => deConsola'[j] = deConsola[j]
  BY DeConsolaTipado DEF Tipos
<1>2. \A x : /\ Contains(deConsola'[k], x) => Contains(deConsola[k], x)
             /\ UnaVez(deConsola[k], x) => UnaVez(deConsola'[k], x)
  BY <1>1, SinCabeza
<1>3. PorIniciar' \subseteq PorIniciar
  BY <1>1, <1>2 DEF PorIniciar
<1> QED
  BY <1>1, <1>2, <1>3, PidsMovidos DEF PidsContados

LEMMA PidsIniciar ==
  ASSUME Tipos, PidsContados, NEW k \in Consolas, AtenderIniciar(k),
         UNCHANGED <<escenario, consola>>
  PROVE  PidsContados'
<1>1. /\ deConsola[k] \in Seq({"INICIAR", "MATAR", "PROGRAMA_FINALIZADO"}) /\ deConsola[k] # <<>>
      /\ deConsola'[k] = Tail(deConsola[k]) /\ Head(deConsola[k]) = "INICIAR"
      /\ \A j \in Consolas : j # k => deConsola'[j] = deConsola[j]
  BY DeConsolaTipado DEF Tipos, AtenderIniciar
<1>2. \A x : /\ Contains(deConsola'[k], x) => Contains(deConsola[k], x)
             /\ UnaVez(deConsola[k], x) => UnaVez(deConsola'[k], x)
  BY <1>1, SinCabeza
<1>3. Contains(deConsola[k], "INICIAR") /\ ~Contains(deConsola'[k], "INICIAR")
  BY <1>1, SinCabeza DEF PidsContados
<1>4. PorIniciar' = PorIniciar \ {k} /\ k \in PorIniciar
  BY <1>1, <1>2, <1>3 DEF PorIniciar, PidsContados
<1>5. IsFiniteSet(PorIniciar)
  BY UsadosPids DEF Tipos, TiposNucleo
<1>6. /\ Cardinality(PorIniciar') = Cardinality(PorIniciar) - 1
      /\ Cardinality(PorIniciar) \in Nat
  BY <1>4, <1>5, FS_RemoveElement, FS_CardinalityType
<1>7. Cardinality(PorIniciar') + pid_count' <= Cardinality(Consolas) + 1
  BY <1>6, PidsNat DEF PidsContados, AtenderIniciar, Tipos, TiposNucleo
<1> QED
  BY <1>1, <1>2, <1>7 DEF PidsContados

LEMMA PidsLaConsola ==
  ASSUME Tipos, PidsContados, NEW k \in DOMAIN escenario.programa, LaConsola(k),
         UNCHANGED <<escenario, pid_count>>
  PROVE  PidsContados'
<1> DEFINE S == {"INICIAR", "MATAR", "PROGRAMA_FINALIZADO"}
<1>1. k \in Consolas
  BY ConsolasDelEscenario DEF Tipos
<1>2. deConsola \in [Consolas -> Seq(S)]
  BY DEF Tipos, TiposCanales
<1>3. consola \in [Consolas -> {"apagada", "avisada", "viva", "terminando", "cerrada"}]
  BY DEF Tipos, TiposCanales
<1> HIDE DEF S
<1>4. CASE CerrarConsola(k)
  <2>1. /\ deConsola' = deConsola /\ consola[k] = "terminando" /\ consola'[k] = "cerrada"
        /\ \A j \in Consolas : j # k => consola'[j] = consola[j]
    BY <1>1, <1>3, <1>4 DEF CerrarConsola, Pasar, canales
  <2>2. PorIniciar' \subseteq PorIniciar
    BY <2>1 DEF PorIniciar
  <2> QED
    BY <2>1, <2>2, PidsMovidos DEF PidsContados
<1>5. ASSUME NEW m \in S, NEW a \in {"apagada", "avisada", "viva", "terminando"},
             NEW b \in {"avisada", "viva", "terminando", "cerrada"},
             Avisar(k, m), consola[k] = a, Pasar(k, b),
             a \in {"apagada", "avisada"} /\ m # "INICIAR" => b = "avisada",
             m = "INICIAR" => a \in {"apagada", "avisada"} /\ b \in {"viva", "cerrada"},
             b = "avisada" => a \in {"apagada", "avisada"}
      PROVE  PidsContados'
  <2>1. /\ deConsola'[k] = Append(deConsola[k], m) /\ consola'[k] = b
        /\ \A j \in Consolas : j # k => deConsola'[j] = deConsola[j] /\ consola'[j] = consola[j]
    BY <1>1, <1>2, <1>3, <1>5 DEF Avisar, Pasar
  <2>2. /\ \A x : Contains(deConsola'[k], x) <=> Contains(deConsola[k], x) \/ x = m
        /\ \A x : UnaVez(deConsola[k], x) /\ (x = m => ~Contains(deConsola[k], x))
                    => UnaVez(deConsola'[k], x)
    BY <1>1, <1>2, <2>1, ConUltimo
  <2>3. PorIniciar' \subseteq PorIniciar
    BY <1>5, <2>1, <2>2 DEF PorIniciar, PidsContados
  <2>4. /\ b \in {"apagada", "avisada"} => ~Contains(deConsola'[k], "INICIAR")
        /\ UnaVez(deConsola'[k], "INICIAR")
    BY <1>1, <1>5, <2>2 DEF PidsContados
  <2> QED
    BY <2>1, <2>3, <2>4, PidsMovidos DEF PidsContados
<1>6. CASE Arrancar(k)
  BY <1>5, <1>6 DEF Arrancar, S
<1>7. CASE AtenderNucleo(k)
  BY <1>5, <1>7 DEF AtenderNucleo, S
<1>8. CASE CtrlC(k)
  BY <1>5, <1>8 DEF CtrlC, S
<1> QED
  BY <1>4, <1>6, <1>7, <1>8 DEF LaConsola

(* What the threads of the Nucleo that are not of a console leave alone.   *)
LEMMA AjenoAConsolas ==
  ASSUME \/ PasoUmc \/ PasoExec \/ NucleoCae
         \/ \E c \in Cpus : PasoCpuNucleo(c)
         \/ \E d \in Dispositivos : PasoDispositivo(d)
         \/ \E s \in Sems : PasoSemaforo(s)
  PROVE  UNCHANGED <<pid_count, pcb, deConsola>>
<1> USE DEF quieto, sinMensajes, canales, SinSemaforos
<1>1. ASSUME NEW p \in Pids, AtenderInicializado(p) \/ AtenderErrorInicializar(p)
                             \/ AtenderFinalizado(p) \/ AtenderMatado(p)
      PROVE  UNCHANGED <<pid_count, pcb, deConsola>>
  <2>1. CASE AtenderInicializado(p)
    BY <2>1 DEF AtenderInicializado
  <2>2. CASE AtenderErrorInicializar(p)
    BY <2>2 DEF AtenderErrorInicializar
  <2>3. CASE AtenderFinalizado(p)
    BY <2>3 DEF AtenderFinalizado
  <2>4. CASE AtenderMatado(p)
    BY <2>4 DEF AtenderMatado
  <2> QED
    BY <1>1, <2>1, <2>2, <2>3, <2>4
<1>2. CASE PasoUmc
  <2>1. CASE InicializadoAReady
    BY <2>1 DEF InicializadoAReady
  <2>2. CASE InicializadoEstado
    BY <2>2 DEF InicializadoEstado
  <2>3. CASE ErrorInicializarLista
    BY <2>3 DEF ErrorInicializarLista
  <2>4. CASE FinalizadoAvisar
    BY <2>4 DEF FinalizadoAvisar
  <2>5. CASE MatadoLista
    BY <2>5 DEF MatadoLista
  <2> QED
    BY <1>1, <1>2, <2>1, <2>2, <2>3, <2>4, <2>5 DEF PasoUmc
<1>3. ASSUME NEW c \in Cpus, PasoCpuNucleo(c)
      PROVE  UNCHANGED <<pid_count, pcb, deConsola>>
  <2>1. CASE AtenderHandshake(c)
    BY <2>1 DEF AtenderHandshake
  <2>2. CASE AtenderImprimir(c)
    BY <2>2 DEF AtenderImprimir
  <2>3. CASE AtenderEs(c)
    BY <2>3 DEF AtenderEs
  <2>4. CASE AtenderWait(c)
    BY <2>4 DEF AtenderWait
  <2>5. CASE AtenderSignal(c)
    BY <2>5 DEF AtenderSignal
  <2>6. CASE AtenderDesconexion(c)
    BY <2>6 DEF AtenderDesconexion
  <2>7. CASE MatadoSacar(c)
    BY <2>7 DEF MatadoSacar
  <2>8. CASE DesconexionSacar(c)
    BY <2>8 DEF DesconexionSacar
  <2>9. CASE SigintSinProceso(c)
    BY <2>9 DEF SigintSinProceso
  <2>10. CASE SigintLista(c)
    BY <2>10 DEF SigintLista
  <2>11. CASE QuantumLista(c)
    BY <2>11 DEF QuantumLista
  <2>12. CASE QuantumReady(c)
    BY <2>12 DEF QuantumReady
  <2>13. CASE QuantumCpu(c)
    BY <2>13 DEF QuantumCpu
  <2>14. CASE FinalizadoExit(c)
    BY <2>14 DEF FinalizadoExit
  <2>15. CASE FinalizadoLista(c)
    BY <2>15 DEF FinalizadoLista
  <2>16. CASE FinalizadoCpu(c)
    BY <2>16 DEF FinalizadoCpu
  <2>17. CASE EsPcbBlock(c)
    BY <2>17 DEF EsPcbBlock
  <2>18. CASE EsPcbLista(c)
    BY <2>18 DEF EsPcbLista
  <2>19. CASE WaitPcbBlock(c)
    BY <2>19 DEF WaitPcbBlock
  <2>20. CASE WaitPcbLista(c)
    BY <2>20 DEF WaitPcbLista
  <2>21. CASE WaitPcbCpu(c)
    BY <2>21 DEF WaitPcbCpu
  <2>22. CASE WaitPcbSolicitud(c)
    BY <2>22 DEF WaitPcbSolicitud
  <2>23. CASE MatadoExit(c)
    BY <2>23 DEF MatadoExit
  <2>24. CASE DesconexionReady(c)
    BY <2>24 DEF DesconexionReady
  <2>25. CASE DesconexionLista(c)
    BY <2>25 DEF DesconexionLista
  <2>26. CASE DesconexionCpu(c)
    BY <2>26 DEF DesconexionCpu
  <2>27. CASE SigintExec(c)
    BY <2>27 DEF SigintExec
  <2>28. CASE SigintExit(c)
    BY <2>28 DEF SigintExit
  <2>29. ASSUME NEW id, NEW siguiente, SacarDeExec(c, id, siguiente)
        PROVE  UNCHANGED <<pid_count, pcb, deConsola>>
    BY <2>29 DEF SacarDeExec
  <2> QED
    BY <1>3, <2>1, <2>2, <2>3, <2>4, <2>5, <2>6, <2>7, <2>8, <2>9, <2>10, <2>11, <2>12,
       <2>13, <2>14, <2>15, <2>16, <2>17, <2>18, <2>19, <2>20, <2>21, <2>22, <2>23, <2>24,
       <2>25, <2>26, <2>27, <2>28, <2>29 DEF PasoCpuNucleo
<1>4. CASE PasoExec
  <2>1. CASE TomarCpu
    BY <2>1 DEF TomarCpu
  <2>2. CASE SacarReady
    BY <2>2 DEF SacarReady
  <2>3. CASE TomarExec
    BY <2>3 DEF TomarExec
  <2>4. CASE PonerEnExec
    BY <2>4 DEF PonerEnExec
  <2>5. CASE EnviarPcb
    BY <2>5 DEF EnviarPcb
  <2> QED
    BY <1>4, <2>1, <2>2, <2>3, <2>4, <2>5 DEF PasoExec
<1>5. ASSUME NEW d \in Dispositivos, PasoDispositivo(d)
      PROVE  UNCHANGED <<pid_count, pcb, deConsola>>
  <2>1. CASE SacarSolicitud(d)
    BY <2>1 DEF SacarSolicitud
  <2>2. CASE EsTermina(d)
    BY <2>2 DEF EsTermina
  <2>3. CASE EsReady(d)
    BY <2>3 DEF EsReady
  <2>4. CASE EsEstado(d)
    BY <2>4 DEF EsEstado
  <2> QED
    BY <1>5, <2>1, <2>2, <2>3, <2>4 DEF PasoDispositivo
<1>6. ASSUME NEW s \in Sems, PasoSemaforo(s)
      PROVE  UNCHANGED <<pid_count, pcb, deConsola>>
  <2>1. CASE SemSacarSolicitud(s)
    BY <2>1 DEF SemSacarSolicitud
  <2>2. CASE SemNadieEspera(s)
    BY <2>2 DEF SemNadieEspera
  <2>3. CASE SemBlock(s)
    BY <2>3 DEF SemBlock
  <2>4. CASE SemEstado(s)
    BY <2>4 DEF SemEstado
  <2>5. CASE SemReady(s)
    BY <2>5 DEF SemReady
  <2> QED
    BY <1>6, <2>1, <2>2, <2>3, <2>4, <2>5 DEF PasoSemaforo
<1>7. CASE NucleoCae
  BY <1>7 DEF NucleoCae
<1> QED
  BY <1>1, <1>2, <1>3, <1>4, <1>5, <1>6, <1>7

(* What the CPUs leave alone.                                              *)
LEMMA AjenoACpus ==
  ASSUME NEW c \in Cpus, PasoCpu(c)
  PROVE  UNCHANGED <<deConsola, aUmc>>
<1> USE DEF SinEnviar, canales
<1>1. CASE LeerCpu(c)
  <2>1. CASE RecibirPcb(c)
    BY <2>1 DEF RecibirPcb, LlegaDelNucleo
  <2>2. CASE PcbSinUmc(c)
    BY <2>2 DEF PcbSinUmc, LlegaDelNucleo
  <2>3. CASE RecibirMatar(c)
    BY <2>3 DEF RecibirMatar, LlegaDelNucleo
  <2>4. CASE RecibirWait(c)
    BY <2>4 DEF RecibirWait, LlegaDelNucleo
  <2>5. CASE RecibirSeguiRafaga(c)
    BY <2>5 DEF RecibirSeguiRafaga, LlegaDelNucleo
  <2> QED
    BY <1>1, <2>1, <2>2, <2>3, <2>4, <2>5 DEF LeerCpu
<1>2. CASE EjecutarCpu(c)
  <2>1. CASE Imprimir(c)
    BY <2>1 DEF Imprimir
  <2>2. CASE Signal(c)
    BY <2>2 DEF Signal
  <2>3. CASE Finalizar(c)
    BY <2>3 DEF Finalizar
  <2>4. CASE EntradaSalida(c)
    BY <2>4 DEF EntradaSalida
  <2>5. CASE Wait(c)
    BY <2>5 DEF Wait
  <2>6. CASE FinWait(c)
    BY <2>6 DEF FinWait
  <2>7. CASE Falla(c)
    BY <2>7 DEF Falla
  <2>8. CASE SalirDelBucle(c)
    BY <2>8 DEF SalirDelBucle
  <2>9. CASE EnviarPcbAlNucleo(c)
    BY <2>9 DEF EnviarPcbAlNucleo
  <2>10. CASE FinEnviarPcb(c)
    BY <2>10 DEF FinEnviarPcb
  <2> QED
    BY <1>2, <2>1, <2>2, <2>3, <2>4, <2>5, <2>6, <2>7, <2>8, <2>9, <2>10 DEF EjecutarCpu
<1>3. CASE IoCpu(c)
  <2>1. CASE EnviarEs(c)
    BY <2>1 DEF EnviarEs
  <2>2. CASE FinEs(c)
    BY <2>2 DEF FinEs
  <2> QED
    BY <1>3, <2>1, <2>2 DEF IoCpu
<1>4. CASE PrincipalCpu(c)
  <2>1. CASE Conectar(c)
    BY <2>1 DEF Conectar
  <2>2. CASE FinConectar(c)
    BY <2>2 DEF FinConectar
  <2>3. CASE SenialOcupada(c)
    BY <2>3 DEF SenialOcupada
  <2>4. CASE SenialLibre(c)
    BY <2>4 DEF SenialLibre
  <2>5. CASE FinSenial(c)
    BY <2>5 DEF FinSenial
  <2>6. CASE CerrarCpu(c)
    BY <2>6 DEF CerrarCpu
  <2> QED
    BY <1>4, <2>1, <2>2, <2>3, <2>4, <2>5, <2>6 DEF PrincipalCpu
<1>5. CASE Seniales(c)
  <2>1. ASSUME NEW b, Senial(c, b)
        PROVE  UNCHANGED <<deConsola, aUmc>>
    BY <2>1 DEF Senial
  <2> QED
    BY <1>5, <2>1 DEF Seniales
<1> QED
  BY <1>1, <1>2, <1>3, <1>4, <1>5 DEF PasoCpu

LEMMA PidsConsola ==
  ASSUME Tipos, PidsContados, NEW k \in Consolas, PasoConsola(k), UNCHANGED <<escenario, consola>>
  PROVE  PidsContados'
<1> USE DEF quieto, canales
<1>1. CASE AtenderIniciar(k)
  BY <1>1, PidsIniciar
<1>2. CASE AgregarALista(k)
  BY <1>2, PidsQuietos DEF AgregarALista
<1>3. CASE AtenderFinConsola(k)
  BY <1>3, PidsMensaje DEF AtenderFinConsola
<1>4. CASE MatarTerminado(k)
  BY <1>4, PidsMensaje DEF MatarTerminado
<1>5. CASE MatarEnCpu(k)
  BY <1>5, PidsMensaje DEF MatarEnCpu
<1>6. CASE MatarEnCola(k)
  BY <1>6, PidsMensaje DEF MatarEnCola
<1>7. CASE MatarRespondido(k)
  BY <1>7, PidsQuietos DEF MatarRespondido, MatarEnUmc
<1>8. CASE MatarSacar(k)
  BY <1>8, PidsQuietos DEF MatarSacar
<1>9. CASE MatarAExit(k)
  BY <1>9, PidsQuietos DEF MatarAExit
<1>10. CASE MatarSinCola(k)
  BY <1>10, PidsQuietos DEF MatarSinCola
<1> QED
  BY <1>1, <1>2, <1>3, <1>4, <1>5, <1>6, <1>7, <1>8, <1>9, <1>10 DEF PasoConsola

LEMMA PidsNext ==
  ASSUME Tipos, PidsContados, [Next]_vars
  PROVE  PidsContados'
<1>1. CASE DelNucleo(NucleoNext)
  <2>1. NucleoNext /\ UNCHANGED <<escenario, consola>>
    BY <1>1 DEF DelNucleo
  <2>2. ASSUME NEW k \in Consolas, PasoConsola(k)
        PROVE  PidsContados'
    BY <2>1, <2>2, PidsConsola
  <2>3. UNCHANGED <<pid_count, pcb, deConsola>> => PidsContados'
    BY <2>1, PidsQuietos
  <2> QED
    BY <2>1, <2>2, <2>3, AjenoAConsolas DEF NucleoNext
<1>2. ASSUME NEW c \in Cpus, DelCpu(PasoCpu(c))
      PROVE  PidsContados'
  BY <1>2, AjenoACpus, PidsQuietos DEF DelCpu, nucleoVars
<1>3. ASSUME NEW k \in DOMAIN escenario.programa, DeConsola(LaConsola(k))
      PROVE  PidsContados'
  BY <1>3, PidsLaConsola DEF DeConsola, nucleoVars
<1>4. CASE UNCHANGED vars
  BY <1>4, PidsQuietos DEF vars, canales, nucleoVars
<1> QED
  BY <1>1, <1>2, <1>3, <1>4 DEF Next

-----------------------------------------------------------------------------
(* The initial states.                                                     *)
LEMMA TiposInit ==
  ASSUME Init
  PROVE  Tipos
<1> USE DEF Init, CanalesInit, NucleoInit, CpuInit
<1>1. Usados = {} /\ UsadoONulo = {NULO}
  BY DEF Usados, UsadoONulo, NucleoInit
<1>2. TiposCanales
  <2>1. /\ \A k \in Consolas : deConsola[k] \in Seq({"INICIAR", "MATAR", "PROGRAMA_FINALIZADO"})
        /\ \A c \in Cpus : deCpu[c] \in Seq(MensajesDeCpu) /\ aCpu[c] \in Seq(MensajesACpu)
    BY EmptySeq
  <2>2. /\ pcb \in [Pids -> [consola : Consolas \cup {NULO}, pc : Nat]]
        /\ consola \in [Consolas -> {"apagada", "avisada", "viva", "terminando", "cerrada"}]
    OBVIOUS
  <2> QED
    BY <1>1, <2>1, <2>2 DEF TiposCanales
<1>3. TiposCola
  BY EmptySeq DEF TiposCola, Colas
<1>4. TiposHilo
  <2>1. \A h \in Hilos : hilo[h] = Ocioso
    OBVIOUS
  <2>2. Ocioso \in HiloTipo /\ Ocioso.pc = "libre" /\ "libre" \notin ConProceso
    BY <1>1 DEF Ocioso, HiloTipo, Puntos, SinProceso, ConProceso
  <2> QED
    BY <2>1, <2>2, HilosDistintos DEF TiposHilo
<1>5. TiposNucleo
  <2>1. solicitudes = [s \in Sems |-> <<>>]
    BY DEF Sem!Init
  <2> QED
    BY <2>1, EmptySeq DEF TiposNucleo
<1>6. TiposCpu
  <2> DEFINE r == [proceso |-> "apagado", pid |-> NULO, quantum |-> 0, hilo |-> "no",
                   banderas |-> {}, ocupada |-> FALSE, terminadas |-> 0, envios |-> 0,
                   muertes |-> 0, enviado |-> NULO, io |-> <<>>, ioFin |-> 0, senial |-> "no"]
  <2>1. r.hilo = "no" /\ r \in CpuTipo
    BY <1>1, EmptySeq, SupuestoCanales DEF CpuTipo
  <2>2. cpu = [c \in Cpus |-> r]
    BY DEF CpuInit
  <2> HIDE DEF r
  <2> QED
    BY <2>1, <2>2 DEF TiposCpu
<1> QED
  BY <1>2, <1>3, <1>4, <1>5, <1>6 DEF Tipos

LEMMA PidsInit ==
  ASSUME Init
  PROVE  PidsContados
<1> USE DEF Init, CanalesInit, NucleoInit
<1>1. \A k \in Consolas : deConsola[k] = <<>>
  OBVIOUS
<1>2. PorIniciar \subseteq Consolas
  BY DEF PorIniciar
<1>3. Cardinality(PorIniciar) + pid_count <= Cardinality(Consolas) + 1
  <2>1. Cardinality(PorIniciar) <= Cardinality(Consolas) /\ Cardinality(PorIniciar) \in Nat
    BY <1>2, SupuestoCanales, FS_Subset, FS_CardinalityType
  <2> QED
    BY <2>1, PidsNat
<1> QED
  BY <1>1, <1>3 DEF PidsContados, Contains, UnaVez

LEMMA TypeOKDeTipos ==
  ASSUME Tipos, PidsContados
  PROVE  TypeOK
<1> USE DEF Tipos
<1>1. Usados \subseteq Pids /\ UsadoONulo \subseteq PidONulo
  BY UsadosPids DEF TiposNucleo, UsadoONulo, PidONulo
<1>2. /\ \A q \in Colas : cola[q] \in Seq(PidONulo)
      /\ cola.cpus \in Seq(Cpus)
  BY <1>1, SeqMonotonic DEF TiposCola
<1>3. lista_procesos \in Seq(Fila)
  <2>1. FilaUsada \subseteq Fila
    BY <1>1 DEF FilaUsada, Fila
  <2> QED
    BY <2>1, SeqMonotonic DEF TiposNucleo
<1>4. solicitudes_es \in [Dispositivos -> Seq(PidONulo)]
  <2>1. \A d \in Dispositivos : solicitudes_es[d] \in Seq(PidONulo)
    BY <1>1, SeqMonotonic DEF TiposNucleo, UsadoONulo
  <2> QED
    BY <2>1 DEF TiposNucleo
<1>5. \A h \in Hilos : hilo[h].pid \in PidONulo
  BY <1>1 DEF TiposHilo, HiloTipo
<1>6. impreso \subseteq Pids \X (Consolas \cup {NULO})
  BY <1>1 DEF TiposNucleo
<1>7. ASSUME NEW c \in Cpus
      PROVE  /\ cpu[c].pid \in PidONulo
             /\ cpu[c].quantum \in 0..Quantum
             /\ cpu[c].banderas \subseteq Range(Prioridad)
             /\ {cpu[c].terminadas, cpu[c].envios, cpu[c].muertes, cpu[c].ioFin} \subseteq Nat
  <2>1. cpu[c] \in CpuTipo
    BY DEF TiposCpu
  <2> QED
    BY <1>1, <2>1 DEF CpuTipo, Banderas
<1> QED
  BY <1>2, <1>3, <1>4, <1>5, <1>6, <1>7 DEF TypeOK, Colas, TiposNucleo

(* Whatever the users do, the queues, the rows, the counters and the CPUs  *)
(* keep their types: no pid beyond the programs, no row of a process that  *)
(* was never created, no counter below 0, no quantum that runs past 0.     *)
THEOREM TiposDelSistema == Spec => []TypeOK
<1>1. Init => Tipos /\ PidsContados
  BY TiposInit, PidsInit
<1>2. Tipos /\ PidsContados /\ [Next]_vars => Tipos' /\ PidsContados'
  BY TiposNext, PidsNext
<1>3. Tipos /\ PidsContados => TypeOK
  BY TypeOKDeTipos
<1> QED
  BY <1>1, <1>2, <1>3, PTL DEF Spec

-----------------------------------------------------------------------------
(* How the threads, the queues and the sockets change.                     *)
MismasColas == \A q \in Colas : cola'[q] = cola[q]
CpusMenguan ==
  \A c \in Cpus : /\ Contains(cola'.cpus, c) => Contains(cola.cpus, c)
                  /\ UnaVez(cola.cpus, c) => UnaVez(cola'.cpus, c)
Mengua(s, t, I) ==
  /\ HayId(t, I) => HayId(s, I)
  /\ UnId(s, I) => UnId(t, I)
  /\ \A p : HayPcb(t, I, p) => HayPcb(s, I, p)
DeCpuMengua == \A c \in Cpus : \A I \in {IdsFicha, IdsConPcb} : Mengua(deCpu[c], deCpu'[c], I)
ACpuMengua == \A c \in Cpus : Mengua(aCpu[c], aCpu'[c], {"PCB"})

LEMMA AlQuedarse ==
  ASSUME TiposHilo, NEW h \in Hilos, hilo' = hilo
  PROVE  IrCon(h, hilo[h].pc, hilo[h].pid, hilo[h].dato)
<1>1. hilo[h] \in [pc : Puntos, pid : UsadoONulo, dato : Cpus \cup {NULO, "ready", "new", "block"}]
  BY DEF TiposHilo, HiloTipo
<1>2. hilo[h] = [pc |-> hilo[h].pc, pid |-> hilo[h].pid, dato |-> hilo[h].dato]
  BY <1>1
<1> QED
  BY <1>2 DEF IrCon, TiposHilo

LEMMA MenguaIgual ==
  ASSUME NEW s, NEW I
  PROVE  Mengua(s, s, I)
  BY DEF Mengua

LEMMA MenguaCabeza ==
  ASSUME NEW S, NEW s \in Seq(S), s # <<>>, NEW I
  PROVE  Mengua(s, Tail(s), I)
  BY SinCabeza DEF Mengua

LEMMA MenguaAjeno ==
  ASSUME NEW S, NEW s \in Seq(S), NEW e \in S, NEW I, e.id \notin I
  PROVE  Mengua(s, Append(s, e), I)
  BY ConUltimo DEF Mengua

LEMMA SocketsQuietos ==
  ASSUME UNCHANGED <<deCpu, aCpu>>
  PROVE  DeCpuMengua /\ ACpuMengua
  BY MenguaIgual DEF DeCpuMengua, ACpuMengua

LEMMA AlLlegarDeCpu ==
  ASSUME TiposCanales, NEW c \in Cpus, NEW id, LlegaDeCpu(c, id)
  PROVE  DeCpuMengua
<1>1. /\ deCpu[c] \in Seq(MensajesDeCpu) /\ deCpu[c] # <<>>
      /\ deCpu'[c] = Tail(deCpu[c])
      /\ \A d \in Cpus : d # c => deCpu'[d] = deCpu[d]
  BY DeCpuTipado
<1> QED
  BY <1>1, MenguaCabeza, MenguaIgual DEF DeCpuMengua

LEMMA AlAvisarACpu ==
  ASSUME TiposCanales, NEW c, NEW id \in {"MATAR", "WAIT", "SEGUI_RAFAGA"},
         aCpu' = [aCpu EXCEPT ![c] = Append(@, [id |-> id, pid |-> NULO])]
  PROVE  ACpuMengua
<1> DEFINE m == [id |-> id, pid |-> NULO]
<1>1. m \in MensajesACpu /\ m.id \notin {"PCB"}
  BY DEF MensajesACpu
<1> HIDE DEF m
<1>2. \A d \in Cpus : aCpu[d] \in Seq(MensajesACpu)
  BY DEF TiposCanales
<1>3. \A d \in Cpus : aCpu'[d] = aCpu[d] \/ aCpu'[d] = Append(aCpu[d], m)
  BY DEF TiposCanales, m
<1> QED
  BY <1>1, <1>2, <1>3, MenguaAjeno, MenguaIgual DEF ACpuMengua

LEMMA CpusQuietas ==
  ASSUME cola'.cpus = cola.cpus
  PROVE  CpusMenguan
  BY DEF CpusMenguan

LEMMA CpusSinUna ==
  ASSUME TiposCola, NEW x, cola'.cpus = RemoveFirst(cola.cpus, x)
  PROVE  CpusMenguan
  BY SinPrimero DEF CpusMenguan, TiposCola

-----------------------------------------------------------------------------
(* mutex_lista_procesos.                                                   *)
LEMMA ListaSigue ==
  ASSUME TiposHilo, ListaTomada, NEW h \in Hilos, NEW b, NEW p, NEW d, IrCon(h, b, p, d),
         \/ /\ b \in ConLista => hilo[h].pc \in ConLista
            /\ "lista" \in mutex => "lista" \in mutex'
         \/ "lista" \notin mutex /\ "lista" \in mutex'
         \/ hilo[h].pc \in ConLista /\ b \notin ConLista
  PROVE  ListaTomada'
<1>1. hilo'[h].pc = b /\ \A g \in Hilos : g # h => hilo'[g] = hilo[g]
  BY AlMoverse
<1> QED
  BY <1>1 DEF ListaTomada

(* The places of the processes.                                            *)
LEMMA ArrebatadoSigue ==
  ASSUME TiposHilo, NEW h \in Hilos, NEW b, NEW p, NEW d, IrCon(h, b, p, d),
         hilo[h].pc \in TrasSigint => b \in TrasSigint /\ p = hilo[h].pid
  PROVE  \A q : Arrebatado(q) => Arrebatado(q)'
<1>1. /\ hilo'[h].pc = b /\ hilo'[h].pid = p
      /\ \A g \in Hilos : g # h => hilo'[g] = hilo[g]
  BY AlMoverse
<1> QED
  BY <1>1, HilosDistintos DEF Arrebatado

LEMMA ManoSigue ==
  ASSUME TiposHilo, NEW h \in Hilos, NEW b, NEW p, NEW d, IrCon(h, b, p, d)
  PROVE  /\ \A q : EnMano(h, q)' <=> b \in Manos /\ p = q
         /\ \A q : \A g \in Hilos : g # h => (EnMano(g, q)' <=> EnMano(g, q))
<1>1. /\ hilo'[h].pc = b /\ hilo'[h].pid = p
      /\ \A g \in Hilos : g # h => hilo'[g] = hilo[g]
  BY AlMoverse
<1> QED
  BY <1>1 DEF EnMano

LEMMA LugaresSiguen ==
  ASSUME NEW q, Lugares(q),
         \A r \in Colas : /\ UnaVez(cola'[r], q)
                          /\ Contains(cola'[r], q) => Contains(cola[r], q),
         \A g \in Hilos : EnMano(g, q)' => EnMano(g, q)
  PROVE  Lugares(q)'
  BY DEF Lugares

(* A thread moves and the queues stay.                                     *)
LEMMA LugarIr ==
  ASSUME TiposHilo, UnLugar, pid_count' = pid_count, MismasColas,
         NEW h \in Hilos, NEW b, NEW p, NEW d, IrCon(h, b, p, d),
         b \in Manos /\ p \in Usados => hilo[h].pc \in Manos /\ p = hilo[h].pid,
         hilo[h].pc \in TrasSigint => b \in TrasSigint /\ p = hilo[h].pid
  PROVE  UnLugar'
<1> SUFFICES ASSUME NEW q \in Usados, ~Arrebatado(q)'
             PROVE  Lugares(q)'
  BY DEF UnLugar, Usados
<1>1. Lugares(q)
  BY ArrebatadoSigue DEF UnLugar
<1>2. \A g \in Hilos : EnMano(g, q)' => EnMano(g, q)
  <2>1. EnMano(h, q)' => EnMano(h, q)
    BY ManoSigue DEF EnMano
  <2> QED
    BY <2>1, ManoSigue
<1>3. \A r \in Colas : /\ UnaVez(cola'[r], q)
                       /\ Contains(cola'[r], q) => Contains(cola[r], q)
  BY <1>1 DEF MismasColas, Lugares
<1> QED
  BY <1>1, <1>2, <1>3, LugaresSiguen

(* A thread takes process x out of a queue, and perhaps carries it.        *)
LEMMA LugarSacar ==
  ASSUME TiposHilo, TiposCola, UnLugar, pid_count' = pid_count, NEW r \in Colas, NEW x,
         cola'[r] = RemoveFirst(cola[r], x),
         \A s \in Colas : s # r => cola'[s] = cola[s],
         NEW h \in Hilos, NEW b, NEW p, NEW d, IrCon(h, b, p, d),
         b \in Manos /\ p \in Usados /\ ~Arrebatado(p) => p = x /\ Contains(cola[r], x),
         hilo[h].pc \notin TrasSigint
  PROVE  UnLugar'
<1> SUFFICES ASSUME NEW q \in Usados, ~Arrebatado(q)'
             PROVE  Lugares(q)'
  BY DEF UnLugar, Usados
<1>1. Lugares(q) /\ ~Arrebatado(q)
  BY ArrebatadoSigue DEF UnLugar
<1>2. cola[r] \in Seq(UsadoONulo)
  BY DEF TiposCola
<1>3. \A s \in Colas : /\ UnaVez(cola'[s], q)
                       /\ Contains(cola'[s], q) => Contains(cola[s], q)
  <2>1. UnaVez(cola'[r], q) /\ (Contains(cola'[r], q) => Contains(cola[r], q))
    BY <1>1, <1>2, SinPrimero DEF Lugares
  <2> QED
    BY <1>1, <2>1 DEF Lugares
<1>4. CASE EnMano(h, q)'
  <2>1. p = q /\ q = x /\ Contains(cola[r], q)
    BY <1>1, <1>4, ManoSigue
  <2>2. ~Contains(cola'[r], q)
    BY <1>1, <1>2, <2>1, SinPrimero DEF Lugares
  <2>3. \A s \in Colas : ~Contains(cola'[s], q)
    BY <1>1, <1>3, <2>1, <2>2 DEF Lugares
  <2>4. \A g \in Hilos : EnMano(g, q)' => g = h
    BY <1>1, <2>1, ManoSigue DEF Lugares
  <2> QED
    BY <1>3, <2>3, <2>4 DEF Lugares
<1>5. CASE ~EnMano(h, q)'
  <2>1. \A g \in Hilos : EnMano(g, q)' => EnMano(g, q)
    BY <1>5, ManoSigue
  <2> QED
    BY <1>1, <1>3, <2>1, LugaresSiguen
<1> QED
  BY <1>4, <1>5

(* A thread puts the process it carries in a queue.                        *)
LEMMA LugarPoner ==
  ASSUME TiposHilo, TiposCola, UnLugar, pid_count' = pid_count, NEW r \in Colas,
         NEW h \in Hilos, NEW b, NEW p, NEW d, IrCon(h, b, p, d),
         cola'[r] = Append(cola[r], hilo[h].pid),
         \A s \in Colas : s # r => cola'[s] = cola[s],
         hilo[h].pc \in Manos, b \notin Manos,
         hilo[h].pc \in TrasSigint => b \in TrasSigint /\ p = hilo[h].pid
  PROVE  UnLugar'
<1> SUFFICES ASSUME NEW q \in Usados, ~Arrebatado(q)'
             PROVE  Lugares(q)'
  BY DEF UnLugar, Usados
<1>1. Lugares(q)
  BY ArrebatadoSigue DEF UnLugar
<1>2. cola[r] \in Seq(UsadoONulo) /\ hilo[h].pid \in UsadoONulo
  BY DEF TiposCola, TiposHilo, HiloTipo
<1>3. \A g \in Hilos : EnMano(g, q)' => EnMano(g, q) /\ g # h
  BY ManoSigue
<1>4. CASE hilo[h].pid = q
  <2>1. EnMano(h, q)
    BY <1>4 DEF EnMano
  <2>2. /\ \A s \in Colas : ~Contains(cola[s], q)
        /\ \A g \in Hilos : ~EnMano(g, q)'
    BY <1>1, <1>3, <2>1 DEF Lugares
  <2>3. UnaVez(cola'[r], q)
    BY <1>1, <1>2, <2>2, ConUltimo DEF Lugares
  <2>4. \A s \in Colas : UnaVez(cola'[s], q) /\ (Contains(cola'[s], q) => s = r)
    BY <1>1, <2>2, <2>3 DEF Lugares
  <2> QED
    BY <2>2, <2>4 DEF Lugares
<1>5. CASE hilo[h].pid # q
  <2>1. UnaVez(cola'[r], q) /\ (Contains(cola'[r], q) => Contains(cola[r], q))
    BY <1>1, <1>2, <1>5, ConUltimo DEF Lugares
  <2>2. \A s \in Colas : /\ UnaVez(cola'[s], q)
                         /\ Contains(cola'[s], q) => Contains(cola[s], q)
    BY <1>1, <2>1 DEF Lugares
  <2> QED
    BY <1>1, <1>3, <2>2, LugaresSiguen
<1> QED
  BY <1>4, <1>5

-----------------------------------------------------------------------------
(* The right to execute in a CPU.                                          *)
LEMMA FichaSigue ==
  ASSUME NEW c \in Cpus, UnaFicha(c),
         UnId(deCpu'[c], IdsFicha), UnId(aCpu'[c], {"PCB"}), UnaVez(cola'.cpus, c),
         FichaEnDe(c)' => FichaEnDe(c), FichaEnA(c)' => FichaEnA(c),
         FichaLibre(c)' => FichaLibre(c), FichaEnExec(c)' => FichaEnExec(c),
         FichaEnCpu(c)' => FichaEnCpu(c), FichaEnHilo(c)' => FichaEnHilo(c),
         FichaPorNacer(c)' => FichaPorNacer(c)
  PROVE  UnaFicha(c)'
  BY DEF UnaFicha

LEMMA FichasDeHilos ==
  ASSUME TiposHilo, NEW h \in Hilos, NEW b, NEW p, NEW d, IrCon(h, b, p, d),
         h \in Cpus /\ b \in ConCpu => hilo[h].pc \in ConCpu,
         h = HiloExec /\ b # "libre" => hilo[h].pc # "libre" /\ d = hilo[h].dato
  PROVE  \A c \in Cpus : /\ FichaEnHilo(c)' => FichaEnHilo(c)
                         /\ FichaEnExec(c)' => FichaEnExec(c)
<1>1. /\ hilo'[h].pc = b /\ hilo'[h].dato = d
      /\ \A g \in Hilos : g # h => hilo'[g] = hilo[g]
  BY AlMoverse
<1> QED
  BY <1>1, HilosDistintos DEF FichaEnHilo, FichaEnExec

LEMMA FichasMenguan ==
  ASSUME TiposHilo, CpuUnica, DeCpuMengua, ACpuMengua, CpusMenguan,
         NEW h \in Hilos, NEW b, NEW p, NEW d, IrCon(h, b, p, d),
         h \in Cpus /\ b \in ConCpu => hilo[h].pc \in ConCpu,
         h = HiloExec /\ b # "libre" => hilo[h].pc # "libre" /\ d = hilo[h].dato,
         \A c \in Cpus : /\ cpu'[c].hilo # "no" => cpu[c].hilo # "no"
                         /\ cpu'[c].proceso = "apagado" => cpu[c].proceso = "apagado"
  PROVE  CpuUnica'
<1> SUFFICES ASSUME NEW c \in Cpus
             PROVE  UnaFicha(c)'
  BY DEF CpuUnica
<1>1. UnaFicha(c)
  BY DEF CpuUnica
<1>2. /\ UnId(deCpu'[c], IdsFicha) /\ UnId(aCpu'[c], {"PCB"}) /\ UnaVez(cola'.cpus, c)
      /\ FichaEnDe(c)' => FichaEnDe(c)
      /\ FichaEnA(c)' => FichaEnA(c)
      /\ FichaLibre(c)' => FichaLibre(c)
  BY <1>1 DEF UnaFicha, DeCpuMengua, ACpuMengua, CpusMenguan, Mengua, FichaEnDe, FichaEnA,
        FichaLibre
<1>3. /\ FichaEnHilo(c)' => FichaEnHilo(c)
      /\ FichaEnExec(c)' => FichaEnExec(c)
  BY FichasDeHilos
<1>4. /\ FichaEnCpu(c)' => FichaEnCpu(c)
      /\ FichaPorNacer(c)' => FichaPorNacer(c)
  BY DEF FichaEnCpu, FichaPorNacer
<1> QED
  BY <1>1, <1>2, <1>3, <1>4, FichaSigue

LEMMA FichaAjena ==
  ASSUME NEW c \in Cpus, UnaFicha(c), deCpu'[c] = deCpu[c], aCpu'[c] = aCpu[c],
         Contains(cola'.cpus, c) => Contains(cola.cpus, c),
         UnaVez(cola.cpus, c) => UnaVez(cola'.cpus, c),
         FichaEnHilo(c)' => FichaEnHilo(c), FichaEnExec(c)' => FichaEnExec(c),
         cpu'[c].hilo = cpu[c].hilo, cpu'[c].proceso = cpu[c].proceso
  PROVE  UnaFicha(c)'
<1>1. /\ UnId(deCpu'[c], IdsFicha) /\ UnId(aCpu'[c], {"PCB"}) /\ UnaVez(cola'.cpus, c)
  BY DEF UnaFicha
<1>2. /\ FichaEnDe(c)' => FichaEnDe(c)
      /\ FichaEnA(c)' => FichaEnA(c)
      /\ FichaLibre(c)' => FichaLibre(c)
      /\ FichaEnCpu(c)' => FichaEnCpu(c)
      /\ FichaPorNacer(c)' => FichaPorNacer(c)
  BY DEF FichaEnDe, FichaEnA, FichaLibre, FichaEnCpu, FichaPorNacer
<1> QED
  BY <1>1, <1>2, FichaSigue

(* A connection thread takes the message that carries the right: it was    *)
(* nowhere else, and it is no longer in the socket.                        *)
LEMMA FichaRecibida ==
  ASSUME TiposCanales, CpuUnica, NEW c \in Cpus, NEW id \in IdsFicha, LlegaDeCpu(c, id)
  PROVE  /\ ~FichaEnA(c) /\ ~FichaLibre(c) /\ ~FichaEnExec(c) /\ ~FichaEnCpu(c)
         /\ ~FichaEnHilo(c) /\ ~FichaPorNacer(c)
         /\ ~FichaEnDe(c)' /\ UnId(deCpu'[c], IdsFicha)
         /\ UnaFicha(c)
<1>1. /\ deCpu[c] \in Seq(MensajesDeCpu) /\ deCpu[c] # <<>> /\ Head(deCpu[c]).id \in IdsFicha
      /\ deCpu'[c] = Tail(deCpu[c])
  BY DeCpuTipado
<1>2. UnaFicha(c)
  BY DEF CpuUnica
<1>3. HayId(deCpu[c], IdsFicha) /\ UnId(deCpu[c], IdsFicha)
  BY <1>1, <1>2, SinCabeza DEF UnaFicha
<1>4. UnId(deCpu'[c], IdsFicha) /\ ~HayId(deCpu'[c], IdsFicha)
  BY <1>1, <1>3, SinCabeza
<1> QED
  BY <1>2, <1>3, <1>4 DEF UnaFicha, FichaEnDe

LEMMA FichaAHilo ==
  ASSUME TiposCanales, TiposHilo, CpuUnica, NEW c \in Cpus, NEW id \in IdsFicha,
         LlegaDeCpu(c, id), UNCHANGED <<aCpu, cpu>>, cola'.cpus = cola.cpus,
         NEW b, NEW p, NEW d, IrCon(c, b, p, d)
  PROVE  CpuUnica'
<1> SUFFICES ASSUME NEW e \in Cpus
             PROVE  UnaFicha(e)'
  BY DEF CpuUnica
<1>1. \A g \in Hilos : g # c => hilo'[g] = hilo[g]
  BY AlMoverse, HilosDistintos
<1>2. FichaEnExec(e)' <=> FichaEnExec(e)
  BY <1>1, HilosDistintos DEF FichaEnExec
<1>3. CASE e # c
  <2>1. deCpu'[e] = deCpu[e] /\ (FichaEnHilo(e)' <=> FichaEnHilo(e)) /\ UnaFicha(e)
    BY <1>1, <1>3, HilosDistintos, DeCpuTipado DEF FichaEnHilo, CpuUnica
  <2> QED
    BY <1>2, <2>1, FichaAjena
<1>4. CASE e = c
  <2>1. /\ ~FichaEnA(c)' /\ ~FichaLibre(c)' /\ ~FichaEnExec(c)' /\ ~FichaEnCpu(c)'
        /\ ~FichaPorNacer(c)' /\ ~FichaEnDe(c)'
    BY <1>2, <1>4, FichaRecibida DEF FichaEnA, FichaLibre, FichaEnCpu, FichaPorNacer
  <2>2. UnId(deCpu'[c], IdsFicha) /\ UnId(aCpu'[c], {"PCB"}) /\ UnaVez(cola'.cpus, c)
    BY FichaRecibida DEF UnaFicha
  <2> QED
    BY <1>4, <2>1, <2>2 DEF UnaFicha
<1> QED
  BY <1>3, <1>4

LEMMA FichaALibre ==
  ASSUME TiposCanales, TiposHilo, TiposCola, CpuUnica, NEW c \in Cpus, NEW id \in IdsFicha,
         LlegaDeCpu(c, id), UNCHANGED <<aCpu, cpu>>, cola'.cpus = Append(cola.cpus, c),
         NEW b, NEW p, NEW d, IrCon(c, b, p, d), b \notin ConCpu
  PROVE  CpuUnica'
<1> SUFFICES ASSUME NEW e \in Cpus
             PROVE  UnaFicha(e)'
  BY DEF CpuUnica
<1>1. hilo'[c].pc = b /\ \A g \in Hilos : g # c => hilo'[g] = hilo[g]
  BY AlMoverse, HilosDistintos
<1>2. FichaEnExec(e)' <=> FichaEnExec(e)
  BY <1>1, HilosDistintos DEF FichaEnExec
<1>3. /\ \A x : Contains(cola'.cpus, x) <=> Contains(cola.cpus, x) \/ x = c
      /\ \A x : UnaVez(cola.cpus, x) /\ (x = c => ~Contains(cola.cpus, x)) => UnaVez(cola'.cpus, x)
  BY ConUltimo DEF TiposCola
<1>4. CASE e # c
  <2>1. deCpu'[e] = deCpu[e] /\ (FichaEnHilo(e)' <=> FichaEnHilo(e)) /\ UnaFicha(e)
    BY <1>1, <1>4, HilosDistintos, DeCpuTipado DEF FichaEnHilo, CpuUnica
  <2> QED
    BY <1>2, <1>3, <1>4, <2>1, FichaAjena
<1>5. CASE e = c
  <2>1. /\ ~FichaEnA(c)' /\ ~FichaEnExec(c)' /\ ~FichaEnCpu(c)'
        /\ ~FichaPorNacer(c)' /\ ~FichaEnDe(c)' /\ ~FichaEnHilo(c)'
    BY <1>1, <1>2, <1>5, FichaRecibida DEF FichaEnA, FichaEnCpu, FichaPorNacer, FichaEnHilo
  <2>2. UnId(deCpu'[c], IdsFicha) /\ UnId(aCpu'[c], {"PCB"}) /\ UnaVez(cola'.cpus, c)
    BY <1>3, FichaRecibida DEF UnaFicha, FichaLibre
  <2> QED
    BY <1>5, <2>1, <2>2 DEF UnaFicha
<1> QED
  BY <1>4, <1>5

(* The handler of a PCB gives the CPU back.                                *)
LEMMA FichaDevuelta ==
  ASSUME TiposHilo, TiposCola, CpuUnica, NEW c \in Cpus, hilo[c].pc \in ConCpu,
         UNCHANGED <<deCpu, aCpu, cpu>>, cola'.cpus = Append(cola.cpus, c),
         NEW b, NEW p, NEW d, IrCon(c, b, p, d), b \notin ConCpu
  PROVE  CpuUnica'
<1> SUFFICES ASSUME NEW e \in Cpus
             PROVE  UnaFicha(e)'
  BY DEF CpuUnica
<1>1. hilo'[c].pc = b /\ \A g \in Hilos : g # c => hilo'[g] = hilo[g]
  BY AlMoverse, HilosDistintos
<1>2. FichaEnExec(e)' <=> FichaEnExec(e)
  BY <1>1, HilosDistintos DEF FichaEnExec
<1>3. /\ \A x : Contains(cola'.cpus, x) <=> Contains(cola.cpus, x) \/ x = c
      /\ \A x : UnaVez(cola.cpus, x) /\ (x = c => ~Contains(cola.cpus, x)) => UnaVez(cola'.cpus, x)
  BY ConUltimo DEF TiposCola
<1>4. UnaFicha(e)
  BY DEF CpuUnica
<1>5. CASE e # c
  <2>1. FichaEnHilo(e)' <=> FichaEnHilo(e)
    BY <1>1, <1>5, HilosDistintos DEF FichaEnHilo
  <2> QED
    BY <1>2, <1>3, <1>4, <1>5, <2>1, FichaAjena
<1>6. CASE e = c
  <2>1. /\ FichaEnHilo(c) /\ ~FichaEnDe(c) /\ ~FichaEnA(c) /\ ~FichaLibre(c)
        /\ ~FichaEnExec(c) /\ ~FichaEnCpu(c) /\ ~FichaPorNacer(c)
    BY <1>4, <1>6 DEF UnaFicha, FichaEnHilo
  <2>2. /\ ~FichaEnDe(c)' /\ ~FichaEnA(c)' /\ ~FichaEnExec(c)' /\ ~FichaEnCpu(c)'
        /\ ~FichaPorNacer(c)' /\ ~FichaEnHilo(c)'
    BY <1>1, <1>2, <1>6, <2>1 DEF FichaEnDe, FichaEnA, FichaEnCpu, FichaPorNacer, FichaEnHilo
  <2>3. UnId(deCpu'[c], IdsFicha) /\ UnId(aCpu'[c], {"PCB"}) /\ UnaVez(cola'.cpus, c)
    BY <1>3, <1>4, <1>6, <2>1 DEF UnaFicha, FichaLibre
  <2> QED
    BY <1>6, <2>2, <2>3 DEF UnaFicha
<1> QED
  BY <1>5, <1>6

(* asignar_pcb_a_cola_exec takes a free CPU, and sends it a PCB.           *)
LEMMA FichaTomada ==
  ASSUME TiposHilo, TiposCola, CpuUnica, cola.cpus # <<>>, cola'.cpus = Tail(cola.cpus),
         UNCHANGED <<deCpu, aCpu, cpu>>, hilo[HiloExec].pc = "libre",
         NEW b, NEW p, IrCon(HiloExec, b, p, Head(cola.cpus))
  PROVE  CpuUnica'
<1> SUFFICES ASSUME NEW e \in Cpus
             PROVE  UnaFicha(e)'
  BY DEF CpuUnica
<1> DEFINE c == Head(cola.cpus)
<1>1. hilo'[HiloExec].dato = c /\ \A g \in Hilos : g # HiloExec => hilo'[g] = hilo[g]
  BY AlMoverse, HilosDistintos
<1>2. FichaEnHilo(e)' <=> FichaEnHilo(e)
  BY <1>1, HilosDistintos DEF FichaEnHilo
<1>3. cola.cpus \in Seq(Cpus)
  BY DEF TiposCola
<1>4. /\ Contains(cola.cpus, c)
      /\ \A x : Contains(cola'.cpus, x) => Contains(cola.cpus, x)
      /\ \A x : UnaVez(cola.cpus, x) => UnaVez(cola'.cpus, x)
      /\ UnaVez(cola.cpus, c) => ~Contains(cola'.cpus, c)
  BY <1>3, SinCabeza
<1>5. UnaFicha(e)
  BY DEF CpuUnica
<1> HIDE DEF c
<1>6. CASE e # c
  <2>1. ~FichaEnExec(e)'
    BY <1>1, <1>6 DEF FichaEnExec
  <2> QED
    BY <1>2, <1>4, <1>5, <2>1, FichaAjena
<1>7. CASE e = c
  <2>1. /\ FichaLibre(e) /\ ~FichaEnDe(e) /\ ~FichaEnA(e) /\ ~FichaEnHilo(e)
        /\ ~FichaEnCpu(e) /\ ~FichaPorNacer(e)
    BY <1>4, <1>5, <1>7 DEF UnaFicha, FichaLibre
  <2>2. /\ ~FichaEnDe(e)' /\ ~FichaEnA(e)' /\ ~FichaEnCpu(e)' /\ ~FichaPorNacer(e)'
        /\ ~FichaEnHilo(e)'
    BY <1>2, <2>1 DEF FichaEnDe, FichaEnA, FichaEnCpu, FichaPorNacer
  <2>3. UnId(deCpu'[e], IdsFicha) /\ UnId(aCpu'[e], {"PCB"}) /\ UnaVez(cola'.cpus, e)
    BY <1>4, <1>5 DEF UnaFicha
  <2>4. ~FichaLibre(e)'
    BY <1>4, <1>5, <1>7 DEF UnaFicha, FichaLibre
  <2> QED
    BY <2>2, <2>3, <2>4 DEF UnaFicha
<1> QED
  BY <1>6, <1>7

LEMMA FichaEnviada ==
  ASSUME TiposCanales, TiposHilo, CpuUnica, NEW c \in Cpus, NEW p \in Usados,
         hilo[HiloExec].pc # "libre", hilo[HiloExec].dato = c, Terminar(HiloExec),
         aCpu' = [aCpu EXCEPT ![c] = Append(@, [id |-> "PCB", pid |-> p])],
         UNCHANGED <<deCpu, cpu>>, cola'.cpus = cola.cpus
  PROVE  CpuUnica'
<1> SUFFICES ASSUME NEW e \in Cpus
             PROVE  UnaFicha(e)'
  BY DEF CpuUnica
<1>1. hilo'[HiloExec].pc = "libre" /\ \A g \in Hilos : g # HiloExec => hilo'[g] = hilo[g]
  BY AlTerminar, AlMoverse, HilosDistintos
<1>2. (FichaEnHilo(e)' <=> FichaEnHilo(e)) /\ ~FichaEnExec(e)'
  BY <1>1, HilosDistintos DEF FichaEnHilo, FichaEnExec
<1>3. UnaFicha(e)
  BY DEF CpuUnica
<1>4. CASE e # c
  <2>1. aCpu'[e] = aCpu[e]
    BY <1>4 DEF TiposCanales
  <2> QED
    BY <1>2, <1>3, <2>1, FichaAjena
<1>5. CASE e = c
  <2>1. /\ FichaEnExec(e) /\ ~FichaEnDe(e) /\ ~FichaEnA(e) /\ ~FichaLibre(e)
        /\ ~FichaEnHilo(e) /\ ~FichaEnCpu(e) /\ ~FichaPorNacer(e)
    BY <1>3, <1>5 DEF UnaFicha, FichaEnExec
  <2>2. /\ ~FichaEnDe(e)' /\ ~FichaLibre(e)' /\ ~FichaEnCpu(e)' /\ ~FichaPorNacer(e)'
        /\ ~FichaEnHilo(e)' /\ ~FichaEnExec(e)'
    BY <1>2, <2>1 DEF FichaEnDe, FichaLibre, FichaEnCpu, FichaPorNacer
  <2>3. UnId(aCpu'[e], {"PCB"})
    <3> DEFINE m == [id |-> "PCB", pid |-> p]
    <3>1. m \in MensajesACpu /\ aCpu[e] \in Seq(MensajesACpu)
      BY DEF MensajesACpu, TiposCanales
    <3>2. aCpu'[e] = Append(aCpu[e], m)
      BY <1>5 DEF TiposCanales
    <3> HIDE DEF m
    <3> QED
      BY <1>3, <2>1, <3>1, <3>2, ConUltimo DEF UnaFicha, FichaEnA
  <2>4. UnId(deCpu'[e], IdsFicha) /\ UnaVez(cola'.cpus, e)
    BY <1>3 DEF UnaFicha
  <2> QED
    BY <2>2, <2>3, <2>4 DEF UnaFicha
<1> QED
  BY <1>4, <1>5

-----------------------------------------------------------------------------
(* The processes that execute.                                             *)
LEMMA EjecucionSigue ==
  ASSUME EjecucionPropia, pid_count' = pid_count,
         \A c \in Cpus, p \in Usados : Ejecuta(c, p)' => Ejecuta(c, p),
         \A p \in Usados : Arrebatado(p) => Arrebatado(p)',
         \A p \in Usados : Contains(cola.exec, p) =>
            \/ Contains(cola'.exec, p)
            \/ Arrebatado(p)'
            \/ \A c \in Cpus : ~Ejecuta(c, p)'
  PROVE  EjecucionPropia'
<1>1. Usados' = Usados
  BY DEF Usados
<1>2. \A c, d \in Cpus, p \in Usados : Ejecuta(c, p)' /\ Ejecuta(d, p)' => c = d
  BY DEF EjecucionPropia
<1>3. \A c \in Cpus, p \in Usados : Ejecuta(c, p)' => Contains(cola'.exec, p) \/ Arrebatado(p)'
  BY DEF EjecucionPropia
<1> QED
  BY <1>1, <1>2, <1>3 DEF EjecucionPropia

LEMMA EjecutaMengua ==
  ASSUME TiposHilo, DeCpuMengua, ACpuMengua,
         NEW h \in Hilos, NEW b, NEW x, NEW d, IrCon(h, b, x, d),
         h = HiloExec => b # "enviar_pcb", cpu' = cpu
  PROVE  \A c \in Cpus, p \in Usados : Ejecuta(c, p)' => Ejecuta(c, p)
<1> SUFFICES ASSUME NEW c \in Cpus, NEW p \in Usados, Ejecuta(c, p)'
             PROVE  Ejecuta(c, p)
  OBVIOUS
<1>1. hilo'[HiloExec] = hilo[HiloExec] \/ hilo'[HiloExec].pc # "enviar_pcb"
  BY AlMoverse, HilosDistintos
<1>2. /\ HayPcb(deCpu'[c], IdsConPcb, p) => HayPcb(deCpu[c], IdsConPcb, p)
      /\ HayPcb(aCpu'[c], {"PCB"}, p) => HayPcb(aCpu[c], {"PCB"}, p)
  BY DEF DeCpuMengua, ACpuMengua, Mengua
<1> QED
  BY <1>1, <1>2 DEF Ejecuta

LEMMA EjecucionMengua ==
  ASSUME TiposHilo, EjecucionPropia, DeCpuMengua, ACpuMengua, UNCHANGED <<pid_count, cpu>>,
         NEW h \in Hilos, NEW b, NEW x, NEW d, IrCon(h, b, x, d),
         h = HiloExec => b # "enviar_pcb",
         hilo[h].pc \in TrasSigint => b \in TrasSigint /\ x = hilo[h].pid,
         \A p \in Usados : Contains(cola.exec, p) => Contains(cola'.exec, p)
  PROVE  EjecucionPropia'
  BY EjecutaMengua, ArrebatadoSigue, EjecucionSigue

(* The PCB that comes back is of the process the CPU had.                  *)
LEMMA EjecutaRecibido ==
  ASSUME TiposCanales, NEW c \in Cpus, NEW id \in IdsConPcb, LlegaDeCpu(c, id)
  PROVE  PidDe(c) \in Usados /\ Ejecuta(c, PidDe(c))
<1>1. /\ Head(deCpu[c]) \in MensajesDeCpu /\ Head(deCpu[c]).id = id
      /\ deCpu[c] \in Seq(MensajesDeCpu) /\ deCpu[c] # <<>>
  BY DeCpuTipado
<1>2. HayPcb(deCpu[c], IdsConPcb, Head(deCpu[c]).pid)
  BY <1>1, SinCabeza
<1> QED
  BY <1>1, <1>2, MensajeTipado DEF PidDe, Ejecuta

LEMMA EjecucionRecibida ==
  ASSUME TiposCanales, TiposHilo, TiposCola, CpuUnica, EjecucionPropia, NEW c \in Cpus,
         NEW id \in IdsConPcb, LlegaDeCpu(c, id), UNCHANGED <<pid_count, aCpu, cpu>>,
         cola'.exec = RemoveFirst(cola.exec, PidDe(c)),
         NEW b, NEW x, NEW d, IrCon(c, b, x, d)
  PROVE  EjecucionPropia'
<1>1. hilo'[HiloExec] = hilo[HiloExec]
  BY AlMoverse, HilosDistintos
<1>2. id \in IdsFicha /\ IdsConPcb \subseteq IdsFicha
  BY DEF IdsFicha
<1>3. ASSUME NEW q \in Usados, Ejecuta(c, q)'
      PROVE  FALSE
  <2>1. HayPcb(deCpu'[c], IdsConPcb, q) => FichaEnDe(c)'
    BY <1>2 DEF HayPcb, FichaEnDe, HayId
  <2>2. HayPcb(aCpu'[c], {"PCB"}, q) => FichaEnA(c)
    BY DEF HayPcb, FichaEnA, HayId
  <2> QED
    BY <1>1, <1>2, <1>3, <2>1, <2>2, FichaRecibida DEF Ejecuta, FichaEnCpu, FichaEnExec
<1>4. \A e \in Cpus, q \in Usados : Ejecuta(e, q)' => Ejecuta(e, q) /\ e # c
  <2>1. DeCpuMengua /\ ACpuMengua
    BY AlLlegarDeCpu, MenguaIgual DEF ACpuMengua
  <2> QED
    BY <1>3, <2>1, EjecutaMengua, HilosDistintos
<1>5. ASSUME NEW e \in Cpus, NEW q \in Usados, q = PidDe(c)
      PROVE  ~Ejecuta(e, q)'
  BY <1>4, <1>5, EjecutaRecibido DEF EjecucionPropia
<1>6. \A q \in Usados : Contains(cola.exec, q) /\ q # PidDe(c) => Contains(cola'.exec, q)
  BY SinPrimero DEF TiposCola, Colas
<1>7. \A q : Arrebatado(q) => Arrebatado(q)'
  <2>1. hilo[c].pc \notin TrasSigint /\ c \in Hilos
    BY HilosDistintos DEF LlegaDeCpu, En, TrasSigint
  <2> QED
    BY <2>1, ArrebatadoSigue
<1> QED
  BY <1>4, <1>5, <1>6, <1>7, EjecucionSigue

(* A SIGINT takes the process of its row out of cola_exec, wherever it is. *)
LEMMA EjecucionArrebatada ==
  ASSUME TiposHilo, TiposCola, EjecucionPropia, NEW c \in Cpus,
         UNCHANGED <<pid_count, deCpu, aCpu, cpu>>, hilo[c].pc \notin TrasSigint,
         NEW p, cola'.exec = RemoveFirst(cola.exec, p),
         NEW b \in TrasSigint, NEW d, IrCon(c, b, p, d)
  PROVE  EjecucionPropia'
<1>1. \A e \in Cpus, q \in Usados : Ejecuta(e, q)' => Ejecuta(e, q)
  BY EjecutaMengua, SocketsQuietos, HilosDistintos
<1>2. \A q : Arrebatado(q) => Arrebatado(q)'
  BY ArrebatadoSigue, HilosDistintos
<1>3. Arrebatado(p)'
  BY AlMoverse, HilosDistintos DEF Arrebatado
<1>4. \A q \in Usados : Contains(cola.exec, q) /\ q # p => Contains(cola'.exec, q)
  BY SinPrimero DEF TiposCola, Colas
<1> QED
  BY <1>1, <1>2, <1>3, <1>4, EjecucionSigue

(* asignar_pcb_a_cola_exec: the process it carries executes nowhere.       *)
LEMMA EjecucionNueva ==
  ASSUME TiposHilo, TiposCola, ListaTomada, UnLugar, EjecucionPropia,
         UNCHANGED <<pid_count, deCpu, aCpu, cpu>>, Libre("lista"),
         hilo[HiloExec].pc \in Manos \ {"enviar_pcb"}, hilo[HiloExec].pid \in Usados,
         Ir(HiloExec, "enviar_pcb"),
         cola'.exec = Append(cola.exec, hilo[HiloExec].pid)
  PROVE  EjecucionPropia'
<1> DEFINE p == hilo[HiloExec].pid
           c == hilo[HiloExec].dato
<1>1. /\ hilo'[HiloExec].pc = "enviar_pcb" /\ hilo'[HiloExec].pid = p /\ hilo'[HiloExec].dato = c
      /\ \A g \in Hilos : g # HiloExec => hilo'[g] = hilo[g]
  BY AlIr, AlMoverse, HilosDistintos
<1>2. ~Arrebatado(p)
  BY HilosDistintos DEF Arrebatado, ListaTomada, ConLista, TrasSigint, Libre
<1>3. ~Contains(cola.exec, p)
  <2>1. EnMano(HiloExec, p) /\ Lugares(p) /\ "exec" \in Colas /\ HiloExec \in Hilos
    BY <1>2, HilosDistintos DEF EnMano, UnLugar, Colas
  <2> QED
    BY <2>1 DEF Lugares
<1>4. \A e \in Cpus : ~Ejecuta(e, p)
  BY <1>2, <1>3 DEF EjecucionPropia
<1>5. \A e \in Cpus, q \in Usados : Ejecuta(e, q)' => Ejecuta(e, q) \/ (e = c /\ q = p)
  <2> HIDE DEF p, c
  <2> QED
    BY <1>1 DEF Ejecuta
<1>6. \A q : Contains(cola'.exec, q) <=> Contains(cola.exec, q) \/ q = p
  <2>1. cola["exec"] \in Seq(UsadoONulo) /\ p \in UsadoONulo
    BY DEF TiposCola, Colas, UsadoONulo
  <2> HIDE DEF p
  <2>2. cola'["exec"] = Append(cola["exec"], p)
    BY DEF p
  <2> QED
    BY <2>1, <2>2, ConUltimo
<1>7. \A q : Arrebatado(q) => Arrebatado(q)'
  BY <1>1, HilosDistintos DEF Arrebatado
<1>8. Usados' = Usados
  BY DEF Usados
<1> HIDE DEF p, c
<1>9. ASSUME NEW e \in Cpus, NEW f \in Cpus, NEW q \in Usados, Ejecuta(e, q)', Ejecuta(f, q)'
      PROVE  e = f
  BY <1>4, <1>5, <1>9 DEF EjecucionPropia
<1>10. ASSUME NEW e \in Cpus, NEW q \in Usados, Ejecuta(e, q)'
       PROVE  Contains(cola'.exec, q) \/ Arrebatado(q)'
  BY <1>5, <1>6, <1>7, <1>10 DEF EjecucionPropia
<1> QED
  BY <1>8, <1>9, <1>10 DEF EjecucionPropia

LEMMA EjecucionEnviada ==
  ASSUME TiposCanales, TiposHilo, EjecucionPropia, UNCHANGED <<pid_count, deCpu, cpu, cola>>,
         hilo[HiloExec].pc = "enviar_pcb", hilo[HiloExec].pid \in Usados, Terminar(HiloExec),
         aCpu' = [aCpu EXCEPT ![hilo[HiloExec].dato] =
                    Append(@, [id |-> "PCB", pid |-> hilo[HiloExec].pid])]
  PROVE  EjecucionPropia'
<1> DEFINE p == hilo[HiloExec].pid
           c == hilo[HiloExec].dato
           m == [id |-> "PCB", pid |-> p]
<1>1. /\ hilo'[HiloExec].pc = "libre" /\ \A g \in Hilos : g # HiloExec => hilo'[g] = hilo[g]
  BY AlTerminar, AlMoverse, HilosDistintos
<1>2. m \in MensajesACpu /\ m.id = "PCB" /\ m.pid = p
  BY DEF MensajesACpu
<1> HIDE DEF m
<1>3. \A e \in Cpus : /\ aCpu[e] \in Seq(MensajesACpu)
                      /\ aCpu'[e] = IF e = c THEN Append(aCpu[e], m) ELSE aCpu[e]
  BY DEF TiposCanales, m
<1>4. \A e \in Cpus : \A q : HayPcb(aCpu'[e], {"PCB"}, q) => HayPcb(aCpu[e], {"PCB"}, q)
                                                            \/ (e = c /\ q = p)
  BY <1>2, <1>3, ConUltimo
<1>5. \A e \in Cpus, q \in Usados : Ejecuta(e, q)' => Ejecuta(e, q)
  BY <1>1, <1>4 DEF Ejecuta
<1>6. \A q : Arrebatado(q) => Arrebatado(q)'
  BY <1>1, HilosDistintos DEF Arrebatado
<1> QED
  BY <1>5, <1>6, EjecucionSigue

-----------------------------------------------------------------------------
(* crear_PCB: nobody has the new pid.                                      *)
LEMMA NuevoPid ==
  ASSUME Tipos, PidsContados, NEW p, p = pid_count, p \in Pids
  PROVE  /\ \A q \in Colas : ~Contains(cola[q], p)
         /\ \A h \in Hilos : hilo[h].pid # p
         /\ \A c \in Cpus : ~Ejecuta(c, p)
<1> USE DEF Tipos
<1>1. p \notin UsadoONulo /\ Usados \subseteq UsadoONulo
  BY UsadosPids, PidsNat DEF UsadoONulo, TiposNucleo
<1>2. ASSUME NEW q \in Colas
      PROVE  ~Contains(cola[q], p)
  <2>1. cola[q] \in Seq(UsadoONulo)
    BY DEF TiposCola
  <2>2. \A i \in 1..Len(cola[q]) : cola[q][i] \in UsadoONulo
    BY <2>1, ElementOfSeq
  <2> QED
    BY <1>1, <2>2 DEF Contains
<1>3. \A h \in Hilos : hilo[h].pid # p
  BY <1>1 DEF TiposHilo, HiloTipo
<1>4. ASSUME NEW c \in Cpus
      PROVE  ~Ejecuta(c, p)
  <2>1. \A i \in 1..Len(deCpu[c]) : deCpu[c][i] \in MensajesDeCpu
    BY ElementOfSeq DEF TiposCanales
  <2>2. \A i \in 1..Len(aCpu[c]) : aCpu[c][i] \in MensajesACpu
    BY ElementOfSeq DEF TiposCanales
  <2>3. ~HayPcb(deCpu[c], IdsConPcb, p)
    BY <1>1, <2>1, MensajeTipado DEF HayPcb
  <2>4. ~HayPcb(aCpu[c], {"PCB"}, p)
    BY <1>1, <2>2 DEF HayPcb, MensajesACpu
  <2>5. ~(cpu[c].hilo # "no" /\ cpu[c].pid = p)
    BY <1>1 DEF TiposCpu
  <2> QED
    BY <1>3, <2>3, <2>4, <2>5, HilosDistintos DEF Ejecuta
<1> QED
  BY <1>2, <1>3, <1>4

LEMMA ExclusionIniciar ==
  ASSUME Tipos, PidsContados, Exclusion, NEW k \in Consolas, AtenderIniciar(k), cpu' = cpu
  PROVE  Exclusion'
<1> USE DEF Tipos, Exclusion
<1> DEFINE p == pid_count
<1>1. p \in Pids /\ Usados' = Usados \cup {p} /\ p \notin Usados
  <2>1. \A m \in Nat \ {0}, n \in Nat : n = m + 1 =>
           1..(n - 1) = 1..(m - 1) \cup {m} /\ m \notin 1..(m - 1)
    OBVIOUS
  <2>2. pid_count \in Nat \ {0} /\ pid_count' \in Nat /\ pid_count' = pid_count + 1
    BY DEF AtenderIniciar, TiposNucleo
  <2>3. p \in Pids
    BY PidLibre
  <2>4. 1..(pid_count' - 1) = 1..(pid_count - 1) \cup {pid_count} /\ pid_count \notin 1..(pid_count - 1)
    BY <2>1, <2>2
  <2> QED
    BY <2>3, <2>4 DEF Usados
<1>2. /\ IrCon(k, "iniciar", p, NULO) /\ hilo[k].pc = "libre" /\ k \in Hilos /\ k # HiloExec
      /\ k \notin Cpus
  BY HilosDistintos DEF AtenderIniciar, LlegaDeConsola, En
<1>3. /\ cola'["new"] = Append(cola["new"], p) /\ cola'.cpus = cola.cpus
      /\ \A q \in Colas : q # "new" => cola'[q] = cola[q]
      /\ cola["new"] \in Seq(UsadoONulo) /\ "new" \in Colas /\ "exec" \in Colas
  BY DEF AtenderIniciar, TiposCola, Colas
<1>4. /\ DeCpuMengua /\ ACpuMengua /\ CpusMenguan /\ mutex' = mutex
      /\ UNCHANGED <<deCpu, aCpu, cpu>>
  BY <1>3, SocketsQuietos, CpusQuietas DEF AtenderIniciar
<1>5. /\ \A q \in Colas : ~Contains(cola[q], p)
      /\ \A h \in Hilos : hilo[h].pid # p
      /\ \A c \in Cpus : ~Ejecuta(c, p)
  <2> DEFINE x == p
  <2>1. x \in Pids /\ x = pid_count
    BY <1>1
  <2> HIDE DEF x
  <2> QED
    BY <2>1, NuevoPid
<1> HIDE DEF p
<1>6. \A q : Arrebatado(q) => Arrebatado(q)'
  BY <1>2, ArrebatadoSigue DEF TrasSigint
<1>7. /\ hilo'[k].pid = p /\ hilo'[k].pc = "iniciar"
      /\ \A g \in Hilos : g # k => hilo'[g] = hilo[g]
  BY <1>2, AlMoverse
<1>8. ListaTomada'
  BY <1>2, <1>4, ListaSigue DEF ConLista
<1>9. UnLugar'
  <2>1. /\ \A x : Contains(cola'["new"], x) <=> Contains(cola["new"], x) \/ x = p
        /\ \A x : UnaVez(cola["new"], x) /\ (x = p => ~Contains(cola["new"], x))
                    => UnaVez(cola'["new"], x)
    <3>1. cola["new"] \in Seq(UsadoONulo \cup {p}) /\ p \in UsadoONulo \cup {p}
      BY <1>3, SeqMonotonic
    <3> QED
      BY <1>3, <3>1, ConUltimo
  <2>2. \A q : \A g \in Hilos : EnMano(g, q)' => EnMano(g, q) /\ g # k
    <3>1. "iniciar" \notin Manos
      BY DEF Manos, ManosNew, ManosExec, ManosBlock, ManosExit
    <3> QED
      BY <1>2, <3>1, ManoSigue
  <2>3. ASSUME NEW q \in Usados, ~Arrebatado(q)'
        PROVE  Lugares(q)'
    <3>1. Lugares(q) /\ q # p
      BY <1>1, <1>6, <2>3 DEF UnLugar
    <3>2. \A r \in Colas : /\ UnaVez(cola'[r], q)
                           /\ Contains(cola'[r], q) => Contains(cola[r], q)
      BY <1>3, <2>1, <3>1 DEF Lugares
    <3> QED
      BY <2>2, <3>1, <3>2, LugaresSiguen
  <2>4. ASSUME NEW q, q = p
        PROVE  Lugares(q)'
    <3>1. \A g \in Hilos : ~EnMano(g, q)'
      BY <1>5, <2>2, <2>4 DEF EnMano
    <3>2. \A r \in Colas : UnaVez(cola[r], q)
      BY <1>5, <2>4 DEF UnaVez, Contains
    <3>3. \A r \in Colas : UnaVez(cola'[r], q) /\ (Contains(cola'[r], q) => r = "new")
      BY <1>3, <1>5, <2>1, <2>4, <3>2
    <3> QED
      BY <3>1, <3>3 DEF Lugares
  <2> QED
    BY <1>1, <2>3, <2>4 DEF UnLugar
<1>10. CpuUnica'
  BY <1>2, <1>4, FichasMenguan
<1>11. EjecucionPropia'
  <2>1. ASSUME NEW c \in Cpus, NEW q \in Usados', Ejecuta(c, q)'
        PROVE  Ejecuta(c, q) /\ q \in Usados
    <3>1. hilo'[HiloExec] = hilo[HiloExec]
      BY <1>2, <1>7, HilosDistintos
    <3>2. Ejecuta(c, q)
      BY <1>4, <2>1, <3>1 DEF Ejecuta
    <3> QED
      BY <1>1, <1>5, <3>2
  <2>2. cola'["exec"] = cola["exec"]
    BY <1>3
  <2>3. \A c, d \in Cpus, q \in Usados' : Ejecuta(c, q)' /\ Ejecuta(d, q)' => c = d
    BY <2>1 DEF EjecucionPropia
  <2>4. \A c \in Cpus, q \in Usados' : Ejecuta(c, q)' => Contains(cola'.exec, q) \/ Arrebatado(q)'
    BY <1>6, <2>1, <2>2 DEF EjecucionPropia
  <2> QED
    BY <2>3, <2>4 DEF EjecucionPropia
<1> QED
  BY <1>8, <1>9, <1>10, <1>11

-----------------------------------------------------------------------------
(* A step that moves a thread: what it needs to keep the exclusions when   *)
(* it leaves the queues, takes a process out of one, or puts one in.       *)
Mueve(h, b, p, d) ==
  /\ IrCon(h, b, p, d)
  /\ UNCHANGED <<pid_count, cpu>>
  /\ \/ /\ b \in ConLista => hilo[h].pc \in ConLista
        /\ "lista" \in mutex => "lista" \in mutex'
     \/ "lista" \notin mutex /\ "lista" \in mutex'
     \/ hilo[h].pc \in ConLista /\ b \notin ConLista
  /\ h \in Cpus /\ b \in ConCpu => hilo[h].pc \in ConCpu
  /\ h = HiloExec /\ b # "libre" => hilo[h].pc # "libre" /\ d = hilo[h].dato
  /\ h = HiloExec => b # "enviar_pcb"
  /\ hilo[h].pc \in TrasSigint => b \in TrasSigint /\ p = hilo[h].pid

LEMMA ExclusionSinPlaza ==
  ASSUME TiposHilo, Exclusion, NEW h \in Hilos, NEW b, NEW p, NEW d, Mueve(h, b, p, d),
         DeCpuMengua, ACpuMengua, CpusMenguan,
         \A x \in Usados : Contains(cola.exec, x) => Contains(cola'.exec, x)
  PROVE  ListaTomada' /\ CpuUnica' /\ EjecucionPropia'
<1> USE DEF Exclusion, Mueve
<1>1. ListaTomada'
  BY ListaSigue
<1>2. CpuUnica'
  BY FichasMenguan
<1>3. EjecucionPropia'
  BY EjecucionMengua
<1> QED
  BY <1>1, <1>2, <1>3

LEMMA ExclusionIr ==
  ASSUME TiposHilo, Exclusion, NEW h \in Hilos, NEW b, NEW p, NEW d, Mueve(h, b, p, d),
         DeCpuMengua, ACpuMengua, CpusMenguan, MismasColas,
         b \in Manos /\ p \in Usados => hilo[h].pc \in Manos /\ p = hilo[h].pid
  PROVE  Exclusion'
<1>1. UnLugar'
  BY LugarIr DEF Exclusion, Mueve
<1>2. cola'.exec = cola.exec
  BY DEF MismasColas, Colas
<1> QED
  BY <1>1, <1>2, ExclusionSinPlaza DEF Exclusion

LEMMA ExclusionSacar ==
  ASSUME TiposHilo, TiposCola, Exclusion, NEW h \in Hilos, NEW b, NEW p, NEW d,
         Mueve(h, b, p, d), DeCpuMengua, ACpuMengua, cola'.cpus = cola.cpus,
         NEW r \in Colas, r # "exec", NEW x, cola'[r] = RemoveFirst(cola[r], x),
         \A s \in Colas : s # r => cola'[s] = cola[s],
         b \in Manos /\ p \in Usados => p = x /\ Contains(cola[r], x),
         hilo[h].pc \notin TrasSigint
  PROVE  Exclusion'
<1>1. UnLugar'
  BY LugarSacar DEF Exclusion, Mueve
<1>2. cola'.exec = cola.exec
  BY DEF Colas
<1> QED
  BY <1>1, <1>2, CpusQuietas, ExclusionSinPlaza DEF Exclusion

LEMMA ExclusionPoner ==
  ASSUME TiposHilo, TiposCola, Exclusion, NEW h \in Hilos, NEW b, NEW p, NEW d,
         Mueve(h, b, p, d), DeCpuMengua, ACpuMengua, cola'.cpus = cola.cpus,
         NEW r \in Colas, r # "exec", cola'[r] = Append(cola[r], hilo[h].pid),
         \A s \in Colas : s # r => cola'[s] = cola[s],
         hilo[h].pc \in Manos, b \notin Manos
  PROVE  Exclusion'
<1>1. UnLugar'
  BY LugarPoner DEF Exclusion, Mueve
<1>2. cola'.exec = cola.exec
  BY DEF Colas
<1> QED
  BY <1>1, <1>2, CpusQuietas, ExclusionSinPlaza DEF Exclusion

(* queue_pop is queue_pop_pid of the first one.                            *)
LEMMA CabezaSacada ==
  ASSUME NEW S, NEW s \in Seq(S), s # <<>>
  PROVE  Tail(s) = RemoveFirst(s, Head(s))
<1> DEFINE I == {i \in 1..Len(s) : s[i] = Head(s)}
<1>1. Len(s) \in Nat \ {0} /\ Head(s) = s[1] /\ Tail(s) \in Seq(S) /\ Len(Tail(s)) = Len(s) - 1
  BY HeadTailProperties, EmptySeq, LenProperties
<1>2. 1 \in I /\ I \in SUBSET Nat
  BY <1>1
<1>3. Min(I) = 1
  <2>1. Min(I) \in I
    BY <1>2, Minimo
  <2>2. \A j \in I : Min(I) <= j
    BY <1>2, <2>1 DEF Min
  <2> DEFINE m == Min(I)
  <2>3. m \in 1..Len(s) /\ m <= 1
    BY <1>2, <2>1, <2>2
  <2> HIDE DEF m
  <2> QED
    BY <1>1, <2>3 DEF m
<1>4. RemoveFirst(s, Head(s)) = RemoveAt(s, 1)
  BY <1>2, <1>3 DEF RemoveFirst, SelectInSeq
<1>5. /\ RemoveAt(s, 1) \in Seq(S) /\ Len(RemoveAt(s, 1)) = Len(s) - 1
      /\ \A m \in 1..(Len(s) - 1) : RemoveAt(s, 1)[m] = s[m + 1]
  <2>1. 1 \in 1..Len(s)
    BY <1>1
  <2>2. /\ RemoveAt(s, 1) \in Seq(S) /\ Len(RemoveAt(s, 1)) = Len(s) - 1
        /\ \A m \in 1..(Len(s) - 1) : RemoveAt(s, 1)[m] = s[IF m < 1 THEN m ELSE m + 1]
    BY <2>1, SinUno
  <2>3. \A m \in 1..(Len(s) - 1) : (IF m < 1 THEN m ELSE m + 1) = m + 1
    BY <1>1
  <2> QED
    BY <2>2, <2>3
<1>6. \A m \in 1..(Len(s) - 1) : Tail(s)[m] = s[m + 1]
  BY <1>1, HeadTailProperties
<1>7. Tail(s) = RemoveAt(s, 1)
  BY <1>1, <1>5, <1>6, SeqEqual
<1> QED
  BY <1>4, <1>7

(* The handlers of a message with a PCB that take the process out of       *)
(* cola_exec and carry it somewhere.                                       *)
LEMMA ExclusionRecibir ==
  ASSUME Tipos, Exclusion, NEW c \in Cpus, NEW id \in IdsConPcb, LlegaDeCpu(c, id),
         UNCHANGED <<pid_count, aCpu, cpu, mutex>>,
         NEW b, b \notin ConLista, NEW p, IrCon(c, b, p, NULO), p \in Usados => p = PidDe(c),
         cola'["exec"] = RemoveFirst(cola["exec"], PidDe(c)),
         \A s \in Colas : s # "exec" => cola'[s] = cola[s],
         \/ cola'.cpus = cola.cpus
         \/ cola'.cpus = Append(cola.cpus, c) /\ b \notin ConCpu
  PROVE  Exclusion'
<1> USE DEF Tipos, Exclusion
<1>1. c \in Hilos /\ hilo[c].pc = "libre" /\ c # HiloExec /\ "exec" \in Colas
      /\ hilo[c].pc \notin TrasSigint /\ id \in IdsFicha
  BY HilosDistintos DEF LlegaDeCpu, En, Colas, TrasSigint, IdsFicha
<1>2. ListaTomada'
  BY <1>1, ListaSigue
<1>3. UnLugar'
  <2>1. p \in Usados /\ ~Arrebatado(p) => p = PidDe(c) /\ Contains(cola["exec"], PidDe(c))
    BY EjecutaRecibido DEF EjecucionPropia
  <2> QED
    BY <1>1, <2>1, LugarSacar
<1>4. CpuUnica'
  BY <1>1, FichaAHilo, FichaALibre
<1>5. EjecucionPropia'
  BY <1>1, EjecucionRecibida
<1> QED
  BY <1>2, <1>3, <1>4, <1>5

(* The threads of the consoles.                                            *)
LEMMA ExclusionConsola ==
  ASSUME Tipos, PidsContados, Exclusion, NEW k \in Consolas, PasoConsola(k), cpu' = cpu
  PROVE  Exclusion'
<1> USE DEF Tipos, quieto, semaforosVars, sinMensajes, canales, SinSemaforos
<1>1. CASE AtenderIniciar(k)
  BY <1>1, ExclusionIniciar
<1>2. CASE AgregarALista(k)
  <2>1. k \in Hilos /\ hilo[k].pc = "iniciar" /\ pid_count' = pid_count
    BY <1>2, HilosDistintos DEF AgregarALista, En
  <2>2. IrCon(k, "libre", NULO, NULO)
    BY <1>2, <2>1, AlTerminar DEF AgregarALista
  <2>3. DeCpuMengua /\ ACpuMengua
    BY <1>2, SocketsQuietos DEF AgregarALista
  <2>4. MismasColas /\ CpusMenguan
    BY <1>2, CpusQuietas DEF AgregarALista, MismasColas
  <2>5. Mueve(k, "libre", NULO, NULO)
    BY <1>2, <2>1, <2>2, <2>3, <2>4, HilosDistintos DEF AgregarALista, Mueve, Libre, Manos,
       ManosNew, ManosExec, ManosBlock, ManosExit, ConLista, ConCpu, TrasSigint
  <2> QED
    BY <1>2, <2>1, <2>2, <2>3, <2>4, <2>5, HilosDistintos, ExclusionIr DEF AgregarALista,
          Sacado,
       Manos, ManosNew, ManosExec, ManosBlock, ManosExit, ConLista, ConCpu, TrasSigint
<1>3. CASE AtenderFinConsola(k)
  <2>1. k \in Hilos /\ pid_count' = pid_count /\ hilo' = hilo
    BY <1>3, HilosDistintos DEF AtenderFinConsola, LlegaDeConsola, En
  <2>2. IrCon(k, hilo[k].pc, hilo[k].pid, hilo[k].dato)
    BY <1>3, <2>1, AlQuedarse DEF AtenderFinConsola
  <2>3. DeCpuMengua /\ ACpuMengua
    BY <1>3, SocketsQuietos DEF AtenderFinConsola
  <2>4. MismasColas /\ CpusMenguan
    BY <1>3, CpusQuietas DEF AtenderFinConsola, MismasColas
  <2>5. Mueve(k, hilo[k].pc, hilo[k].pid, hilo[k].dato)
    BY <1>3, <2>1, <2>2, <2>3, <2>4, HilosDistintos DEF AtenderFinConsola, Mueve, Libre, Manos,
       ManosNew, ManosExec, ManosBlock, ManosExit, ConLista, ConCpu, TrasSigint
  <2> QED
    BY <1>3, <2>1, <2>2, <2>3, <2>4, <2>5, HilosDistintos, ExclusionIr DEF AtenderFinConsola,
       Sacado, Manos, ManosNew, ManosExec, ManosBlock, ManosExit, ConLista, ConCpu, TrasSigint
<1>4. CASE MatarTerminado(k)
  <2>1. k \in Hilos /\ pid_count' = pid_count /\ hilo' = hilo
    BY <1>4, HilosDistintos DEF MatarTerminado, LlegaDeConsola, En
  <2>2. IrCon(k, hilo[k].pc, hilo[k].pid, hilo[k].dato)
    BY <1>4, <2>1, AlQuedarse DEF MatarTerminado
  <2>3. DeCpuMengua /\ ACpuMengua
    BY <1>4, SocketsQuietos DEF MatarTerminado
  <2>4. MismasColas /\ CpusMenguan
    BY <1>4, CpusQuietas DEF MatarTerminado, MismasColas
  <2>5. Mueve(k, hilo[k].pc, hilo[k].pid, hilo[k].dato)
    BY <1>4, <2>1, <2>2, <2>3, <2>4, HilosDistintos DEF MatarTerminado, Mueve, Libre, Manos,
       ManosNew, ManosExec, ManosBlock, ManosExit, ConLista, ConCpu, TrasSigint
  <2> QED
    BY <1>4, <2>1, <2>2, <2>3, <2>4, <2>5, HilosDistintos, ExclusionIr DEF MatarTerminado,
       Sacado, Manos, ManosNew, ManosExec, ManosBlock, ManosExit, ConLista, ConCpu, TrasSigint
<1>5. CASE MatarEnCpu(k)
  <2>1. k \in Hilos /\ hilo[k].pc = "libre" /\ pid_count' = pid_count
    BY <1>5, HilosDistintos DEF MatarEnCpu, LlegaDeConsola, En
  <2>2. IrCon(k, "matar_programa", lista_procesos[FilaConsola(k)].pid, NULO)
    BY <1>5, <2>1 DEF MatarEnCpu, LlegaDeConsola
  <2>3. DeCpuMengua /\ ACpuMengua
    BY <1>5, AlAvisarACpu, MenguaIgual DEF MatarEnCpu, LlegaDeConsola, DeCpuMengua
  <2>4. MismasColas /\ CpusMenguan
    BY <1>5, CpusQuietas DEF MatarEnCpu, LlegaDeConsola, MismasColas
  <2>5. Mueve(k, "matar_programa", lista_procesos[FilaConsola(k)].pid, NULO)
    BY <1>5, <2>1, <2>2, <2>3, <2>4, HilosDistintos DEF MatarEnCpu, LlegaDeConsola, Mueve,
          Libre,
       Manos, ManosNew, ManosExec, ManosBlock, ManosExit, ConLista, ConCpu, TrasSigint
  <2> QED
    BY <1>5, <2>1, <2>2, <2>3, <2>4, <2>5, HilosDistintos, ExclusionIr DEF MatarEnCpu,
       LlegaDeConsola, Sacado, Manos, ManosNew, ManosExec, ManosBlock, ManosExit, ConLista,
          ConCpu, TrasSigint
<1>6. CASE MatarEnCola(k)
  <2>1. k \in Hilos /\ hilo[k].pc = "libre" /\ pid_count' = pid_count
    BY <1>6, HilosDistintos DEF MatarEnCola, LlegaDeConsola, En
  <2>2. IrCon(k, "matar_cola", lista_procesos[FilaConsola(k)].pid, NombreCola(lista_procesos[FilaConsola(k)].estado))
    BY <1>6, <2>1 DEF MatarEnCola
  <2>3. DeCpuMengua /\ ACpuMengua
    BY <1>6, SocketsQuietos DEF MatarEnCola
  <2>4. MismasColas /\ CpusMenguan
    BY <1>6, CpusQuietas DEF MatarEnCola, MismasColas
  <2>5. Mueve(k, "matar_cola", lista_procesos[FilaConsola(k)].pid, NombreCola(lista_procesos[FilaConsola(k)].estado))
    BY <1>6, <2>1, <2>2, <2>3, <2>4, HilosDistintos DEF MatarEnCola, Mueve, Libre, Manos,
       ManosNew, ManosExec, ManosBlock, ManosExit, ConLista, ConCpu, TrasSigint
  <2> QED
    BY <1>6, <2>1, <2>2, <2>3, <2>4, <2>5, HilosDistintos, ExclusionIr DEF MatarEnCola, Sacado,
       Manos, ManosNew, ManosExec, ManosBlock, ManosExit, ConLista, ConCpu, TrasSigint
<1>7. CASE MatarRespondido(k)
  <2>1. /\ k \in Hilos /\ hilo[k].pc = "matar_programa" /\ pid_count' = pid_count
        /\ MatarEnUmc(k) \/ (IrCon(k, "matar_cola", hilo[k].pid, "ready") /\ mutex' = mutex)
    BY <1>7, HilosDistintos DEF MatarRespondido, En
  <2>2. DeCpuMengua /\ ACpuMengua
    BY <1>7, SocketsQuietos DEF MatarRespondido
  <2>3. MismasColas /\ CpusMenguan
    BY <1>7, CpusQuietas DEF MatarRespondido, MismasColas
  <2>4. CASE MatarEnUmc(k)
    <3>1. IrCon(k, "libre", NULO, NULO)
      BY <2>1, <2>4, AlTerminar DEF MatarEnUmc
    <3>2. Mueve(k, "libre", NULO, NULO)
      BY <2>1, <3>1, HilosDistintos DEF Mueve, Manos, ManosNew, ManosExec, ManosBlock,
            ManosExit,
         ConLista, ConCpu, TrasSigint
    <3> QED
      BY <2>1, <2>2, <2>3, <3>2, ExclusionIr DEF Manos, ManosNew, ManosExec, ManosBlock,
         ManosExit, ConLista, ConCpu, TrasSigint
  <2>5. CASE IrCon(k, "matar_cola", hilo[k].pid, "ready") /\ mutex' = mutex
    <3>1. Mueve(k, "matar_cola", hilo[k].pid, "ready")
      BY <2>1, <2>5, HilosDistintos DEF Mueve, Manos, ManosNew, ManosExec, ManosBlock,
            ManosExit,
         ConLista, ConCpu, TrasSigint
    <3> QED
      BY <2>1, <2>2, <2>3, <3>1, ExclusionIr DEF Manos, ManosNew, ManosExec, ManosBlock,
         ManosExit, ConLista, ConCpu, TrasSigint
  <2> QED
    BY <2>1, <2>4, <2>5
<1>8. CASE MatarSacar(k)
  <2>1. k \in Hilos /\ hilo[k].pc = "matar_cola" /\ pid_count' = pid_count
    BY <1>8, HilosDistintos DEF MatarSacar, En
  <2>2. IrCon(k, "matar_exit", Sacado(cola[hilo[k].dato], hilo[k].pid), NULO)
    BY <1>8, <2>1 DEF MatarSacar
  <2>3. DeCpuMengua /\ ACpuMengua
    BY <1>8, SocketsQuietos DEF MatarSacar
  <2>4. /\ hilo[k].dato \in Colas /\ hilo[k].dato # "exec" /\ cola'[hilo[k].dato] = RemoveFirst(cola[hilo[k].dato], hilo[k].pid)
        /\ cola'.cpus = cola.cpus
        /\ \A s \in Colas : s # hilo[k].dato => cola'[s] = cola[s]
    BY <1>8, <2>1, ColaSacada DEF MatarSacar, Colas, TiposHilo
  <2>5. Mueve(k, "matar_exit", Sacado(cola[hilo[k].dato], hilo[k].pid), NULO)
    BY <1>8, <2>1, <2>2, <2>3, <2>4, HilosDistintos DEF MatarSacar, Mueve, Libre, Manos,
       ManosNew, ManosExec, ManosBlock, ManosExit, ConLista, ConCpu, TrasSigint
  <2>6. /\ "matar_exit" \in Manos /\ Sacado(cola[hilo[k].dato], hilo[k].pid) \in Usados => Sacado(cola[hilo[k].dato], hilo[k].pid) = hilo[k].pid /\ Contains(cola[hilo[k].dato], hilo[k].pid)
        /\ hilo[k].pc \notin TrasSigint
    BY <1>8, <2>1, UsadosPids DEF MatarSacar, Sacado, TiposNucleo, Manos, ManosNew, ManosExec,
       ManosBlock, ManosExit, ConLista, ConCpu, TrasSigint
  <2> QED
    BY <2>1, <2>2, <2>3, <2>4, <2>5, <2>6, ExclusionSacar
<1>9. CASE MatarAExit(k)
  <2>1. k \in Hilos /\ hilo[k].pc = "matar_exit" /\ pid_count' = pid_count
    BY <1>9, HilosDistintos DEF MatarAExit, En
  <2>2. IrCon(k, "matar_trabado", hilo[k].pid, hilo[k].dato)
    BY <1>9, <2>1, AlIr DEF MatarAExit
  <2>3. DeCpuMengua /\ ACpuMengua
    BY <1>9, SocketsQuietos DEF MatarAExit
  <2>4. hilo[k].pid \in UsadoONulo
    BY <1>9, <2>1 DEF TiposHilo, HiloTipo
  <2>5. /\ "exit" \in Colas /\ "exit" # "exec" /\ cola'["exit"] = Append(cola["exit"], hilo[k].pid)
        /\ cola'.cpus = cola.cpus
        /\ \A s \in Colas : s # "exit" => cola'[s] = cola[s]
    BY <1>9, <2>4, <2>1, ColaPuesta DEF MatarAExit, Colas
  <2>6. Mueve(k, "matar_trabado", hilo[k].pid, hilo[k].dato)
    BY <1>9, <2>1, <2>2, <2>3, <2>4, <2>5, HilosDistintos DEF MatarAExit, Mueve, Libre, Manos,
       ManosNew, ManosExec, ManosBlock, ManosExit, ConLista, ConCpu, TrasSigint
  <2>7. hilo[k].pc \in Manos /\ "matar_trabado" \notin Manos
    BY <2>1 DEF Manos, ManosNew, ManosExec, ManosBlock, ManosExit, ConLista, ConCpu, TrasSigint
  <2> QED
    BY <2>1, <2>2, <2>3, <2>4, <2>5, <2>6, <2>7, ExclusionPoner
<1>10. CASE MatarSinCola(k)
  <2>1. k \in Hilos /\ hilo[k].pc = "matar_cola" /\ pid_count' = pid_count
    BY <1>10, HilosDistintos DEF MatarSinCola, MatarEnUmc, En
  <2>2. IrCon(k, "libre", NULO, NULO)
    BY <1>10, <2>1, AlTerminar DEF MatarSinCola, MatarEnUmc
  <2>3. DeCpuMengua /\ ACpuMengua
    BY <1>10, SocketsQuietos DEF MatarSinCola, MatarEnUmc
  <2>4. MismasColas /\ CpusMenguan
    BY <1>10, CpusQuietas DEF MatarSinCola, MatarEnUmc, MismasColas
  <2>5. Mueve(k, "libre", NULO, NULO)
    BY <1>10, <2>1, <2>2, <2>3, <2>4, HilosDistintos DEF MatarSinCola, MatarEnUmc, Mueve, Libre,
       Manos, ManosNew, ManosExec, ManosBlock, ManosExit, ConLista, ConCpu, TrasSigint
  <2> QED
    BY <1>10, <2>1, <2>2, <2>3, <2>4, <2>5, HilosDistintos, ExclusionIr DEF MatarSinCola,
       MatarEnUmc, Sacado, Manos, ManosNew, ManosExec, ManosBlock, ManosExit, ConLista, ConCpu,
          TrasSigint
<1> QED
  BY <1>1, <1>2, <1>3, <1>4, <1>5, <1>6, <1>7, <1>8, <1>9, <1>10 DEF PasoConsola

(* The thread of the UMC.                                                  *)
LEMMA ExclusionUmc ==
  ASSUME Tipos, PidsContados, Exclusion, PasoUmc, cpu' = cpu
  PROVE  Exclusion'
<1> USE DEF Tipos, quieto, semaforosVars, sinMensajes, canales, SinSemaforos
<1>1. ASSUME NEW p \in Pids,
             \/ AtenderInicializado(p) \/ AtenderErrorInicializar(p)
             \/ AtenderFinalizado(p) \/ AtenderMatado(p)
      PROVE  Exclusion'
  <2>1. CASE AtenderInicializado(p)
    <3>1. HiloUmc \in Hilos /\ hilo[HiloUmc].pc = "libre" /\ pid_count' = pid_count
      BY <2>1, HilosDistintos DEF AtenderInicializado, LlegaDeUmc, En, LlegaDeUmc
    <3>2. IrCon(HiloUmc, "inicializado_ready", p, NULO)
      BY <2>1, <3>1 DEF AtenderInicializado, LlegaDeUmc
    <3>3. DeCpuMengua /\ ACpuMengua
      BY <2>1, SocketsQuietos DEF AtenderInicializado, LlegaDeUmc
    <3>4. /\ "new" \in Colas /\ "new" # "exec" /\ cola'["new"] = RemoveFirst(cola["new"], p)
          /\ cola'.cpus = cola.cpus
          /\ \A s \in Colas : s # "new" => cola'[s] = cola[s]
      BY <2>1, <3>1, ColaSacada DEF AtenderInicializado, LlegaDeUmc, Colas
    <3>5. Mueve(HiloUmc, "inicializado_ready", p, NULO)
      BY <2>1, <3>1, <3>2, <3>3, <3>4, HilosDistintos DEF AtenderInicializado, LlegaDeUmc,
            Mueve,
         Libre, Manos, ManosNew, ManosExec, ManosBlock, ManosExit, ConLista, ConCpu, TrasSigint
    <3>6. /\ "inicializado_ready" \in Manos /\ p \in Usados => p = p /\ Contains(cola["new"], p)
          /\ hilo[HiloUmc].pc \notin TrasSigint
      BY <2>1, <3>1, UsadosPids DEF AtenderInicializado, LlegaDeUmc, Sacado, TiposNucleo, Manos,
         ManosNew, ManosExec, ManosBlock, ManosExit, ConLista, ConCpu, TrasSigint
    <3> QED
      BY <3>1, <3>2, <3>3, <3>4, <3>5, <3>6, ExclusionSacar
  <2>2. CASE AtenderErrorInicializar(p)
    <3>1. HiloUmc \in Hilos /\ hilo[HiloUmc].pc = "libre" /\ pid_count' = pid_count
      BY <2>2, HilosDistintos DEF AtenderErrorInicializar, LlegaDeUmc, En, LlegaDeUmc
    <3>2. IrCon(HiloUmc, "error_lista", p, NULO)
      BY <2>2, <3>1 DEF AtenderErrorInicializar, LlegaDeUmc
    <3>3. DeCpuMengua /\ ACpuMengua
      BY <2>2, SocketsQuietos DEF AtenderErrorInicializar, LlegaDeUmc
    <3>4. /\ "new" \in Colas /\ "new" # "exec" /\ cola'["new"] = RemoveFirst(cola["new"], p)
          /\ cola'.cpus = cola.cpus
          /\ \A s \in Colas : s # "new" => cola'[s] = cola[s]
      BY <2>2, <3>1, ColaSacada DEF AtenderErrorInicializar, LlegaDeUmc, Colas
    <3>5. Mueve(HiloUmc, "error_lista", p, NULO)
      BY <2>2, <3>1, <3>2, <3>3, <3>4, HilosDistintos DEF AtenderErrorInicializar, LlegaDeUmc,
         Mueve, Libre, Manos, ManosNew, ManosExec, ManosBlock, ManosExit, ConLista, ConCpu,
            TrasSigint
    <3>6. /\ "error_lista" \in Manos /\ p \in Usados => p = p /\ Contains(cola["new"], p)
          /\ hilo[HiloUmc].pc \notin TrasSigint
      BY <2>2, <3>1, UsadosPids DEF AtenderErrorInicializar, LlegaDeUmc, Sacado, TiposNucleo,
         Manos, ManosNew, ManosExec, ManosBlock, ManosExit, ConLista, ConCpu, TrasSigint
    <3> QED
      BY <3>1, <3>2, <3>3, <3>4, <3>5, <3>6, ExclusionSacar
  <2>3. CASE AtenderFinalizado(p)
    <3>1. HiloUmc \in Hilos /\ hilo[HiloUmc].pc = "libre" /\ pid_count' = pid_count
      BY <2>3, HilosDistintos DEF AtenderFinalizado, LlegaDeUmc, En, LlegaDeUmc
    <3>2. IrCon(HiloUmc, "finalizado_lista", p, NULO)
      BY <2>3, <3>1 DEF AtenderFinalizado, LlegaDeUmc
    <3>3. DeCpuMengua /\ ACpuMengua
      BY <2>3, SocketsQuietos DEF AtenderFinalizado, LlegaDeUmc
    <3>4. /\ "exit" \in Colas /\ "exit" # "exec" /\ cola'["exit"] = RemoveFirst(cola["exit"], p)
          /\ cola'.cpus = cola.cpus
          /\ \A s \in Colas : s # "exit" => cola'[s] = cola[s]
      BY <2>3, <3>1, ColaSacada DEF AtenderFinalizado, LlegaDeUmc, Colas
    <3>5. Mueve(HiloUmc, "finalizado_lista", p, NULO)
      BY <2>3, <3>1, <3>2, <3>3, <3>4, HilosDistintos DEF AtenderFinalizado, LlegaDeUmc, Mueve,
         Libre, Manos, ManosNew, ManosExec, ManosBlock, ManosExit, ConLista, ConCpu, TrasSigint
    <3>6. /\ "finalizado_lista" \in Manos /\ p \in Usados => p = p /\ Contains(cola["exit"], p)
          /\ hilo[HiloUmc].pc \notin TrasSigint
      BY <2>3, <3>1, UsadosPids DEF AtenderFinalizado, LlegaDeUmc, Sacado, TiposNucleo, Manos,
         ManosNew, ManosExec, ManosBlock, ManosExit, ConLista, ConCpu, TrasSigint
    <3> QED
      BY <3>1, <3>2, <3>3, <3>4, <3>5, <3>6, ExclusionSacar
  <2>4. CASE AtenderMatado(p)
    <3>1. HiloUmc \in Hilos /\ hilo[HiloUmc].pc = "libre" /\ pid_count' = pid_count
      BY <2>4, HilosDistintos DEF AtenderMatado, LlegaDeUmc, En, LlegaDeUmc
    <3>2. IrCon(HiloUmc, "matado_lista", p, NULO)
      BY <2>4, <3>1 DEF AtenderMatado, LlegaDeUmc
    <3>3. DeCpuMengua /\ ACpuMengua
      BY <2>4, SocketsQuietos DEF AtenderMatado, LlegaDeUmc
    <3>4. /\ "exit" \in Colas /\ "exit" # "exec" /\ cola'["exit"] = RemoveFirst(cola["exit"], p)
          /\ cola'.cpus = cola.cpus
          /\ \A s \in Colas : s # "exit" => cola'[s] = cola[s]
      BY <2>4, <3>1, ColaSacada DEF AtenderMatado, LlegaDeUmc, Colas
    <3>5. Mueve(HiloUmc, "matado_lista", p, NULO)
      BY <2>4, <3>1, <3>2, <3>3, <3>4, HilosDistintos DEF AtenderMatado, LlegaDeUmc, Mueve,
         Libre, Manos, ManosNew, ManosExec, ManosBlock, ManosExit, ConLista, ConCpu, TrasSigint
    <3>6. /\ "matado_lista" \in Manos /\ p \in Usados => p = p /\ Contains(cola["exit"], p)
          /\ hilo[HiloUmc].pc \notin TrasSigint
      BY <2>4, <3>1, UsadosPids DEF AtenderMatado, LlegaDeUmc, Sacado, TiposNucleo, Manos,
         ManosNew, ManosExec, ManosBlock, ManosExit, ConLista, ConCpu, TrasSigint
    <3> QED
      BY <3>1, <3>2, <3>3, <3>4, <3>5, <3>6, ExclusionSacar
  <2> QED
    BY <1>1, <2>1, <2>2, <2>3, <2>4
<1>2. CASE InicializadoAReady
  <2>1. HiloUmc \in Hilos /\ hilo[HiloUmc].pc = "inicializado_ready" /\ pid_count' = pid_count
    BY <1>2, HilosDistintos DEF InicializadoAReady, En, LlegaDeUmc
  <2>2. IrCon(HiloUmc, "inicializado_estado", hilo[HiloUmc].pid, hilo[HiloUmc].dato)
    BY <1>2, <2>1, AlIr DEF InicializadoAReady
  <2>3. DeCpuMengua /\ ACpuMengua
    BY <1>2, SocketsQuietos DEF InicializadoAReady
  <2>4. hilo[HiloUmc].pid \in UsadoONulo
    BY <1>2, <2>1 DEF TiposHilo, HiloTipo
  <2>5. /\ "ready" \in Colas /\ "ready" # "exec" /\ cola'["ready"] = Append(cola["ready"], hilo[HiloUmc].pid)
        /\ cola'.cpus = cola.cpus
        /\ \A s \in Colas : s # "ready" => cola'[s] = cola[s]
    BY <1>2, <2>4, <2>1, ColaPuesta DEF InicializadoAReady, Colas
  <2>6. Mueve(HiloUmc, "inicializado_estado", hilo[HiloUmc].pid, hilo[HiloUmc].dato)
    BY <1>2, <2>1, <2>2, <2>3, <2>4, <2>5, HilosDistintos DEF InicializadoAReady, Mueve, Libre,
       Manos, ManosNew, ManosExec, ManosBlock, ManosExit, ConLista, ConCpu, TrasSigint
  <2>7. hilo[HiloUmc].pc \in Manos /\ "inicializado_estado" \notin Manos
    BY <2>1 DEF Manos, ManosNew, ManosExec, ManosBlock, ManosExit, ConLista, ConCpu, TrasSigint
  <2> QED
    BY <2>1, <2>2, <2>3, <2>4, <2>5, <2>6, <2>7, ExclusionPoner
<1>3. CASE InicializadoEstado
  <2>1. HiloUmc \in Hilos /\ hilo[HiloUmc].pc = "inicializado_estado" /\ pid_count' = pid_count
    BY <1>3, HilosDistintos DEF InicializadoEstado, En, LlegaDeUmc
  <2>2. IrCon(HiloUmc, "libre", NULO, NULO)
    BY <1>3, <2>1, AlTerminar DEF InicializadoEstado
  <2>3. DeCpuMengua /\ ACpuMengua
    BY <1>3, SocketsQuietos DEF InicializadoEstado
  <2>4. MismasColas /\ CpusMenguan
    BY <1>3, CpusQuietas DEF InicializadoEstado, MismasColas
  <2>5. Mueve(HiloUmc, "libre", NULO, NULO)
    BY <1>3, <2>1, <2>2, <2>3, <2>4, HilosDistintos DEF InicializadoEstado, Mueve, Libre, Manos,
       ManosNew, ManosExec, ManosBlock, ManosExit, ConLista, ConCpu, TrasSigint
  <2> QED
    BY <1>3, <2>1, <2>2, <2>3, <2>4, <2>5, HilosDistintos, ExclusionIr DEF InicializadoEstado,
       Sacado, Manos, ManosNew, ManosExec, ManosBlock, ManosExit, ConLista, ConCpu, TrasSigint
<1>4. CASE ErrorInicializarLista
  <2>1. HiloUmc \in Hilos /\ hilo[HiloUmc].pc = "error_lista" /\ pid_count' = pid_count
    BY <1>4, HilosDistintos DEF ErrorInicializarLista, En, LlegaDeUmc
  <2>2. IrCon(HiloUmc, "libre", NULO, NULO)
    BY <1>4, <2>1, AlTerminar DEF ErrorInicializarLista
  <2>3. DeCpuMengua /\ ACpuMengua
    BY <1>4, SocketsQuietos DEF ErrorInicializarLista
  <2>4. MismasColas /\ CpusMenguan
    BY <1>4, CpusQuietas DEF ErrorInicializarLista, MismasColas
  <2>5. Mueve(HiloUmc, "libre", NULO, NULO)
    BY <1>4, <2>1, <2>2, <2>3, <2>4, HilosDistintos DEF ErrorInicializarLista, Mueve, Libre,
       Manos, ManosNew, ManosExec, ManosBlock, ManosExit, ConLista, ConCpu, TrasSigint
  <2> QED
    BY <1>4, <2>1, <2>2, <2>3, <2>4, <2>5, HilosDistintos, ExclusionIr
          DEF ErrorInicializarLista,
       Sacado, Manos, ManosNew, ManosExec, ManosBlock, ManosExit, ConLista, ConCpu, TrasSigint
<1>5. CASE FinalizadoAvisar
  <2>1. HiloUmc \in Hilos /\ hilo[HiloUmc].pc = "finalizado_lista" /\ pid_count' = pid_count
    BY <1>5, HilosDistintos DEF FinalizadoAvisar, En, LlegaDeUmc
  <2>2. IrCon(HiloUmc, "libre", NULO, NULO)
    BY <1>5, <2>1, AlTerminar DEF FinalizadoAvisar
  <2>3. DeCpuMengua /\ ACpuMengua
    BY <1>5, SocketsQuietos DEF FinalizadoAvisar
  <2>4. MismasColas /\ CpusMenguan
    BY <1>5, CpusQuietas DEF FinalizadoAvisar, MismasColas
  <2>5. Mueve(HiloUmc, "libre", NULO, NULO)
    BY <1>5, <2>1, <2>2, <2>3, <2>4, HilosDistintos DEF FinalizadoAvisar, Mueve, Libre, Manos,
       ManosNew, ManosExec, ManosBlock, ManosExit, ConLista, ConCpu, TrasSigint
  <2> QED
    BY <1>5, <2>1, <2>2, <2>3, <2>4, <2>5, HilosDistintos, ExclusionIr DEF FinalizadoAvisar,
       Sacado, Manos, ManosNew, ManosExec, ManosBlock, ManosExit, ConLista, ConCpu, TrasSigint
<1>6. CASE MatadoLista
  <2>1. HiloUmc \in Hilos /\ hilo[HiloUmc].pc = "matado_lista" /\ pid_count' = pid_count
    BY <1>6, HilosDistintos DEF MatadoLista, En, LlegaDeUmc
  <2>2. IrCon(HiloUmc, "libre", NULO, NULO)
    BY <1>6, <2>1, AlTerminar DEF MatadoLista
  <2>3. DeCpuMengua /\ ACpuMengua
    BY <1>6, SocketsQuietos DEF MatadoLista
  <2>4. MismasColas /\ CpusMenguan
    BY <1>6, CpusQuietas DEF MatadoLista, MismasColas
  <2>5. Mueve(HiloUmc, "libre", NULO, NULO)
    BY <1>6, <2>1, <2>2, <2>3, <2>4, HilosDistintos DEF MatadoLista, Mueve, Libre, Manos,
       ManosNew, ManosExec, ManosBlock, ManosExit, ConLista, ConCpu, TrasSigint
  <2> QED
    BY <1>6, <2>1, <2>2, <2>3, <2>4, <2>5, HilosDistintos, ExclusionIr DEF MatadoLista, Sacado,
       Manos, ManosNew, ManosExec, ManosBlock, ManosExit, ConLista, ConCpu, TrasSigint
<1> QED
  BY <1>1, <1>2, <1>3, <1>4, <1>5, <1>6 DEF PasoUmc

(* A message of a CPU that does not bring a PCB.                           *)
LEMMA ExclusionMensaje ==
  ASSUME Tipos, PidsContados, Exclusion, NEW c \in Cpus,
         \/ AtenderHandshake(c) \/ AtenderImprimir(c) \/ AtenderEs(c) \/ AtenderWait(c)
         \/ AtenderSignal(c) \/ AtenderDesconexion(c) \/ SigintSinProceso(c) \/ SigintLista(c), cpu' = cpu
  PROVE  Exclusion'
<1> USE DEF Tipos, quieto, semaforosVars, sinMensajes, canales, SinSemaforos
<1>1. CASE AtenderImprimir(c)
  <2>1. c \in Hilos /\ pid_count' = pid_count /\ hilo' = hilo
    BY <1>1, HilosDistintos DEF AtenderImprimir, LlegaDeCpu, En
  <2>2. IrCon(c, hilo[c].pc, hilo[c].pid, hilo[c].dato)
    BY <1>1, <2>1, AlQuedarse DEF AtenderImprimir
  <2>3. DeCpuMengua /\ ACpuMengua
    BY <1>1, AlLlegarDeCpu, MenguaIgual DEF AtenderImprimir, ACpuMengua
  <2>4. MismasColas /\ CpusMenguan
    BY <1>1, CpusQuietas DEF AtenderImprimir, MismasColas
  <2>5. Mueve(c, hilo[c].pc, hilo[c].pid, hilo[c].dato)
    BY <1>1, <2>1, <2>2, <2>3, <2>4, HilosDistintos DEF AtenderImprimir, Mueve, Libre, Manos,
       ManosNew, ManosExec, ManosBlock, ManosExit, ConLista, ConCpu, TrasSigint
  <2> QED
    BY <1>1, <2>1, <2>2, <2>3, <2>4, <2>5, HilosDistintos, ExclusionIr DEF AtenderImprimir,
       Sacado, Manos, ManosNew, ManosExec, ManosBlock, ManosExit, ConLista, ConCpu, TrasSigint
<1>2. CASE AtenderEs(c)
  <2>1. c \in Hilos /\ pid_count' = pid_count /\ hilo' = hilo
    BY <1>2, HilosDistintos DEF AtenderEs, LlegaDeCpu, En
  <2>2. IrCon(c, hilo[c].pc, hilo[c].pid, hilo[c].dato)
    BY <1>2, <2>1, AlQuedarse DEF AtenderEs
  <2>3. DeCpuMengua /\ ACpuMengua
    BY <1>2, AlLlegarDeCpu, MenguaIgual DEF AtenderEs, ACpuMengua
  <2>4. MismasColas /\ CpusMenguan
    BY <1>2, CpusQuietas DEF AtenderEs, MismasColas
  <2>5. Mueve(c, hilo[c].pc, hilo[c].pid, hilo[c].dato)
    BY <1>2, <2>1, <2>2, <2>3, <2>4, HilosDistintos DEF AtenderEs, Mueve, Libre, Manos,
          ManosNew,
       ManosExec, ManosBlock, ManosExit, ConLista, ConCpu, TrasSigint
  <2> QED
    BY <1>2, <2>1, <2>2, <2>3, <2>4, <2>5, HilosDistintos, ExclusionIr DEF AtenderEs, Sacado,
       Manos, ManosNew, ManosExec, ManosBlock, ManosExit, ConLista, ConCpu, TrasSigint
<1>3. CASE AtenderWait(c)
  <2>1. c \in Hilos /\ pid_count' = pid_count /\ hilo' = hilo
    BY <1>3, HilosDistintos DEF AtenderWait, LlegaDeCpu, En
  <2>2. IrCon(c, hilo[c].pc, hilo[c].pid, hilo[c].dato)
    BY <1>3, <2>1, AlQuedarse DEF AtenderWait
  <2>3. DeCpuMengua /\ ACpuMengua
    BY <1>3, AlLlegarDeCpu, AlAvisarACpu DEF AtenderWait
  <2>4. MismasColas /\ CpusMenguan
    BY <1>3, CpusQuietas DEF AtenderWait, MismasColas
  <2>5. Mueve(c, hilo[c].pc, hilo[c].pid, hilo[c].dato)
    BY <1>3, <2>1, <2>2, <2>3, <2>4, HilosDistintos DEF AtenderWait, Mueve, Libre, Manos,
       ManosNew, ManosExec, ManosBlock, ManosExit, ConLista, ConCpu, TrasSigint
  <2> QED
    BY <1>3, <2>1, <2>2, <2>3, <2>4, <2>5, HilosDistintos, ExclusionIr DEF AtenderWait, Sacado,
       Manos, ManosNew, ManosExec, ManosBlock, ManosExit, ConLista, ConCpu, TrasSigint
<1>4. CASE AtenderSignal(c)
  <2>1. c \in Hilos /\ pid_count' = pid_count /\ hilo' = hilo
    BY <1>4, HilosDistintos DEF AtenderSignal, LlegaDeCpu, En
  <2>2. IrCon(c, hilo[c].pc, hilo[c].pid, hilo[c].dato)
    BY <1>4, <2>1, AlQuedarse DEF AtenderSignal
  <2>3. DeCpuMengua /\ ACpuMengua
    BY <1>4, AlLlegarDeCpu, MenguaIgual DEF AtenderSignal, ACpuMengua
  <2>4. MismasColas /\ CpusMenguan
    BY <1>4, CpusQuietas DEF AtenderSignal, MismasColas
  <2>5. Mueve(c, hilo[c].pc, hilo[c].pid, hilo[c].dato)
    BY <1>4, <2>1, <2>2, <2>3, <2>4, HilosDistintos DEF AtenderSignal, Mueve, Libre, Manos,
       ManosNew, ManosExec, ManosBlock, ManosExit, ConLista, ConCpu, TrasSigint
  <2> QED
    BY <1>4, <2>1, <2>2, <2>3, <2>4, <2>5, HilosDistintos, ExclusionIr DEF AtenderSignal,
          Sacado,
       Manos, ManosNew, ManosExec, ManosBlock, ManosExit, ConLista, ConCpu, TrasSigint
<1>5. CASE AtenderDesconexion(c)
  <2>1. c \in Hilos /\ pid_count' = pid_count /\ hilo' = hilo
    BY <1>5, HilosDistintos DEF AtenderDesconexion, LlegaDeCpu, En
  <2>2. IrCon(c, hilo[c].pc, hilo[c].pid, hilo[c].dato)
    BY <1>5, <2>1, AlQuedarse DEF AtenderDesconexion
  <2>3. DeCpuMengua /\ ACpuMengua
    BY <1>5, AlLlegarDeCpu, MenguaIgual DEF AtenderDesconexion, ACpuMengua
  <2>4. MismasColas /\ CpusMenguan
    BY <1>5, <2>1, CpuQuitada, CpusSinUna DEF AtenderDesconexion, MismasColas
  <2>5. Mueve(c, hilo[c].pc, hilo[c].pid, hilo[c].dato)
    BY <1>5, <2>1, <2>2, <2>3, <2>4, HilosDistintos DEF AtenderDesconexion, Mueve, Libre, Manos,
       ManosNew, ManosExec, ManosBlock, ManosExit, ConLista, ConCpu, TrasSigint
  <2> QED
    BY <1>5, <2>1, <2>2, <2>3, <2>4, <2>5, HilosDistintos, ExclusionIr DEF AtenderDesconexion,
       Sacado, Manos, ManosNew, ManosExec, ManosBlock, ManosExit, ConLista, ConCpu, TrasSigint
<1>6. CASE SigintSinProceso(c)
  <2>1. c \in Hilos /\ pid_count' = pid_count /\ hilo' = hilo
    BY <1>6, HilosDistintos DEF SigintSinProceso, LlegaDeCpu, En
  <2>2. IrCon(c, hilo[c].pc, hilo[c].pid, hilo[c].dato)
    BY <1>6, <2>1, AlQuedarse DEF SigintSinProceso
  <2>3. DeCpuMengua /\ ACpuMengua
    BY <1>6, AlLlegarDeCpu, MenguaIgual DEF SigintSinProceso, ACpuMengua
  <2>4. MismasColas /\ CpusMenguan
    BY <1>6, CpusQuietas DEF SigintSinProceso, MismasColas
  <2>5. Mueve(c, hilo[c].pc, hilo[c].pid, hilo[c].dato)
    BY <1>6, <2>1, <2>2, <2>3, <2>4, HilosDistintos DEF SigintSinProceso, Mueve, Libre, Manos,
       ManosNew, ManosExec, ManosBlock, ManosExit, ConLista, ConCpu, TrasSigint
  <2> QED
    BY <1>6, <2>1, <2>2, <2>3, <2>4, <2>5, HilosDistintos, ExclusionIr DEF SigintSinProceso,
       Sacado, Manos, ManosNew, ManosExec, ManosBlock, ManosExit, ConLista, ConCpu, TrasSigint
<1>7. CASE SigintLista(c)
  <2>1. c \in Hilos /\ hilo[c].pc = "libre" /\ pid_count' = pid_count
    BY <1>7, HilosDistintos DEF SigintLista, LlegaDeCpu, En
  <2>2. IrCon(c, "sigint_exec", lista_procesos[FilaCpu(c)].pid, NULO)
    BY <1>7, <2>1 DEF SigintLista
  <2>3. DeCpuMengua /\ ACpuMengua
    BY <1>7, AlLlegarDeCpu, MenguaIgual DEF SigintLista, ACpuMengua
  <2>4. MismasColas /\ CpusMenguan
    BY <1>7, CpusQuietas DEF SigintLista, MismasColas
  <2>5. Mueve(c, "sigint_exec", lista_procesos[FilaCpu(c)].pid, NULO)
    BY <1>7, <2>1, <2>2, <2>3, <2>4, HilosDistintos DEF SigintLista, Mueve, Libre, Manos,
       ManosNew, ManosExec, ManosBlock, ManosExit, ConLista, ConCpu, TrasSigint
  <2> QED
    BY <1>7, <2>1, <2>2, <2>3, <2>4, <2>5, HilosDistintos, ExclusionIr DEF SigintLista, Sacado,
       Manos, ManosNew, ManosExec, ManosBlock, ManosExit, ConLista, ConCpu, TrasSigint
<1>8. CASE AtenderHandshake(c)
  <2>1. c \in Hilos /\ hilo[c].pc = "libre" /\ pid_count' = pid_count /\ c # HiloExec
        /\ hilo' = hilo /\ "HANDSHAKE" \in IdsFicha /\ LlegaDeCpu(c, "HANDSHAKE")
    BY <1>8, HilosDistintos DEF AtenderHandshake, LlegaDeCpu, En, IdsFicha
  <2>2. IrCon(c, hilo[c].pc, hilo[c].pid, hilo[c].dato)
    BY <2>1, AlQuedarse
  <2>3. DeCpuMengua /\ ACpuMengua /\ mutex' = mutex /\ aCpu' = aCpu
    BY <1>8, <2>1, AlLlegarDeCpu, MenguaIgual DEF AtenderHandshake, ACpuMengua
  <2>4. MismasColas /\ cola'.cpus = Append(cola.cpus, c) /\ cola'.exec = cola.exec
    BY <1>8, <2>1, CpuPuesta DEF AtenderHandshake, MismasColas, Colas
  <2>5. ListaTomada'
    BY <2>2, <2>1, <2>3, ListaSigue DEF Exclusion
  <2>6. UnLugar'
    BY <2>1, <2>2, <2>4, LugarIr DEF Exclusion
  <2>7. CpuUnica'
    BY <2>1, <2>2, <2>3, <2>4, FichaALibre DEF Exclusion, ConCpu
  <2>8. EjecucionPropia'
    BY <2>1, <2>2, <2>3, <2>4, EjecucionMengua DEF Exclusion
  <2> QED
    BY <2>5, <2>6, <2>7, <2>8 DEF Exclusion
<1> QED
  BY <1>1, <1>2, <1>3, <1>4, <1>5, <1>6, <1>7, <1>8

(* A message of a CPU that brings a PCB.                                   *)
LEMMA ExclusionSacarDeExec ==
  ASSUME Tipos, PidsContados, Exclusion, NEW c \in Cpus,
         NEW id \in IdsConPcb, NEW siguiente, siguiente \notin ConLista,
         SacarDeExec(c, id, siguiente), cpu' = cpu
  PROVE  Exclusion'
<1> USE DEF Tipos, quieto, semaforosVars, sinMensajes, canales, SinSemaforos
<1>1. /\ LlegaDeCpu(c, id) /\ UNCHANGED <<pid_count, aCpu, mutex>>
      /\ IrCon(c, siguiente, PidDe(c), NULO)
  BY DEF SacarDeExec
<1>2. /\ cola'["exec"] = RemoveFirst(cola["exec"], PidDe(c)) /\ cola'.cpus = cola.cpus
      /\ \A s \in Colas : s # "exec" => cola'[s] = cola[s]
  BY <1>1, ColaSacada DEF SacarDeExec, Colas
<1> QED
  BY <1>1, <1>2, ExclusionRecibir

(* The same, of a killed process or of a CPU that leaves.                  *)
LEMMA ExclusionMatado ==
  ASSUME Tipos, PidsContados, Exclusion, NEW c \in Cpus,
         MatadoSacar(c) \/ DesconexionSacar(c), cpu' = cpu
  PROVE  Exclusion'
<1> USE DEF Tipos, quieto, semaforosVars, sinMensajes, canales, SinSemaforos
<1>1. CASE DesconexionSacar(c)
  <2>1. /\ LlegaDeCpu(c, "MATAR_CPU") /\ UNCHANGED <<pid_count, aCpu, mutex>>
        /\ IrCon(c, "desconexion_ready", PidDe(c), NULO)
    BY <1>1 DEF DesconexionSacar
  <2>2. /\ cola'["exec"] = RemoveFirst(cola["exec"], PidDe(c)) /\ cola'.cpus = cola.cpus
        /\ \A s \in Colas : s # "exec" => cola'[s] = cola[s]
    BY <1>1, <2>1, ColaSacada DEF DesconexionSacar, Colas
  <2>3. "MATAR_CPU" \in IdsConPcb /\ "desconexion_ready" \notin ConLista
    BY Mensajes DEF ConLista
  <2> QED
    BY <2>1, <2>2, <2>3, ExclusionRecibir
<1>2. CASE MatadoSacar(c)
  <2> DEFINE p == Sacado(cola.exec, PidDe(c))
  <2>1. /\ LlegaDeCpu(c, "RESPUESTA_MATAR") /\ UNCHANGED <<pid_count, aCpu, mutex>>
        /\ IrCon(c, "matado_exit", p, NULO)
    BY <1>2 DEF MatadoSacar
  <2>2. /\ cola'["exec"] = RemoveFirst(cola["exec"], PidDe(c))
        /\ cola'.cpus = Append(cola.cpus, c)
        /\ \A s \in Colas : s # "exec" => cola'[s] = cola[s]
    BY <1>2, <2>1, ColaSacadaConCpu DEF MatadoSacar, Colas
  <2>3. "RESPUESTA_MATAR" \in IdsConPcb /\ "matado_exit" \notin ConLista
        /\ "matado_exit" \notin ConCpu
    BY Mensajes DEF ConLista, ConCpu
  <2>4. p \in Usados => p = PidDe(c)
    BY UsadosPids DEF Sacado, TiposNucleo
  <2> HIDE DEF p
  <2> QED
    BY <2>1, <2>2, <2>3, <2>4, ExclusionRecibir
<1> QED
  BY <1>1, <1>2

(* The rest of the handlers of the messages of a CPU.                      *)
LEMMA ExclusionManejador ==
  ASSUME Tipos, PidsContados, Exclusion, NEW c \in Cpus,
         \/ QuantumLista(c) \/ QuantumReady(c) \/ QuantumCpu(c) \/ FinalizadoExit(c)
         \/ FinalizadoLista(c) \/ FinalizadoCpu(c) \/ EsPcbBlock(c) \/ EsPcbLista(c)
         \/ WaitPcbBlock(c) \/ WaitPcbLista(c) \/ WaitPcbCpu(c) \/ WaitPcbSolicitud(c)
         \/ MatadoExit(c) \/ DesconexionReady(c) \/ DesconexionLista(c) \/ DesconexionCpu(c)
         \/ SigintExec(c) \/ SigintExit(c), cpu' = cpu
  PROVE  Exclusion'
<1> USE DEF Tipos, quieto, semaforosVars, sinMensajes, canales, SinSemaforos
<1>1. CASE QuantumLista(c)
  <2>1. c \in Hilos /\ hilo[c].pc = "quantum_lista" /\ pid_count' = pid_count
    BY <1>1, HilosDistintos DEF QuantumLista, En
  <2>2. IrCon(c, "quantum_ready", hilo[c].pid, hilo[c].dato)
    BY <1>1, <2>1, AlIr DEF QuantumLista
  <2>3. DeCpuMengua /\ ACpuMengua
    BY <1>1, SocketsQuietos DEF QuantumLista
  <2>4. MismasColas /\ CpusMenguan
    BY <1>1, CpusQuietas DEF QuantumLista, MismasColas
  <2>5. Mueve(c, "quantum_ready", hilo[c].pid, hilo[c].dato)
    BY <1>1, <2>1, <2>2, <2>3, <2>4, HilosDistintos DEF QuantumLista, Mueve, Libre, Manos,
       ManosNew, ManosExec, ManosBlock, ManosExit, ConLista, ConCpu, TrasSigint
  <2> QED
    BY <1>1, <2>1, <2>2, <2>3, <2>4, <2>5, HilosDistintos, ExclusionIr DEF QuantumLista, Sacado,
       Manos, ManosNew, ManosExec, ManosBlock, ManosExit, ConLista, ConCpu, TrasSigint
<1>2. CASE QuantumReady(c)
  <2>1. c \in Hilos /\ hilo[c].pc = "quantum_ready" /\ pid_count' = pid_count
    BY <1>2, HilosDistintos DEF QuantumReady, En
  <2>2. IrCon(c, "quantum_cpu", hilo[c].pid, hilo[c].dato)
    BY <1>2, <2>1, AlIr DEF QuantumReady
  <2>3. DeCpuMengua /\ ACpuMengua
    BY <1>2, SocketsQuietos DEF QuantumReady
  <2>4. hilo[c].pid \in UsadoONulo
    BY <1>2, <2>1 DEF TiposHilo, HiloTipo
  <2>5. /\ "ready" \in Colas /\ "ready" # "exec" /\ cola'["ready"] = Append(cola["ready"], hilo[c].pid)
        /\ cola'.cpus = cola.cpus
        /\ \A s \in Colas : s # "ready" => cola'[s] = cola[s]
    BY <1>2, <2>4, <2>1, ColaPuesta DEF QuantumReady, Colas
  <2>6. Mueve(c, "quantum_cpu", hilo[c].pid, hilo[c].dato)
    BY <1>2, <2>1, <2>2, <2>3, <2>4, <2>5, HilosDistintos DEF QuantumReady, Mueve, Libre, Manos,
       ManosNew, ManosExec, ManosBlock, ManosExit, ConLista, ConCpu, TrasSigint
  <2>7. hilo[c].pc \in Manos /\ "quantum_cpu" \notin Manos
    BY <2>1 DEF Manos, ManosNew, ManosExec, ManosBlock, ManosExit, ConLista, ConCpu, TrasSigint
  <2> QED
    BY <2>1, <2>2, <2>3, <2>4, <2>5, <2>6, <2>7, ExclusionPoner
<1>3. CASE QuantumCpu(c)
  <2>1. c \in Hilos /\ hilo[c].pc = "quantum_cpu" /\ UNCHANGED <<pid_count, deCpu, aCpu>> /\ c # HiloExec
    BY <1>3, HilosDistintos DEF QuantumCpu, En
  <2>2. IrCon(c, "libre", NULO, NULO)
    BY <1>3, <2>1, AlTerminar DEF QuantumCpu
  <2>3. DeCpuMengua /\ ACpuMengua
    BY <2>1, SocketsQuietos
  <2>4. MismasColas /\ cola'.cpus = Append(cola.cpus, c) /\ cola'.exec = cola.exec
    BY <1>3, <2>1, CpuPuesta DEF QuantumCpu, MismasColas, Colas
  <2>5. UnLugar'
    BY <2>1, <2>2, <2>4, LugarIr DEF Exclusion, Manos, ManosNew, ManosExec, ManosBlock,
       ManosExit, ConLista, ConCpu, TrasSigint
  <2>6. ListaTomada'
    BY <1>3, <2>1, <2>2, ListaSigue DEF QuantumCpu, Exclusion, ConLista
  <2>7. CpuUnica'
    BY <2>1, <2>2, <2>4, FichaDevuelta DEF Exclusion, ConCpu
  <2>8. EjecucionPropia'
    BY <2>1, <2>2, <2>3, <2>4, EjecucionMengua DEF Exclusion, TrasSigint
  <2> QED
    BY <2>5, <2>6, <2>7, <2>8 DEF Exclusion
<1>4. CASE FinalizadoExit(c)
  <2>1. c \in Hilos /\ hilo[c].pc = "fin_exit" /\ pid_count' = pid_count
    BY <1>4, HilosDistintos DEF FinalizadoExit, En
  <2>2. IrCon(c, "fin_lista", hilo[c].pid, hilo[c].dato)
    BY <1>4, <2>1, AlIr DEF FinalizadoExit
  <2>3. DeCpuMengua /\ ACpuMengua
    BY <1>4, SocketsQuietos DEF FinalizadoExit
  <2>4. hilo[c].pid \in UsadoONulo
    BY <1>4, <2>1 DEF TiposHilo, HiloTipo
  <2>5. /\ "exit" \in Colas /\ "exit" # "exec" /\ cola'["exit"] = Append(cola["exit"], hilo[c].pid)
        /\ cola'.cpus = cola.cpus
        /\ \A s \in Colas : s # "exit" => cola'[s] = cola[s]
    BY <1>4, <2>4, <2>1, ColaPuesta DEF FinalizadoExit, Colas
  <2>6. Mueve(c, "fin_lista", hilo[c].pid, hilo[c].dato)
    BY <1>4, <2>1, <2>2, <2>3, <2>4, <2>5, HilosDistintos DEF FinalizadoExit, Mueve, Libre,
       Manos, ManosNew, ManosExec, ManosBlock, ManosExit, ConLista, ConCpu, TrasSigint
  <2>7. hilo[c].pc \in Manos /\ "fin_lista" \notin Manos
    BY <2>1 DEF Manos, ManosNew, ManosExec, ManosBlock, ManosExit, ConLista, ConCpu, TrasSigint
  <2> QED
    BY <2>1, <2>2, <2>3, <2>4, <2>5, <2>6, <2>7, ExclusionPoner
<1>5. CASE FinalizadoLista(c)
  <2>1. c \in Hilos /\ hilo[c].pc = "fin_lista" /\ pid_count' = pid_count
    BY <1>5, HilosDistintos DEF FinalizadoLista, En
  <2>2. IrCon(c, "fin_cpu", hilo[c].pid, hilo[c].dato)
    BY <1>5, <2>1, AlIr DEF FinalizadoLista
  <2>3. DeCpuMengua /\ ACpuMengua
    BY <1>5, SocketsQuietos DEF FinalizadoLista
  <2>4. MismasColas /\ CpusMenguan
    BY <1>5, CpusQuietas DEF FinalizadoLista, MismasColas
  <2>5. Mueve(c, "fin_cpu", hilo[c].pid, hilo[c].dato)
    BY <1>5, <2>1, <2>2, <2>3, <2>4, HilosDistintos DEF FinalizadoLista, Mueve, Libre, Manos,
       ManosNew, ManosExec, ManosBlock, ManosExit, ConLista, ConCpu, TrasSigint
  <2> QED
    BY <1>5, <2>1, <2>2, <2>3, <2>4, <2>5, HilosDistintos, ExclusionIr DEF FinalizadoLista,
       Sacado, Manos, ManosNew, ManosExec, ManosBlock, ManosExit, ConLista, ConCpu, TrasSigint
<1>6. CASE FinalizadoCpu(c)
  <2>1. c \in Hilos /\ hilo[c].pc = "fin_cpu" /\ UNCHANGED <<pid_count, deCpu, aCpu>> /\ c # HiloExec
    BY <1>6, HilosDistintos DEF FinalizadoCpu, En
  <2>2. IrCon(c, "libre", NULO, NULO)
    BY <1>6, <2>1, AlTerminar DEF FinalizadoCpu
  <2>3. DeCpuMengua /\ ACpuMengua
    BY <2>1, SocketsQuietos
  <2>4. MismasColas /\ cola'.cpus = Append(cola.cpus, c) /\ cola'.exec = cola.exec
    BY <1>6, <2>1, CpuPuesta DEF FinalizadoCpu, MismasColas, Colas
  <2>5. UnLugar'
    BY <2>1, <2>2, <2>4, LugarIr DEF Exclusion, Manos, ManosNew, ManosExec, ManosBlock,
       ManosExit, ConLista, ConCpu, TrasSigint
  <2>6. ListaTomada'
    BY <1>6, <2>1, <2>2, ListaSigue DEF FinalizadoCpu, Exclusion, ConLista
  <2>7. CpuUnica'
    BY <2>1, <2>2, <2>4, FichaDevuelta DEF Exclusion, ConCpu
  <2>8. EjecucionPropia'
    BY <2>1, <2>2, <2>3, <2>4, EjecucionMengua DEF Exclusion, TrasSigint
  <2> QED
    BY <2>5, <2>6, <2>7, <2>8 DEF Exclusion
<1>7. CASE EsPcbBlock(c)
  <2>1. c \in Hilos /\ hilo[c].pc = "es_block" /\ UNCHANGED <<pid_count, deCpu, aCpu>> /\ c # HiloExec
    BY <1>7, HilosDistintos DEF EsPcbBlock, En
  <2>2. IrCon(c, "es_lista", hilo[c].pid, hilo[c].dato)
    BY <1>7, <2>1, AlIr DEF EsPcbBlock
  <2>3. DeCpuMengua /\ ACpuMengua
    BY <2>1, SocketsQuietos
  <2>4. /\ cola'["block"] = Append(cola["block"], hilo[c].pid) /\ "block" \in Colas
        /\ cola'.cpus = Append(cola.cpus, c) /\ cola'.exec = cola.exec
        /\ \A s \in Colas : s # "block" => cola'[s] = cola[s]
    <3>1. hilo[c].pid \in UsadoONulo /\ "block" \in Colas /\ "exec" \in Colas
      BY <2>1 DEF TiposHilo, HiloTipo, Colas
    <3> QED
      BY <1>7, <2>1, <3>1, ColaPuestaConCpu DEF EsPcbBlock
  <2>5. UnLugar'
    BY <2>1, <2>2, <2>4, LugarPoner DEF Exclusion, Manos, ManosNew, ManosExec, ManosBlock,
       ManosExit, ConLista, ConCpu, TrasSigint
  <2>6. ListaTomada'
    BY <1>7, <2>1, <2>2, ListaSigue DEF EsPcbBlock, Exclusion, ConLista
  <2>7. CpuUnica'
    BY <2>1, <2>2, <2>4, FichaDevuelta DEF Exclusion, ConCpu
  <2>8. EjecucionPropia'
    BY <2>1, <2>2, <2>3, <2>4, EjecucionMengua DEF Exclusion, TrasSigint
  <2> QED
    BY <2>5, <2>6, <2>7, <2>8 DEF Exclusion
<1>8. CASE EsPcbLista(c)
  <2>1. c \in Hilos /\ hilo[c].pc = "es_lista" /\ pid_count' = pid_count
    BY <1>8, HilosDistintos DEF EsPcbLista, En
  <2>2. IrCon(c, "libre", NULO, NULO)
    BY <1>8, <2>1, AlTerminar DEF EsPcbLista
  <2>3. DeCpuMengua /\ ACpuMengua
    BY <1>8, SocketsQuietos DEF EsPcbLista
  <2>4. MismasColas /\ CpusMenguan
    BY <1>8, CpusQuietas DEF EsPcbLista, MismasColas
  <2>5. Mueve(c, "libre", NULO, NULO)
    BY <1>8, <2>1, <2>2, <2>3, <2>4, HilosDistintos DEF EsPcbLista, Mueve, Libre, Manos,
       ManosNew, ManosExec, ManosBlock, ManosExit, ConLista, ConCpu, TrasSigint
  <2> QED
    BY <1>8, <2>1, <2>2, <2>3, <2>4, <2>5, HilosDistintos, ExclusionIr DEF EsPcbLista, Sacado,
       Manos, ManosNew, ManosExec, ManosBlock, ManosExit, ConLista, ConCpu, TrasSigint
<1>9. CASE WaitPcbBlock(c)
  <2>1. c \in Hilos /\ hilo[c].pc = "wait_block" /\ pid_count' = pid_count
    BY <1>9, HilosDistintos DEF WaitPcbBlock, En
  <2>2. IrCon(c, "wait_lista", hilo[c].pid, hilo[c].dato)
    BY <1>9, <2>1, AlIr DEF WaitPcbBlock
  <2>3. DeCpuMengua /\ ACpuMengua
    BY <1>9, SocketsQuietos DEF WaitPcbBlock
  <2>4. hilo[c].pid \in UsadoONulo
    BY <1>9, <2>1 DEF TiposHilo, HiloTipo
  <2>5. /\ "block" \in Colas /\ "block" # "exec" /\ cola'["block"] = Append(cola["block"], hilo[c].pid)
        /\ cola'.cpus = cola.cpus
        /\ \A s \in Colas : s # "block" => cola'[s] = cola[s]
    BY <1>9, <2>4, <2>1, ColaPuesta DEF WaitPcbBlock, Colas
  <2>6. Mueve(c, "wait_lista", hilo[c].pid, hilo[c].dato)
    BY <1>9, <2>1, <2>2, <2>3, <2>4, <2>5, HilosDistintos DEF WaitPcbBlock, Mueve, Libre, Manos,
       ManosNew, ManosExec, ManosBlock, ManosExit, ConLista, ConCpu, TrasSigint
  <2>7. hilo[c].pc \in Manos /\ "wait_lista" \notin Manos
    BY <2>1 DEF Manos, ManosNew, ManosExec, ManosBlock, ManosExit, ConLista, ConCpu, TrasSigint
  <2> QED
    BY <2>1, <2>2, <2>3, <2>4, <2>5, <2>6, <2>7, ExclusionPoner
<1>10. CASE WaitPcbLista(c)
  <2>1. c \in Hilos /\ hilo[c].pc = "wait_lista" /\ pid_count' = pid_count
    BY <1>10, HilosDistintos DEF WaitPcbLista, En
  <2>2. IrCon(c, "wait_cpu", hilo[c].pid, hilo[c].dato)
    BY <1>10, <2>1, AlIr DEF WaitPcbLista
  <2>3. DeCpuMengua /\ ACpuMengua
    BY <1>10, SocketsQuietos DEF WaitPcbLista
  <2>4. MismasColas /\ CpusMenguan
    BY <1>10, CpusQuietas DEF WaitPcbLista, MismasColas
  <2>5. Mueve(c, "wait_cpu", hilo[c].pid, hilo[c].dato)
    BY <1>10, <2>1, <2>2, <2>3, <2>4, HilosDistintos DEF WaitPcbLista, Mueve, Libre, Manos,
       ManosNew, ManosExec, ManosBlock, ManosExit, ConLista, ConCpu, TrasSigint
  <2> QED
    BY <1>10, <2>1, <2>2, <2>3, <2>4, <2>5, HilosDistintos, ExclusionIr DEF WaitPcbLista,
          Sacado,
       Manos, ManosNew, ManosExec, ManosBlock, ManosExit, ConLista, ConCpu, TrasSigint
<1>11. CASE WaitPcbCpu(c)
  <2>1. c \in Hilos /\ hilo[c].pc = "wait_cpu" /\ UNCHANGED <<pid_count, deCpu, aCpu>> /\ c # HiloExec
    BY <1>11, HilosDistintos DEF WaitPcbCpu, En
  <2>2. IrCon(c, "wait_solicitud", hilo[c].pid, hilo[c].dato)
    BY <1>11, <2>1, AlIr DEF WaitPcbCpu
  <2>3. DeCpuMengua /\ ACpuMengua
    BY <2>1, SocketsQuietos
  <2>4. MismasColas /\ cola'.cpus = Append(cola.cpus, c) /\ cola'.exec = cola.exec
    BY <1>11, <2>1, CpuPuesta DEF WaitPcbCpu, MismasColas, Colas
  <2>5. UnLugar'
    BY <2>1, <2>2, <2>4, LugarIr DEF Exclusion, Manos, ManosNew, ManosExec, ManosBlock,
       ManosExit, ConLista, ConCpu, TrasSigint
  <2>6. ListaTomada'
    BY <1>11, <2>1, <2>2, ListaSigue DEF WaitPcbCpu, Exclusion, ConLista
  <2>7. CpuUnica'
    BY <2>1, <2>2, <2>4, FichaDevuelta DEF Exclusion, ConCpu
  <2>8. EjecucionPropia'
    BY <2>1, <2>2, <2>3, <2>4, EjecucionMengua DEF Exclusion, TrasSigint
  <2> QED
    BY <2>5, <2>6, <2>7, <2>8 DEF Exclusion
<1>12. CASE WaitPcbSolicitud(c)
  <2>1. c \in Hilos /\ hilo[c].pc = "wait_solicitud" /\ pid_count' = pid_count
    BY <1>12, HilosDistintos DEF WaitPcbSolicitud, En
  <2>2. IrCon(c, "libre", NULO, NULO)
    BY <1>12, <2>1, AlTerminar DEF WaitPcbSolicitud
  <2>3. DeCpuMengua /\ ACpuMengua
    BY <1>12, SocketsQuietos DEF WaitPcbSolicitud
  <2>4. MismasColas /\ CpusMenguan
    BY <1>12, CpusQuietas DEF WaitPcbSolicitud, MismasColas
  <2>5. Mueve(c, "libre", NULO, NULO)
    BY <1>12, <2>1, <2>2, <2>3, <2>4, HilosDistintos DEF WaitPcbSolicitud, Mueve, Libre, Manos,
       ManosNew, ManosExec, ManosBlock, ManosExit, ConLista, ConCpu, TrasSigint
  <2> QED
    BY <1>12, <2>1, <2>2, <2>3, <2>4, <2>5, HilosDistintos, ExclusionIr DEF WaitPcbSolicitud,
       Sacado, Manos, ManosNew, ManosExec, ManosBlock, ManosExit, ConLista, ConCpu, TrasSigint
<1>13. CASE MatadoExit(c)
  <2>1. c \in Hilos /\ hilo[c].pc = "matado_exit" /\ pid_count' = pid_count
    BY <1>13, HilosDistintos DEF MatadoExit, En
  <2>2. IrCon(c, "libre", NULO, NULO)
    BY <1>13, <2>1, AlTerminar DEF MatadoExit
  <2>3. DeCpuMengua /\ ACpuMengua
    BY <1>13, SocketsQuietos DEF MatadoExit
  <2>4. hilo[c].pid \in UsadoONulo
    BY <1>13, <2>1 DEF TiposHilo, HiloTipo
  <2>5. /\ "exit" \in Colas /\ "exit" # "exec" /\ cola'["exit"] = Append(cola["exit"], hilo[c].pid)
        /\ cola'.cpus = cola.cpus
        /\ \A s \in Colas : s # "exit" => cola'[s] = cola[s]
    BY <1>13, <2>4, <2>1, ColaPuesta DEF MatadoExit, Colas
  <2>6. Mueve(c, "libre", NULO, NULO)
    BY <1>13, <2>1, <2>2, <2>3, <2>4, <2>5, HilosDistintos DEF MatadoExit, Mueve, Libre, Manos,
       ManosNew, ManosExec, ManosBlock, ManosExit, ConLista, ConCpu, TrasSigint
  <2>7. hilo[c].pc \in Manos /\ "libre" \notin Manos
    BY <2>1 DEF Manos, ManosNew, ManosExec, ManosBlock, ManosExit, ConLista, ConCpu, TrasSigint
  <2> QED
    BY <2>1, <2>2, <2>3, <2>4, <2>5, <2>6, <2>7, ExclusionPoner
<1>14. CASE DesconexionReady(c)
  <2>1. c \in Hilos /\ hilo[c].pc = "desconexion_ready" /\ pid_count' = pid_count
    BY <1>14, HilosDistintos DEF DesconexionReady, En
  <2>2. IrCon(c, "desconexion_lista", hilo[c].pid, hilo[c].dato)
    BY <1>14, <2>1, AlIr DEF DesconexionReady
  <2>3. DeCpuMengua /\ ACpuMengua
    BY <1>14, SocketsQuietos DEF DesconexionReady
  <2>4. hilo[c].pid \in UsadoONulo
    BY <1>14, <2>1 DEF TiposHilo, HiloTipo
  <2>5. /\ "ready" \in Colas /\ "ready" # "exec" /\ cola'["ready"] = Append(cola["ready"], hilo[c].pid)
        /\ cola'.cpus = cola.cpus
        /\ \A s \in Colas : s # "ready" => cola'[s] = cola[s]
    BY <1>14, <2>4, <2>1, ColaPuesta DEF DesconexionReady, Colas
  <2>6. Mueve(c, "desconexion_lista", hilo[c].pid, hilo[c].dato)
    BY <1>14, <2>1, <2>2, <2>3, <2>4, <2>5, HilosDistintos DEF DesconexionReady, Mueve, Libre,
       Manos, ManosNew, ManosExec, ManosBlock, ManosExit, ConLista, ConCpu, TrasSigint
  <2>7. hilo[c].pc \in Manos /\ "desconexion_lista" \notin Manos
    BY <2>1 DEF Manos, ManosNew, ManosExec, ManosBlock, ManosExit, ConLista, ConCpu, TrasSigint
  <2> QED
    BY <2>1, <2>2, <2>3, <2>4, <2>5, <2>6, <2>7, ExclusionPoner
<1>15. CASE DesconexionLista(c)
  <2>1. c \in Hilos /\ hilo[c].pc = "desconexion_lista" /\ pid_count' = pid_count
    BY <1>15, HilosDistintos DEF DesconexionLista, En
  <2>2. IrCon(c, "desconexion_cpu", hilo[c].pid, hilo[c].dato)
    BY <1>15, <2>1, AlIr DEF DesconexionLista
  <2>3. DeCpuMengua /\ ACpuMengua
    BY <1>15, SocketsQuietos DEF DesconexionLista
  <2>4. MismasColas /\ CpusMenguan
    BY <1>15, CpusQuietas DEF DesconexionLista, MismasColas
  <2>5. Mueve(c, "desconexion_cpu", hilo[c].pid, hilo[c].dato)
    BY <1>15, <2>1, <2>2, <2>3, <2>4, HilosDistintos DEF DesconexionLista, Mueve, Libre, Manos,
       ManosNew, ManosExec, ManosBlock, ManosExit, ConLista, ConCpu, TrasSigint
  <2> QED
    BY <1>15, <2>1, <2>2, <2>3, <2>4, <2>5, HilosDistintos, ExclusionIr DEF DesconexionLista,
       Sacado, Manos, ManosNew, ManosExec, ManosBlock, ManosExit, ConLista, ConCpu, TrasSigint
<1>16. CASE DesconexionCpu(c)
  <2>1. c \in Hilos /\ hilo[c].pc = "desconexion_cpu" /\ pid_count' = pid_count
    BY <1>16, HilosDistintos DEF DesconexionCpu, En
  <2>2. IrCon(c, "libre", NULO, NULO)
    BY <1>16, <2>1, AlTerminar DEF DesconexionCpu
  <2>3. DeCpuMengua /\ ACpuMengua
    BY <1>16, SocketsQuietos DEF DesconexionCpu
  <2>4. MismasColas /\ CpusMenguan
    BY <1>16, <2>1, CpuQuitada, CpusSinUna DEF DesconexionCpu, MismasColas
  <2>5. Mueve(c, "libre", NULO, NULO)
    BY <1>16, <2>1, <2>2, <2>3, <2>4, HilosDistintos DEF DesconexionCpu, Mueve, Libre, Manos,
       ManosNew, ManosExec, ManosBlock, ManosExit, ConLista, ConCpu, TrasSigint
  <2> QED
    BY <1>16, <2>1, <2>2, <2>3, <2>4, <2>5, HilosDistintos, ExclusionIr DEF DesconexionCpu,
       Sacado, Manos, ManosNew, ManosExec, ManosBlock, ManosExit, ConLista, ConCpu, TrasSigint
<1>17. CASE SigintExec(c)
  <2>1. /\ c \in Hilos /\ hilo[c].pc = "sigint_exec" /\ UNCHANGED <<pid_count, deCpu, aCpu, mutex>>
        /\ c # HiloExec /\ Contains(cola["exec"], hilo[c].pid)
    BY <1>17, HilosDistintos DEF SigintExec, En
  <2>2. IrCon(c, "sigint_exit", hilo[c].pid, hilo[c].dato)
    BY <1>17, <2>1, AlIr DEF SigintExec
  <2>3. /\ cola'["exec"] = RemoveFirst(cola["exec"], hilo[c].pid) /\ cola'.cpus = cola.cpus
        /\ "exec" \in Colas /\ \A s \in Colas : s # "exec" => cola'[s] = cola[s]
    BY <1>17, <2>1, ColaSacada DEF SigintExec, Colas
  <2>4. ListaTomada'
    BY <2>1, <2>2, ListaSigue DEF Exclusion, ConLista
  <2>5. UnLugar'
    BY <2>1, <2>2, <2>3, LugarSacar DEF Exclusion, TrasSigint
  <2>6. CpuUnica'
    BY <2>1, <2>2, <2>3, SocketsQuietos, CpusQuietas, FichasMenguan DEF Exclusion, ConCpu
  <2>7. EjecucionPropia'
    BY <2>1, <2>2, <2>3, EjecucionArrebatada DEF Exclusion, TrasSigint
  <2> QED
    BY <2>4, <2>5, <2>6, <2>7 DEF Exclusion
<1>18. CASE SigintExit(c)
  <2>1. c \in Hilos /\ hilo[c].pc = "sigint_exit" /\ pid_count' = pid_count
    BY <1>18, HilosDistintos DEF SigintExit, En
  <2>2. IrCon(c, "sigint_trabado", hilo[c].pid, hilo[c].dato)
    BY <1>18, <2>1, AlIr DEF SigintExit
  <2>3. DeCpuMengua /\ ACpuMengua
    BY <1>18, SocketsQuietos DEF SigintExit
  <2>4. hilo[c].pid \in UsadoONulo
    BY <1>18, <2>1 DEF TiposHilo, HiloTipo
  <2>5. /\ "exit" \in Colas /\ "exit" # "exec" /\ cola'["exit"] = Append(cola["exit"], hilo[c].pid)
        /\ cola'.cpus = cola.cpus
        /\ \A s \in Colas : s # "exit" => cola'[s] = cola[s]
    BY <1>18, <2>4, <2>1, ColaPuesta DEF SigintExit, Colas
  <2>6. Mueve(c, "sigint_trabado", hilo[c].pid, hilo[c].dato)
    BY <1>18, <2>1, <2>2, <2>3, <2>4, <2>5, HilosDistintos DEF SigintExit, Mueve, Libre, Manos,
       ManosNew, ManosExec, ManosBlock, ManosExit, ConLista, ConCpu, TrasSigint
  <2>7. hilo[c].pc \in Manos /\ "sigint_trabado" \notin Manos
    BY <2>1 DEF Manos, ManosNew, ManosExec, ManosBlock, ManosExit, ConLista, ConCpu, TrasSigint
  <2> QED
    BY <2>1, <2>2, <2>3, <2>4, <2>5, <2>6, <2>7, ExclusionPoner
<1> QED
  BY <1>1, <1>2, <1>3, <1>4, <1>5, <1>6, <1>7, <1>8, <1>9, <1>10, <1>11, <1>12, <1>13, <1>14,
     <1>15, <1>16, <1>17, <1>18

(* The thread of asignar_pcb_a_cola_exec.                                  *)
LEMMA ExclusionExec ==
  ASSUME Tipos, PidsContados, Exclusion, PasoExec, cpu' = cpu
  PROVE  Exclusion'
<1> USE DEF Tipos, quieto, semaforosVars, sinMensajes, canales, SinSemaforos
<1>1. CASE TomarExec
  <2>1. HiloExec \in Hilos /\ hilo[HiloExec].pc = "tomar_exec" /\ pid_count' = pid_count
    BY <1>1, HilosDistintos DEF TomarExec, En
  <2>2. IrCon(HiloExec, "poner_exec", hilo[HiloExec].pid, hilo[HiloExec].dato)
    BY <1>1, <2>1, AlIr DEF TomarExec
  <2>3. DeCpuMengua /\ ACpuMengua
    BY <1>1, SocketsQuietos DEF TomarExec
  <2>4. MismasColas /\ CpusMenguan
    BY <1>1, CpusQuietas DEF TomarExec, MismasColas
  <2>5. Mueve(HiloExec, "poner_exec", hilo[HiloExec].pid, hilo[HiloExec].dato)
    BY <1>1, <2>1, <2>2, <2>3, <2>4, HilosDistintos DEF TomarExec, Mueve, Libre, Manos,
          ManosNew,
       ManosExec, ManosBlock, ManosExit, ConLista, ConCpu, TrasSigint
  <2> QED
    BY <1>1, <2>1, <2>2, <2>3, <2>4, <2>5, HilosDistintos, ExclusionIr DEF TomarExec, Sacado,
       Manos, ManosNew, ManosExec, ManosBlock, ManosExit, ConLista, ConCpu, TrasSigint
<1>2. CASE TomarCpu
  <2>1. /\ HiloExec \in Hilos /\ hilo[HiloExec].pc = "libre" /\ cola.cpus # <<>>
        /\ UNCHANGED <<pid_count, deCpu, aCpu, mutex>>
        /\ IrCon(HiloExec, "sacar_ready", NULO, Head(cola.cpus))
    BY <1>2, HilosDistintos DEF TomarCpu, En
  <2>2. MismasColas /\ cola'.cpus = Tail(cola.cpus) /\ cola'.exec = cola.exec
    BY <1>2, <2>1, CpuTomada DEF TomarCpu, MismasColas, Colas
  <2>3. ListaTomada'
    BY <2>1, ListaSigue DEF Exclusion, ConLista
  <2>4. UnLugar'
    BY <2>1, <2>2, LugarIr DEF Exclusion, Manos, ManosNew, ManosExec, ManosBlock, ManosExit,
       ConLista, ConCpu, TrasSigint
  <2>5. CpuUnica'
    BY <2>1, <2>2, FichaTomada DEF Exclusion
  <2>6. EjecucionPropia'
    BY <2>1, <2>2, SocketsQuietos, EjecucionMengua DEF Exclusion, TrasSigint
  <2> QED
    BY <2>3, <2>4, <2>5, <2>6 DEF Exclusion
<1>3. CASE SacarReady
  <2> DEFINE p == IF cola.ready = <<>> THEN NULO ELSE Head(cola.ready)
  <2>1. /\ HiloExec \in Hilos /\ hilo[HiloExec].pc = "sacar_ready"
        /\ UNCHANGED <<pid_count, deCpu, aCpu, mutex>>
        /\ IrCon(HiloExec, "tomar_exec", p, hilo[HiloExec].dato)
    BY <1>3, HilosDistintos DEF SacarReady, En
  <2>2. DeCpuMengua /\ ACpuMengua
    BY <2>1, SocketsQuietos
  <2>3. cola["ready"] \in Seq(UsadoONulo) /\ "ready" \in Colas /\ DOMAIN cola = Colas \cup {"cpus"}
    BY DEF TiposCola, Colas
  <2>4. cola' = [cola EXCEPT !["ready"] = RemoveFirst(@, p)]
    <3>1. CASE cola["ready"] = <<>>
      <4>1. ~Contains(cola["ready"], p)
        BY <3>1 DEF Contains
      <4>2. RemoveFirst(cola["ready"], p) = cola["ready"]
        BY <2>3, <4>1, SinPrimero
      <4> QED
        BY <1>3, <3>1, <4>2 DEF SacarReady
    <3>2. CASE cola["ready"] # <<>>
      <4>1. RemoveFirst(cola["ready"], p) = Tail(cola["ready"])
        BY <2>3, <3>2, CabezaSacada
      <4> QED
        BY <1>3, <3>2, <4>1 DEF SacarReady
    <3> QED
      BY <3>1, <3>2
  <2>5. p \in Usados => Contains(cola["ready"], p)
    <3>1. cola["ready"] # <<>> => Contains(cola["ready"], Head(cola["ready"]))
      BY <2>3, SinCabeza
    <3>2. NULO \notin Usados
      BY UsadosPids DEF TiposNucleo
    <3> QED
      BY <3>1, <3>2
  <2> HIDE DEF p
  <2>6. /\ "ready" # "exec" /\ cola'["ready"] = RemoveFirst(cola["ready"], p)
        /\ cola'.cpus = cola.cpus
        /\ \A s \in Colas : s # "ready" => cola'[s] = cola[s]
    BY <2>1, <2>3, <2>4, ColaSacada
  <2>7. Mueve(HiloExec, "tomar_exec", p, hilo[HiloExec].dato)
    BY <2>1, HilosDistintos DEF Mueve, Manos, ManosNew, ManosExec, ManosBlock, ManosExit,
       ConLista, ConCpu, TrasSigint
  <2> QED
    BY <2>1, <2>2, <2>3, <2>5, <2>6, <2>7, ExclusionSacar DEF TrasSigint
<1>4. CASE PonerEnExec
  <2> DEFINE p == hilo[HiloExec].pid
  <2>1. /\ HiloExec \in Hilos /\ hilo[HiloExec].pc = "poner_exec" /\ UNCHANGED <<pid_count, deCpu, aCpu>>
        /\ Libre("lista") /\ "lista" \notin mutex /\ Ir(HiloExec, "enviar_pcb") /\ p \in Usados
    <3>1. FilaPid(p) # 0
      BY <1>4 DEF PonerEnExec
    <3>2. p \in Usados
      BY <3>1, Buscada DEF FilaUsada
    <3> QED
      BY <1>4, <3>2, HilosDistintos DEF PonerEnExec, En, Libre
  <2>2. IrCon(HiloExec, "enviar_pcb", p, hilo[HiloExec].dato)
    BY <2>1, AlIr
  <2>3. /\ cola'["exec"] = Append(cola["exec"], p) /\ cola'.cpus = cola.cpus /\ "exec" \in Colas
        /\ \A s \in Colas : s # "exec" => cola'[s] = cola[s]
    BY <1>4, <2>1, ColaPuesta DEF PonerEnExec, Colas, UsadoONulo
  <2>4. ListaTomada'
    BY <1>4, <2>1, <2>2, ListaSigue DEF PonerEnExec, Exclusion, ConLista
  <2>5. UnLugar'
    BY <2>1, <2>2, <2>3, LugarPoner DEF Exclusion, Manos, ManosNew, ManosExec, ManosBlock,
       ManosExit, ConLista, ConCpu, TrasSigint
  <2>6. CpuUnica'
    BY <2>1, <2>2, <2>3, SocketsQuietos, CpusQuietas, HilosDistintos, FichasMenguan
          DEF Exclusion
  <2>7. EjecucionPropia'
    BY <2>1, <2>3, EjecucionNueva DEF Exclusion, Manos, ManosNew, ManosExec, ManosBlock,
       ManosExit, ConLista, ConCpu, TrasSigint
  <2> QED
    BY <2>4, <2>5, <2>6, <2>7 DEF Exclusion
<1>5. CASE EnviarPcb
  <2> DEFINE p == hilo[HiloExec].pid
             c == hilo[HiloExec].dato
  <2>1. /\ HiloExec \in Hilos /\ hilo[HiloExec].pc = "enviar_pcb" /\ hilo[HiloExec].pc # "libre"
        /\ UNCHANGED <<pid_count, deCpu, mutex, cola>> /\ Terminar(HiloExec)
        /\ aCpu' = [aCpu EXCEPT ![c] = Append(@, [id |-> "PCB", pid |-> p])]
    BY <1>5, HilosDistintos DEF EnviarPcb, En
  <2>2. p \in Usados /\ c \in Cpus
    BY <2>1 DEF TiposHilo, ConProceso
  <2>3. IrCon(HiloExec, "libre", NULO, NULO)
    BY <2>1, AlTerminar
  <2>4. ListaTomada'
    BY <2>1, <2>3, ListaSigue DEF Exclusion, ConLista
  <2>5. UnLugar'
    BY <2>1, <2>3, LugarIr DEF Exclusion, MismasColas, Manos, ManosNew, ManosExec, ManosBlock,
       ManosExit, ConLista, ConCpu, TrasSigint
  <2>6. CpuUnica'
    BY <2>1, <2>2, FichaEnviada DEF Exclusion
  <2>7. EjecucionPropia'
    BY <2>1, <2>2, EjecucionEnviada DEF Exclusion
  <2> QED
    BY <2>4, <2>5, <2>6, <2>7 DEF Exclusion
<1> QED
  BY <1>1, <1>2, <1>3, <1>4, <1>5 DEF PasoExec

(* The threads of the devices.                                             *)
LEMMA ExclusionDispositivo ==
  ASSUME Tipos, PidsContados, Exclusion, NEW d \in Dispositivos, PasoDispositivo(d), cpu' = cpu
  PROVE  Exclusion'
<1> USE DEF Tipos, quieto, semaforosVars, sinMensajes, canales, SinSemaforos
<1>1. CASE SacarSolicitud(d)
  <2>1. d \in Hilos /\ hilo[d].pc = "libre" /\ pid_count' = pid_count
    BY <1>1, HilosDistintos DEF SacarSolicitud, En
  <2>2. IrCon(d, "es_termina", Head(solicitudes_es[d]), NULO)
    BY <1>1, <2>1 DEF SacarSolicitud
  <2>3. DeCpuMengua /\ ACpuMengua
    BY <1>1, SocketsQuietos DEF SacarSolicitud
  <2>4. MismasColas /\ CpusMenguan
    BY <1>1, CpusQuietas DEF SacarSolicitud, MismasColas
  <2>5. Mueve(d, "es_termina", Head(solicitudes_es[d]), NULO)
    BY <1>1, <2>1, <2>2, <2>3, <2>4, HilosDistintos DEF SacarSolicitud, Mueve, Libre, Manos,
       ManosNew, ManosExec, ManosBlock, ManosExit, ConLista, ConCpu, TrasSigint
  <2> QED
    BY <1>1, <2>1, <2>2, <2>3, <2>4, <2>5, HilosDistintos, ExclusionIr DEF SacarSolicitud,
       Sacado, Manos, ManosNew, ManosExec, ManosBlock, ManosExit, ConLista, ConCpu, TrasSigint
<1>2. CASE EsTermina(d)
  <2>1. d \in Hilos /\ hilo[d].pc = "es_termina" /\ pid_count' = pid_count
    BY <1>2, HilosDistintos DEF EsTermina, En
  <2>2. IrCon(d, "es_ready", Sacado(cola["block"], hilo[d].pid), NULO)
    BY <1>2, <2>1 DEF EsTermina
  <2>3. DeCpuMengua /\ ACpuMengua
    BY <1>2, SocketsQuietos DEF EsTermina
  <2>4. /\ "block" \in Colas /\ "block" # "exec" /\ cola'["block"] = RemoveFirst(cola["block"], hilo[d].pid)
        /\ cola'.cpus = cola.cpus
        /\ \A s \in Colas : s # "block" => cola'[s] = cola[s]
    BY <1>2, <2>1, ColaSacada DEF EsTermina, Colas
  <2>5. Mueve(d, "es_ready", Sacado(cola["block"], hilo[d].pid), NULO)
    BY <1>2, <2>1, <2>2, <2>3, <2>4, HilosDistintos DEF EsTermina, Mueve, Libre, Manos,
          ManosNew,
       ManosExec, ManosBlock, ManosExit, ConLista, ConCpu, TrasSigint
  <2>6. /\ "es_ready" \in Manos /\ Sacado(cola["block"], hilo[d].pid) \in Usados => Sacado(cola["block"], hilo[d].pid) = hilo[d].pid /\ Contains(cola["block"], hilo[d].pid)
        /\ hilo[d].pc \notin TrasSigint
    BY <1>2, <2>1, UsadosPids DEF EsTermina, Sacado, TiposNucleo, Manos, ManosNew, ManosExec,
       ManosBlock, ManosExit, ConLista, ConCpu, TrasSigint
  <2> QED
    BY <2>1, <2>2, <2>3, <2>4, <2>5, <2>6, ExclusionSacar
<1>3. CASE EsReady(d)
  <2>1. d \in Hilos /\ hilo[d].pc = "es_ready" /\ pid_count' = pid_count
    BY <1>3, HilosDistintos DEF EsReady, En
  <2>2. IrCon(d, "es_estado", hilo[d].pid, hilo[d].dato)
    BY <1>3, <2>1, AlIr DEF EsReady
  <2>3. DeCpuMengua /\ ACpuMengua
    BY <1>3, SocketsQuietos DEF EsReady
  <2>4. hilo[d].pid \in UsadoONulo
    BY <1>3, <2>1 DEF TiposHilo, HiloTipo
  <2>5. /\ "ready" \in Colas /\ "ready" # "exec" /\ cola'["ready"] = Append(cola["ready"], hilo[d].pid)
        /\ cola'.cpus = cola.cpus
        /\ \A s \in Colas : s # "ready" => cola'[s] = cola[s]
    BY <1>3, <2>4, <2>1, ColaPuesta DEF EsReady, Colas
  <2>6. Mueve(d, "es_estado", hilo[d].pid, hilo[d].dato)
    BY <1>3, <2>1, <2>2, <2>3, <2>4, <2>5, HilosDistintos DEF EsReady, Mueve, Libre, Manos,
       ManosNew, ManosExec, ManosBlock, ManosExit, ConLista, ConCpu, TrasSigint
  <2>7. hilo[d].pc \in Manos /\ "es_estado" \notin Manos
    BY <2>1 DEF Manos, ManosNew, ManosExec, ManosBlock, ManosExit, ConLista, ConCpu, TrasSigint
  <2> QED
    BY <2>1, <2>2, <2>3, <2>4, <2>5, <2>6, <2>7, ExclusionPoner
<1>4. CASE EsEstado(d)
  <2>1. d \in Hilos /\ hilo[d].pc = "es_estado" /\ pid_count' = pid_count
    BY <1>4, HilosDistintos DEF EsEstado, En
  <2>2. IrCon(d, "libre", NULO, NULO)
    BY <1>4, <2>1, AlTerminar DEF EsEstado
  <2>3. DeCpuMengua /\ ACpuMengua
    BY <1>4, SocketsQuietos DEF EsEstado
  <2>4. MismasColas /\ CpusMenguan
    BY <1>4, CpusQuietas DEF EsEstado, MismasColas
  <2>5. Mueve(d, "libre", NULO, NULO)
    BY <1>4, <2>1, <2>2, <2>3, <2>4, HilosDistintos DEF EsEstado, Mueve, Libre, Manos, ManosNew,
       ManosExec, ManosBlock, ManosExit, ConLista, ConCpu, TrasSigint
  <2> QED
    BY <1>4, <2>1, <2>2, <2>3, <2>4, <2>5, HilosDistintos, ExclusionIr DEF EsEstado, Sacado,
       Manos, ManosNew, ManosExec, ManosBlock, ManosExit, ConLista, ConCpu, TrasSigint
<1> QED
  BY <1>1, <1>2, <1>3, <1>4 DEF PasoDispositivo

(* The threads of the semaphores.                                          *)
LEMMA ExclusionSemaforo ==
  ASSUME Tipos, PidsContados, Exclusion, NEW s \in Sems, PasoSemaforo(s), cpu' = cpu
  PROVE  Exclusion'
<1> USE DEF Tipos, quieto, semaforosVars, sinMensajes, canales, SinSemaforos
<1>1. CASE SemSacarSolicitud(s)
  <2>1. s \in Hilos /\ hilo[s].pc = "libre" /\ pid_count' = pid_count
    BY <1>1, HilosDistintos DEF SemSacarSolicitud, En
  <2>2. IrCon(s, "sem_block", Head(solicitudes[s]), NULO)
    BY <1>1, <2>1 DEF SemSacarSolicitud
  <2>3. DeCpuMengua /\ ACpuMengua
    BY <1>1, SocketsQuietos DEF SemSacarSolicitud
  <2>4. MismasColas /\ CpusMenguan
    BY <1>1, CpusQuietas DEF SemSacarSolicitud, MismasColas
  <2>5. Mueve(s, "sem_block", Head(solicitudes[s]), NULO)
    BY <1>1, <2>1, <2>2, <2>3, <2>4, HilosDistintos DEF SemSacarSolicitud, Mueve, Libre, Manos,
       ManosNew, ManosExec, ManosBlock, ManosExit, ConLista, ConCpu, TrasSigint
  <2> QED
    BY <1>1, <2>1, <2>2, <2>3, <2>4, <2>5, HilosDistintos, ExclusionIr DEF SemSacarSolicitud,
       Sacado, Manos, ManosNew, ManosExec, ManosBlock, ManosExit, ConLista, ConCpu, TrasSigint
<1>2. CASE SemNadieEspera(s)
  <2>1. s \in Hilos /\ pid_count' = pid_count /\ hilo' = hilo
    BY <1>2, HilosDistintos DEF SemNadieEspera, En
  <2>2. IrCon(s, hilo[s].pc, hilo[s].pid, hilo[s].dato)
    BY <1>2, <2>1, AlQuedarse DEF SemNadieEspera
  <2>3. DeCpuMengua /\ ACpuMengua
    BY <1>2, SocketsQuietos DEF SemNadieEspera
  <2>4. MismasColas /\ CpusMenguan
    BY <1>2, CpusQuietas DEF SemNadieEspera, MismasColas
  <2>5. Mueve(s, hilo[s].pc, hilo[s].pid, hilo[s].dato)
    BY <1>2, <2>1, <2>2, <2>3, <2>4, HilosDistintos DEF SemNadieEspera, Mueve, Libre, Manos,
       ManosNew, ManosExec, ManosBlock, ManosExit, ConLista, ConCpu, TrasSigint
  <2> QED
    BY <1>2, <2>1, <2>2, <2>3, <2>4, <2>5, HilosDistintos, ExclusionIr DEF SemNadieEspera,
       Sacado, Manos, ManosNew, ManosExec, ManosBlock, ManosExit, ConLista, ConCpu, TrasSigint
<1>3. CASE SemBlock(s)
  <2>1. s \in Hilos /\ hilo[s].pc = "sem_block" /\ pid_count' = pid_count
    BY <1>3, HilosDistintos DEF SemBlock, En
  <2>2. IrCon(s, "sem_estado", Sacado(cola["block"], hilo[s].pid), NULO)
    BY <1>3, <2>1 DEF SemBlock
  <2>3. DeCpuMengua /\ ACpuMengua
    BY <1>3, SocketsQuietos DEF SemBlock
  <2>4. /\ "block" \in Colas /\ "block" # "exec" /\ cola'["block"] = RemoveFirst(cola["block"], hilo[s].pid)
        /\ cola'.cpus = cola.cpus
        /\ \A r \in Colas : r # "block" => cola'[r] = cola[r]
    BY <1>3, <2>1, ColaSacada DEF SemBlock, Colas
  <2>5. Mueve(s, "sem_estado", Sacado(cola["block"], hilo[s].pid), NULO)
    BY <1>3, <2>1, <2>2, <2>3, <2>4, HilosDistintos DEF SemBlock, Mueve, Libre, Manos, ManosNew,
       ManosExec, ManosBlock, ManosExit, ConLista, ConCpu, TrasSigint
  <2>6. /\ "sem_estado" \in Manos /\ Sacado(cola["block"], hilo[s].pid) \in Usados => Sacado(cola["block"], hilo[s].pid) = hilo[s].pid /\ Contains(cola["block"], hilo[s].pid)
        /\ hilo[s].pc \notin TrasSigint
    BY <1>3, <2>1, UsadosPids DEF SemBlock, Sacado, TiposNucleo, Manos, ManosNew, ManosExec,
       ManosBlock, ManosExit, ConLista, ConCpu, TrasSigint
  <2> QED
    BY <2>1, <2>2, <2>3, <2>4, <2>5, <2>6, ExclusionSacar
<1>4. CASE SemEstado(s)
  <2>1. s \in Hilos /\ hilo[s].pc = "sem_estado" /\ pid_count' = pid_count
    BY <1>4, HilosDistintos DEF SemEstado, En
  <2>2. IrCon(s, "sem_ready", hilo[s].pid, hilo[s].dato)
    BY <1>4, <2>1, AlIr DEF SemEstado
  <2>3. DeCpuMengua /\ ACpuMengua
    BY <1>4, SocketsQuietos DEF SemEstado
  <2>4. MismasColas /\ CpusMenguan
    BY <1>4, CpusQuietas DEF SemEstado, MismasColas
  <2>5. Mueve(s, "sem_ready", hilo[s].pid, hilo[s].dato)
    BY <1>4, <2>1, <2>2, <2>3, <2>4, HilosDistintos DEF SemEstado, Mueve, Libre, Manos,
          ManosNew,
       ManosExec, ManosBlock, ManosExit, ConLista, ConCpu, TrasSigint
  <2> QED
    BY <1>4, <2>1, <2>2, <2>3, <2>4, <2>5, HilosDistintos, ExclusionIr DEF SemEstado, Sacado,
       Manos, ManosNew, ManosExec, ManosBlock, ManosExit, ConLista, ConCpu, TrasSigint
<1>5. CASE SemReady(s)
  <2>1. s \in Hilos /\ hilo[s].pc = "sem_ready" /\ pid_count' = pid_count
    BY <1>5, HilosDistintos DEF SemReady, En
  <2>2. IrCon(s, "libre", NULO, NULO)
    BY <1>5, <2>1, AlTerminar DEF SemReady
  <2>3. DeCpuMengua /\ ACpuMengua
    BY <1>5, SocketsQuietos DEF SemReady
  <2>4. hilo[s].pid \in UsadoONulo
    BY <1>5, <2>1 DEF TiposHilo, HiloTipo
  <2>5. /\ "ready" \in Colas /\ "ready" # "exec" /\ cola'["ready"] = Append(cola["ready"], hilo[s].pid)
        /\ cola'.cpus = cola.cpus
        /\ \A r \in Colas : r # "ready" => cola'[r] = cola[r]
    BY <1>5, <2>4, <2>1, ColaPuesta DEF SemReady, Colas
  <2>6. Mueve(s, "libre", NULO, NULO)
    BY <1>5, <2>1, <2>2, <2>3, <2>4, <2>5, HilosDistintos DEF SemReady, Mueve, Libre, Manos,
       ManosNew, ManosExec, ManosBlock, ManosExit, ConLista, ConCpu, TrasSigint
  <2>7. hilo[s].pc \in Manos /\ "libre" \notin Manos
    BY <2>1 DEF Manos, ManosNew, ManosExec, ManosBlock, ManosExit, ConLista, ConCpu, TrasSigint
  <2> QED
    BY <2>1, <2>2, <2>3, <2>4, <2>5, <2>6, <2>7, ExclusionPoner
<1> QED
  BY <1>1, <1>2, <1>3, <1>4, <1>5 DEF PasoSemaforo

-----------------------------------------------------------------------------
(* The exclusions: the CPUs and the consoles.                              *)
LEMMA ExclusionSin ==
  ASSUME Exclusion, UNCHANGED <<pid_count, cola, hilo, mutex>>, CpuUnica',
         \A e \in Cpus, q \in Usados : Ejecuta(e, q)' => Ejecuta(e, q)
  PROVE  Exclusion'
<1> USE DEF Exclusion
<1>1. ListaTomada'
  BY DEF ListaTomada
<1>2. \A q : (Arrebatado(q)' <=> Arrebatado(q)) /\ (Lugares(q)' <=> Lugares(q))
  BY DEF Arrebatado, Lugares, EnMano
<1>3. Usados' = Usados
  BY DEF Usados
<1>4. UnLugar'
  BY <1>2, <1>3 DEF UnLugar
<1>5. EjecucionPropia'
  BY <1>2, EjecucionSigue
<1> QED
  BY <1>1, <1>4, <1>5

(* A CPU that keeps its process, or leaves it.                             *)
CpuComo(c) ==
  /\ \A d \in Cpus : d # c => cpu'[d] = cpu[d]
  /\ cpu'[c].hilo # "no" => cpu[c].hilo # "no" /\ cpu'[c].pid = cpu[c].pid
  /\ cpu'[c].proceso = "apagado" => cpu[c].proceso = "apagado"

LEMMA ExclusionComo ==
  ASSUME Exclusion, UNCHANGED <<pid_count, cola, hilo, mutex>>, NEW c \in Cpus, CpuComo(c),
         DeCpuMengua, ACpuMengua
  PROVE  Exclusion'
<1>1. CpuUnica'
  <2> SUFFICES ASSUME NEW e \in Cpus
               PROVE  UnaFicha(e)'
    BY DEF CpuUnica
  <2>1. UnaFicha(e)
    BY DEF Exclusion, CpuUnica
  <2>2. /\ UnId(deCpu'[e], IdsFicha) /\ UnId(aCpu'[e], {"PCB"}) /\ UnaVez(cola'.cpus, e)
        /\ FichaEnDe(e)' => FichaEnDe(e)
        /\ FichaEnA(e)' => FichaEnA(e)
        /\ FichaLibre(e)' => FichaLibre(e)
    BY <2>1 DEF UnaFicha, DeCpuMengua, ACpuMengua, Mengua, FichaEnDe, FichaEnA, FichaLibre
  <2>3. /\ FichaEnHilo(e)' => FichaEnHilo(e)
        /\ FichaEnExec(e)' => FichaEnExec(e)
        /\ FichaEnCpu(e)' => FichaEnCpu(e)
        /\ FichaPorNacer(e)' => FichaPorNacer(e)
    BY DEF FichaEnHilo, FichaEnExec, FichaEnCpu, FichaPorNacer, CpuComo
  <2> QED
    BY <2>1, <2>2, <2>3, FichaSigue
<1>2. ASSUME NEW e \in Cpus, NEW q \in Usados, Ejecuta(e, q)'
      PROVE  Ejecuta(e, q)
  <2>1. /\ HayPcb(deCpu'[e], IdsConPcb, q) => HayPcb(deCpu[e], IdsConPcb, q)
        /\ HayPcb(aCpu'[e], {"PCB"}, q) => HayPcb(aCpu[e], {"PCB"}, q)
    BY DEF DeCpuMengua, ACpuMengua, Mengua
  <2> QED
    BY <1>2, <2>1 DEF Ejecuta, CpuComo
<1> QED
  BY <1>1, <1>2, ExclusionSin

LEMMA AlEnviarSinFicha ==
  ASSUME TiposCanales, NEW c \in Cpus, NEW m \in MensajesDeCpu, m.id \notin IdsFicha, Enviar(c, m)
  PROVE  DeCpuMengua
<1>1. /\ deCpu'[c] = Append(deCpu[c], m) /\ \A d \in Cpus : d # c => deCpu'[d] = deCpu[d]
      /\ deCpu[c] \in Seq(MensajesDeCpu)
  BY EnviarTipado DEF TiposCanales
<1>2. m.id \notin IdsConPcb
  BY DEF IdsFicha
<1> QED
  BY <1>1, <1>2, MenguaAjeno, MenguaIgual DEF DeCpuMengua

LEMMA AlLlegarDelNucleo ==
  ASSUME TiposCanales, NEW c \in Cpus, NEW id, LlegaDelNucleo(c, id)
  PROVE  DeCpuMengua /\ ACpuMengua
<1>1. /\ aCpu[c] \in Seq(MensajesACpu) /\ aCpu[c] # <<>> /\ aCpu'[c] = Tail(aCpu[c])
      /\ \A d \in Cpus : d # c => aCpu'[d] = aCpu[d]
      /\ deCpu' = deCpu
  BY ACpuTipado
<1> QED
  BY <1>1, MenguaCabeza, MenguaIgual DEF DeCpuMengua, ACpuMengua

(* The right to execute goes from one place of a CPU to another.           *)
LEMMA FichaPasa ==
  ASSUME NEW c \in Cpus, CpuUnica, UNCHANGED <<cola, hilo>>,
         \A e \in Cpus : e # c => cpu'[e] = cpu[e] /\ deCpu'[e] = deCpu[e] /\ aCpu'[e] = aCpu[e],
         UnId(deCpu'[c], IdsFicha), UnId(aCpu'[c], {"PCB"}),
         FichaEnDe(c) \/ FichaEnA(c) \/ FichaEnCpu(c) \/ FichaPorNacer(c),
         FichaEnDe(c)' => ~FichaEnA(c)' /\ ~FichaEnCpu(c)' /\ ~FichaPorNacer(c)',
         FichaEnA(c)' => ~FichaEnCpu(c)' /\ ~FichaPorNacer(c)',
         FichaEnCpu(c)' => ~FichaPorNacer(c)'
  PROVE  CpuUnica'
<1> SUFFICES ASSUME NEW e \in Cpus
             PROVE  UnaFicha(e)'
  BY DEF CpuUnica
<1>1. UnaFicha(e)
  BY DEF CpuUnica
<1>2. /\ (FichaLibre(e)' <=> FichaLibre(e)) /\ (FichaEnExec(e)' <=> FichaEnExec(e))
      /\ (FichaEnHilo(e)' <=> FichaEnHilo(e))
  BY DEF FichaLibre, FichaEnExec, FichaEnHilo
<1>3. CASE e # c
  BY <1>1, <1>2, <1>3, FichaAjena
<1>4. CASE e = c
  <2>1. ~FichaLibre(c)' /\ ~FichaEnExec(c)' /\ ~FichaEnHilo(c)' /\ UnaVez(cola'.cpus, c)
    BY <1>1, <1>2, <1>4 DEF UnaFicha
  <2> QED
    BY <1>4, <2>1 DEF UnaFicha
<1> QED
  BY <1>3, <1>4

(* recibo_PCB.                                                             *)
LEMMA ExclusionAlRecibir ==
  ASSUME Tipos, Exclusion, UNCHANGED <<pid_count, cola, hilo, mutex>>, NEW c \in Cpus,
         LlegaDelNucleo(c, "PCB"), \A d \in Cpus : d # c => cpu'[d] = cpu[d],
         cpu'[c].pid = Head(aCpu[c]).pid, cpu'[c].proceso = cpu[c].proceso
  PROVE  Exclusion'
<1> USE DEF Tipos, Exclusion
<1>1. /\ aCpu[c] \in Seq(MensajesACpu) /\ aCpu[c] # <<>> /\ aCpu'[c] = Tail(aCpu[c])
      /\ \A d \in Cpus : d # c => aCpu'[d] = aCpu[d]
      /\ deCpu' = deCpu /\ Head(aCpu[c]).id = "PCB"
  BY ACpuTipado
<1>2. UnaFicha(c)
  BY DEF CpuUnica
<1>3. /\ FichaEnA(c) /\ UnId(aCpu'[c], {"PCB"}) /\ ~FichaEnA(c)'
      /\ HayPcb(aCpu[c], {"PCB"}, Head(aCpu[c]).pid)
  BY <1>1, <1>2, SinCabeza DEF UnaFicha, FichaEnA
<1>4. ~FichaEnDe(c)' /\ ~FichaPorNacer(c)' /\ UnId(deCpu'[c], IdsFicha)
  BY <1>1, <1>2, <1>3 DEF UnaFicha, FichaEnDe, FichaPorNacer
<1>5. CpuUnica'
  BY <1>1, <1>3, <1>4, FichaPasa
<1>6. ASSUME NEW e \in Cpus, NEW q \in Usados, Ejecuta(e, q)'
      PROVE  Ejecuta(e, q)
  <2>1. HayPcb(aCpu'[e], {"PCB"}, q) => HayPcb(aCpu[e], {"PCB"}, q)
    BY <1>1, SinCabeza
  <2> QED
    BY <1>1, <1>3, <1>6, <2>1 DEF Ejecuta
<1> QED
  BY <1>5, <1>6, ExclusionSin

(* enviar_PCB.                                                             *)
LEMMA ExclusionAlEnviar ==
  ASSUME Tipos, Exclusion, UNCHANGED <<pid_count, cola, hilo, mutex>>, NEW c \in Cpus,
         EnviarPcbAlNucleo(c)
  PROVE  Exclusion'
<1> USE DEF Tipos, Exclusion
<1>1. PICK id \in IdsConPcb, n \in Nat, b \in SUBSET cpu[c].banderas, s \in Seq(MensajesDeCpu) :
        /\ cpu' = [cpu EXCEPT ![c] = [cpu[c] EXCEPT !.banderas = b, !.hilo = "no", !.enviado = id,
                                                 !.terminadas = cpu[c].terminadas + n]]
        /\ s = deCpu[c] \/ s = Append(deCpu[c], MensajeCpu("IMPRIMIR", cpu[c].pid, NULO))
        /\ deCpu' = [deCpu EXCEPT ![c] = Append(s, MensajeCpu(id, cpu[c].pid, NULO))]
  BY AlEnviarPcb
<1> DEFINE texto == MensajeCpu("IMPRIMIR", cpu[c].pid, NULO)
           m == MensajeCpu(id, cpu[c].pid, NULO)
<1>2. /\ cpu[c].pid \in Usados /\ cpu[c].hilo = "sale" /\ aCpu' = aCpu
      /\ texto \in MensajesDeCpu /\ m \in MensajesDeCpu
      /\ texto.id = "IMPRIMIR" /\ m.id = id /\ m.pid = cpu[c].pid
      /\ "IMPRIMIR" \notin IdsFicha /\ "IMPRIMIR" \notin IdsConPcb /\ id \in IdsFicha
  BY AlEnviarPcb, Mensajes DEF MensajesDeCpu, MensajeCpu, IdsFicha
<1>3. /\ deCpu[c] \in Seq(MensajesDeCpu) /\ (s = deCpu[c] \/ s = Append(deCpu[c], texto))
      /\ deCpu'[c] = Append(s, m) /\ \A d \in Cpus : d # c => deCpu'[d] = deCpu[d]
  BY <1>1 DEF TiposCanales
<1>4. /\ \A d \in Cpus : d # c => cpu'[d] = cpu[d]
      /\ cpu'[c].hilo = "no" /\ cpu'[c].proceso = cpu[c].proceso
  BY <1>1 DEF TiposCpu, CpuTipo
<1> HIDE DEF texto, m
<1>5. /\ HayId(s, IdsFicha) <=> HayId(deCpu[c], IdsFicha)
      /\ UnId(deCpu[c], IdsFicha) => UnId(s, IdsFicha)
      /\ \A q : HayPcb(s, IdsConPcb, q) <=> HayPcb(deCpu[c], IdsConPcb, q)
  <2>1. CASE s = deCpu[c]
    BY <2>1
  <2>2. CASE s = Append(deCpu[c], texto)
    <3>1. deCpu[c] \in Seq(MensajesDeCpu) /\ texto \in MensajesDeCpu
      BY <1>2, <1>3
    <3>2. texto.id \notin IdsFicha /\ texto.id \notin IdsConPcb
      BY <1>2
    <3> QED
      BY <2>2, <3>1, <3>2, ConUltimo
  <2> QED
    BY <1>3, <2>1, <2>2
<1>6. /\ UnaFicha(c) /\ FichaEnCpu(c)
  BY <1>2 DEF CpuUnica, FichaEnCpu
<1>7. ~HayId(s, IdsFicha) /\ UnId(s, IdsFicha) /\ ~FichaEnA(c) /\ ~FichaPorNacer(c)
  BY <1>5, <1>6 DEF UnaFicha, FichaEnDe
<1>8. UnId(deCpu'[c], IdsFicha)
  BY <1>2, <1>3, <1>7, ConUltimo
<1>9. ~FichaEnA(c)' /\ ~FichaEnCpu(c)' /\ ~FichaPorNacer(c)' /\ UnId(aCpu'[c], {"PCB"})
  BY <1>2, <1>4, <1>6, <1>7 DEF UnaFicha, FichaEnA, FichaEnCpu, FichaPorNacer
<1>10. CpuUnica'
  BY <1>2, <1>3, <1>4, <1>6, <1>8, <1>9, FichaPasa
<1>11. ASSUME NEW e \in Cpus, NEW q \in Usados, Ejecuta(e, q)'
       PROVE  Ejecuta(e, q)
  <2>1. \A x : HayPcb(Append(s, m), IdsConPcb, x) =>
          HayPcb(deCpu[c], IdsConPcb, x) \/ x = cpu[c].pid
    BY <1>2, <1>5, ConUltimo
  <2>2. CASE e = c
    BY <1>2, <1>3, <1>4, <1>11, <2>1, <2>2 DEF Ejecuta
  <2>3. CASE e # c
    BY <1>2, <1>3, <1>4, <1>11, <2>3 DEF Ejecuta
  <2> QED
    BY <2>2, <2>3
<1> QED
  BY <1>10, <1>11, ExclusionSin

(* conecto_con_nucleo.                                                     *)
LEMMA ExclusionAlConectar ==
  ASSUME Tipos, Exclusion, UNCHANGED <<pid_count, cola, hilo, mutex>>, NEW c \in Cpus, Conectar(c)
  PROVE  Exclusion'
<1> USE DEF Tipos, Exclusion
<1> DEFINE m == MensajeCpu("HANDSHAKE", NULO, NULO)
<1>1. m \in MensajesDeCpu /\ m.id = "HANDSHAKE" /\ m.id \in IdsFicha /\ m.id \notin IdsConPcb
  BY Mensajes DEF MensajesDeCpu, MensajeCpu, IdsFicha
<1>2. Enviar(c, m) /\ aCpu' = aCpu /\ cpu[c].proceso = "apagado"
  BY DEF Conectar
<1>3. /\ \A d \in Cpus : d # c => cpu'[d] = cpu[d]
      /\ cpu'[c].hilo = cpu[c].hilo /\ cpu'[c].pid = cpu[c].pid /\ cpu'[c].proceso # "apagado"
  BY DEF Conectar, TiposCpu, CpuTipo
<1> HIDE DEF m
<1>4. /\ deCpu[c] \in Seq(MensajesDeCpu) /\ deCpu'[c] = Append(deCpu[c], m)
      /\ \A d \in Cpus : d # c => deCpu'[d] = deCpu[d]
  BY <1>1, <1>2, EnviarTipado DEF TiposCanales
<1>5. UnaFicha(c) /\ FichaPorNacer(c)
  BY <1>2 DEF CpuUnica, FichaPorNacer
<1>6. /\ ~FichaEnDe(c) /\ ~FichaEnA(c)' /\ ~FichaEnCpu(c)' /\ ~FichaPorNacer(c)'
      /\ UnId(aCpu'[c], {"PCB"}) /\ UnId(deCpu[c], IdsFicha)
  BY <1>2, <1>3, <1>5 DEF UnaFicha, FichaEnA, FichaEnCpu, FichaPorNacer
<1>7. UnId(deCpu'[c], IdsFicha)
  BY <1>1, <1>4, <1>6, ConUltimo DEF FichaEnDe
<1>8. CpuUnica'
  BY <1>2, <1>3, <1>4, <1>5, <1>6, <1>7, FichaPasa
<1>9. ASSUME NEW e \in Cpus, NEW q \in Usados, Ejecuta(e, q)'
      PROVE  Ejecuta(e, q)
  <2>1. HayPcb(deCpu'[e], IdsConPcb, q) => HayPcb(deCpu[e], IdsConPcb, q)
    <3>1. CASE e = c
      <4>1. HayPcb(Append(deCpu[c], m), IdsConPcb, q) <=>
              HayPcb(deCpu[c], IdsConPcb, q) \/ (m.id \in IdsConPcb /\ m.pid = q)
        BY <1>1, <1>4, ConUltimo
      <4> QED
        BY <1>1, <1>4, <3>1, <4>1
    <3>2. CASE e # c
      BY <1>4, <3>2
    <3> QED
      BY <3>1, <3>2
  <2> QED
    BY <1>2, <1>3, <1>9, <2>1 DEF Ejecuta
<1> QED
  BY <1>8, <1>9, ExclusionSin

LEMMA ExclusionCpu ==
  ASSUME Tipos, PidsContados, Exclusion, NEW c \in Cpus, PasoCpu(c), UNCHANGED nucleoVars
  PROVE  Exclusion'
<1> USE DEF Tipos, SinEnviar, canales
<1>0. DeLaCpu(c) /\ UNCHANGED <<pid_count, cola, hilo, mutex>>
  BY CpuConocida DEF nucleoVars
<1>1. CASE RecibirPcb(c)
  <2>1. /\ LlegaDelNucleo(c, "PCB") /\ \A d \in Cpus : d # c => cpu'[d] = cpu[d]
        /\ cpu'[c].pid = Head(aCpu[c]).pid /\ cpu'[c].proceso = cpu[c].proceso
    BY <1>0, <1>1 DEF RecibirPcb, DeLaCpu, CpuTipo
  <2> QED
    BY <1>0, <2>1, ExclusionAlRecibir
<1>2. CASE PcbSinUmc(c)
  <2>1. /\ LlegaDelNucleo(c, "PCB") /\ \A d \in Cpus : d # c => cpu'[d] = cpu[d]
        /\ cpu'[c].pid = Head(aCpu[c]).pid /\ cpu'[c].proceso = cpu[c].proceso
    BY <1>0, <1>2 DEF PcbSinUmc, DeLaCpu, CpuTipo
  <2> QED
    BY <1>0, <2>1, ExclusionAlRecibir
<1>3. CASE RecibirMatar(c)
  <2>1. CpuComo(c)
    BY <1>0, <1>3 DEF RecibirMatar, CpuComo, DeLaCpu, CpuTipo, InstruccionTerminada, Vivo,
          EnBucle
  <2>2. DeCpuMengua /\ ACpuMengua
    BY <1>3, AlLlegarDelNucleo DEF RecibirMatar
  <2> QED
    BY <1>0, <2>1, <2>2, ExclusionComo
<1>4. CASE RecibirWait(c)
  <2>1. CpuComo(c)
    BY <1>0, <1>4 DEF RecibirWait, CpuComo, DeLaCpu, CpuTipo, InstruccionTerminada, Vivo,
          EnBucle
  <2>2. DeCpuMengua /\ ACpuMengua
    BY <1>4, AlLlegarDelNucleo DEF RecibirWait
  <2> QED
    BY <1>0, <2>1, <2>2, ExclusionComo
<1>5. CASE RecibirSeguiRafaga(c)
  <2>1. CpuComo(c)
    BY <1>0, <1>5 DEF RecibirSeguiRafaga, CpuComo, DeLaCpu, CpuTipo, InstruccionTerminada,
          Vivo, EnBucle
  <2>2. DeCpuMengua /\ ACpuMengua
    BY <1>5, AlLlegarDelNucleo DEF RecibirSeguiRafaga
  <2> QED
    BY <1>0, <2>1, <2>2, ExclusionComo
<1>6. CASE Imprimir(c)
  <2>1. CpuComo(c)
    BY <1>0, <1>6 DEF Imprimir, CpuComo, DeLaCpu, CpuTipo, InstruccionTerminada, Vivo, EnBucle
  <2> DEFINE m == MensajeCpu("IMPRIMIR", cpu[c].pid, NULO)
  <2>2. m \in MensajesDeCpu /\ m.id \notin IdsFicha /\ Enviar(c, m) /\ aCpu' = aCpu
    BY <1>0, <1>6, Mensajes, InstruccionTipo DEF Imprimir, MensajesDeCpu, MensajeCpu, IdsFicha,
          EnBucle,
       Actual, TiposNucleo, DeLaCpu
  <2> HIDE DEF m
  <2>3. DeCpuMengua /\ ACpuMengua
    BY <2>2, AlEnviarSinFicha, MenguaIgual DEF ACpuMengua
  <2> QED
    BY <1>0, <2>1, <2>3, ExclusionComo
<1>7. CASE Signal(c)
  <2>1. CpuComo(c)
    BY <1>0, <1>7 DEF Signal, CpuComo, DeLaCpu, CpuTipo, InstruccionTerminada, Vivo, EnBucle
  <2> DEFINE m == MensajeCpu("SIGNAL", cpu[c].pid, Actual(c).arg)
  <2>2. m \in MensajesDeCpu /\ m.id \notin IdsFicha /\ Enviar(c, m) /\ aCpu' = aCpu
    BY <1>0, <1>7, Mensajes, InstruccionTipo DEF Signal, MensajesDeCpu, MensajeCpu, IdsFicha,
          EnBucle,
       Actual, TiposNucleo, DeLaCpu
  <2> HIDE DEF m
  <2>3. DeCpuMengua /\ ACpuMengua
    BY <2>2, AlEnviarSinFicha, MenguaIgual DEF ACpuMengua
  <2> QED
    BY <1>0, <2>1, <2>3, ExclusionComo
<1>8. CASE Finalizar(c)
  <2>1. CpuComo(c)
    BY <1>0, <1>8 DEF Finalizar, CpuComo, DeLaCpu, CpuTipo, InstruccionTerminada, Vivo, EnBucle
  <2>2. DeCpuMengua /\ ACpuMengua
    BY <1>8, SocketsQuietos DEF Finalizar
  <2> QED
    BY <1>0, <2>1, <2>2, ExclusionComo
<1>9. CASE EntradaSalida(c)
  <2>1. CpuComo(c)
    BY <1>0, <1>9 DEF EntradaSalida, CpuComo, DeLaCpu, CpuTipo, InstruccionTerminada, Vivo,
          EnBucle
  <2>2. DeCpuMengua /\ ACpuMengua
    BY <1>9, SocketsQuietos DEF EntradaSalida
  <2> QED
    BY <1>0, <2>1, <2>2, ExclusionComo
<1>10. CASE Wait(c)
  <2>1. CpuComo(c)
    BY <1>0, <1>10 DEF Wait, CpuComo, DeLaCpu, CpuTipo, InstruccionTerminada, Vivo, EnBucle
  <2> DEFINE m == MensajeCpu("WAIT", cpu[c].pid, Actual(c).arg)
  <2>2. m \in MensajesDeCpu /\ m.id \notin IdsFicha /\ Enviar(c, m) /\ aCpu' = aCpu
    BY <1>0, <1>10, Mensajes, InstruccionTipo DEF Wait, MensajesDeCpu, MensajeCpu, IdsFicha,
          EnBucle,
       Actual, TiposNucleo, DeLaCpu
  <2> HIDE DEF m
  <2>3. DeCpuMengua /\ ACpuMengua
    BY <2>2, AlEnviarSinFicha, MenguaIgual DEF ACpuMengua
  <2> QED
    BY <1>0, <2>1, <2>3, ExclusionComo
<1>11. CASE FinWait(c)
  <2>1. CpuComo(c)
    BY <1>0, <1>11 DEF FinWait, CpuComo, DeLaCpu, CpuTipo, InstruccionTerminada, Vivo, EnBucle
  <2>2. DeCpuMengua /\ ACpuMengua
    BY <1>11, SocketsQuietos DEF FinWait
  <2> QED
    BY <1>0, <2>1, <2>2, ExclusionComo
<1>12. CASE Falla(c)
  <2>1. CpuComo(c)
    BY <1>0, <1>12 DEF Falla, CpuComo, DeLaCpu, CpuTipo, InstruccionTerminada, Vivo, EnBucle
  <2>2. DeCpuMengua /\ ACpuMengua
    BY <1>12, SocketsQuietos DEF Falla
  <2> QED
    BY <1>0, <2>1, <2>2, ExclusionComo
<1>13. CASE SalirDelBucle(c)
  <2>1. CpuComo(c)
    BY <1>0, <1>13 DEF SalirDelBucle, CpuComo, DeLaCpu, CpuTipo, InstruccionTerminada, Vivo,
          EnBucle
  <2>2. DeCpuMengua /\ ACpuMengua
    BY <1>13, SocketsQuietos DEF SalirDelBucle
  <2> QED
    BY <1>0, <2>1, <2>2, ExclusionComo
<1>14. CASE EnviarPcbAlNucleo(c)
  BY <1>0, <1>14, ExclusionAlEnviar
<1>15. CASE FinEnviarPcb(c)
  <2>1. CpuComo(c)
    BY <1>0, <1>15 DEF FinEnviarPcb, CpuComo, DeLaCpu, CpuTipo, InstruccionTerminada, Vivo,
          EnBucle
  <2>2. DeCpuMengua /\ ACpuMengua
    BY <1>15, SocketsQuietos DEF FinEnviarPcb
  <2> QED
    BY <1>0, <2>1, <2>2, ExclusionComo
<1>16. CASE EnviarEs(c)
  <2>1. CpuComo(c)
    BY <1>0, <1>16 DEF EnviarEs, CpuComo, DeLaCpu, CpuTipo, InstruccionTerminada, Vivo, EnBucle
  <2>2. PICK i \in 1..Len(cpu[c].io) : Enviar(c, cpu[c].io[i])
    BY <1>16 DEF EnviarEs
  <2>3. cpu[c].io[i] \in [id : {"ENTRADA_SALIDA"}, pid : Usados, arg : Dispositivos]
    BY <1>0, ElementOfSeq DEF DeLaCpu, CpuTipo
  <2>4. cpu[c].io[i] \in MensajesDeCpu /\ cpu[c].io[i].id \notin IdsFicha
    BY <2>3, Mensajes DEF MensajesDeCpu, IdsFicha
  <2>5. DeCpuMengua /\ ACpuMengua
    BY <1>16, <2>2, <2>4, AlEnviarSinFicha, MenguaIgual DEF EnviarEs, ACpuMengua
  <2> QED
    BY <1>0, <2>1, <2>5, ExclusionComo
<1>17. CASE FinEs(c)
  <2>1. CpuComo(c)
    BY <1>0, <1>17 DEF FinEs, CpuComo, DeLaCpu, CpuTipo, InstruccionTerminada, Vivo, EnBucle
  <2>2. DeCpuMengua /\ ACpuMengua
    BY <1>17, SocketsQuietos DEF FinEs
  <2> QED
    BY <1>0, <2>1, <2>2, ExclusionComo
<1>18. CASE Conectar(c)
  BY <1>0, <1>18, ExclusionAlConectar
<1>19. CASE FinConectar(c)
  <2>1. CpuComo(c)
    BY <1>0, <1>19 DEF FinConectar, CpuComo, DeLaCpu, CpuTipo, InstruccionTerminada, Vivo,
          EnBucle
  <2>2. DeCpuMengua /\ ACpuMengua
    BY <1>19, SocketsQuietos DEF FinConectar
  <2> QED
    BY <1>0, <2>1, <2>2, ExclusionComo
<1>20. CASE SenialOcupada(c)
  <2>1. CpuComo(c)
    BY <1>0, <1>20 DEF SenialOcupada, CpuComo, DeLaCpu, CpuTipo, InstruccionTerminada, Vivo,
          EnBucle
  <2>2. DeCpuMengua /\ ACpuMengua
    BY <1>20, SocketsQuietos DEF SenialOcupada
  <2> QED
    BY <1>0, <2>1, <2>2, ExclusionComo
<1>21. CASE SenialLibre(c)
  <2>1. CpuComo(c)
    BY <1>0, <1>21 DEF SenialLibre, CpuComo, DeLaCpu, CpuTipo, InstruccionTerminada, Vivo,
          EnBucle
  <2> DEFINE m == MensajeCpu("DESCONEXION", NULO, NULO)
  <2>2. m \in MensajesDeCpu /\ m.id \notin IdsFicha /\ Enviar(c, m) /\ aCpu' = aCpu
    BY <1>0, <1>21, Mensajes, InstruccionTipo DEF SenialLibre, MensajesDeCpu, MensajeCpu,
          IdsFicha, EnBucle,
       Actual, TiposNucleo, DeLaCpu
  <2> HIDE DEF m
  <2>3. DeCpuMengua /\ ACpuMengua
    BY <2>2, AlEnviarSinFicha, MenguaIgual DEF ACpuMengua
  <2> QED
    BY <1>0, <2>1, <2>3, ExclusionComo
<1>22. CASE FinSenial(c)
  <2>1. CpuComo(c)
    BY <1>0, <1>22 DEF FinSenial, CpuComo, DeLaCpu, CpuTipo, InstruccionTerminada, Vivo, EnBucle
  <2>2. DeCpuMengua /\ ACpuMengua
    BY <1>22, SocketsQuietos DEF FinSenial
  <2> QED
    BY <1>0, <2>1, <2>2, ExclusionComo
<1>23. CASE CerrarCpu(c)
  <2>1. CpuComo(c)
    BY <1>0, <1>23 DEF CerrarCpu, CpuComo, DeLaCpu, CpuTipo, InstruccionTerminada, Vivo, EnBucle
  <2>2. DeCpuMengua /\ ACpuMengua
    BY <1>23, SocketsQuietos DEF CerrarCpu
  <2> QED
    BY <1>0, <2>1, <2>2, ExclusionComo
<1>24. ASSUME NEW bandera, Senial(c, bandera)
      PROVE  Exclusion'
  <2>1. CpuComo(c)
    BY <1>0, <1>24 DEF Senial, CpuComo, DeLaCpu, CpuTipo, InstruccionTerminada, Vivo, EnBucle
  <2>2. DeCpuMengua /\ ACpuMengua
    BY <1>24, SocketsQuietos DEF Senial
  <2> QED
    BY <1>0, <2>1, <2>2, ExclusionComo
<1> QED
  BY <1>1, <1>2, <1>3, <1>4, <1>5, <1>6, <1>7, <1>8, <1>9, <1>10, <1>11, <1>12, <1>13, <1>14,
     <1>15, <1>16, <1>17, <1>18, <1>19, <1>20, <1>21, <1>22, <1>23, <1>24
     DEF PasoCpu, LeerCpu, EjecutarCpu, IoCpu, PrincipalCpu, Seniales

LEMMA ExclusionQuieta ==
  ASSUME Exclusion, UNCHANGED <<pid_count, cola, hilo, mutex, cpu, deCpu, aCpu>>
  PROVE  Exclusion'
<1>1. \A c : UnaFicha(c)' <=> UnaFicha(c)
  BY DEF UnaFicha, FichaEnDe, FichaEnA, FichaLibre, FichaEnExec, FichaEnCpu, FichaEnHilo,
         FichaPorNacer
<1>2. CpuUnica'
  BY <1>1 DEF Exclusion, CpuUnica
<1>3. \A c \in Cpus, q \in Usados : Ejecuta(c, q)' => Ejecuta(c, q)
  BY DEF Ejecuta
<1> QED
  BY <1>2, <1>3, ExclusionSin

LEMMA ExclusionNucleo ==
  ASSUME Tipos, PidsContados, Exclusion, NucleoNext, cpu' = cpu
  PROVE  Exclusion'
<1>1. ASSUME NEW c \in Cpus, PasoCpuNucleo(c)
      PROVE  Exclusion'
  <2>1. ASSUME NEW id \in {"QUANTUM", "PROGRAMA_FINALIZADO", "EXCEPCION_UMC",
                           "ENTRADA_SALIDA_PCB", "WAIT_PCB"},
               NEW siguiente \in {"quantum_lista", "fin_exit", "es_block", "wait_block"},
               SacarDeExec(c, id, siguiente)
        PROVE  Exclusion'
    <3>1. id \in IdsConPcb /\ siguiente \notin ConLista
      BY Mensajes DEF ConLista
    <3> QED
      BY <2>1, <3>1, ExclusionSacarDeExec
  <2> QED
    BY <1>1, <2>1, ExclusionMensaje, ExclusionMatado, ExclusionManejador DEF PasoCpuNucleo
<1>2. CASE NucleoCae
  BY <1>2, ExclusionQuieta DEF NucleoCae, canales
<1> QED
  BY <1>1, <1>2, ExclusionConsola, ExclusionUmc, ExclusionExec, ExclusionDispositivo,
     ExclusionSemaforo DEF NucleoNext

LEMMA ExclusionNext ==
  ASSUME Tipos, PidsContados, Exclusion, [Next]_vars
  PROVE  Exclusion'
<1>1. CASE DelNucleo(NucleoNext)
  BY <1>1, ExclusionNucleo DEF DelNucleo
<1>2. ASSUME NEW c \in Cpus, DelCpu(PasoCpu(c))
      PROVE  Exclusion'
  BY <1>2, ExclusionCpu DEF DelCpu
<1>3. ASSUME NEW k \in DOMAIN escenario.programa, DeConsola(LaConsola(k))
      PROVE  Exclusion'
  <2>1. UNCHANGED <<pid_count, cola, hilo, mutex, cpu>>
    BY <1>3 DEF DeConsola, nucleoVars
  <2>2. UNCHANGED <<deCpu, aCpu>>
    BY <1>3 DEF DeConsola, LaConsola, Arrancar, AtenderNucleo, CtrlC, CerrarConsola, canales
  <2> QED
    BY <2>1, <2>2, ExclusionQuieta
<1>4. CASE UNCHANGED vars
  BY <1>4, ExclusionQuieta DEF vars, canales, nucleoVars
<1> QED
  BY <1>1, <1>2, <1>3, <1>4 DEF Next

LEMMA ExclusionInit ==
  ASSUME Init
  PROVE  Exclusion
<1> USE DEF Init, CanalesInit, NucleoInit, CpuInit
<1>1. \A h \in Hilos : hilo[h].pc = "libre" /\ hilo[h].pid = NULO
  BY DEF Ocioso
<1>2. hilo[HiloExec].pc = "libre" /\ \A c \in Cpus : hilo[c].pc = "libre"
  BY <1>1, HilosDistintos
<1>3. ListaTomada
  BY <1>1 DEF ListaTomada, ConLista
<1>4. UnLugar
  <2>1. \A q \in Colas : cola[q] = <<>>
    BY DEF Colas
  <2>2. \A h \in Hilos : \A p : ~EnMano(h, p)
    BY <1>1 DEF EnMano, Manos, ManosNew, ManosExec, ManosBlock, ManosExit
  <2> QED
    BY <2>1, <2>2 DEF UnLugar, Lugares, UnaVez, Contains
<1>5. CpuUnica
  <2> SUFFICES ASSUME NEW c \in Cpus
               PROVE  UnaFicha(c)
    BY DEF CpuUnica
  <2>1. deCpu[c] = <<>> /\ aCpu[c] = <<>> /\ cola.cpus = <<>> /\ cpu[c].hilo = "no"
    OBVIOUS
  <2>2. UnId(deCpu[c], IdsFicha) /\ UnId(aCpu[c], {"PCB"}) /\ UnaVez(cola.cpus, c)
    BY <2>1 DEF UnId, UnaVez
  <2>3. ~FichaEnDe(c) /\ ~FichaEnA(c) /\ ~FichaLibre(c) /\ ~FichaEnExec(c) /\ ~FichaEnCpu(c)
        /\ ~FichaEnHilo(c)
    BY <1>2, <2>1 DEF FichaEnDe, FichaEnA, FichaLibre, FichaEnExec, FichaEnCpu, FichaEnHilo,
       HayId, Contains, ConCpu
  <2> QED
    BY <2>2, <2>3 DEF UnaFicha
<1>6. EjecucionPropia
  <2>1. \A c \in Cpus : deCpu[c] = <<>> /\ aCpu[c] = <<>> /\ cpu[c].hilo = "no"
    OBVIOUS
  <2>2. \A c \in Cpus : \A p : ~Ejecuta(c, p)
    BY <1>2, <2>1 DEF Ejecuta, HayPcb
  <2> QED
    BY <2>2 DEF EjecucionPropia
<1> QED
  BY <1>3, <1>4, <1>5, <1>6 DEF Exclusion

-----------------------------------------------------------------------------
(* From the facts about each place to the counts of UnSoloLugar and        *)
(* EjecucionUnica.                                                         *)
LEMMA ALoSumoUno ==
  ASSUME NEW S, IsFiniteSet(S), NEW T \in SUBSET S, \A x, y \in T : x = y
  PROVE  /\ Cardinality(T) \in {0, 1}
         /\ T = {} => Cardinality(T) = 0
<1>1. CASE T = {}
  BY <1>1, FS_EmptySet
<1>2. CASE T # {}
  <2>1. PICK x : T = {x}
    BY <1>2
  <2> QED
    BY <1>2, <2>1, FS_Singleton
<1> QED
  BY <1>1, <1>2

LEMMA VecesUnaVez ==
  ASSUME NEW S, NEW s \in Seq(S), NEW x, UnaVez(s, x)
  PROVE  /\ Veces(s, x) \in {0, 1}
         /\ ~Contains(s, x) => Veces(s, x) = 0
<1> DEFINE T == {i \in 1..Len(s) : s[i] = x}
<1>1. IsFiniteSet(1..Len(s)) /\ T \in SUBSET (1..Len(s))
  BY FS_Interval, LenProperties
<1>2. \A i, j \in T : i = j
  BY DEF UnaVez
<1>3. ~Contains(s, x) => T = {}
  BY DEF Contains
<1> HIDE DEF T
<1>4. Cardinality(T) \in {0, 1} /\ (T = {} => Cardinality(T) = 0)
  BY <1>1, <1>2, ALoSumoUno
<1> QED
  BY <1>3, <1>4 DEF Veces, T

(* The messages of one kind in a socket.                                   *)
LEMMA CuantosUnId ==
  ASSUME NEW S, NEW s \in Seq(S), NEW I, UnId(s, I),
         NEW T \in SUBSET (1..Len(s)), \A i \in T : s[i].id \in I
  PROVE  /\ Cardinality(T) \in {0, 1}
         /\ ~HayId(s, I) => Cardinality(T) = 0
<1>1. IsFiniteSet(1..Len(s))
  BY FS_Interval, LenProperties
<1>2. \A i, j \in T : i = j
  BY DEF UnId
<1>3. ~HayId(s, I) => T = {}
  BY DEF HayId
<1>4. Cardinality(T) \in {0, 1} /\ (T = {} => Cardinality(T) = 0)
  BY <1>1, <1>2, ALoSumoUno
<1> QED
  BY <1>3, <1>4

LEMMA ProcesoNuevo ==
  ASSUME Tipos, PidsContados, NEW p \in Pids, p \notin Usados
  PROVE  /\ \A q \in Colas : ~Contains(cola[q], p)
         /\ \A h \in Hilos : hilo[h].pid # p
<1>1. p \notin UsadoONulo
  BY UsadosPids, SupuestoCanales DEF Pids, UsadoONulo, Tipos
<1>2. \A q \in Colas : ~Contains(cola[q], p)
  BY <1>1 DEF Tipos, TiposCola, Contains
<1>3. \A h \in Hilos : hilo[h].pid # p
  BY <1>1 DEF Tipos, TiposHilo, HiloTipo
<1> QED
  BY <1>2, <1>3

LEMMA LugaresContados ==
  ASSUME Tipos, NEW p \in Pids, Lugares(p)
  PROVE  Veces(cola.new, p) + Veces(cola.ready, p) + Veces(cola.exec, p)
           + Veces(cola.block, p) + Veces(cola.exit, p) + Cardinality(EnManos(p, Manos)) <= 1
<1> DEFINE M == EnManos(p, Manos)
<1>1. \A q \in Colas : /\ Veces(cola[q], p) \in {0, 1}
                       /\ ~Contains(cola[q], p) => Veces(cola[q], p) = 0
  BY VecesUnaVez DEF Tipos, TiposCola, Lugares
<1>2. M \in SUBSET Hilos /\ IsFiniteSet(Hilos)
  BY SupuestoHilos DEF EnManos
<1>3. \A g, h \in M : g = h
  BY DEF EnManos, EnMano, Lugares
<1>4. Cardinality(M) \in {0, 1} /\ (M = {} => Cardinality(M) = 0)
  BY <1>2, <1>3, ALoSumoUno
<1>5. \A q \in Colas : Contains(cola[q], p) => M = {}
  BY DEF EnManos, EnMano, Lugares
<1>6. \A q, r \in Colas : Contains(cola[q], p) /\ Contains(cola[r], p) => q = r
  BY DEF Lugares
<1> HIDE DEF M
<1>7. CASE \E q \in Colas : Contains(cola[q], p)
  <2>1. PICK q \in Colas : Contains(cola[q], p)
    BY <1>7
  <2>2. Cardinality(M) = 0 /\ Veces(cola[q], p) <= 1
    BY <1>1, <1>4, <1>5, <2>1
  <2>3. \A r \in Colas : r # q => Veces(cola[r], p) = 0
    BY <1>1, <1>6, <2>1
  <2> QED
    BY <2>2, <2>3, <1>1 DEF Colas, M
<1>8. CASE \A q \in Colas : ~Contains(cola[q], p)
  <2>1. \A q \in Colas : Veces(cola[q], p) = 0
    BY <1>1, <1>8
  <2> QED
    BY <2>1, <1>4 DEF Colas, M
<1> QED
  BY <1>7, <1>8

LEMMA UnSoloLugarDeExclusion ==
  ASSUME Tipos, PidsContados, Exclusion
  PROVE  UnSoloLugar
<1> SUFFICES ASSUME NEW p \in Pids, ~Arrebatado(p)
             PROVE  Lugares(p)
  BY LugaresContados DEF UnSoloLugar
<1>1. CASE p \in Usados
  BY <1>1 DEF Exclusion, UnLugar
<1>2. CASE p \notin Usados
  <2>1. /\ \A q \in Colas : ~Contains(cola[q], p)
        /\ \A h \in Hilos : ~EnMano(h, p)
    BY <1>2, ProcesoNuevo DEF EnMano
  <2>2. \A q \in Colas : UnaVez(cola[q], p)
    BY <2>1 DEF UnaVez, Contains
  <2> QED
    BY <2>1, <2>2 DEF Lugares
<1> QED
  BY <1>1, <1>2

LEMMA TieneEjecuta ==
  ASSUME Tipos, NEW c \in Cpus, NEW p \in Pids, Tiene(c, p)
  PROVE  Ejecuta(c, p) /\ p \in Usados
<1>1. CASE \E i \in Ida(c) : aCpu[c][i].pid = p
  <2>1. PICK i \in 1..Len(aCpu[c]) : aCpu[c][i].id = "PCB" /\ aCpu[c][i].pid = p
    BY <1>1 DEF Ida
  <2>2. aCpu[c][i] \in MensajesACpu
    BY <2>1 DEF Tipos, TiposCanales
  <2>3. p \in Usados
    BY <2>1, <2>2 DEF MensajesACpu
  <2> QED
    BY <2>1, <2>3 DEF Ejecuta, HayPcb
<1>2. CASE cpu[c].hilo # "no" /\ cpu[c].pid = p
  BY <1>2 DEF Ejecuta, Tipos, TiposCpu
<1>3. CASE \E i \in Vuelta(c) : deCpu[c][i].pid = p
  <2>1. PICK i \in 1..Len(deCpu[c]) : deCpu[c][i].id \in IdsConPcb /\ deCpu[c][i].pid = p
    BY <1>3 DEF Vuelta
  <2>2. deCpu[c][i] \in MensajesDeCpu
    BY <2>1 DEF Tipos, TiposCanales
  <2>3. p \in Usados
    BY <2>1, <2>2, Mensajes DEF MensajesDeCpu
  <2> QED
    BY <2>1, <2>3 DEF Ejecuta, HayPcb
<1> QED
  BY <1>1, <1>2, <1>3 DEF Tiene

LEMMA EjecucionUnicaDeExclusion ==
  ASSUME Tipos, Exclusion
  PROVE  EjecucionUnica
<1>1. ASSUME NEW c \in Cpus
      PROVE  Cardinality(Ida(c)) + (IF cpu[c].hilo = "no" THEN 0 ELSE 1)
               + Cardinality(Vuelta(c)) + Veces(cola.cpus, c) <= 1
  <2>1. UnaFicha(c)
    BY DEF Exclusion, CpuUnica
  <2>2. Cardinality(Ida(c)) \in {0, 1} /\ (~FichaEnA(c) => Cardinality(Ida(c)) = 0)
    <3>1. aCpu[c] \in Seq(MensajesACpu) /\ UnId(aCpu[c], {"PCB"})
      BY <2>1 DEF UnaFicha, Tipos, TiposCanales
    <3>2. Ida(c) \in SUBSET (1..Len(aCpu[c])) /\ \A i \in Ida(c) : aCpu[c][i].id \in {"PCB"}
      BY DEF Ida
    <3> QED
      BY <3>1, <3>2, CuantosUnId DEF FichaEnA
  <2>3. Cardinality(Vuelta(c)) \in {0, 1} /\ (~FichaEnDe(c) => Cardinality(Vuelta(c)) = 0)
    <3>1. /\ deCpu[c] \in Seq(MensajesDeCpu) /\ UnId(deCpu[c], IdsFicha)
          /\ IdsConPcb \subseteq IdsFicha
      BY <2>1 DEF UnaFicha, Tipos, TiposCanales, IdsFicha
    <3>2. /\ Vuelta(c) \in SUBSET (1..Len(deCpu[c]))
          /\ \A i \in Vuelta(c) : deCpu[c][i].id \in IdsFicha
      BY <3>1 DEF Vuelta
    <3> QED
      BY <3>1, <3>2, CuantosUnId DEF FichaEnDe
  <2>4. Veces(cola.cpus, c) \in {0, 1} /\ (~FichaLibre(c) => Veces(cola.cpus, c) = 0)
    BY <2>1, VecesUnaVez DEF UnaFicha, FichaLibre, Tipos, TiposCola
  <2>5. /\ FichaEnDe(c) => ~FichaEnA(c) /\ ~FichaLibre(c) /\ ~FichaEnCpu(c)
        /\ FichaEnA(c) => ~FichaLibre(c) /\ ~FichaEnCpu(c)
        /\ FichaLibre(c) => ~FichaEnCpu(c)
        /\ FichaEnCpu(c) <=> cpu[c].hilo # "no"
    BY <2>1 DEF UnaFicha, FichaEnCpu
  <2> QED
    BY <2>2, <2>3, <2>4, <2>5
<1>2. ASSUME NEW c \in Cpus, NEW d \in Cpus, NEW p \in Pids, Tiene(c, p), Tiene(d, p)
      PROVE  c = d
  BY <1>2, TieneEjecuta DEF Exclusion, EjecucionPropia
<1>3. ASSUME NEW c \in Cpus, NEW p \in Pids, Tiene(c, p)
      PROVE  Contains(cola.exec, p) \/ Arrebatado(p)
  BY <1>3, TieneEjecuta DEF Exclusion, EjecucionPropia
<1> QED
  BY <1>1, <1>2, <1>3 DEF EjecucionUnica

LEMMA ExclusionSiempre == Spec => [](Tipos /\ PidsContados /\ Exclusion)
<1>1. Init => Tipos /\ PidsContados /\ Exclusion
  BY TiposInit, PidsInit, ExclusionInit
<1>2. Tipos /\ PidsContados /\ Exclusion /\ [Next]_vars => Tipos' /\ PidsContados' /\ Exclusion'
  BY TiposNext, PidsNext, ExclusionNext
<1> QED
  BY <1>1, <1>2, PTL DEF Spec

(* Whatever the users do, a process is in one queue, or in the hands of    *)
(* one thread, and never in both: the handlers, mover_a_exec, the devices, *)
(* the semaphores and the two killers leave no PCB twice and lose none     *)
(* between two queues to another thread.                                   *)
THEOREM UnLugarPorProceso == Spec => []UnSoloLugar
<1>1. Tipos /\ PidsContados /\ Exclusion => UnSoloLugar
  BY UnSoloLugarDeExclusion
<1> QED
  BY <1>1, ExclusionSiempre, PTL

(* Whatever the users do, the right to execute in a CPU is in one place    *)
(* (its socket, its thread, cola_cpus), no process executes in two CPUs,   *)
(* and the Nucleo keeps the process that executes in cola_exec until its   *)
(* PCB is back or a SIGINT takes it.                                       *)
THEOREM UnaEjecucionPorProceso == Spec => []EjecucionUnica
<1>1. Tipos /\ PidsContados /\ Exclusion => EjecucionUnica
  BY EjecucionUnicaDeExclusion
<1> QED
  BY <1>1, ExclusionSiempre, PTL
=============================================================================
