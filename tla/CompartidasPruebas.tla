------------------------- MODULE CompartidasPruebas -------------------------
(***************************************************************************)
(* That no increment of a shared variable is lost, for any number of CPUs  *)
(* and processes: the inductive invariant of module Compartidas and its    *)
(* proof.                                                                  *)
(*                                                                         *)
(* A process is in one place.  From there the invariant says what its CPU, *)
(* and the messages between the CPU and the Nucleo, may be (Formas), that  *)
(* the section has one token (Turno: a process inside, or a SIGNAL on its  *)
(* way), and that whoever has the token, or the answer it waits for, has   *)
(* the last value (Valores).                                               *)
(***************************************************************************)
EXTENDS Compartidas, FiniteSetTheorems, SequenceTheorems, TLAPS

-----------------------------------------------------------------------------
(* The inductive invariant.                                                *)

TiposDeCpu == {"OBTENER", "ASIGNAR", "WAIT", "SIGNAL", "QUANTUM", "FINALIZADO", "WAIT_PCB"}
TiposACpu == {"PCB", "VALOR", "SEGUI_RAFAGA", "ESPERA"}
De(tipos) == [tipo : tipos, proceso : Procesos, valor : Nat]
DelProceso == [paso : Pasos, local : Nat, vueltas : Nat]
DeLaCpu ==
  [proceso : Procesos \cup {NULO}, espera : {"no", "compartida", "wait"},
   valor_pagina : Nat, compartida : {0, 1}, corrio : BOOLEAN]

TypeOK ==
  /\ valor \in Nat
  /\ semaforo \in {0, 1}
  /\ bloqueados \subseteq Procesos
  /\ listos \in Seq(Procesos)
  /\ libres \subseteq Cpus
  /\ proceso \in [Procesos -> DelProceso]
  /\ cpu \in [Cpus -> DeLaCpu]
  /\ deCpu \in [Cpus -> Seq(De(TiposDeCpu))]
  /\ aCpu \in [Cpus -> Seq(De(TiposACpu))]

(* The process a CPU has, or whose PCB is on its way to it or from it.     *)
Duenio(c) ==
  IF cpu[c].proceso # NULO THEN cpu[c].proceso
  ELSE IF aCpu[c] # <<>> THEN aCpu[c][1].proceso
  ELSE IF deCpu[c] # <<>> THEN deCpu[c][1].proceso
  ELSE NULO

(* A process is in one place.                                              *)
UnLugar ==
  /\ \A c, d \in Cpus : Duenio(c) # NULO /\ Duenio(c) = Duenio(d) => c = d
  /\ \A c \in Cpus : \A k \in DOMAIN listos : listos[k] # Duenio(c)
  /\ \A c \in Cpus : Duenio(c) \notin bloqueados
  /\ \A j, k \in DOMAIN listos : listos[j] = listos[k] => j = k
  /\ \A k \in DOMAIN listos : listos[k] \notin bloqueados

(* The messages of a CPU: an assignment and the signal after it, and then  *)
(* at most one that ends the burst or waits for an answer.                 *)
Rafaga == {"ASIGNAR", "SIGNAL"}
Orden(q) ==
  /\ \A k \in DOMAIN q : q[k].tipo = "ASIGNAR" => k = 1
  /\ \A k \in DOMAIN q : q[k].tipo = "SIGNAL" => k = 1 \/ (k = 2 /\ q[1].tipo = "ASIGNAR")
  /\ \A k \in DOMAIN q : q[k].tipo \notin Rafaga => k = Len(q)
  /\ \A k \in DOMAIN q : q[k].tipo \in {"OBTENER", "WAIT_PCB"} => k = 1
  /\ \A k \in DOMAIN q :
       q[k].tipo \in {"WAIT", "FINALIZADO"} /\ k > 1 => q[k - 1].tipo = "SIGNAL"

Hay(q, tipo) == \E k \in DOMAIN q : q[k].tipo = tipo
DeUno(q, p) == \A k \in DOMAIN q : q[k].proceso = p
Asigna(q, v) == \A k \in DOMAIN q : q[k].tipo = "ASIGNAR" => q[k].valor = v
Cierra(q) == q # <<>> => q[Len(q)].tipo \notin Rafaga

Con(c, tipo) == Hay(deCpu[c], tipo)
Espera(c, tipo) == aCpu[c] # <<>> /\ aCpu[c][1].tipo = tipo

Forma(c) ==
  /\ Orden(deCpu[c])
  /\ DeUno(deCpu[c], Duenio(c))
  /\ Len(aCpu[c]) <= 1
  /\ aCpu[c] # <<>> => deCpu[c] = <<>> /\ aCpu[c][1].proceso = Duenio(c)
  /\ c \in libres => cpu[c].proceso = NULO /\ deCpu[c] = <<>> /\ aCpu[c] = <<>>
  /\ cpu[c].proceso = NULO =>
       /\ cpu[c].espera = "no"
       /\ aCpu[c] # <<>> => aCpu[c][1].tipo = "PCB"
       /\ ~Con(c, "OBTENER") /\ ~Con(c, "WAIT")
       /\ Cierra(deCpu[c])
  /\ cpu[c].proceso # NULO =>
       /\ ~Con(c, "QUANTUM") /\ ~Con(c, "FINALIZADO") /\ ~Con(c, "WAIT_PCB")
       /\ ~Espera(c, "PCB")
  /\ Con(c, "OBTENER") \/ Espera(c, "VALOR") \/ cpu[c].compartida = 1 =>
       cpu[c].espera = "compartida"
  /\ Con(c, "OBTENER") \/ Espera(c, "VALOR") => cpu[c].compartida = 0
  /\ cpu[c].compartida = 1 => deCpu[c] = <<>> /\ aCpu[c] = <<>>
  /\ cpu[c].espera = "compartida" => deCpu[c] = <<>> \/ Con(c, "OBTENER")
  /\ Con(c, "WAIT") \/ Espera(c, "SEGUI_RAFAGA") \/ Espera(c, "ESPERA") =>
       cpu[c].espera = "wait"
Formas == \A c \in Cpus : Forma(c)

(* The next instruction of a process, and what its CPU did last.           *)
Paso(c) ==
  /\ Con(c, "ASIGNAR") /\ ~Con(c, "SIGNAL") => proceso[Duenio(c)].paso = "signal"
  /\ Con(c, "SIGNAL") /\ ~Con(c, "WAIT") => proceso[Duenio(c)].paso = "wait"
  /\ cpu[c].espera # "no" \/ Con(c, "WAIT_PCB") => proceso[Duenio(c)].paso = "obtener"
SuPaso ==
  /\ \A c \in Cpus : Paso(c)
  /\ \A p \in bloqueados : proceso[p].paso = "obtener"
  /\ \A p \in Procesos : proceso[p].paso \in {"obtener", "asignar"} => proceso[p].vueltas > 0

(* Whether a process was let into the section, and did not leave it.       *)
EnEspera(c) == Con(c, "WAIT") \/ Con(c, "WAIT_PCB") \/ Espera(c, "ESPERA")
Fuera(p) == p \in bloqueados \/ \E c \in Cpus : Duenio(c) = p /\ EnEspera(c)
Tiene(p) == proceso[p].paso # "wait" /\ ~Fuera(p)

Turno ==
  /\ semaforo = 1 => (\A p \in Procesos : ~Tiene(p)) /\ (\A c \in Cpus : ~Con(c, "SIGNAL"))
  /\ \A p, q \in Procesos : Tiene(p) /\ Tiene(q) => p = q
  /\ \A c, d \in Cpus : Con(c, "SIGNAL") /\ Con(d, "SIGNAL") => c = d
  /\ \A c \in Cpus : Con(c, "SIGNAL") => \A p \in Procesos : ~Tiene(p)

Valores ==
  /\ \A p \in Procesos : proceso[p].paso = "asignar" => proceso[p].local = valor
  /\ \A c \in Cpus : Asigna(deCpu[c], valor + 1)
  /\ \A c \in Cpus : Espera(c, "VALOR") => aCpu[c][1].valor = valor
  /\ \A c \in Cpus : cpu[c].compartida = 1 => cpu[c].valor_pagina = valor

Cuenta ==
  /\ IsFiniteSet(EnCamino) /\ IsFiniteSet(Secciones)
  /\ ContadorExacto

Inv == TypeOK /\ UnLugar /\ Formas /\ SuPaso /\ Turno /\ Valores /\ Cuenta

-----------------------------------------------------------------------------
(* The queue of a CPU.                                                     *)

(* A queue of one message.                                                 *)
LEMMA UnMensaje ==
  ASSUME NEW M, NEW m \in M
  PROVE  /\ Append(<<>>, m) = <<m>> /\ <<m>> \in Seq(M) /\ <<m>> # <<>>
         /\ Len(<<m>>) = 1 /\ <<m>>[1] = m
  OBVIOUS

(* Taking the only message of a queue.                                     *)
LEMMA ElUltimo ==
  ASSUME NEW M, NEW q \in Seq(M), q # <<>>, Len(q) <= 1
  PROVE  Tail(q) = <<>> /\ Head(q) = q[1] /\ q[1] \in M
  OBVIOUS

(* A queue without messages is the empty one.                              *)
LEMMA Vacia ==
  ASSUME NEW M, NEW q \in Seq(M)
  PROVE  q = <<>> <=> Len(q) = 0
  OBVIOUS

(* What a queue has after a message is sent.                               *)
LEMMA Agregar ==
  ASSUME NEW q \in Seq(De(TiposDeCpu)), NEW m \in De(TiposDeCpu)
  PROVE  /\ Append(q, m) \in Seq(De(TiposDeCpu)) /\ Append(q, m) # <<>>
         /\ \A t : Hay(Append(q, m), t) <=> Hay(q, t) \/ m.tipo = t
         /\ \A p : DeUno(q, p) /\ m.proceso = p => DeUno(Append(q, m), p) /\ Append(q, m)[1].proceso = p
         /\ \A v : Asigna(q, v) /\ (m.tipo = "ASIGNAR" => m.valor = v) => Asigna(Append(q, m), v)
         /\ m.tipo \notin Rafaga => Cierra(Append(q, m))
<1> DEFINE a == Append(q, m)
<1>1. /\ a \in Seq(De(TiposDeCpu)) /\ a # <<>> /\ DOMAIN a = 1..Len(a) /\ DOMAIN q = 1..Len(q)
      /\ Len(a) = Len(q) + 1 /\ Len(q) \in Nat /\ a[Len(q) + 1] = m
      /\ \A k \in 1..Len(q) : a[k] = q[k]
  OBVIOUS
<1> HIDE DEF a
<1>2. \A t : Hay(a, t) <=> Hay(q, t) \/ m.tipo = t
  BY <1>1 DEF Hay
<1>3. \A p : DeUno(q, p) /\ m.proceso = p => DeUno(a, p) /\ a[1].proceso = p
  BY <1>1 DEF DeUno
<1>4. \A v : Asigna(q, v) /\ (m.tipo = "ASIGNAR" => m.valor = v) => Asigna(a, v)
  BY <1>1 DEF Asigna
<1>5. m.tipo \notin Rafaga => Cierra(a)
  BY <1>1 DEF Cierra
<1> QED
  BY <1>1, <1>2, <1>3, <1>4, <1>5 DEF a

(* Sending keeps the order: an assignment first, then the signal, and then *)
(* what ends the burst, after a signal or alone.                           *)
LEMMA OrdenAgregar ==
  ASSUME NEW q \in Seq(De(TiposDeCpu)), NEW m \in De(TiposDeCpu), Orden(q),
         \A t : Hay(q, t) => t \in Rafaga,
         m.tipo \in {"ASIGNAR", "OBTENER", "WAIT_PCB"} => q = <<>>,
         m.tipo = "SIGNAL" => ~Hay(q, "SIGNAL"),
         m.tipo \in {"WAIT", "FINALIZADO"} => q = <<>> \/ Hay(q, "SIGNAL")
  PROVE  Orden(Append(q, m))
<1> DEFINE a == Append(q, m)
<1>1. /\ DOMAIN a = 1..Len(a) /\ DOMAIN q = 1..Len(q)
      /\ Len(a) = Len(q) + 1 /\ Len(q) \in Nat /\ a[Len(q) + 1] = m
      /\ \A k \in 1..Len(q) : a[k] = q[k]
  OBVIOUS
<1> HIDE DEF a
<1>2. \A k \in 1..Len(q) : q[k].tipo \in Rafaga
  BY <1>1 DEF Hay
<1>3. /\ \A k \in 1..Len(q) : q[k].tipo = "ASIGNAR" => k = 1
      /\ \A k \in 1..Len(q) : q[k].tipo = "SIGNAL" => k = 1 \/ (k = 2 /\ q[1].tipo = "ASIGNAR")
  BY <1>1 DEF Orden
<1>4. Len(q) <= 2
  <2>1. ~(3 \in 1..Len(q))
    BY <1>2, <1>3 DEF Rafaga
  <2> QED
    BY <1>1, <2>1
<1>5. Hay(q, "SIGNAL") => Len(q) > 0 /\ q[Len(q)].tipo = "SIGNAL"
  BY <1>1, <1>2, <1>3, <1>4 DEF Hay, Rafaga
<1>6. m.tipo = "SIGNAL" => Len(q) = 0 \/ (Len(q) = 1 /\ q[1].tipo = "ASIGNAR")
  BY <1>1, <1>2, <1>3, <1>4 DEF Hay, Rafaga
<1>7. m.tipo \in {"ASIGNAR", "OBTENER", "WAIT_PCB"} => Len(q) = 0
  OBVIOUS
<1>8. m.tipo \in {"WAIT", "FINALIZADO"} => Len(q) = 0 \/ q[Len(q)].tipo = "SIGNAL"
  BY <1>5
<1>9. \A k \in DOMAIN a : k \in 1..Len(q) \/ k = Len(q) + 1
  BY <1>1
<1>10. \A k \in DOMAIN a : a[k].tipo = "ASIGNAR" => k = 1
  BY <1>1, <1>3, <1>7, <1>9
<1>11. \A k \in DOMAIN a : a[k].tipo = "SIGNAL" => k = 1 \/ (k = 2 /\ a[1].tipo = "ASIGNAR")
  BY <1>1, <1>3, <1>6, <1>9
<1>12. \A k \in DOMAIN a : a[k].tipo \notin Rafaga => k = Len(a)
  BY <1>1, <1>2, <1>9
<1>13. \A k \in DOMAIN a : a[k].tipo \in {"OBTENER", "WAIT_PCB"} => k = 1
  BY <1>1, <1>2, <1>7, <1>9 DEF Rafaga
<1>14. \A k \in DOMAIN a :
         a[k].tipo \in {"WAIT", "FINALIZADO"} /\ k > 1 => a[k - 1].tipo = "SIGNAL"
  BY <1>1, <1>2, <1>8, <1>9 DEF Rafaga
<1> QED
  BY <1>10, <1>11, <1>12, <1>13, <1>14 DEF Orden, a

(* What is left after the first message is taken: no type was there twice, *)
(* and what is not of the burst was the only message.                      *)
LEMMA Sacar ==
  ASSUME NEW q \in Seq(De(TiposDeCpu)), q # <<>>, Orden(q)
  PROVE  /\ Tail(q) \in Seq(De(TiposDeCpu)) /\ Head(q) = q[1] /\ Head(q) \in De(TiposDeCpu)
         /\ Orden(Tail(q)) /\ Hay(q, Head(q).tipo)
         /\ \A t : Hay(Tail(q), t) <=> Hay(q, t) /\ t # Head(q).tipo
         /\ \A p : DeUno(q, p) =>
              /\ DeUno(Tail(q), p) /\ Head(q).proceso = p
              /\ Tail(q) # <<>> => Tail(q)[1].proceso = p
         /\ \A v : Asigna(q, v) => Asigna(Tail(q), v)
         /\ Cierra(q) => Cierra(Tail(q))
         /\ Head(q).tipo \notin Rafaga => Tail(q) = <<>>
         /\ Head(q).tipo \in Rafaga /\ Cierra(q) => Tail(q) # <<>>
<1> DEFINE r == Tail(q)
<1>1. /\ r \in Seq(De(TiposDeCpu)) /\ DOMAIN r = 1..Len(r) /\ DOMAIN q = 1..Len(q)
      /\ Len(r) = Len(q) - 1 /\ Len(q) \in Nat /\ Len(q) > 0 /\ q[1] = Head(q)
      /\ q[1] \in De(TiposDeCpu)
      /\ \A k \in 1..Len(r) : r[k] = q[k + 1]
      /\ r = <<>> <=> Len(q) = 1
      /\ 1 \in 1..Len(q)
  <2>1. Len(q) \in Nat /\ Len(q) > 0 /\ DOMAIN q = 1..Len(q) /\ q[1] = Head(q) /\ q[1] \in De(TiposDeCpu)
    OBVIOUS
  <2>2. r \in Seq(De(TiposDeCpu)) /\ Len(r) = Len(q) - 1 /\ DOMAIN r = 1..Len(r)
    OBVIOUS
  <2>3. \A k \in 1..Len(r) : r[k] = q[k + 1]
    OBVIOUS
  <2> HIDE DEF r
  <2>4. r = <<>> <=> Len(r) = 0
    BY <2>2, Vacia
  <2> QED
    BY <2>1, <2>2, <2>3, <2>4
<1>2. \A k \in DOMAIN q : k = 1 \/ (k > 1 /\ k - 1 \in DOMAIN r /\ q[k] = r[k - 1])
  BY <1>1
<1>3. /\ \A k \in 1..Len(q) : q[k].tipo = "ASIGNAR" => k = 1
      /\ \A k \in 1..Len(q) : q[k].tipo = "SIGNAL" => k = 1 \/ (k = 2 /\ q[1].tipo = "ASIGNAR")
      /\ \A k \in 1..Len(q) : q[k].tipo \notin Rafaga => k = Len(q)
      /\ \A k \in 1..Len(q) : q[k].tipo \in {"OBTENER", "WAIT_PCB"} => k = 1
      /\ \A k \in 1..Len(q) :
           q[k].tipo \in {"WAIT", "FINALIZADO"} /\ k > 1 => q[k - 1].tipo = "SIGNAL"
  BY <1>1 DEF Orden
<1>4. q[1].tipo \notin Rafaga => r = <<>>
  BY <1>1, <1>3
<1>11. \A k \in DOMAIN r : k \in Nat /\ k > 0 /\ k + 1 \in 1..Len(q) /\ k + 1 # 1 /\ r[k] = q[k + 1]
  BY <1>1
<1>12. /\ \A k \in DOMAIN r : r[k].tipo # "ASIGNAR"
       /\ \A k \in DOMAIN r : r[k].tipo = "SIGNAL" => k = 1 /\ q[1].tipo = "ASIGNAR"
       /\ \A k \in DOMAIN r : r[k].tipo \notin Rafaga => k + 1 = Len(q)
       /\ \A k \in DOMAIN r : r[k].tipo \notin {"OBTENER", "WAIT_PCB"}
  BY <1>3, <1>11
<1>5. \A t : Hay(r, t) <=> Hay(q, t) /\ t # q[1].tipo
  <2>1. \A k \in DOMAIN r : q[k + 1].tipo # q[1].tipo
    BY <1>1, <1>4, <1>11, <1>12 DEF Rafaga
  <2>2. ASSUME NEW t, Hay(r, t) PROVE Hay(q, t) /\ t # q[1].tipo
    BY <1>1, <1>11, <2>1, <2>2 DEF Hay
  <2>3. ASSUME NEW t, Hay(q, t), t # q[1].tipo PROVE Hay(r, t)
    BY <1>2, <2>3 DEF Hay
  <2> QED
    BY <2>2, <2>3
<1>6. Orden(r)
  <2>4. \A k \in DOMAIN r : r[k].tipo \notin Rafaga => k = Len(r)
    BY <1>1, <1>11, <1>12
  <2>6. \A k \in DOMAIN r :
          r[k].tipo \in {"WAIT", "FINALIZADO"} /\ k > 1 => r[k - 1].tipo = "SIGNAL"
    <3>1. SUFFICES ASSUME NEW k \in DOMAIN r, r[k].tipo \in {"WAIT", "FINALIZADO"}, k > 1
                   PROVE  r[k - 1].tipo = "SIGNAL"
      OBVIOUS
    <3>2. q[(k + 1) - 1].tipo = "SIGNAL" /\ k \in Nat
      BY <1>3, <1>11, <3>1
    <3>3. k - 1 \in DOMAIN r /\ (k - 1) + 1 = k /\ (k + 1) - 1 = k
      BY <1>1, <3>1, <3>2
    <3> QED
      BY <1>11, <3>2, <3>3
  <2> QED
    BY <1>12, <2>4, <2>6 DEF Orden
<1>7. \A p : DeUno(q, p) => DeUno(r, p) /\ q[1].proceso = p /\ (r # <<>> => r[1].proceso = p)
  BY <1>1 DEF DeUno
<1>8. \A v : Asigna(q, v) => Asigna(r, v)
  BY <1>1 DEF Asigna
<1>9. /\ Cierra(q) => Cierra(r)
      /\ q[1].tipo \in Rafaga /\ Cierra(q) => r # <<>>
  BY <1>1 DEF Cierra
<1>10. Hay(q, q[1].tipo)
  BY <1>1 DEF Hay
<1> QED
  BY <1>1, <1>4, <1>5, <1>6, <1>7, <1>8, <1>9, <1>10 DEF r

(* What the order says of the types that are in a queue together.          *)
LEMMA OrdenDice ==
  ASSUME NEW q \in Seq(De(TiposDeCpu)), Orden(q)
  PROVE  /\ Hay(q, "ASIGNAR") /\ (Hay(q, "WAIT") \/ Hay(q, "FINALIZADO")) => Hay(q, "SIGNAL")
         /\ Hay(q, "OBTENER") => \A t : Hay(q, t) => t = "OBTENER"
         /\ Hay(q, "WAIT_PCB") => \A t : Hay(q, t) => t = "WAIT_PCB"
         /\ \A t, u : Hay(q, t) /\ Hay(q, u) /\ t \notin Rafaga /\ u \notin Rafaga => t = u
         /\ q = <<>> <=> \A t \in TiposDeCpu : ~Hay(q, t)
         /\ \A t : Hay(q, t) => t \in TiposDeCpu
         /\ q # <<>> /\ q[1].tipo = "SIGNAL" => ~Hay(q, "ASIGNAR")
<1>1. /\ DOMAIN q = 1..Len(q) /\ Len(q) \in Nat /\ \A k \in 1..Len(q) : q[k].tipo \in TiposDeCpu
      /\ q = <<>> <=> Len(q) = 0
  <2>1. \A k \in 1..Len(q) : q[k] \in De(TiposDeCpu)
    OBVIOUS
  <2>2. \A k \in 1..Len(q) : q[k].tipo \in TiposDeCpu
    BY <2>1 DEF De
  <2> QED
    BY <2>2
<1>3. /\ \A k \in 1..Len(q) : q[k].tipo = "ASIGNAR" => k = 1
      /\ \A k \in 1..Len(q) : q[k].tipo = "SIGNAL" => k = 1 \/ (k = 2 /\ q[1].tipo = "ASIGNAR")
      /\ \A k \in 1..Len(q) : q[k].tipo \notin Rafaga => k = Len(q)
      /\ \A k \in 1..Len(q) : q[k].tipo \in {"OBTENER", "WAIT_PCB"} => k = 1
      /\ \A k \in 1..Len(q) :
           q[k].tipo \in {"WAIT", "FINALIZADO"} /\ k > 1 => q[k - 1].tipo = "SIGNAL"
  BY <1>1 DEF Orden
<1>4. Hay(q, "ASIGNAR") /\ (Hay(q, "WAIT") \/ Hay(q, "FINALIZADO")) => Hay(q, "SIGNAL")
  <2>1. SUFFICES ASSUME Hay(q, "ASIGNAR"), NEW k \in 1..Len(q), q[k].tipo \in {"WAIT", "FINALIZADO"}
                 PROVE  Hay(q, "SIGNAL")
    BY <1>1 DEF Hay
  <2>2. q[1].tipo = "ASIGNAR"
    <3>1. PICK h \in 1..Len(q) : q[h].tipo = "ASIGNAR"
      BY <1>1, <2>1 DEF Hay
    <3> QED
      BY <1>3, <3>1
  <2>3. k > 1 /\ k - 1 \in 1..Len(q)
    BY <1>1, <2>1, <2>2
  <2> QED
    BY <1>1, <1>3, <2>1, <2>3 DEF Hay
<1>5. \A t, u : Hay(q, t) /\ Hay(q, u) /\ t \notin Rafaga /\ u \notin Rafaga => t = u
  BY <1>1, <1>3, ZenonT(30) DEF Hay
<1>6. \A u \in {"OBTENER", "WAIT_PCB"} : Hay(q, u) => Len(q) = 1 /\ q[1].tipo = u
  BY <1>1, <1>3 DEF Hay, Rafaga
<1>7. \A u \in {"OBTENER", "WAIT_PCB"} : Hay(q, u) => \A t : Hay(q, t) => t = u
  BY <1>1, <1>6 DEF Hay
<1>8. /\ q = <<>> <=> \A t \in TiposDeCpu : ~Hay(q, t)
      /\ \A t : Hay(q, t) => t \in TiposDeCpu
  BY <1>1 DEF Hay
<1>9. q # <<>> /\ q[1].tipo = "SIGNAL" => ~Hay(q, "ASIGNAR")
  BY <1>1, <1>3 DEF Hay
<1> QED
  BY <1>4, <1>5, <1>7, <1>8, <1>9

(* An assignment on its way is the first message of its CPU.               *)
LEMMA LugarDeAsignar ==
  ASSUME NEW q \in Seq(De(TiposDeCpu)), Orden(q)
  PROVE  {k \in DOMAIN q : q[k].tipo = "ASIGNAR"} = IF Hay(q, "ASIGNAR") THEN {1} ELSE {}
  BY DEF Orden, Hay

-----------------------------------------------------------------------------
(* What the invariant says of one CPU.                                     *)

(* The types of what one CPU has.                                          *)
LEMMA Locales ==
  ASSUME TypeOK, NEW c \in Cpus
  PROVE  /\ deCpu[c] \in Seq(De(TiposDeCpu)) /\ aCpu[c] \in Seq(De(TiposACpu))
         /\ cpu[c] \in DeLaCpu
         /\ aCpu[c] # <<>> => aCpu[c][1] \in De(TiposACpu)
         /\ deCpu[c] # <<>> => deCpu[c][1] \in De(TiposDeCpu)
         /\ Duenio(c) \in Procesos \cup {NULO}
         /\ Duenio(c) = NULO <=> cpu[c].proceso = NULO /\ aCpu[c] = <<>> /\ deCpu[c] = <<>>
<1>1. /\ deCpu[c] \in Seq(De(TiposDeCpu)) /\ aCpu[c] \in Seq(De(TiposACpu))
      /\ cpu[c] \in DeLaCpu
  BY DEF TypeOK
<1>2. aCpu[c] # <<>> => aCpu[c][1] \in De(TiposACpu)
  BY <1>1
<1>3. deCpu[c] # <<>> => deCpu[c][1] \in De(TiposDeCpu)
  BY <1>1
<1> QED
  BY <1>1, <1>2, <1>3, ProcesosAssumption DEF Duenio, De, DeLaCpu

(* A CPU that runs has no answer to read, and what it sent before is an    *)
(* assignment, a signal, or both.                                          *)
LEMMA Corriendo ==
  ASSUME TypeOK, Formas, NEW c \in Cpus, cpu[c].proceso # NULO, cpu[c].espera = "no"
  PROVE  /\ aCpu[c] = <<>> /\ cpu[c].compartida = 0 /\ c \notin libres
         /\ Duenio(c) = cpu[c].proceso /\ cpu[c].proceso \in Procesos
         /\ \A t : Con(c, t) => t \in Rafaga
         /\ ~EnEspera(c)
<1>1. /\ Forma(c) /\ cpu[c].compartida \in {0, 1} /\ cpu[c].proceso \in Procesos
      /\ deCpu[c] \in Seq(De(TiposDeCpu))
      /\ aCpu[c] # <<>> => aCpu[c][1] \in De(TiposACpu)
  BY Locales DEF Formas, DeLaCpu
<1>2. aCpu[c] = <<>>
  <2>1. aCpu[c] # <<>> => aCpu[c][1].tipo \in TiposACpu
    BY <1>1 DEF De
  <2> QED
    BY <1>1, <2>1 DEF Forma, Espera, TiposACpu
<1>3. \A t : Con(c, t) => t \in TiposDeCpu
  BY <1>1, OrdenDice DEF Forma, Con
<1> QED
  BY <1>1, <1>2, <1>3 DEF Forma, TiposDeCpu, Rafaga, Duenio, EnEspera, Espera

(* A CPU that waits for an answer it did not read yet has nothing else.    *)
LEMMA ConRespuesta ==
  ASSUME TypeOK, Formas, NEW c \in Cpus, aCpu[c] # <<>>
  PROVE  /\ deCpu[c] = <<>> /\ \A t : ~Con(c, t)
         /\ Tail(aCpu[c]) = <<>> /\ Head(aCpu[c]) = aCpu[c][1] /\ aCpu[c][1] \in De(TiposACpu)
         /\ Duenio(c) = aCpu[c][1].proceso /\ c \notin libres
         /\ aCpu[c][1].tipo = "PCB" <=> cpu[c].proceso = NULO
<1>1. /\ Forma(c) /\ aCpu[c] \in Seq(De(TiposACpu)) /\ aCpu[c][1] \in De(TiposACpu)
  BY Locales DEF Formas, DeLaCpu
<1>2. Tail(aCpu[c]) = <<>> /\ Head(aCpu[c]) = aCpu[c][1]
  BY <1>1, ElUltimo DEF Forma
<1> QED
  BY <1>1, <1>2 DEF Forma, Con, Hay, Espera

(* The first message of a CPU.                                             *)
LEMMA ConMensaje ==
  ASSUME TypeOK, Formas, NEW c \in Cpus, deCpu[c] # <<>>
  PROVE  /\ aCpu[c] = <<>> /\ c \notin libres /\ cpu[c].compartida = 0
         /\ Head(deCpu[c]) = deCpu[c][1] /\ Head(deCpu[c]) \in De(TiposDeCpu)
         /\ Duenio(c) = deCpu[c][1].proceso /\ Duenio(c) \in Procesos
         /\ Con(c, Head(deCpu[c]).tipo)
<1>1. /\ Forma(c) /\ deCpu[c] \in Seq(De(TiposDeCpu)) /\ cpu[c].compartida \in {0, 1}
  BY Locales DEF Formas, DeLaCpu
<1>2. /\ Head(deCpu[c]) = deCpu[c][1] /\ Head(deCpu[c]) \in De(TiposDeCpu)
      /\ Hay(deCpu[c], Head(deCpu[c]).tipo)
      /\ Head(deCpu[c]).proceso = Duenio(c)
  BY <1>1, Sacar DEF Forma
<1> QED
  BY <1>1, <1>2 DEF Forma, Con, De

(* Who assigned and did not leave yet, and who reads, is inside.           *)
LEMMA QuienAsigna ==
  ASSUME TypeOK, UnLugar, Formas, SuPaso, NEW c \in Cpus,
         Con(c, "ASIGNAR"), ~Con(c, "SIGNAL")
  PROVE  Duenio(c) \in Procesos /\ Tiene(Duenio(c)) /\ proceso[Duenio(c)].paso = "signal"
<1>1. deCpu[c] # <<>>
  BY DEF Con, Hay
<1>2. /\ Duenio(c) \in Procesos /\ aCpu[c] = <<>> /\ Orden(deCpu[c])
      /\ deCpu[c] \in Seq(De(TiposDeCpu))
  BY <1>1, ConMensaje, Locales DEF Formas, Forma
<1>3. ~EnEspera(c)
  BY <1>2, OrdenDice DEF EnEspera, Espera, Con
<1>4. ~Fuera(Duenio(c))
  BY <1>2, <1>3, ProcesosAssumption DEF Fuera, UnLugar
<1> QED
  BY <1>2, <1>4 DEF Tiene, SuPaso, Paso

(* Who waits for the variable is inside, before its assignment.            *)
LEMMA QuienLee ==
  ASSUME TypeOK, UnLugar, Formas, SuPaso, NEW c \in Cpus,
         cpu[c].espera = "compartida"
  PROVE  Duenio(c) \in Procesos /\ Tiene(Duenio(c)) /\ proceso[Duenio(c)].paso = "obtener"
<1>1. /\ Forma(c) /\ Paso(c) /\ cpu[c].proceso \in Procesos \cup {NULO}
  BY Locales DEF Formas, SuPaso, DeLaCpu
<1>2. cpu[c].proceso \in Procesos /\ Duenio(c) = cpu[c].proceso
  BY <1>1 DEF Forma, Duenio
<1>3. ~EnEspera(c)
  BY <1>1, <1>2, ProcesosAssumption DEF Forma, EnEspera
<1>4. ~Fuera(Duenio(c))
  BY <1>2, <1>3, ProcesosAssumption DEF Fuera, UnLugar
<1> QED
  BY <1>1, <1>2, <1>4 DEF Tiene, Paso

-----------------------------------------------------------------------------
(* What a step leaves alone.                                               *)

(* A step of one CPU leaves the others as they were.                       *)
LEMMA LasDemas ==
  ASSUME Formas, NEW c \in Cpus,
         \A d \in Cpus \ {c} : /\ cpu'[d] = cpu[d] /\ deCpu'[d] = deCpu[d] /\ aCpu'[d] = aCpu[d]
                               /\ d \in libres' => d \in libres,
         Forma(c)'
  PROVE  /\ Formas'
         /\ \A d \in Cpus \ {c} : /\ Duenio(d)' = Duenio(d) /\ (EnEspera(d)' <=> EnEspera(d))
                                  /\ \A t : (Con(d, t)' <=> Con(d, t))
<1>1. ASSUME NEW d \in Cpus \ {c}
      PROVE  /\ Forma(d)' /\ Duenio(d)' = Duenio(d) /\ (EnEspera(d)' <=> EnEspera(d))
             /\ \A t : (Con(d, t)' <=> Con(d, t))
  <2>1. /\ cpu'[d] = cpu[d] /\ deCpu'[d] = deCpu[d] /\ aCpu'[d] = aCpu[d]
        /\ d \in libres' => d \in libres
    OBVIOUS
  <2>2. Duenio(d)' = Duenio(d)
    BY <2>1 DEF Duenio
  <2>3. /\ \A t : (Con(d, t)' <=> Con(d, t))
        /\ \A t : (Espera(d, t)' <=> Espera(d, t))
    BY <2>1 DEF Con, Espera
  <2>4. (EnEspera(d)' <=> EnEspera(d))
    BY <2>3 DEF EnEspera
  <2>5. Forma(d)
    BY DEF Formas
  <2>6. Forma(d)'
    BY <2>1, <2>2, <2>3, <2>5 DEF Forma
  <2> QED
    BY <2>2, <2>3, <2>4, <2>6
<1> QED
  BY <1>1 DEF Formas

(* No process changed place.                                               *)
LEMMA MismosLugares ==
  ASSUME UnLugar, UNCHANGED <<listos, bloqueados>>, \A d \in Cpus : Duenio(d)' = Duenio(d)
  PROVE  UnLugar'
  BY DEF UnLugar

(* The token did not change hands, or was lost.                            *)
LEMMA MismoTurno ==
  ASSUME Turno, semaforo' = semaforo,
         \A p \in Procesos : Tiene(p)' => Tiene(p),
         \A c \in Cpus : Con(c, "SIGNAL")' => Con(c, "SIGNAL")
  PROVE  Turno'
  BY DEF Turno

(* Nobody came in.                                                         *)
LEMMA MismosDentro ==
  ASSUME bloqueados' = bloqueados,
         NEW p \in Procesos, proceso'[p].paso # "wait" => proceso[p].paso # "wait",
         \A d \in Cpus : Duenio(d) = p /\ EnEspera(d) => Duenio(d)' = p /\ EnEspera(d)'
  PROVE  Tiene(p)' => Tiene(p)
  BY DEF Tiene, Fuera

(* Nothing was assigned, nor taken by the Nucleo.                          *)
LEMMA MismaCuenta ==
  ASSUME TypeOK, Formas, Cuenta, TypeOK', Formas', valor' = valor,
         \A c \in Cpus : Con(c, "ASIGNAR")' <=> Con(c, "ASIGNAR"),
         \A p \in Procesos : Asignadas(p)' = Asignadas(p)
  PROVE  Cuenta'
<1>1. Secciones' = Secciones
  BY DEF Secciones
<1>2. \A c \in Cpus :
        {k \in DOMAIN deCpu[c] : deCpu[c][k].tipo = "ASIGNAR"}
          = IF Con(c, "ASIGNAR") THEN {1} ELSE {}
  BY LugarDeAsignar, Locales DEF Formas, Forma, Con
<1>3. \A c \in Cpus :
        {k \in DOMAIN deCpu'[c] : deCpu'[c][k].tipo = "ASIGNAR"}
          = IF Con(c, "ASIGNAR")' THEN {1} ELSE {}
  <2>1. \A c \in Cpus : deCpu'[c] \in Seq(De(TiposDeCpu)) /\ Orden(deCpu'[c])
    BY DEF TypeOK, Formas, Forma
  <2> QED
    BY <2>1, LugarDeAsignar DEF Con
<1>4. EnCamino' = EnCamino
  <2>1. \A c \in Cpus : {k \in DOMAIN deCpu'[c] : deCpu'[c][k].tipo = "ASIGNAR"}
                          = {k \in DOMAIN deCpu[c] : deCpu[c][k].tipo = "ASIGNAR"}
    BY <1>2, <1>3
  <2> QED
    BY <2>1 DEF EnCamino
<1> QED
  BY <1>1, <1>4 DEF Cuenta, ContadorExacto

-----------------------------------------------------------------------------
(* The instructions: the CPU c sends m at the end of its queue.            *)

(* What sending does to the CPU, whatever it sends.                        *)
LEMMA AlEnviar ==
  ASSUME TypeOK, UnLugar, Formas, NEW c \in Cpus, NEW m \in De(TiposDeCpu),
         cpu[c].proceso # NULO, cpu[c].espera = "no", m.proceso = cpu[c].proceso,
         deCpu' = [deCpu EXCEPT ![c] = Append(@, m)], aCpu' = aCpu, libres' = libres,
         UNCHANGED <<listos, bloqueados>>,
         \A d \in Cpus \ {c} : cpu'[d] = cpu[d],
         cpu'[c].proceso = cpu[c].proceso \/ cpu'[c].proceso = NULO,
         m.tipo \in {"ASIGNAR", "OBTENER", "WAIT_PCB"} => deCpu[c] = <<>>,
         m.tipo = "SIGNAL" => ~Con(c, "SIGNAL"),
         m.tipo \in {"WAIT", "FINALIZADO"} => deCpu[c] = <<>> \/ Con(c, "SIGNAL"),
         cpu'[c].compartida = 0, cpu'[c].espera \in {"no", "compartida", "wait"},
         cpu'[c].proceso = NULO <=> m.tipo \in {"QUANTUM", "FINALIZADO"},
         cpu'[c].espera = IF m.tipo = "OBTENER" THEN "compartida"
                          ELSE IF m.tipo = "WAIT" THEN "wait" ELSE "no",
         m.tipo # "WAIT_PCB"
  PROVE  /\ deCpu' \in [Cpus -> Seq(De(TiposDeCpu))]
         /\ UnLugar' /\ Formas'
         /\ \A d \in Cpus : Duenio(d)' = Duenio(d)
         /\ \A d \in Cpus \ {c} : (EnEspera(d)' <=> EnEspera(d)) /\ \A t : (Con(d, t)' <=> Con(d, t))
         /\ \A t : Con(c, t)' <=> Con(c, t) \/ m.tipo = t
         /\ EnEspera(c)' <=> m.tipo = "WAIT"
<1>1. /\ aCpu[c] = <<>> /\ cpu[c].compartida = 0 /\ c \notin libres
      /\ Duenio(c) = cpu[c].proceso /\ cpu[c].proceso \in Procesos
      /\ \A t : Con(c, t) => t \in Rafaga
      /\ ~EnEspera(c)
  BY Corriendo
<1>2. /\ Forma(c) /\ deCpu[c] \in Seq(De(TiposDeCpu))
  BY Locales DEF Formas, DeLaCpu
<1> DEFINE q == Append(deCpu[c], m)
<1>3. deCpu'[c] = q /\ deCpu' \in [Cpus -> Seq(De(TiposDeCpu))] /\ aCpu'[c] = <<>>
      /\ \A d \in Cpus \ {c} : deCpu'[d] = deCpu[d]
  BY <1>1, <1>2 DEF TypeOK
<1>4. /\ Orden(q) /\ q # <<>>
      /\ \A t : Hay(q, t) <=> Hay(deCpu[c], t) \/ m.tipo = t
      /\ DeUno(q, Duenio(c)) /\ q[1].proceso = Duenio(c)
      /\ m.tipo \notin Rafaga => Cierra(q)
  <2>1. \A t : Hay(deCpu[c], t) => t \in Rafaga
    BY <1>1 DEF Con
  <2>2. Orden(deCpu[c]) /\ DeUno(deCpu[c], Duenio(c))
    BY <1>2 DEF Forma
  <2>3. Orden(q)
    BY <1>2, <2>1, <2>2, OrdenAgregar DEF Con
  <2> QED
    BY <1>1, <1>2, <2>2, <2>3, Agregar
<1> HIDE DEF q
<1>5. Duenio(c)' = Duenio(c)
  BY <1>1, <1>3, <1>4 DEF Duenio
<1>6. /\ \A t : Con(c, t)' <=> Con(c, t) \/ m.tipo = t
      /\ \A t : ~Espera(c, t)'
  BY <1>3, <1>4 DEF Con, Espera
<1>7. EnEspera(c)' <=> m.tipo = "WAIT"
  BY <1>1, <1>6 DEF EnEspera
<1>8. Forma(c)'
  <2>1. Orden(deCpu'[c]) /\ DeUno(deCpu'[c], Duenio(c)') /\ Len(aCpu'[c]) <= 1 /\ aCpu'[c] = <<>>
    <3>1. Len(<<>>) <= 1
      OBVIOUS
    <3> QED
      BY <1>3, <1>4, <1>5, <3>1
  <2>2. cpu'[c].proceso = NULO =>
          /\ cpu'[c].espera = "no"
          /\ ~Con(c, "OBTENER")' /\ ~Con(c, "WAIT")'
          /\ Cierra(deCpu'[c])
    BY <1>1, <1>3, <1>4, <1>6, ZenonT(30) DEF Rafaga
  <2>3. cpu'[c].proceso # NULO =>
          ~Con(c, "QUANTUM")' /\ ~Con(c, "FINALIZADO")' /\ ~Con(c, "WAIT_PCB")'
    BY <1>1, <1>6 DEF Rafaga
  <2>4. /\ Con(c, "OBTENER")' => cpu'[c].espera = "compartida"
        /\ cpu'[c].espera = "compartida" => Con(c, "OBTENER")'
        /\ Con(c, "WAIT")' => cpu'[c].espera = "wait"
    BY <1>1, <1>6 DEF Rafaga
  <2> QED
    BY <1>1, <1>6, <2>1, <2>2, <2>3, <2>4 DEF Forma
<1>9. /\ Formas'
      /\ \A d \in Cpus \ {c} : /\ Duenio(d)' = Duenio(d) /\ (EnEspera(d)' <=> EnEspera(d))
                               /\ \A t : (Con(d, t)' <=> Con(d, t))
  BY <1>3, <1>8, LasDemas
<1>10. UnLugar'
  BY <1>5, <1>9, MismosLugares
<1> QED
  BY <1>3, <1>5, <1>6, <1>7, <1>9, <1>10

(* Only the process of the CPU c went on to another instruction.           *)
LEMMA LosDemasPasos ==
  ASSUME TypeOK, UnLugar, Formas, SuPaso, NEW c \in Cpus, Duenio(c) \in Procesos,
         bloqueados' = bloqueados,
         \A p \in Procesos \ {Duenio(c)} : proceso'[p] = proceso[p],
         \A d \in Cpus \ {c} : /\ Duenio(d)' = Duenio(d) /\ cpu'[d] = cpu[d]
                               /\ \A t : (Con(d, t)' <=> Con(d, t)),
         Paso(c)',
         proceso'[Duenio(c)].paso \in {"obtener", "asignar"} => proceso'[Duenio(c)].vueltas > 0
  PROVE  SuPaso'
<1>1. ASSUME NEW d \in Cpus \ {c} PROVE Paso(d)'
  <2>1. Duenio(d) # Duenio(c)
    BY ProcesosAssumption DEF UnLugar
  <2>2. CASE Duenio(d) = NULO
    <3>1. cpu[d].proceso = NULO /\ deCpu[d] = <<>>
      BY <2>2, Locales
    <3>2. cpu[d].espera = "no" /\ \A t : ~Con(d, t)
      BY <3>1 DEF Formas, Forma, Con, Hay
    <3> QED
      BY <3>2 DEF Paso
  <2>3. CASE Duenio(d) \in Procesos
    <3>1. proceso'[Duenio(d)] = proceso[Duenio(d)] /\ Paso(d)
      BY <2>1, <2>3 DEF SuPaso
    <3> QED
      BY <3>1 DEF Paso
  <2> QED
    BY <2>2, <2>3, Locales
<1>2. \A p \in bloqueados' : proceso'[p].paso = "obtener"
  BY DEF SuPaso, UnLugar, TypeOK
<1>3. \A p \in Procesos : proceso'[p].paso \in {"obtener", "asignar"} => proceso'[p].vueltas > 0
  BY DEF SuPaso
<1> QED
  BY <1>1, <1>2, <1>3 DEF SuPaso

(* ansisop_wait: the process asked for the section and is not in it.       *)
LEMMA InvWait ==
  ASSUME Inv, NEW c \in Cpus, Wait(c)
  PROVE  Inv'
<1>1. TypeOK /\ UnLugar /\ Formas /\ SuPaso /\ Turno /\ Valores /\ Cuenta
  BY DEF Inv
<1>2. PICK p \in Procesos : p = cpu[c].proceso
  <2>1. cpu[c].proceso # NULO
    BY DEF Wait, Ejecuta
  <2> QED
    BY <1>1, <2>1, Locales DEF DeLaCpu
<1> DEFINE m == Mensaje("WAIT", p, 0)
<1>3. /\ cpu[c].espera = "no" /\ proceso[p].paso = "wait"
      /\ deCpu' = [deCpu EXCEPT ![c] = Append(@, m)]
      /\ cpu' = [cpu EXCEPT ![c].espera = "wait", ![c].corrio = TRUE]
      /\ proceso' = [proceso EXCEPT ![p].paso = "obtener", ![p].vueltas = @ + 1]
      /\ UNCHANGED <<valor, semaforo, bloqueados, listos, libres, aCpu>>
  BY <1>2 DEF Wait, Ejecuta, Enviar, nucleo
<1>4. /\ aCpu[c] = <<>> /\ cpu[c].compartida = 0
      /\ Duenio(c) = p /\ cpu[c].proceso # NULO
      /\ \A t : Con(c, t) => t \in Rafaga
      /\ ~EnEspera(c)
  BY <1>1, <1>2, <1>3, Corriendo, ProcesosAssumption
<1>5. m \in De(TiposDeCpu) /\ m.tipo = "WAIT" /\ m.proceso = p
  BY <1>3 DEF De, TiposDeCpu, Mensaje
<1>6. /\ cpu' \in [Cpus -> DeLaCpu]
      /\ cpu'[c].espera = "wait" /\ cpu'[c].proceso = p /\ cpu'[c].compartida = 0
      /\ \A d \in Cpus \ {c} : cpu'[d] = cpu[d]
  <2>1. cpu \in [Cpus -> DeLaCpu] /\ cpu[c] \in DeLaCpu
    BY <1>1 DEF TypeOK
  <2>2. cpu'[c] = [cpu[c] EXCEPT !.espera = "wait", !.corrio = TRUE]
    BY <1>2, <1>3, <2>1 DEF DeLaCpu
  <2>3. \A d \in Cpus \ {c} : cpu'[d] = cpu[d]
    BY <1>2, <1>3, <2>1
  <2> QED
    BY <1>2, <1>3, <1>4, <2>1, <2>2, <2>3 DEF DeLaCpu
<1>7. /\ proceso' \in [Procesos -> DelProceso]
      /\ proceso'[p].paso = "obtener" /\ proceso'[p].vueltas = proceso[p].vueltas + 1
      /\ proceso[p].vueltas \in Nat
      /\ \A r \in Procesos \ {p} : proceso'[r] = proceso[r]
  <2>1. proceso \in [Procesos -> DelProceso] /\ proceso[p] \in DelProceso
    BY <1>1, <1>3 DEF TypeOK
  <2>2. proceso'[p] = [proceso[p] EXCEPT !.paso = "obtener", !.vueltas = @ + 1]
    BY <1>2, <1>3, <1>4, <2>1 DEF DelProceso
  <2>3. \A r \in Procesos \ {p} : proceso'[r] = proceso[r]
    BY <1>2, <1>3, <2>1
  <2>4. /\ proceso[p].vueltas \in Nat /\ proceso'[p].paso = "obtener"
        /\ proceso'[p].vueltas = proceso[p].vueltas + 1
    BY <2>1, <2>2 DEF DelProceso
  <2>5. proceso'[p] \in DelProceso
    <3>1. proceso[p].vueltas + 1 \in Nat /\ "obtener" \in Pasos
      BY <2>4 DEF Pasos
    <3> QED
      BY <2>1, <2>2, <3>1 DEF DelProceso
  <2> QED
    BY <1>2, <1>3, <1>4, <2>1, <2>3, <2>4, <2>5
<1>8. /\ Con(c, "SIGNAL") \/ deCpu[c] = <<>>
      /\ Con(c, "ASIGNAR") => Con(c, "SIGNAL")
  <2>1. Con(c, "ASIGNAR") => Con(c, "SIGNAL")
    BY <1>1, <1>3, <1>4 DEF SuPaso, Paso
  <2>2. deCpu[c] \in Seq(De(TiposDeCpu)) /\ Orden(deCpu[c])
    BY <1>1, Locales DEF Formas, Forma
  <2> QED
    BY <1>4, <2>1, <2>2, OrdenDice DEF Con, Rafaga
<1> HIDE DEF m
<1>9. /\ deCpu' \in [Cpus -> Seq(De(TiposDeCpu))]
      /\ UnLugar' /\ Formas'
      /\ \A d \in Cpus : Duenio(d)' = Duenio(d)
      /\ \A d \in Cpus \ {c} : (EnEspera(d)' <=> EnEspera(d)) /\ \A t : (Con(d, t)' <=> Con(d, t))
      /\ \A t : Con(c, t)' <=> Con(c, t) \/ m.tipo = t
      /\ EnEspera(c)' <=> m.tipo = "WAIT"
  <2>1. /\ aCpu' = aCpu /\ libres' = libres /\ UNCHANGED <<listos, bloqueados>>
        /\ m.proceso = cpu[c].proceso
        /\ m.tipo \in {"WAIT", "FINALIZADO"} => deCpu[c] = <<>> \/ Con(c, "SIGNAL")
        /\ cpu'[c].proceso = cpu[c].proceso
        /\ cpu'[c].proceso = NULO <=> m.tipo \in {"QUANTUM", "FINALIZADO"}
        /\ cpu'[c].espera = IF m.tipo = "OBTENER" THEN "compartida"
                            ELSE IF m.tipo = "WAIT" THEN "wait" ELSE "no"
    BY <1>2, <1>3, <1>4, <1>5, <1>6, <1>8, ProcesosAssumption
  <2> QED
    BY <1>1, <1>3, <1>4, <1>5, <1>6, <2>1, AlEnviar
<1>10. TypeOK'
  BY <1>1, <1>2, <1>3, <1>6, <1>7, <1>9 DEF TypeOK
<1>11. SuPaso'
  <2>1. Paso(c)'
    BY <1>4, <1>5, <1>7, <1>8, <1>9 DEF Paso
  <2> QED
    BY <1>1, <1>2, <1>3, <1>4, <1>6, <1>7, <1>9, <2>1, LosDemasPasos, SMTT(60)
<1>12. Turno'
  <2>1. Fuera(p)'
    BY <1>4, <1>5, <1>9 DEF Fuera
  <2>2. ASSUME NEW r \in Procesos, Tiene(r)' PROVE Tiene(r)
    <3>1. r # p
      BY <2>1, <2>2 DEF Tiene
    <3> QED
      <4>1. proceso'[r].paso # "wait" => proceso[r].paso # "wait"
        BY <1>7, <3>1
      <4>2. \A d \in Cpus : Duenio(d) = r /\ EnEspera(d) => Duenio(d)' = r /\ EnEspera(d)'
        BY <1>4, <1>9, <3>1
      <4> QED
        BY <1>3, <2>2, <4>1, <4>2, MismosDentro
  <2>3. \A d \in Cpus : Con(d, "SIGNAL")' => Con(d, "SIGNAL")
    BY <1>5, <1>9
  <2> QED
    BY <1>1, <1>2, <1>3, <2>2, <2>3, MismoTurno
<1>13. Valores'
  <2>1. \A r \in Procesos : proceso'[r].paso = "asignar" => proceso'[r].local = valor
    BY <1>1, <1>7 DEF Valores
  <2>2. \A d \in Cpus : Asigna(deCpu'[d], valor + 1)
    <3>1. /\ deCpu'[c] = Append(deCpu[c], m) /\ deCpu[c] \in Seq(De(TiposDeCpu))
          /\ \A d \in Cpus \ {c} : deCpu'[d] = deCpu[d]
      BY <1>1, <1>2, <1>3 DEF TypeOK
    <3>2. Asigna(deCpu'[c], valor + 1)
      BY <1>1, <1>5, <3>1, Agregar DEF Valores
    <3> QED
      BY <1>1, <3>1, <3>2 DEF Valores
  <2>3. \A d \in Cpus : Espera(d, "VALOR")' => aCpu'[d][1].valor = valor
    BY <1>1, <1>2, <1>3 DEF Valores, Espera
  <2>4. \A d \in Cpus : cpu'[d].compartida = 1 => cpu'[d].valor_pagina = valor
    BY <1>1, <1>6 DEF Valores
  <2> QED
    BY <1>2, <1>3, <2>1, <2>2, <2>3, <2>4 DEF Valores
<1>14. Cuenta'
  <2>1. \A d \in Cpus : Con(d, "ASIGNAR")' <=> Con(d, "ASIGNAR")
    BY <1>5, <1>9
  <2>2. \A r \in Procesos : Asignadas(r)' = Asignadas(r)
    BY <1>2, <1>3, <1>7, SMTT(60) DEF Asignadas
  <2> QED
    BY <1>1, <1>2, <1>3, <1>9, <1>10, <2>1, <2>2, MismaCuenta
<1> QED
  BY <1>9, <1>10, <1>11, <1>12, <1>13, <1>14 DEF Inv

(* ansisop_obtener_valor_compartida: nothing is on its way when it asks.   *)
LEMMA InvObtenerValorCompartida ==
  ASSUME Inv, NEW c \in Cpus, ObtenerValorCompartida(c)
  PROVE  Inv'
<1>1. TypeOK /\ UnLugar /\ Formas /\ SuPaso /\ Turno /\ Valores /\ Cuenta
  BY DEF Inv
<1>2. PICK p \in Procesos : p = cpu[c].proceso
  <2>1. cpu[c].proceso # NULO
    BY DEF ObtenerValorCompartida, Ejecuta
  <2> QED
    BY <1>1, <2>1, Locales DEF DeLaCpu
<1> DEFINE m == Mensaje("OBTENER", p, 0)
<1>3. /\ cpu[c].espera = "no" /\ proceso[p].paso = "obtener"
      /\ deCpu' = [deCpu EXCEPT ![c] = Append(@, m)]
      /\ cpu' = [cpu EXCEPT ![c].espera = "compartida"]
      /\ proceso' = proceso
      /\ UNCHANGED <<valor, semaforo, bloqueados, listos, libres, aCpu>>
  BY <1>2 DEF ObtenerValorCompartida, Ejecuta, Enviar, EnviarPcb, nucleo
<1>4. /\ aCpu[c] = <<>> /\ cpu[c].compartida = 0
      /\ Duenio(c) = p /\ cpu[c].proceso # NULO
      /\ \A t : Con(c, t) => t \in Rafaga
      /\ ~EnEspera(c)
  BY <1>1, <1>2, <1>3, Corriendo, ProcesosAssumption
<1>5. m \in De(TiposDeCpu) /\ m.tipo = "OBTENER" /\ m.proceso = p /\ m.valor = 0
  <2>1. 0 \in Nat
    OBVIOUS
  <2> QED
    BY <2>1 DEF De, TiposDeCpu, Mensaje
<1>6. /\ cpu' \in [Cpus -> DeLaCpu]
      /\ cpu'[c].espera = "compartida" /\ cpu'[c].proceso = p /\ cpu'[c].compartida = 0
      /\ \A d \in Cpus \ {c} : cpu'[d] = cpu[d]
  <2>1. cpu \in [Cpus -> DeLaCpu] /\ cpu[c] \in DeLaCpu
    BY <1>1 DEF TypeOK
  <2>2. cpu'[c] = [cpu[c] EXCEPT !.espera = "compartida"]
    BY <1>3, <2>1 DEF DeLaCpu
  <2>3. \A d \in Cpus \ {c} : cpu'[d] = cpu[d]
    BY <1>3, <2>1
  <2> QED
    BY <1>2, <1>3, <1>4, <2>1, <2>2, <2>3 DEF DeLaCpu
<1>7. proceso' \in [Procesos -> DelProceso] /\ \A r \in Procesos : proceso'[r] = proceso[r]
  BY <1>1, <1>3 DEF TypeOK
<1>8. deCpu[c] = <<>> /\ \A t : ~Con(c, t)
  <2>1. ~Con(c, "ASIGNAR") /\ ~Con(c, "SIGNAL")
    BY <1>1, <1>3, <1>4 DEF SuPaso, Paso, Rafaga
  <2>2. deCpu[c] \in Seq(De(TiposDeCpu)) /\ Orden(deCpu[c])
    BY <1>1, Locales DEF Formas, Forma
  <2> QED
    BY <1>4, <2>1, <2>2, OrdenDice DEF Con, Rafaga
<1> HIDE DEF m
<1>9. /\ deCpu' \in [Cpus -> Seq(De(TiposDeCpu))]
      /\ UnLugar' /\ Formas'
      /\ \A d \in Cpus : Duenio(d)' = Duenio(d)
      /\ \A d \in Cpus \ {c} : (EnEspera(d)' <=> EnEspera(d)) /\ \A t : (Con(d, t)' <=> Con(d, t))
      /\ \A t : Con(c, t)' <=> Con(c, t) \/ m.tipo = t
      /\ EnEspera(c)' <=> m.tipo = "WAIT"
  <2>1. /\ aCpu' = aCpu /\ libres' = libres /\ UNCHANGED <<listos, bloqueados>>
        /\ m.proceso = cpu[c].proceso
        /\ m.tipo \in {"ASIGNAR", "OBTENER", "WAIT_PCB"} => deCpu[c] = <<>>
        /\ cpu'[c].proceso = cpu[c].proceso \/ cpu'[c].proceso = NULO
        /\ cpu'[c].proceso = NULO <=> m.tipo \in {"QUANTUM", "FINALIZADO"}
        /\ cpu'[c].espera = IF m.tipo = "OBTENER" THEN "compartida"
                            ELSE IF m.tipo = "WAIT" THEN "wait" ELSE "no"
    BY <1>2, <1>3, <1>4, <1>5, <1>6, <1>8, ProcesosAssumption
  <2> QED
    BY <1>1, <1>3, <1>4, <1>5, <1>6, <2>1, AlEnviar
<1>10. TypeOK'
  BY <1>1, <1>3, <1>6, <1>7, <1>9 DEF TypeOK
<1>11. SuPaso'
  <2>1. Paso(c)'
    BY <1>3, <1>4, <1>5, <1>7, <1>8, <1>9 DEF Paso
  <2>2. proceso'[p].paso \in {"obtener", "asignar"} => proceso'[p].vueltas > 0
    BY <1>1, <1>3, <1>7 DEF SuPaso
  <2> QED
    BY <1>1, <1>3, <1>4, <1>6, <1>7, <1>9, <2>1, <2>2, LosDemasPasos
<1>12. Turno'
  <2>1. ASSUME NEW r \in Procesos PROVE Tiene(r)' => Tiene(r)
    <3>1. proceso'[r].paso # "wait" => proceso[r].paso # "wait"
      BY <1>3, <1>7
    <3>2. \A d \in Cpus : Duenio(d) = r /\ EnEspera(d) => Duenio(d)' = r /\ EnEspera(d)'
      BY <1>4, <1>9
    <3> QED
      BY <1>3, <3>1, <3>2, MismosDentro
  <2>2. \A d \in Cpus : Con(d, "SIGNAL")' => Con(d, "SIGNAL")
    BY <1>5, <1>9
  <2> QED
    BY <1>1, <1>3, <2>1, <2>2, MismoTurno
<1>13. Valores'
  <2>1. \A r \in Procesos : proceso'[r].paso = "asignar" => proceso'[r].local = valor
    BY <1>1, <1>7 DEF Valores
  <2>2. \A d \in Cpus : Asigna(deCpu'[d], valor + 1)
    <3>1. /\ deCpu'[c] = Append(deCpu[c], m) /\ deCpu[c] \in Seq(De(TiposDeCpu))
          /\ \A d \in Cpus \ {c} : deCpu'[d] = deCpu[d]
      BY <1>1, <1>3 DEF TypeOK
    <3>2. m.tipo = "ASIGNAR" => m.valor = valor + 1
      BY <1>5
    <3>3. Asigna(deCpu'[c], valor + 1)
      BY <1>1, <1>5, <3>1, <3>2, Agregar DEF Valores
    <3> QED
      BY <1>1, <3>1, <3>3 DEF Valores
  <2>3. \A d \in Cpus : Espera(d, "VALOR")' => aCpu'[d][1].valor = valor
    BY <1>1, <1>3 DEF Valores, Espera
  <2>4. \A d \in Cpus : cpu'[d].compartida = 1 => cpu'[d].valor_pagina = valor
    BY <1>1, <1>6 DEF Valores
  <2> QED
    BY <1>3, <2>1, <2>2, <2>3, <2>4 DEF Valores
<1>14. Cuenta'
  <2>1. \A d \in Cpus : Con(d, "ASIGNAR")' <=> Con(d, "ASIGNAR")
    BY <1>5, <1>9
  <2>2. \A r \in Procesos : Asignadas(r)' = Asignadas(r)
    BY <1>3, <1>7 DEF Asignadas
  <2> QED
    BY <1>1, <1>3, <1>9, <1>10, <2>1, <2>2, MismaCuenta
<1> QED
  BY <1>9, <1>10, <1>11, <1>12, <1>13, <1>14 DEF Inv

(* ansisop_asignar_valor_compartida: one section more assigned, and one    *)
(* assignment more on its way, with the next value.                        *)
LEMMA InvAsignarValorCompartida ==
  ASSUME Inv, NEW c \in Cpus, AsignarValorCompartida(c)
  PROVE  Inv'
<1>1. TypeOK /\ UnLugar /\ Formas /\ SuPaso /\ Turno /\ Valores /\ Cuenta
  BY DEF Inv
<1>2. PICK p \in Procesos : p = cpu[c].proceso
  <2>1. cpu[c].proceso # NULO
    BY DEF AsignarValorCompartida, Ejecuta
  <2> QED
    BY <1>1, <2>1, Locales DEF DeLaCpu
<1> DEFINE m == Mensaje("ASIGNAR", p, proceso[p].local + 1)
<1>3. /\ cpu[c].espera = "no" /\ proceso[p].paso = "asignar"
      /\ deCpu' = [deCpu EXCEPT ![c] = Append(@, m)]
      /\ cpu' = [cpu EXCEPT ![c].corrio = TRUE]
      /\ proceso' = [proceso EXCEPT ![p].paso = "signal"]
      /\ UNCHANGED <<valor, semaforo, bloqueados, listos, libres, aCpu>>
  BY <1>2 DEF AsignarValorCompartida, Ejecuta, Enviar, EnviarPcb, nucleo
<1>4. /\ aCpu[c] = <<>> /\ cpu[c].compartida = 0
      /\ Duenio(c) = p /\ cpu[c].proceso # NULO
      /\ \A t : Con(c, t) => t \in Rafaga
      /\ ~EnEspera(c)
  BY <1>1, <1>2, <1>3, Corriendo, ProcesosAssumption
<1>5. m \in De(TiposDeCpu) /\ m.tipo = "ASIGNAR" /\ m.proceso = p /\ m.valor = (proceso[p].local + 1)
  <2>1. (proceso[p].local + 1) \in Nat
    BY <1>1 DEF TypeOK, DelProceso
  <2> QED
    BY <2>1 DEF De, TiposDeCpu, Mensaje
<1>6. /\ cpu' \in [Cpus -> DeLaCpu]
      /\ cpu'[c].espera = "no" /\ cpu'[c].proceso = p /\ cpu'[c].compartida = 0
      /\ \A d \in Cpus \ {c} : cpu'[d] = cpu[d]
  <2>1. cpu \in [Cpus -> DeLaCpu] /\ cpu[c] \in DeLaCpu
    BY <1>1 DEF TypeOK
  <2>2. cpu'[c] = [cpu[c] EXCEPT !.corrio = TRUE]
    BY <1>3, <2>1 DEF DeLaCpu
  <2>3. \A d \in Cpus \ {c} : cpu'[d] = cpu[d]
    BY <1>3, <2>1
  <2> QED
    BY <1>2, <1>3, <1>4, <2>1, <2>2, <2>3 DEF DeLaCpu
<1>7. /\ proceso' \in [Procesos -> DelProceso]
      /\ proceso'[p].paso = "signal" /\ proceso'[p].vueltas = proceso[p].vueltas
      /\ \A r \in Procesos \ {p} : proceso'[r] = proceso[r]
  <2>1. proceso \in [Procesos -> DelProceso] /\ proceso[p] \in DelProceso
    BY <1>1 DEF TypeOK
  <2>2. proceso'[p] = [proceso[p] EXCEPT !.paso = "signal"]
    BY <1>3, <2>1 DEF DelProceso
  <2>3. \A r \in Procesos \ {p} : proceso'[r] = proceso[r]
    BY <1>3, <2>1
  <2>4. proceso'[p] \in DelProceso
    BY <2>1, <2>2 DEF DelProceso, Pasos
  <2>5. proceso'[p].paso = "signal" /\ proceso'[p].vueltas = proceso[p].vueltas
    BY <2>1, <2>2 DEF DelProceso
  <2> QED
    BY <1>3, <2>1, <2>3, <2>4, <2>5
<1>8. deCpu[c] = <<>> /\ \A t : ~Con(c, t)
  <2>1. ~Con(c, "ASIGNAR") /\ ~Con(c, "SIGNAL")
    BY <1>1, <1>3, <1>4 DEF SuPaso, Paso, Rafaga
  <2>2. deCpu[c] \in Seq(De(TiposDeCpu)) /\ Orden(deCpu[c])
    BY <1>1, Locales DEF Formas, Forma
  <2> QED
    BY <1>4, <2>1, <2>2, OrdenDice DEF Con, Rafaga
<1> HIDE DEF m
<1>9. /\ deCpu' \in [Cpus -> Seq(De(TiposDeCpu))]
      /\ UnLugar' /\ Formas'
      /\ \A d \in Cpus : Duenio(d)' = Duenio(d)
      /\ \A d \in Cpus \ {c} : (EnEspera(d)' <=> EnEspera(d)) /\ \A t : (Con(d, t)' <=> Con(d, t))
      /\ \A t : Con(c, t)' <=> Con(c, t) \/ m.tipo = t
      /\ EnEspera(c)' <=> m.tipo = "WAIT"
  <2>1. /\ aCpu' = aCpu /\ libres' = libres /\ UNCHANGED <<listos, bloqueados>>
        /\ m.proceso = cpu[c].proceso
        /\ m.tipo \in {"ASIGNAR", "OBTENER", "WAIT_PCB"} => deCpu[c] = <<>>
        /\ cpu'[c].proceso = cpu[c].proceso \/ cpu'[c].proceso = NULO
        /\ cpu'[c].proceso = NULO <=> m.tipo \in {"QUANTUM", "FINALIZADO"}
        /\ cpu'[c].espera = IF m.tipo = "OBTENER" THEN "compartida"
                            ELSE IF m.tipo = "WAIT" THEN "wait" ELSE "no"
    BY <1>2, <1>3, <1>4, <1>5, <1>6, <1>8, ProcesosAssumption
  <2> QED
    BY <1>1, <1>3, <1>4, <1>5, <1>6, <2>1, AlEnviar
<1>10. TypeOK'
  BY <1>1, <1>3, <1>6, <1>7, <1>9 DEF TypeOK
<1>11. SuPaso'
  <2>1. Paso(c)'
    BY <1>4, <1>5, <1>6, <1>7, <1>8, <1>9 DEF Paso
  <2>2. proceso'[p].paso \in {"obtener", "asignar"} => proceso'[p].vueltas > 0
    BY <1>1, <1>3, <1>7 DEF SuPaso
  <2> QED
    BY <1>1, <1>3, <1>4, <1>6, <1>7, <1>9, <2>1, <2>2, LosDemasPasos
<1>12. Turno'
  <2>1. ASSUME NEW r \in Procesos PROVE Tiene(r)' => Tiene(r)
    <3>1. proceso'[r].paso # "wait" => proceso[r].paso # "wait"
      BY <1>3, <1>7
    <3>2. \A d \in Cpus : Duenio(d) = r /\ EnEspera(d) => Duenio(d)' = r /\ EnEspera(d)'
      BY <1>4, <1>9
    <3> QED
      BY <1>3, <3>1, <3>2, MismosDentro
  <2>2. \A d \in Cpus : Con(d, "SIGNAL")' => Con(d, "SIGNAL")
    BY <1>5, <1>9
  <2> QED
    BY <1>1, <1>3, <2>1, <2>2, MismoTurno
<1>13. Valores'
  <2>1. \A r \in Procesos : proceso'[r].paso = "asignar" => proceso'[r].local = valor
    BY <1>1, <1>7 DEF Valores
  <2>2. \A d \in Cpus : Asigna(deCpu'[d], valor + 1)
    <3>1. /\ deCpu'[c] = Append(deCpu[c], m) /\ deCpu[c] \in Seq(De(TiposDeCpu))
          /\ \A d \in Cpus \ {c} : deCpu'[d] = deCpu[d]
      BY <1>1, <1>3 DEF TypeOK
    <3>2. m.tipo = "ASIGNAR" => m.valor = valor + 1
      BY <1>1, <1>3, <1>5 DEF Valores
    <3>3. Asigna(deCpu'[c], valor + 1)
      BY <1>1, <1>5, <3>1, <3>2, Agregar DEF Valores
    <3> QED
      BY <1>1, <3>1, <3>3 DEF Valores
  <2>3. \A d \in Cpus : Espera(d, "VALOR")' => aCpu'[d][1].valor = valor
    BY <1>1, <1>3 DEF Valores, Espera
  <2>4. \A d \in Cpus : cpu'[d].compartida = 1 => cpu'[d].valor_pagina = valor
    BY <1>1, <1>6 DEF Valores
  <2> QED
    BY <1>3, <2>1, <2>2, <2>3, <2>4 DEF Valores
<1>14. Cuenta'
  <2>1. /\ proceso[p].vueltas \in Nat /\ proceso[p].vueltas > 0
        /\ Asignadas(p) = proceso[p].vueltas - 1 /\ Asignadas(p)' = proceso[p].vueltas
    <3>1. proceso[p].vueltas \in Nat /\ proceso[p].vueltas > 0
      BY <1>1, <1>3 DEF TypeOK, DelProceso, SuPaso
    <3> QED
      BY <1>3, <1>7, <3>1 DEF Asignadas
  <2> DEFINE s == <<p, proceso[p].vueltas>>
  <2>2. Secciones' = Secciones \cup {s} /\ s \notin Secciones
    <3>1. \A r \in Procesos \ {p} : Asignadas(r)' = Asignadas(r)
      BY <1>7 DEF Asignadas
    <3>2. 1..Asignadas(p)' = (1..Asignadas(p)) \cup {proceso[p].vueltas}
      BY <2>1
    <3>3. \A r \in Procesos : {r} \X (1..Asignadas(r)') =
            IF r = p THEN ({r} \X (1..Asignadas(r))) \cup {s} ELSE {r} \X (1..Asignadas(r))
      BY <3>1, <3>2
    <3>4. Secciones' = Secciones \cup {s}
      BY <3>3 DEF Secciones
    <3>5. proceso[p].vueltas \notin 1..Asignadas(p)
      BY <2>1
    <3> QED
      BY <3>4, <3>5 DEF Secciones
  <2>3. EnCamino' = EnCamino \cup {<<c, 1>>} /\ <<c, 1>> \notin EnCamino
    <3>1. \A d \in Cpus :
            {k \in DOMAIN deCpu[d] : deCpu[d][k].tipo = "ASIGNAR"}
              = IF Con(d, "ASIGNAR") THEN {1} ELSE {}
      BY <1>1, LugarDeAsignar, Locales DEF Formas, Forma, Con
    <3>2. \A d \in Cpus : deCpu'[d] \in Seq(De(TiposDeCpu)) /\ Orden(deCpu'[d])
      BY <1>9 DEF Formas, Forma
    <3>3. \A d \in Cpus :
            {k \in DOMAIN deCpu'[d] : deCpu'[d][k].tipo = "ASIGNAR"}
              = IF Con(d, "ASIGNAR")' THEN {1} ELSE {}
      BY <3>2, LugarDeAsignar DEF Con
    <3>4. Con(c, "ASIGNAR")' /\ ~Con(c, "ASIGNAR")
          /\ \A d \in Cpus \ {c} : (Con(d, "ASIGNAR")' <=> Con(d, "ASIGNAR"))
      BY <1>5, <1>8, <1>9
    <3>5. \A d \in Cpus : {d} \X {k \in DOMAIN deCpu'[d] : deCpu'[d][k].tipo = "ASIGNAR"} =
            IF d = c THEN {<<c, 1>>}
            ELSE {d} \X {k \in DOMAIN deCpu[d] : deCpu[d][k].tipo = "ASIGNAR"}
      BY <3>1, <3>3, <3>4
    <3>6. {c} \X {k \in DOMAIN deCpu[c] : deCpu[c][k].tipo = "ASIGNAR"} = {}
      BY <3>1, <3>4
    <3> QED
      BY <3>5, <3>6 DEF EnCamino
  <2> HIDE DEF s
  <2>4. /\ IsFiniteSet(Secciones') /\ Cardinality(Secciones') = Cardinality(Secciones) + 1
        /\ IsFiniteSet(EnCamino') /\ Cardinality(EnCamino') = Cardinality(EnCamino) + 1
    BY <1>1, <2>2, <2>3, FS_AddElement DEF Cuenta
  <2>5. Cardinality(EnCamino) \in Nat /\ Cardinality(Secciones) \in Nat /\ valor \in Nat
    BY <1>1, FS_CardinalityType DEF Cuenta, TypeOK
  <2>6. valor + Cardinality(EnCamino) = Cardinality(Secciones)
    BY <1>1 DEF Cuenta, ContadorExacto
  <2> QED
    BY <1>3, <2>4, <2>5, <2>6 DEF Cuenta, ContadorExacto
<1> QED
  BY <1>9, <1>10, <1>11, <1>12, <1>13, <1>14 DEF Inv

(* ansisop_signal: the token goes with the message.                        *)
LEMMA InvSignal ==
  ASSUME Inv, NEW c \in Cpus, Signal(c)
  PROVE  Inv'
<1>1. TypeOK /\ UnLugar /\ Formas /\ SuPaso /\ Turno /\ Valores /\ Cuenta
  BY DEF Inv
<1>2. PICK p \in Procesos : p = cpu[c].proceso
  <2>1. cpu[c].proceso # NULO
    BY DEF Signal, Ejecuta
  <2> QED
    BY <1>1, <2>1, Locales DEF DeLaCpu
<1> DEFINE m == Mensaje("SIGNAL", p, 0)
<1>3. /\ cpu[c].espera = "no" /\ proceso[p].paso = "signal"
      /\ deCpu' = [deCpu EXCEPT ![c] = Append(@, m)]
      /\ cpu' = [cpu EXCEPT ![c].corrio = TRUE]
      /\ proceso' = [proceso EXCEPT ![p].paso = "wait"]
      /\ UNCHANGED <<valor, semaforo, bloqueados, listos, libres, aCpu>>
  BY <1>2 DEF Signal, Ejecuta, Enviar, EnviarPcb, nucleo
<1>4. /\ aCpu[c] = <<>> /\ cpu[c].compartida = 0
      /\ Duenio(c) = p /\ cpu[c].proceso # NULO
      /\ \A t : Con(c, t) => t \in Rafaga
      /\ ~EnEspera(c)
  BY <1>1, <1>2, <1>3, Corriendo, ProcesosAssumption
<1>5. m \in De(TiposDeCpu) /\ m.tipo = "SIGNAL" /\ m.proceso = p /\ m.valor = 0
  <2>1. 0 \in Nat
    OBVIOUS
  <2> QED
    BY <2>1 DEF De, TiposDeCpu, Mensaje
<1>6. /\ cpu' \in [Cpus -> DeLaCpu]
      /\ cpu'[c].espera = "no" /\ cpu'[c].proceso = p /\ cpu'[c].compartida = 0
      /\ \A d \in Cpus \ {c} : cpu'[d] = cpu[d]
  <2>1. cpu \in [Cpus -> DeLaCpu] /\ cpu[c] \in DeLaCpu
    BY <1>1 DEF TypeOK
  <2>2. cpu'[c] = [cpu[c] EXCEPT !.corrio = TRUE]
    BY <1>3, <2>1 DEF DeLaCpu
  <2>3. \A d \in Cpus \ {c} : cpu'[d] = cpu[d]
    BY <1>3, <2>1
  <2> QED
    BY <1>2, <1>3, <1>4, <2>1, <2>2, <2>3 DEF DeLaCpu
<1>7. /\ proceso' \in [Procesos -> DelProceso]
      /\ proceso'[p].paso = "wait" /\ proceso'[p].vueltas = proceso[p].vueltas
      /\ \A r \in Procesos \ {p} : proceso'[r] = proceso[r]
  <2>1. proceso \in [Procesos -> DelProceso] /\ proceso[p] \in DelProceso
    BY <1>1 DEF TypeOK
  <2>2. proceso'[p] = [proceso[p] EXCEPT !.paso = "wait"]
    BY <1>3, <2>1 DEF DelProceso
  <2>3. \A r \in Procesos \ {p} : proceso'[r] = proceso[r]
    BY <1>3, <2>1
  <2>4. proceso'[p] \in DelProceso
    BY <2>1, <2>2 DEF DelProceso, Pasos
  <2>5. proceso'[p].paso = "wait" /\ proceso'[p].vueltas = proceso[p].vueltas
    BY <2>1, <2>2 DEF DelProceso
  <2> QED
    BY <1>3, <2>1, <2>3, <2>4, <2>5
<1>8. ~Con(c, "SIGNAL") /\ Tiene(p)
  <2>1. ~Con(c, "SIGNAL")
    BY <1>1, <1>3, <1>4 DEF SuPaso, Paso, Rafaga
  <2>2. ~Fuera(p)
    BY <1>1, <1>4, ProcesosAssumption DEF Fuera, UnLugar
  <2> QED
    BY <1>3, <2>1, <2>2 DEF Tiene
<1> HIDE DEF m
<1>9. /\ deCpu' \in [Cpus -> Seq(De(TiposDeCpu))]
      /\ UnLugar' /\ Formas'
      /\ \A d \in Cpus : Duenio(d)' = Duenio(d)
      /\ \A d \in Cpus \ {c} : (EnEspera(d)' <=> EnEspera(d)) /\ \A t : (Con(d, t)' <=> Con(d, t))
      /\ \A t : Con(c, t)' <=> Con(c, t) \/ m.tipo = t
      /\ EnEspera(c)' <=> m.tipo = "WAIT"
  <2>1. /\ aCpu' = aCpu /\ libres' = libres /\ UNCHANGED <<listos, bloqueados>>
        /\ m.proceso = cpu[c].proceso
        /\ m.tipo = "SIGNAL" => ~Con(c, "SIGNAL")
        /\ cpu'[c].proceso = cpu[c].proceso \/ cpu'[c].proceso = NULO
        /\ cpu'[c].proceso = NULO <=> m.tipo \in {"QUANTUM", "FINALIZADO"}
        /\ cpu'[c].espera = IF m.tipo = "OBTENER" THEN "compartida"
                            ELSE IF m.tipo = "WAIT" THEN "wait" ELSE "no"
    BY <1>2, <1>3, <1>4, <1>5, <1>6, <1>8, ProcesosAssumption
  <2> QED
    BY <1>1, <1>3, <1>4, <1>5, <1>6, <2>1, AlEnviar
<1>10. TypeOK'
  BY <1>1, <1>3, <1>6, <1>7, <1>9 DEF TypeOK
<1>11. SuPaso'
  <2>1. Paso(c)'
    BY <1>4, <1>5, <1>6, <1>7, <1>8, <1>9 DEF EnEspera, Paso
  <2>2. proceso'[p].paso \in {"obtener", "asignar"} => proceso'[p].vueltas > 0
    BY <1>1, <1>3, <1>7 DEF SuPaso
  <2> QED
    BY <1>1, <1>3, <1>4, <1>6, <1>7, <1>9, <2>1, <2>2, LosDemasPasos
<1>12. Turno'
  <2>1. ASSUME NEW r \in Procesos PROVE Tiene(r)' => Tiene(r)
    <3>1. proceso'[r].paso # "wait" => proceso[r].paso # "wait"
      BY <1>3, <1>7
    <3>2. \A d \in Cpus : Duenio(d) = r /\ EnEspera(d) => Duenio(d)' = r /\ EnEspera(d)'
      BY <1>4, <1>9
    <3> QED
      BY <1>3, <3>1, <3>2, MismosDentro
  <2>2. \A r \in Procesos : ~Tiene(r)'
    <3>1. ~Tiene(p)'
      BY <1>7 DEF Tiene
    <3> QED
      BY <1>1, <1>8, <2>1, <3>1 DEF Turno
  <2>3. semaforo # 1 /\ \A d \in Cpus : ~Con(d, "SIGNAL")
    BY <1>1, <1>8 DEF Turno
  <2>4. \A d \in Cpus : Con(d, "SIGNAL")' => d = c
    BY <1>9, <2>3
  <2> QED
    BY <1>3, <2>2, <2>3, <2>4 DEF Turno
<1>13. Valores'
  <2>1. \A r \in Procesos : proceso'[r].paso = "asignar" => proceso'[r].local = valor
    BY <1>1, <1>7 DEF Valores
  <2>2. \A d \in Cpus : Asigna(deCpu'[d], valor + 1)
    <3>1. /\ deCpu'[c] = Append(deCpu[c], m) /\ deCpu[c] \in Seq(De(TiposDeCpu))
          /\ \A d \in Cpus \ {c} : deCpu'[d] = deCpu[d]
      BY <1>1, <1>3 DEF TypeOK
    <3>2. m.tipo = "ASIGNAR" => m.valor = valor + 1
      BY <1>5
    <3>3. Asigna(deCpu'[c], valor + 1)
      BY <1>1, <1>5, <3>1, <3>2, Agregar DEF Valores
    <3> QED
      BY <1>1, <3>1, <3>3 DEF Valores
  <2>3. \A d \in Cpus : Espera(d, "VALOR")' => aCpu'[d][1].valor = valor
    BY <1>1, <1>3 DEF Valores, Espera
  <2>4. \A d \in Cpus : cpu'[d].compartida = 1 => cpu'[d].valor_pagina = valor
    BY <1>1, <1>6 DEF Valores
  <2> QED
    BY <1>3, <2>1, <2>2, <2>3, <2>4 DEF Valores
<1>14. Cuenta'
  <2>1. \A d \in Cpus : Con(d, "ASIGNAR")' <=> Con(d, "ASIGNAR")
    BY <1>5, <1>9
  <2>2. \A r \in Procesos : Asignadas(r)' = Asignadas(r)
    BY <1>3, <1>7 DEF Asignadas
  <2> QED
    BY <1>1, <1>3, <1>9, <1>10, <2>1, <2>2, MismaCuenta
<1> QED
  BY <1>9, <1>10, <1>11, <1>12, <1>13, <1>14 DEF Inv

(* The end of the quantum, inside the section or not.                      *)
LEMMA InvFinQuantum ==
  ASSUME Inv, NEW c \in Cpus, FinQuantum(c)
  PROVE  Inv'
<1>1. TypeOK /\ UnLugar /\ Formas /\ SuPaso /\ Turno /\ Valores /\ Cuenta
  BY DEF Inv
<1>2. PICK p \in Procesos : p = cpu[c].proceso
  <2>1. cpu[c].proceso # NULO
    BY DEF FinQuantum, Ejecuta
  <2> QED
    BY <1>1, <2>1, Locales DEF DeLaCpu
<1> DEFINE m == Mensaje("QUANTUM", p, 0)
<1>3. /\ cpu[c].espera = "no"
      /\ deCpu' = [deCpu EXCEPT ![c] = Append(@, m)]
      /\ cpu' = [cpu EXCEPT ![c].proceso = NULO, ![c].espera = "no"]
      /\ proceso' = proceso
      /\ UNCHANGED <<valor, semaforo, bloqueados, listos, libres, aCpu>>
  BY <1>2 DEF FinQuantum, Ejecuta, Enviar, EnviarPcb, nucleo
<1>4. /\ aCpu[c] = <<>> /\ cpu[c].compartida = 0
      /\ Duenio(c) = p /\ cpu[c].proceso # NULO
      /\ \A t : Con(c, t) => t \in Rafaga
      /\ ~EnEspera(c)
  BY <1>1, <1>2, <1>3, Corriendo, ProcesosAssumption
<1>5. m \in De(TiposDeCpu) /\ m.tipo = "QUANTUM" /\ m.proceso = p /\ m.valor = 0
  <2>1. 0 \in Nat
    OBVIOUS
  <2> QED
    BY <2>1 DEF De, TiposDeCpu, Mensaje
<1>6. /\ cpu' \in [Cpus -> DeLaCpu]
      /\ cpu'[c].espera = "no" /\ cpu'[c].proceso = NULO /\ cpu'[c].compartida = 0
      /\ \A d \in Cpus \ {c} : cpu'[d] = cpu[d]
  <2>1. cpu \in [Cpus -> DeLaCpu] /\ cpu[c] \in DeLaCpu
    BY <1>1 DEF TypeOK
  <2>2. cpu'[c] = [cpu[c] EXCEPT !.proceso = NULO, !.espera = "no"]
    BY <1>3, <2>1 DEF DeLaCpu
  <2>3. \A d \in Cpus \ {c} : cpu'[d] = cpu[d]
    BY <1>3, <2>1
  <2> QED
    BY <1>2, <1>3, <1>4, <2>1, <2>2, <2>3 DEF DeLaCpu
<1>7. proceso' \in [Procesos -> DelProceso] /\ \A r \in Procesos : proceso'[r] = proceso[r]
  BY <1>1, <1>3 DEF TypeOK
<1>8. Paso(c) /\ ~Con(c, "WAIT") /\ ~Con(c, "WAIT_PCB")
  BY <1>1, <1>4 DEF SuPaso, EnEspera
<1> HIDE DEF m
<1>9. /\ deCpu' \in [Cpus -> Seq(De(TiposDeCpu))]
      /\ UnLugar' /\ Formas'
      /\ \A d \in Cpus : Duenio(d)' = Duenio(d)
      /\ \A d \in Cpus \ {c} : (EnEspera(d)' <=> EnEspera(d)) /\ \A t : (Con(d, t)' <=> Con(d, t))
      /\ \A t : Con(c, t)' <=> Con(c, t) \/ m.tipo = t
      /\ EnEspera(c)' <=> m.tipo = "WAIT"
  <2>1. /\ aCpu' = aCpu /\ libres' = libres /\ UNCHANGED <<listos, bloqueados>>
        /\ m.proceso = cpu[c].proceso
        /\ cpu'[c].proceso = cpu[c].proceso \/ cpu'[c].proceso = NULO
        /\ cpu'[c].proceso = NULO <=> m.tipo \in {"QUANTUM", "FINALIZADO"}
        /\ cpu'[c].espera = IF m.tipo = "OBTENER" THEN "compartida"
                            ELSE IF m.tipo = "WAIT" THEN "wait" ELSE "no"
    BY <1>2, <1>3, <1>4, <1>5, <1>6, <1>8, ProcesosAssumption
  <2> QED
    BY <1>1, <1>3, <1>4, <1>5, <1>6, <2>1, AlEnviar
<1>10. TypeOK'
  BY <1>1, <1>3, <1>6, <1>7, <1>9 DEF TypeOK
<1>11. SuPaso'
  <2>1. Paso(c)'
    BY <1>3, <1>4, <1>5, <1>6, <1>7, <1>8, <1>9 DEF Paso
  <2>2. proceso'[p].paso \in {"obtener", "asignar"} => proceso'[p].vueltas > 0
    BY <1>1, <1>3, <1>7 DEF SuPaso
  <2> QED
    BY <1>1, <1>3, <1>4, <1>6, <1>7, <1>9, <2>1, <2>2, LosDemasPasos
<1>12. Turno'
  <2>1. ASSUME NEW r \in Procesos PROVE Tiene(r)' => Tiene(r)
    <3>1. proceso'[r].paso # "wait" => proceso[r].paso # "wait"
      BY <1>3, <1>7
    <3>2. \A d \in Cpus : Duenio(d) = r /\ EnEspera(d) => Duenio(d)' = r /\ EnEspera(d)'
      BY <1>4, <1>9
    <3> QED
      BY <1>3, <3>1, <3>2, MismosDentro
  <2>2. \A d \in Cpus : Con(d, "SIGNAL")' => Con(d, "SIGNAL")
    BY <1>5, <1>9
  <2> QED
    BY <1>1, <1>3, <2>1, <2>2, MismoTurno
<1>13. Valores'
  <2>1. \A r \in Procesos : proceso'[r].paso = "asignar" => proceso'[r].local = valor
    BY <1>1, <1>7 DEF Valores
  <2>2. \A d \in Cpus : Asigna(deCpu'[d], valor + 1)
    <3>1. /\ deCpu'[c] = Append(deCpu[c], m) /\ deCpu[c] \in Seq(De(TiposDeCpu))
          /\ \A d \in Cpus \ {c} : deCpu'[d] = deCpu[d]
      BY <1>1, <1>3 DEF TypeOK
    <3>2. m.tipo = "ASIGNAR" => m.valor = valor + 1
      BY <1>5
    <3>3. Asigna(deCpu'[c], valor + 1)
      BY <1>1, <1>5, <3>1, <3>2, Agregar DEF Valores
    <3> QED
      BY <1>1, <3>1, <3>3 DEF Valores
  <2>3. \A d \in Cpus : Espera(d, "VALOR")' => aCpu'[d][1].valor = valor
    BY <1>1, <1>3 DEF Valores, Espera
  <2>4. \A d \in Cpus : cpu'[d].compartida = 1 => cpu'[d].valor_pagina = valor
    BY <1>1, <1>6 DEF Valores
  <2> QED
    BY <1>3, <2>1, <2>2, <2>3, <2>4 DEF Valores
<1>14. Cuenta'
  <2>1. \A d \in Cpus : Con(d, "ASIGNAR")' <=> Con(d, "ASIGNAR")
    BY <1>5, <1>9
  <2>2. \A r \in Procesos : Asignadas(r)' = Asignadas(r)
    BY <1>3, <1>7 DEF Asignadas
  <2> QED
    BY <1>1, <1>3, <1>9, <1>10, <2>1, <2>2, MismaCuenta
<1> QED
  BY <1>9, <1>10, <1>11, <1>12, <1>13, <1>14 DEF Inv

(* The end of the program, which left every section.                       *)
LEMMA InvFinalizar ==
  ASSUME Inv, NEW c \in Cpus, Finalizar(c)
  PROVE  Inv'
<1>1. TypeOK /\ UnLugar /\ Formas /\ SuPaso /\ Turno /\ Valores /\ Cuenta
  BY DEF Inv
<1>2. PICK p \in Procesos : p = cpu[c].proceso
  <2>1. cpu[c].proceso # NULO
    BY DEF Finalizar, Ejecuta
  <2> QED
    BY <1>1, <2>1, Locales DEF DeLaCpu
<1> DEFINE m == Mensaje("FINALIZADO", p, 0)
<1>3. /\ cpu[c].espera = "no" /\ proceso[p].paso = "wait"
      /\ deCpu' = [deCpu EXCEPT ![c] = Append(@, m)]
      /\ cpu' = [cpu EXCEPT ![c].proceso = NULO, ![c].espera = "no"]
      /\ proceso' = proceso
      /\ UNCHANGED <<valor, semaforo, bloqueados, listos, libres, aCpu>>
  BY <1>2 DEF Finalizar, Ejecuta, Enviar, EnviarPcb, nucleo
<1>4. /\ aCpu[c] = <<>> /\ cpu[c].compartida = 0
      /\ Duenio(c) = p /\ cpu[c].proceso # NULO
      /\ \A t : Con(c, t) => t \in Rafaga
      /\ ~EnEspera(c)
  BY <1>1, <1>2, <1>3, Corriendo, ProcesosAssumption
<1>5. m \in De(TiposDeCpu) /\ m.tipo = "FINALIZADO" /\ m.proceso = p /\ m.valor = 0
  <2>1. 0 \in Nat
    OBVIOUS
  <2> QED
    BY <2>1 DEF De, TiposDeCpu, Mensaje
<1>6. /\ cpu' \in [Cpus -> DeLaCpu]
      /\ cpu'[c].espera = "no" /\ cpu'[c].proceso = NULO /\ cpu'[c].compartida = 0
      /\ \A d \in Cpus \ {c} : cpu'[d] = cpu[d]
  <2>1. cpu \in [Cpus -> DeLaCpu] /\ cpu[c] \in DeLaCpu
    BY <1>1 DEF TypeOK
  <2>2. cpu'[c] = [cpu[c] EXCEPT !.proceso = NULO, !.espera = "no"]
    BY <1>3, <2>1 DEF DeLaCpu
  <2>3. \A d \in Cpus \ {c} : cpu'[d] = cpu[d]
    BY <1>3, <2>1
  <2> QED
    BY <1>2, <1>3, <1>4, <2>1, <2>2, <2>3 DEF DeLaCpu
<1>7. proceso' \in [Procesos -> DelProceso] /\ \A r \in Procesos : proceso'[r] = proceso[r]
  BY <1>1, <1>3 DEF TypeOK
<1>8. /\ Con(c, "SIGNAL") \/ deCpu[c] = <<>>
      /\ Con(c, "ASIGNAR") => Con(c, "SIGNAL")
  <2>1. Con(c, "ASIGNAR") => Con(c, "SIGNAL")
    BY <1>1, <1>3, <1>4 DEF SuPaso, Paso
  <2>2. deCpu[c] \in Seq(De(TiposDeCpu)) /\ Orden(deCpu[c])
    BY <1>1, Locales DEF Formas, Forma
  <2> QED
    BY <1>4, <2>1, <2>2, OrdenDice DEF Con, Rafaga
<1> HIDE DEF m
<1>9. /\ deCpu' \in [Cpus -> Seq(De(TiposDeCpu))]
      /\ UnLugar' /\ Formas'
      /\ \A d \in Cpus : Duenio(d)' = Duenio(d)
      /\ \A d \in Cpus \ {c} : (EnEspera(d)' <=> EnEspera(d)) /\ \A t : (Con(d, t)' <=> Con(d, t))
      /\ \A t : Con(c, t)' <=> Con(c, t) \/ m.tipo = t
      /\ EnEspera(c)' <=> m.tipo = "WAIT"
  <2>1. /\ aCpu' = aCpu /\ libres' = libres /\ UNCHANGED <<listos, bloqueados>>
        /\ m.proceso = cpu[c].proceso
        /\ m.tipo \in {"WAIT", "FINALIZADO"} => deCpu[c] = <<>> \/ Con(c, "SIGNAL")
        /\ cpu'[c].proceso = cpu[c].proceso \/ cpu'[c].proceso = NULO
        /\ cpu'[c].proceso = NULO <=> m.tipo \in {"QUANTUM", "FINALIZADO"}
        /\ cpu'[c].espera = IF m.tipo = "OBTENER" THEN "compartida"
                            ELSE IF m.tipo = "WAIT" THEN "wait" ELSE "no"
    BY <1>2, <1>3, <1>4, <1>5, <1>6, <1>8, ProcesosAssumption
  <2> QED
    BY <1>1, <1>3, <1>4, <1>5, <1>6, <2>1, AlEnviar
<1>10. TypeOK'
  BY <1>1, <1>3, <1>6, <1>7, <1>9 DEF TypeOK
<1>11. SuPaso'
  <2>1. Paso(c)'
    BY <1>3, <1>4, <1>5, <1>6, <1>7, <1>8, <1>9 DEF EnEspera, Paso
  <2>2. proceso'[p].paso \in {"obtener", "asignar"} => proceso'[p].vueltas > 0
    BY <1>1, <1>3, <1>7 DEF SuPaso
  <2> QED
    BY <1>1, <1>3, <1>4, <1>6, <1>7, <1>9, <2>1, <2>2, LosDemasPasos
<1>12. Turno'
  <2>1. ASSUME NEW r \in Procesos PROVE Tiene(r)' => Tiene(r)
    <3>1. proceso'[r].paso # "wait" => proceso[r].paso # "wait"
      BY <1>3, <1>7
    <3>2. \A d \in Cpus : Duenio(d) = r /\ EnEspera(d) => Duenio(d)' = r /\ EnEspera(d)'
      BY <1>4, <1>9
    <3> QED
      BY <1>3, <3>1, <3>2, MismosDentro
  <2>2. \A d \in Cpus : Con(d, "SIGNAL")' => Con(d, "SIGNAL")
    BY <1>5, <1>9
  <2> QED
    BY <1>1, <1>3, <2>1, <2>2, MismoTurno
<1>13. Valores'
  <2>1. \A r \in Procesos : proceso'[r].paso = "asignar" => proceso'[r].local = valor
    BY <1>1, <1>7 DEF Valores
  <2>2. \A d \in Cpus : Asigna(deCpu'[d], valor + 1)
    <3>1. /\ deCpu'[c] = Append(deCpu[c], m) /\ deCpu[c] \in Seq(De(TiposDeCpu))
          /\ \A d \in Cpus \ {c} : deCpu'[d] = deCpu[d]
      BY <1>1, <1>3 DEF TypeOK
    <3>2. m.tipo = "ASIGNAR" => m.valor = valor + 1
      BY <1>5
    <3>3. Asigna(deCpu'[c], valor + 1)
      BY <1>1, <1>5, <3>1, <3>2, Agregar DEF Valores
    <3> QED
      BY <1>1, <3>1, <3>3 DEF Valores
  <2>3. \A d \in Cpus : Espera(d, "VALOR")' => aCpu'[d][1].valor = valor
    BY <1>1, <1>3 DEF Valores, Espera
  <2>4. \A d \in Cpus : cpu'[d].compartida = 1 => cpu'[d].valor_pagina = valor
    BY <1>1, <1>6 DEF Valores
  <2> QED
    BY <1>3, <2>1, <2>2, <2>3, <2>4 DEF Valores
<1>14. Cuenta'
  <2>1. \A d \in Cpus : Con(d, "ASIGNAR")' <=> Con(d, "ASIGNAR")
    BY <1>5, <1>9
  <2>2. \A r \in Procesos : Asignadas(r)' = Asignadas(r)
    BY <1>3, <1>7 DEF Asignadas
  <2> QED
    BY <1>1, <1>3, <1>9, <1>10, <2>1, <2>2, MismaCuenta
<1> QED
  BY <1>9, <1>10, <1>11, <1>12, <1>13, <1>14 DEF Inv

-----------------------------------------------------------------------------
(* The answers: the CPU c reads the one it has, or goes on with what it    *)
(* read.                                                                   *)

(* Whatever the CPU read, it has nothing on its way then.                  *)
LEMMA AlRecibir ==
  ASSUME TypeOK, UnLugar, Formas, NEW c \in Cpus, Duenio(c) # NULO,
         deCpu' = deCpu, deCpu[c] = <<>>, aCpu'[c] = <<>>, c \notin libres, libres' = libres,
         UNCHANGED <<listos, bloqueados>>,
         \A d \in Cpus \ {c} : cpu'[d] = cpu[d] /\ aCpu'[d] = aCpu[d],
         cpu'[c].proceso = Duenio(c), cpu'[c].compartida \in {0, 1},
         cpu'[c].compartida = 1 => cpu'[c].espera = "compartida"
  PROVE  /\ UnLugar' /\ Formas'
         /\ \A d \in Cpus : Duenio(d)' = Duenio(d) /\ \A t : (Con(d, t)' <=> Con(d, t))
         /\ \A d \in Cpus \ {c} : EnEspera(d)' <=> EnEspera(d)
         /\ ~EnEspera(c)' /\ \A t : ~Con(c, t)
<1>1. \A t : (Con(c, t)' <=> Con(c, t)) /\ ~Con(c, t) /\ ~Espera(c, t)'
  BY DEF Con, Hay, Espera
<1>2. Duenio(c)' = Duenio(c)
  BY DEF Duenio
<1>3. Forma(c)'
  <2>1. Orden(<<>>) /\ (\A p : DeUno(<<>>, p)) /\ Len(<<>>) <= 1
    BY DEF Orden, DeUno
  <2>2. /\ deCpu'[c] = <<>> /\ aCpu'[c] = <<>> /\ c \notin libres' /\ cpu'[c].proceso # NULO
        /\ cpu'[c].compartida = 1 => cpu'[c].espera = "compartida"
    OBVIOUS
  <2>3. \A t : ~Con(c, t)' /\ ~Espera(c, t)'
    BY <1>1
  <2> QED
    BY <2>1, <2>2, <2>3 DEF Forma
<1>4. /\ Formas'
      /\ \A d \in Cpus \ {c} : /\ Duenio(d)' = Duenio(d) /\ (EnEspera(d)' <=> EnEspera(d))
                               /\ \A t : (Con(d, t)' <=> Con(d, t))
  BY <1>3, LasDemas
<1>5. UnLugar'
  BY <1>2, <1>4, MismosLugares
<1>6. ~EnEspera(c)'
  BY <1>1 DEF EnEspera
<1> QED
  BY <1>1, <1>2, <1>4, <1>5, <1>6

(* The thread that waited has the last value.                              *)
LEMMA InvFinObtener ==
  ASSUME Inv, NEW c \in Cpus, FinObtener(c)
  PROVE  Inv'
<1>1. TypeOK /\ UnLugar /\ Formas /\ SuPaso /\ Turno /\ Valores /\ Cuenta
  BY DEF Inv
<1>2. /\ cpu[c].espera = "compartida" /\ cpu[c].compartida > 0
      /\ proceso' = [proceso EXCEPT ![cpu[c].proceso].paso = "asignar",
                                   ![cpu[c].proceso].local = cpu[c].valor_pagina]
      /\ cpu' = [cpu EXCEPT ![c].espera = "no", ![c].compartida = @ - 1, ![c].corrio = TRUE]
      /\ UNCHANGED <<valor, semaforo, bloqueados, listos, libres, deCpu, aCpu>>
  BY DEF FinObtener, Bajar, nucleo
<1>3. PICK p \in Procesos : p = Duenio(c) /\ p = cpu[c].proceso /\ proceso[p].paso = "obtener"
  <2>1. Duenio(c) \in Procesos /\ proceso[Duenio(c)].paso = "obtener"
    BY <1>1, <1>2, QuienLee
  <2>2. cpu[c].proceso # NULO
    BY <1>1, <1>2 DEF Formas, Forma
  <2> QED
    BY <2>1, <2>2 DEF Duenio
<1>4. /\ aCpu' \in [Cpus -> Seq(De(TiposACpu))]
      /\ \A d \in Cpus : aCpu'[d] = aCpu[d]
  BY <1>1, <1>2 DEF TypeOK
<1>5. cpu[c] \in DeLaCpu /\ cpu[c].compartida = 1 /\ cpu[c].valor_pagina = valor
  BY <1>1, <1>2, Locales DEF Valores, DeLaCpu
<1>6. deCpu[c] = <<>> /\ aCpu[c] = <<>> /\ c \notin libres
  BY <1>1, <1>3, <1>5, ProcesosAssumption DEF Formas, Forma
<1>7. /\ cpu' \in [Cpus -> DeLaCpu]
      /\ cpu'[c].espera = "no" /\ cpu'[c].proceso = p /\ cpu'[c].compartida = 0
      /\ \A d \in Cpus \ {c} : cpu'[d] = cpu[d]
  <2>1. cpu \in [Cpus -> DeLaCpu] /\ cpu[c] \in DeLaCpu
    BY <1>1 DEF TypeOK
  <2>2. cpu'[c] = [cpu[c] EXCEPT !.espera = "no", !.compartida = @ - 1, !.corrio = TRUE]
    BY <1>2, <2>1 DEF DeLaCpu
  <2>3. \A d \in Cpus \ {c} : cpu'[d] = cpu[d]
    BY <1>2, <2>1
  <2>4. cpu'[c].espera = "no" /\ cpu'[c].proceso = p /\ cpu'[c].compartida = 0
    BY <1>3, <1>5, <1>6, <2>1, <2>2 DEF DeLaCpu
  <2>5. cpu'[c] \in DeLaCpu
    <3>1. cpu'[c] = [cpu[c] EXCEPT !.espera = "no", !.compartida = 0, !.corrio = TRUE]
      BY <1>3, <1>5, <1>6, <2>1, <2>2 DEF DeLaCpu
    <3>2. valor \in Nat
      BY <1>1 DEF TypeOK
    <3> QED
      BY <2>1, <3>1, <3>2 DEF DeLaCpu
  <2> QED
    BY <1>2, <2>1, <2>3, <2>4, <2>5
<1>8. /\ proceso' \in [Procesos -> DelProceso]
      /\ proceso'[p].paso = "asignar" /\ proceso'[p].local = valor
      /\ proceso'[p].vueltas = proceso[p].vueltas
      /\ \A r \in Procesos \ {p} : proceso'[r] = proceso[r]
  <2>1. proceso \in [Procesos -> DelProceso] /\ proceso[p] \in DelProceso /\ valor \in Nat
    BY <1>1 DEF TypeOK
  <2>2. proceso'[p] = [proceso[p] EXCEPT !.paso = "asignar", !.local = valor]
    BY <1>2, <1>3, <1>5, <2>1 DEF DelProceso
  <2>3. \A r \in Procesos \ {p} : proceso'[r] = proceso[r]
    BY <1>2, <1>3, <2>1
  <2>4. proceso'[p] \in DelProceso
    BY <2>1, <2>2 DEF DelProceso, Pasos
  <2>5. /\ proceso'[p].paso = "asignar" /\ proceso'[p].local = valor
        /\ proceso'[p].vueltas = proceso[p].vueltas
    BY <2>1, <2>2 DEF DelProceso
  <2> QED
    BY <1>2, <2>1, <2>3, <2>4, <2>5
<1>9. /\ UnLugar' /\ Formas'
      /\ \A d \in Cpus : Duenio(d)' = Duenio(d) /\ \A t : (Con(d, t)' <=> Con(d, t))
      /\ \A d \in Cpus \ {c} : EnEspera(d)' <=> EnEspera(d)
      /\ ~EnEspera(c)' /\ \A t : ~Con(c, t)
  <2>1. /\ Duenio(c) # NULO /\ deCpu' = deCpu /\ libres' = libres /\ aCpu'[c] = <<>>
        /\ UNCHANGED <<listos, bloqueados>>
        /\ cpu'[c].proceso = Duenio(c) /\ cpu'[c].compartida \in {0, 1}
        /\ cpu'[c].compartida = 1 => cpu'[c].espera = "compartida"
        /\ \A d \in Cpus \ {c} : cpu'[d] = cpu[d] /\ aCpu'[d] = aCpu[d]
    BY <1>2, <1>3, <1>4, <1>5, <1>6, <1>7, ProcesosAssumption
  <2> QED
    BY <1>1, <1>3, <1>6, <2>1, AlRecibir
<1>10. TypeOK'
  BY <1>1, <1>2, <1>4, <1>7, <1>8, <1>9 DEF TypeOK
<1>11. SuPaso'
  <2>1. Paso(c)'
    BY <1>7, <1>9 DEF Paso
  <2>2. proceso'[p].paso \in {"obtener", "asignar"} => proceso'[p].vueltas > 0
    BY <1>1, <1>3, <1>8 DEF SuPaso
  <2>3. Duenio(c) \in Procesos /\ p = Duenio(c)
    BY <1>3
  <2>4. /\ bloqueados' = bloqueados
        /\ \A r \in Procesos \ {p} : proceso'[r] = proceso[r]
    BY <1>2, <1>8
  <2>5. \A d \in Cpus \ {c} : Duenio(d)' = Duenio(d) /\ cpu'[d] = cpu[d]
                                /\ \A t : (Con(d, t)' <=> Con(d, t))
    BY <1>7, <1>9
  <2> QED
    BY <1>1, <2>1, <2>2, <2>3, <2>4, <2>5, LosDemasPasos
<1>12. Turno'
  <2>1. ~EnEspera(c)
    BY <1>6 DEF EnEspera, Espera, Con, Hay
  <2>2. ASSUME NEW r \in Procesos PROVE Tiene(r)' => Tiene(r)
    <3>1. proceso'[r].paso # "wait" => proceso[r].paso # "wait"
      BY <1>3, <1>8
    <3>2. \A d \in Cpus : Duenio(d) = r /\ EnEspera(d) => Duenio(d)' = r /\ EnEspera(d)'
      BY <1>9, <2>1
    <3> QED
      BY <1>2, <3>1, <3>2, MismosDentro
  <2>3. \A d \in Cpus : Con(d, "SIGNAL")' => Con(d, "SIGNAL")
    BY <1>9
  <2> QED
    BY <1>1, <1>2, <2>2, <2>3, MismoTurno
<1>13. Valores'
  <2>1. \A r \in Procesos : proceso'[r].paso = "asignar" => proceso'[r].local = valor
    BY <1>1, <1>8 DEF Valores
  <2>2. \A d \in Cpus : Asigna(deCpu'[d], valor + 1)
    BY <1>1, <1>2 DEF Valores
  <2>3. \A d \in Cpus : Espera(d, "VALOR")' => aCpu'[d][1].valor = valor
    BY <1>1, <1>4, <1>6 DEF Valores, Espera
  <2>4. cpu'[c].compartida = 1 => cpu'[c].valor_pagina = valor
    BY <1>7
  <2>5. \A d \in Cpus : cpu'[d].compartida = 1 => cpu'[d].valor_pagina = valor
    BY <1>1, <1>7, <2>4 DEF Valores
  <2> QED
    BY <1>2, <2>1, <2>2, <2>3, <2>5 DEF Valores
<1>14. Cuenta'
  <2>1. \A d \in Cpus : Con(d, "ASIGNAR")' <=> Con(d, "ASIGNAR")
    BY <1>9
  <2>2. \A r \in Procesos : Asignadas(r)' = Asignadas(r)
    BY <1>3, <1>8 DEF Asignadas
  <2> QED
    BY <1>1, <1>2, <1>9, <1>10, <2>1, <2>2, MismaCuenta
<1> QED
  BY <1>9, <1>10, <1>11, <1>12, <1>13, <1>14 DEF Inv

(* recibo_PCB.                                                             *)
LEMMA InvReciboPcb ==
  ASSUME Inv, NEW c \in Cpus, ReciboPcb(c)
  PROVE  Inv'
<1>1. TypeOK /\ UnLugar /\ Formas /\ SuPaso /\ Turno /\ Valores /\ Cuenta
  BY DEF Inv
<1>2. /\ aCpu[c] # <<>> /\ Head(aCpu[c]).tipo = "PCB"
      /\ aCpu' = [aCpu EXCEPT ![c] = Tail(@)]
      /\ cpu' = [cpu EXCEPT ![c].proceso = Head(aCpu[c]).proceso, ![c].corrio = FALSE]
      /\ UNCHANGED <<valor, semaforo, bloqueados, listos, libres, proceso, deCpu>>
  BY DEF ReciboPcb, Llega, Recibido, Subir, nucleo
<1>3. /\ deCpu[c] = <<>> /\ \A t : ~Con(c, t)
      /\ Tail(aCpu[c]) = <<>> /\ Head(aCpu[c]) = aCpu[c][1] /\ aCpu[c][1] \in De(TiposACpu)
      /\ Duenio(c) = aCpu[c][1].proceso /\ c \notin libres
      /\ aCpu[c][1].tipo = "PCB" <=> cpu[c].proceso = NULO
  BY <1>1, <1>2, ConRespuesta
<1>4. /\ aCpu' \in [Cpus -> Seq(De(TiposACpu))] /\ aCpu'[c] = <<>>
      /\ \A d \in Cpus \ {c} : aCpu'[d] = aCpu[d]
  <2>1. aCpu \in [Cpus -> Seq(De(TiposACpu))] /\ <<>> \in Seq(De(TiposACpu))
    BY <1>1 DEF TypeOK
  <2> QED
    BY <1>2, <1>3, <2>1
<1>5. PICK p \in Procesos : p = Duenio(c)
  BY <1>3 DEF De
<1>6. cpu[c].proceso = NULO /\ cpu[c].espera = "no" /\ cpu[c].compartida = 0
  <2>1. cpu[c].proceso = NULO /\ cpu[c] \in DeLaCpu
    BY <1>1, <1>2, <1>3, Locales
  <2> QED
    BY <1>1, <1>2, <2>1 DEF Formas, Forma, DeLaCpu
<1>7. /\ cpu' \in [Cpus -> DeLaCpu]
      /\ cpu'[c].espera = "no" /\ cpu'[c].proceso = p /\ cpu'[c].compartida = 0
      /\ \A d \in Cpus \ {c} : cpu'[d] = cpu[d]
  <2>1. cpu \in [Cpus -> DeLaCpu] /\ cpu[c] \in DeLaCpu
    BY <1>1 DEF TypeOK
  <2>2. cpu'[c] = [cpu[c] EXCEPT !.proceso = Head(aCpu[c]).proceso, !.corrio = FALSE]
    BY <1>2, <2>1 DEF DeLaCpu
  <2>3. \A d \in Cpus \ {c} : cpu'[d] = cpu[d]
    BY <1>2, <2>1
  <2>4. cpu'[c].espera = "no" /\ cpu'[c].proceso = p /\ cpu'[c].compartida = 0
    BY <1>3, <1>5, <1>6, <2>1, <2>2 DEF DeLaCpu
  <2>5. cpu'[c] \in DeLaCpu
    BY <1>3, <1>5, <1>6, <2>1, <2>2 DEF DeLaCpu, De
  <2> QED
    BY <1>2, <2>1, <2>3, <2>4, <2>5
<1>8. proceso' \in [Procesos -> DelProceso] /\ \A r \in Procesos : proceso'[r] = proceso[r]
  BY <1>1, <1>2 DEF TypeOK
<1>9. /\ UnLugar' /\ Formas'
      /\ \A d \in Cpus : Duenio(d)' = Duenio(d) /\ \A t : (Con(d, t)' <=> Con(d, t))
      /\ \A d \in Cpus \ {c} : EnEspera(d)' <=> EnEspera(d)
      /\ ~EnEspera(c)' /\ \A t : ~Con(c, t)
  <2>1. /\ Duenio(c) # NULO /\ deCpu' = deCpu /\ libres' = libres /\ aCpu'[c] = <<>>
        /\ UNCHANGED <<listos, bloqueados>>
        /\ cpu'[c].proceso = Duenio(c) /\ cpu'[c].compartida \in {0, 1}
        /\ cpu'[c].compartida = 1 => cpu'[c].espera = "compartida"
        /\ \A d \in Cpus \ {c} : cpu'[d] = cpu[d] /\ aCpu'[d] = aCpu[d]
    BY <1>2, <1>3, <1>4, <1>5, <1>6, <1>7, ProcesosAssumption
  <2> QED
    BY <1>1, <1>3, <1>6, <2>1, AlRecibir
<1>10. TypeOK'
  BY <1>1, <1>2, <1>4, <1>7, <1>8, <1>9 DEF TypeOK
<1>11. SuPaso'
  <2>1. Paso(c)'
    BY <1>7, <1>9 DEF Paso
  <2>2. proceso'[p].paso \in {"obtener", "asignar"} => proceso'[p].vueltas > 0
    BY <1>1, <1>3, <1>8 DEF SuPaso
  <2>3. Duenio(c) \in Procesos /\ p = Duenio(c)
    BY <1>5
  <2>4. /\ bloqueados' = bloqueados
        /\ \A r \in Procesos \ {p} : proceso'[r] = proceso[r]
    BY <1>2, <1>8
  <2>5. \A d \in Cpus \ {c} : Duenio(d)' = Duenio(d) /\ cpu'[d] = cpu[d]
                                /\ \A t : (Con(d, t)' <=> Con(d, t))
    BY <1>7, <1>9
  <2> QED
    BY <1>1, <2>1, <2>2, <2>3, <2>4, <2>5, LosDemasPasos
<1>12. Turno'
  <2>1. ~EnEspera(c)
    BY <1>2, <1>3 DEF EnEspera, Espera, Con, Hay
  <2>2. ASSUME NEW r \in Procesos PROVE Tiene(r)' => Tiene(r)
    <3>1. proceso'[r].paso # "wait" => proceso[r].paso # "wait"
      BY <1>3, <1>8
    <3>2. \A d \in Cpus : Duenio(d) = r /\ EnEspera(d) => Duenio(d)' = r /\ EnEspera(d)'
      BY <1>9, <2>1
    <3> QED
      BY <1>2, <3>1, <3>2, MismosDentro
  <2>3. \A d \in Cpus : Con(d, "SIGNAL")' => Con(d, "SIGNAL")
    BY <1>9
  <2> QED
    BY <1>1, <1>2, <2>2, <2>3, MismoTurno
<1>13. Valores'
  <2>1. \A r \in Procesos : proceso'[r].paso = "asignar" => proceso'[r].local = valor
    BY <1>1, <1>8 DEF Valores
  <2>2. \A d \in Cpus : Asigna(deCpu'[d], valor + 1)
    BY <1>1, <1>2 DEF Valores
  <2>3. \A d \in Cpus : Espera(d, "VALOR")' => aCpu'[d][1].valor = valor
    BY <1>1, <1>4, <1>6 DEF Valores, Espera
  <2>4. cpu'[c].compartida = 1 => cpu'[c].valor_pagina = valor
    BY <1>7
  <2>5. \A d \in Cpus : cpu'[d].compartida = 1 => cpu'[d].valor_pagina = valor
    BY <1>1, <1>7, <2>4 DEF Valores
  <2> QED
    BY <1>2, <2>1, <2>2, <2>3, <2>5 DEF Valores
<1>14. Cuenta'
  <2>1. \A d \in Cpus : Con(d, "ASIGNAR")' <=> Con(d, "ASIGNAR")
    BY <1>9
  <2>2. \A r \in Procesos : Asignadas(r)' = Asignadas(r)
    BY <1>2, <1>8 DEF Asignadas
  <2> QED
    BY <1>1, <1>2, <1>9, <1>10, <2>1, <2>2, MismaCuenta
<1> QED
  BY <1>9, <1>10, <1>11, <1>12, <1>13, <1>14 DEF Inv

(* The answer to a read: the page has the last value before the post.      *)
LEMMA InvRespuestaLeerCompartida ==
  ASSUME Inv, NEW c \in Cpus, RespuestaLeerCompartida(c)
  PROVE  Inv'
<1>1. TypeOK /\ UnLugar /\ Formas /\ SuPaso /\ Turno /\ Valores /\ Cuenta
  BY DEF Inv
<1>2. /\ aCpu[c] # <<>> /\ Head(aCpu[c]).tipo = "VALOR"
      /\ aCpu' = [aCpu EXCEPT ![c] = Tail(@)]
      /\ cpu' = [cpu EXCEPT ![c].valor_pagina = Head(aCpu[c]).valor, ![c].compartida = @ + 1]
      /\ UNCHANGED <<valor, semaforo, bloqueados, listos, libres, proceso, deCpu>>
  BY DEF RespuestaLeerCompartida, Llega, Recibido, Subir, nucleo
<1>3. /\ deCpu[c] = <<>> /\ \A t : ~Con(c, t)
      /\ Tail(aCpu[c]) = <<>> /\ Head(aCpu[c]) = aCpu[c][1] /\ aCpu[c][1] \in De(TiposACpu)
      /\ Duenio(c) = aCpu[c][1].proceso /\ c \notin libres
      /\ aCpu[c][1].tipo = "PCB" <=> cpu[c].proceso = NULO
  BY <1>1, <1>2, ConRespuesta
<1>4. /\ aCpu' \in [Cpus -> Seq(De(TiposACpu))] /\ aCpu'[c] = <<>>
      /\ \A d \in Cpus \ {c} : aCpu'[d] = aCpu[d]
  <2>1. aCpu \in [Cpus -> Seq(De(TiposACpu))] /\ <<>> \in Seq(De(TiposACpu))
    BY <1>1 DEF TypeOK
  <2> QED
    BY <1>2, <1>3, <2>1
<1>5. PICK p \in Procesos : p = Duenio(c)
  BY <1>3 DEF De
<1>6. /\ cpu[c].proceso = p /\ cpu[c].espera = "compartida" /\ cpu[c].compartida = 0
      /\ aCpu[c][1].valor = valor /\ proceso[p].paso = "obtener"
  <2>1. Espera(c, "VALOR") /\ cpu[c].proceso # NULO
    BY <1>2, <1>3 DEF Espera
  <2>2. cpu[c].espera = "compartida" /\ cpu[c].compartida = 0
    BY <1>1, <2>1 DEF Formas, Forma
  <2>3. proceso[p].paso = "obtener"
    BY <1>1, <1>5, <2>2, QuienLee
  <2> QED
    BY <1>1, <1>5, <2>1, <2>2, <2>3 DEF Valores, Duenio
<1>7. /\ cpu' \in [Cpus -> DeLaCpu]
      /\ cpu'[c].espera = "compartida" /\ cpu'[c].proceso = p /\ cpu'[c].compartida = 1 /\ cpu'[c].valor_pagina = valor
      /\ \A d \in Cpus \ {c} : cpu'[d] = cpu[d]
  <2>1. cpu \in [Cpus -> DeLaCpu] /\ cpu[c] \in DeLaCpu
    BY <1>1 DEF TypeOK
  <2>2. cpu'[c] = [cpu[c] EXCEPT !.valor_pagina = Head(aCpu[c]).valor, !.compartida = @ + 1]
    BY <1>2, <2>1 DEF DeLaCpu
  <2>3. \A d \in Cpus \ {c} : cpu'[d] = cpu[d]
    BY <1>2, <2>1
  <2>4. cpu'[c].espera = "compartida" /\ cpu'[c].proceso = p /\ cpu'[c].compartida = 1 /\ cpu'[c].valor_pagina = valor
    BY <1>3, <1>5, <1>6, <2>1, <2>2 DEF DeLaCpu
  <2>5. cpu'[c] \in DeLaCpu
    <3>1. Head(aCpu[c]).valor = valor /\ cpu[c].compartida + 1 = 1
      BY <1>3, <1>6
    <3>2. cpu'[c] = [cpu[c] EXCEPT !.valor_pagina = valor, !.compartida = 1]
      BY <2>2, <3>1
    <3>3. valor \in Nat
      BY <1>1 DEF TypeOK
    <3> QED
      BY <2>1, <3>2, <3>3 DEF DeLaCpu
  <2> QED
    BY <1>2, <2>1, <2>3, <2>4, <2>5
<1>8. proceso' \in [Procesos -> DelProceso] /\ \A r \in Procesos : proceso'[r] = proceso[r]
  BY <1>1, <1>2 DEF TypeOK
<1>9. /\ UnLugar' /\ Formas'
      /\ \A d \in Cpus : Duenio(d)' = Duenio(d) /\ \A t : (Con(d, t)' <=> Con(d, t))
      /\ \A d \in Cpus \ {c} : EnEspera(d)' <=> EnEspera(d)
      /\ ~EnEspera(c)' /\ \A t : ~Con(c, t)
  <2>1. /\ Duenio(c) # NULO /\ deCpu' = deCpu /\ libres' = libres /\ aCpu'[c] = <<>>
        /\ UNCHANGED <<listos, bloqueados>>
        /\ cpu'[c].proceso = Duenio(c) /\ cpu'[c].compartida \in {0, 1}
        /\ cpu'[c].compartida = 1 => cpu'[c].espera = "compartida"
        /\ \A d \in Cpus \ {c} : cpu'[d] = cpu[d] /\ aCpu'[d] = aCpu[d]
    BY <1>2, <1>3, <1>4, <1>5, <1>6, <1>7, ProcesosAssumption
  <2> QED
    BY <1>1, <1>3, <1>6, <2>1, AlRecibir
<1>10. TypeOK'
  BY <1>1, <1>2, <1>4, <1>7, <1>8, <1>9 DEF TypeOK
<1>11. SuPaso'
  <2>1. Paso(c)'
    BY <1>5, <1>6, <1>8, <1>9 DEF Paso
  <2>2. proceso'[p].paso \in {"obtener", "asignar"} => proceso'[p].vueltas > 0
    BY <1>1, <1>3, <1>8 DEF SuPaso
  <2>3. Duenio(c) \in Procesos /\ p = Duenio(c)
    BY <1>5
  <2>4. /\ bloqueados' = bloqueados
        /\ \A r \in Procesos \ {p} : proceso'[r] = proceso[r]
    BY <1>2, <1>8
  <2>5. \A d \in Cpus \ {c} : Duenio(d)' = Duenio(d) /\ cpu'[d] = cpu[d]
                                /\ \A t : (Con(d, t)' <=> Con(d, t))
    BY <1>7, <1>9
  <2> QED
    BY <1>1, <2>1, <2>2, <2>3, <2>4, <2>5, LosDemasPasos
<1>12. Turno'
  <2>1. ~EnEspera(c)
    BY <1>2, <1>3 DEF EnEspera, Espera, Con, Hay
  <2>2. ASSUME NEW r \in Procesos PROVE Tiene(r)' => Tiene(r)
    <3>1. proceso'[r].paso # "wait" => proceso[r].paso # "wait"
      BY <1>3, <1>8
    <3>2. \A d \in Cpus : Duenio(d) = r /\ EnEspera(d) => Duenio(d)' = r /\ EnEspera(d)'
      BY <1>9, <2>1
    <3> QED
      BY <1>2, <3>1, <3>2, MismosDentro
  <2>3. \A d \in Cpus : Con(d, "SIGNAL")' => Con(d, "SIGNAL")
    BY <1>9
  <2> QED
    BY <1>1, <1>2, <2>2, <2>3, MismoTurno
<1>13. Valores'
  <2>1. \A r \in Procesos : proceso'[r].paso = "asignar" => proceso'[r].local = valor
    BY <1>1, <1>8 DEF Valores
  <2>2. \A d \in Cpus : Asigna(deCpu'[d], valor + 1)
    BY <1>1, <1>2 DEF Valores
  <2>3. \A d \in Cpus : Espera(d, "VALOR")' => aCpu'[d][1].valor = valor
    BY <1>1, <1>4, <1>6 DEF Valores, Espera
  <2>4. cpu'[c].compartida = 1 => cpu'[c].valor_pagina = valor
    BY <1>7
  <2>5. \A d \in Cpus : cpu'[d].compartida = 1 => cpu'[d].valor_pagina = valor
    BY <1>1, <1>7, <2>4 DEF Valores
  <2> QED
    BY <1>2, <2>1, <2>2, <2>3, <2>5 DEF Valores
<1>14. Cuenta'
  <2>1. \A d \in Cpus : Con(d, "ASIGNAR")' <=> Con(d, "ASIGNAR")
    BY <1>9
  <2>2. \A r \in Procesos : Asignadas(r)' = Asignadas(r)
    BY <1>2, <1>8 DEF Asignadas
  <2> QED
    BY <1>1, <1>2, <1>9, <1>10, <2>1, <2>2, MismaCuenta
<1> QED
  BY <1>9, <1>10, <1>11, <1>12, <1>13, <1>14 DEF Inv

(* The wait did not block.                                                 *)
LEMMA InvRespuestaSeguiRafaga ==
  ASSUME Inv, NEW c \in Cpus, RespuestaSeguiRafaga(c)
  PROVE  Inv'
<1>1. TypeOK /\ UnLugar /\ Formas /\ SuPaso /\ Turno /\ Valores /\ Cuenta
  BY DEF Inv
<1>2. /\ aCpu[c] # <<>> /\ Head(aCpu[c]).tipo = "SEGUI_RAFAGA"
      /\ aCpu' = [aCpu EXCEPT ![c] = Tail(@)]
      /\ cpu' = [cpu EXCEPT ![c].espera = "no"]
      /\ UNCHANGED <<valor, semaforo, bloqueados, listos, libres, proceso, deCpu>>
  BY DEF RespuestaSeguiRafaga, Llega, Recibido, Subir, nucleo
<1>3. /\ deCpu[c] = <<>> /\ \A t : ~Con(c, t)
      /\ Tail(aCpu[c]) = <<>> /\ Head(aCpu[c]) = aCpu[c][1] /\ aCpu[c][1] \in De(TiposACpu)
      /\ Duenio(c) = aCpu[c][1].proceso /\ c \notin libres
      /\ aCpu[c][1].tipo = "PCB" <=> cpu[c].proceso = NULO
  BY <1>1, <1>2, ConRespuesta
<1>4. /\ aCpu' \in [Cpus -> Seq(De(TiposACpu))] /\ aCpu'[c] = <<>>
      /\ \A d \in Cpus \ {c} : aCpu'[d] = aCpu[d]
  <2>1. aCpu \in [Cpus -> Seq(De(TiposACpu))] /\ <<>> \in Seq(De(TiposACpu))
    BY <1>1 DEF TypeOK
  <2> QED
    BY <1>2, <1>3, <2>1
<1>5. PICK p \in Procesos : p = Duenio(c)
  BY <1>3 DEF De
<1>6. cpu[c].proceso = p /\ cpu[c].compartida = 0
  <2>1. Espera(c, "SEGUI_RAFAGA") /\ cpu[c].proceso # NULO
    BY <1>2, <1>3 DEF Espera
  <2>2. cpu[c].compartida # 1 /\ cpu[c] \in DeLaCpu
    BY <1>1, <1>2, Locales DEF Formas, Forma
  <2> QED
    BY <1>5, <2>1, <2>2 DEF Duenio, DeLaCpu
<1>7. /\ cpu' \in [Cpus -> DeLaCpu]
      /\ cpu'[c].espera = "no" /\ cpu'[c].proceso = p /\ cpu'[c].compartida = 0
      /\ \A d \in Cpus \ {c} : cpu'[d] = cpu[d]
  <2>1. cpu \in [Cpus -> DeLaCpu] /\ cpu[c] \in DeLaCpu
    BY <1>1 DEF TypeOK
  <2>2. cpu'[c] = [cpu[c] EXCEPT !.espera = "no"]
    BY <1>2, <2>1 DEF DeLaCpu
  <2>3. \A d \in Cpus \ {c} : cpu'[d] = cpu[d]
    BY <1>2, <2>1
  <2>4. cpu'[c].espera = "no" /\ cpu'[c].proceso = p /\ cpu'[c].compartida = 0
    BY <1>3, <1>5, <1>6, <2>1, <2>2 DEF DeLaCpu
  <2>5. cpu'[c] \in DeLaCpu
    BY <1>3, <1>5, <1>6, <2>1, <2>2 DEF DeLaCpu, De
  <2> QED
    BY <1>2, <2>1, <2>3, <2>4, <2>5
<1>8. proceso' \in [Procesos -> DelProceso] /\ \A r \in Procesos : proceso'[r] = proceso[r]
  BY <1>1, <1>2 DEF TypeOK
<1>9. /\ UnLugar' /\ Formas'
      /\ \A d \in Cpus : Duenio(d)' = Duenio(d) /\ \A t : (Con(d, t)' <=> Con(d, t))
      /\ \A d \in Cpus \ {c} : EnEspera(d)' <=> EnEspera(d)
      /\ ~EnEspera(c)' /\ \A t : ~Con(c, t)
  <2>1. /\ Duenio(c) # NULO /\ deCpu' = deCpu /\ libres' = libres /\ aCpu'[c] = <<>>
        /\ UNCHANGED <<listos, bloqueados>>
        /\ cpu'[c].proceso = Duenio(c) /\ cpu'[c].compartida \in {0, 1}
        /\ cpu'[c].compartida = 1 => cpu'[c].espera = "compartida"
        /\ \A d \in Cpus \ {c} : cpu'[d] = cpu[d] /\ aCpu'[d] = aCpu[d]
    BY <1>2, <1>3, <1>4, <1>5, <1>6, <1>7, ProcesosAssumption
  <2> QED
    BY <1>1, <1>3, <1>6, <2>1, AlRecibir
<1>10. TypeOK'
  BY <1>1, <1>2, <1>4, <1>7, <1>8, <1>9 DEF TypeOK
<1>11. SuPaso'
  <2>1. Paso(c)'
    BY <1>7, <1>9 DEF Paso
  <2>2. proceso'[p].paso \in {"obtener", "asignar"} => proceso'[p].vueltas > 0
    BY <1>1, <1>3, <1>8 DEF SuPaso
  <2>3. Duenio(c) \in Procesos /\ p = Duenio(c)
    BY <1>5
  <2>4. /\ bloqueados' = bloqueados
        /\ \A r \in Procesos \ {p} : proceso'[r] = proceso[r]
    BY <1>2, <1>8
  <2>5. \A d \in Cpus \ {c} : Duenio(d)' = Duenio(d) /\ cpu'[d] = cpu[d]
                                /\ \A t : (Con(d, t)' <=> Con(d, t))
    BY <1>7, <1>9
  <2> QED
    BY <1>1, <2>1, <2>2, <2>3, <2>4, <2>5, LosDemasPasos
<1>12. Turno'
  <2>1. ~EnEspera(c)
    BY <1>2, <1>3 DEF EnEspera, Espera, Con, Hay
  <2>2. ASSUME NEW r \in Procesos PROVE Tiene(r)' => Tiene(r)
    <3>1. proceso'[r].paso # "wait" => proceso[r].paso # "wait"
      BY <1>3, <1>8
    <3>2. \A d \in Cpus : Duenio(d) = r /\ EnEspera(d) => Duenio(d)' = r /\ EnEspera(d)'
      BY <1>9, <2>1
    <3> QED
      BY <1>2, <3>1, <3>2, MismosDentro
  <2>3. \A d \in Cpus : Con(d, "SIGNAL")' => Con(d, "SIGNAL")
    BY <1>9
  <2> QED
    BY <1>1, <1>2, <2>2, <2>3, MismoTurno
<1>13. Valores'
  <2>1. \A r \in Procesos : proceso'[r].paso = "asignar" => proceso'[r].local = valor
    BY <1>1, <1>8 DEF Valores
  <2>2. \A d \in Cpus : Asigna(deCpu'[d], valor + 1)
    BY <1>1, <1>2 DEF Valores
  <2>3. \A d \in Cpus : Espera(d, "VALOR")' => aCpu'[d][1].valor = valor
    BY <1>1, <1>4, <1>6 DEF Valores, Espera
  <2>4. cpu'[c].compartida = 1 => cpu'[c].valor_pagina = valor
    BY <1>7
  <2>5. \A d \in Cpus : cpu'[d].compartida = 1 => cpu'[d].valor_pagina = valor
    BY <1>1, <1>7, <2>4 DEF Valores
  <2> QED
    BY <1>2, <2>1, <2>2, <2>3, <2>5 DEF Valores
<1>14. Cuenta'
  <2>1. \A d \in Cpus : Con(d, "ASIGNAR")' <=> Con(d, "ASIGNAR")
    BY <1>9
  <2>2. \A r \in Procesos : Asignadas(r)' = Asignadas(r)
    BY <1>2, <1>8 DEF Asignadas
  <2> QED
    BY <1>1, <1>2, <1>9, <1>10, <2>1, <2>2, MismaCuenta
<1> QED
  BY <1>9, <1>10, <1>11, <1>12, <1>13, <1>14 DEF Inv

(* RespuestaWait: the PCB goes back to the Nucleo.                         *)
LEMMA InvRespuestaWait ==
  ASSUME Inv, NEW c \in Cpus, RespuestaWait(c)
  PROVE  Inv'
<1>1. TypeOK /\ UnLugar /\ Formas /\ SuPaso /\ Turno /\ Valores /\ Cuenta
  BY DEF Inv
<1>2. /\ aCpu[c] # <<>> /\ Head(aCpu[c]).tipo = "ESPERA"
      /\ aCpu' = [aCpu EXCEPT ![c] = Tail(@)]
      /\ deCpu' = [deCpu EXCEPT ![c] = Append(@, Mensaje("WAIT_PCB", cpu[c].proceso, 0))]
      /\ cpu' = [cpu EXCEPT ![c].proceso = NULO, ![c].espera = "no"]
      /\ UNCHANGED <<valor, semaforo, bloqueados, listos, libres, proceso>>
  BY DEF RespuestaWait, Llega, EnviarPcb, Enviar, nucleo
<1>3. /\ deCpu[c] = <<>> /\ \A t : ~Con(c, t)
      /\ Tail(aCpu[c]) = <<>> /\ Head(aCpu[c]) = aCpu[c][1] /\ aCpu[c][1] \in De(TiposACpu)
      /\ Duenio(c) = aCpu[c][1].proceso /\ c \notin libres
      /\ aCpu[c][1].tipo = "PCB" <=> cpu[c].proceso = NULO
  BY <1>1, <1>2, ConRespuesta
<1>4. PICK p \in Procesos : p = Duenio(c) /\ p = cpu[c].proceso
  <2>1. cpu[c].proceso # NULO /\ Duenio(c) \in Procesos
    BY <1>2, <1>3 DEF De
  <2> QED
    BY <2>1 DEF Duenio
<1> DEFINE m == Mensaje("WAIT_PCB", p, 0)
<1>5. /\ m \in De(TiposDeCpu) /\ m.tipo = "WAIT_PCB" /\ m.proceso = p
      /\ <<m>> \in Seq(De(TiposDeCpu)) /\ <<m>> # <<>> /\ Len(<<m>>) = 1 /\ <<m>>[1] = m
      /\ Append(<<>>, m) = <<m>>
  <2>1. m \in De(TiposDeCpu) /\ m.tipo = "WAIT_PCB" /\ m.proceso = p
    BY DEF De, TiposDeCpu, Mensaje
  <2> QED
    BY <2>1, UnMensaje
<1>6. cpu[c].compartida = 0 /\ cpu[c].espera = "wait" /\ proceso[p].paso = "obtener"
  <2>1. Espera(c, "ESPERA") /\ cpu[c] \in DeLaCpu
    BY <1>1, <1>2, <1>3, Locales DEF Espera
  <2>2. cpu[c].compartida # 1 /\ cpu[c].espera = "wait"
    BY <1>1, <1>2, <2>1 DEF Formas, Forma
  <2> QED
    BY <1>1, <1>4, <2>1, <2>2 DEF SuPaso, Paso, DeLaCpu
<1>7. /\ deCpu' \in [Cpus -> Seq(De(TiposDeCpu))] /\ deCpu'[c] = <<m>>
      /\ \A d \in Cpus \ {c} : deCpu'[d] = deCpu[d]
  <2>1. deCpu \in [Cpus -> Seq(De(TiposDeCpu))]
    BY <1>1 DEF TypeOK
  <2>2. deCpu' = [deCpu EXCEPT ![c] = <<m>>]
    BY <1>2, <1>3, <1>4, <1>5, <2>1
  <2> HIDE DEF m
  <2> QED
    BY <1>5, <2>1, <2>2
<1> HIDE DEF m
<1>8. /\ aCpu' \in [Cpus -> Seq(De(TiposACpu))] /\ aCpu'[c] = <<>>
      /\ \A d \in Cpus \ {c} : aCpu'[d] = aCpu[d]
  <2>1. aCpu \in [Cpus -> Seq(De(TiposACpu))] /\ <<>> \in Seq(De(TiposACpu))
    BY <1>1 DEF TypeOK
  <2> QED
    BY <1>2, <1>3, <2>1
<1>9. /\ cpu' \in [Cpus -> DeLaCpu]
      /\ cpu'[c].proceso = NULO /\ cpu'[c].espera = "no" /\ cpu'[c].compartida = 0
      /\ \A d \in Cpus \ {c} : cpu'[d] = cpu[d]
  <2>1. cpu \in [Cpus -> DeLaCpu] /\ cpu[c] \in DeLaCpu
    BY <1>1 DEF TypeOK
  <2>2. cpu'[c] = [cpu[c] EXCEPT !.proceso = NULO, !.espera = "no"]
    BY <1>2, <2>1 DEF DeLaCpu
  <2>3. \A d \in Cpus \ {c} : cpu'[d] = cpu[d]
    BY <1>2, <2>1
  <2> QED
    BY <1>2, <1>6, <2>1, <2>2, <2>3 DEF DeLaCpu
<1>10. TypeOK'
  BY <1>1, <1>2, <1>7, <1>8, <1>9 DEF TypeOK
<1>11. /\ \A t : Con(c, t)' <=> t = "WAIT_PCB"
       /\ \A t : ~Espera(c, t)'
       /\ Duenio(c)' = p
  <2>1. DOMAIN <<m>> = 1..1
    BY <1>5
  <2> QED
    BY <1>5, <1>7, <1>8, <1>9, <2>1 DEF Con, Hay, Espera, Duenio
<1>12. Forma(c)'
  <2>1. DOMAIN <<m>> = {1}
    BY <1>5
  <2>2. Orden(<<m>>) /\ DeUno(<<m>>, p) /\ Cierra(<<m>>)
    BY <1>5, <2>1 DEF Orden, DeUno, Cierra, Rafaga
  <2>3. Len(<<>>) <= 1
    OBVIOUS
  <2>4. /\ Orden(deCpu'[c]) /\ DeUno(deCpu'[c], Duenio(c)') /\ Cierra(deCpu'[c])
        /\ Len(aCpu'[c]) <= 1 /\ aCpu'[c] = <<>> /\ c \notin libres'
    BY <1>2, <1>3, <1>7, <1>8, <1>11, <2>2, <2>3
  <2> QED
    BY <1>9, <1>11, <2>4 DEF Forma
<1>13. /\ Formas'
       /\ \A d \in Cpus \ {c} : /\ Duenio(d)' = Duenio(d) /\ (EnEspera(d)' <=> EnEspera(d))
                                /\ \A t : (Con(d, t)' <=> Con(d, t))
  BY <1>1, <1>2, <1>7, <1>8, <1>9, <1>12, LasDemas
<1>14. UnLugar'
  BY <1>1, <1>2, <1>4, <1>11, <1>13, MismosLugares
<1>15. SuPaso'
  <2>1. Paso(c)'
    BY <1>2, <1>6, <1>9, <1>11 DEF Paso
  <2>2. proceso'[p].paso \in {"obtener", "asignar"} => proceso'[p].vueltas > 0
    BY <1>1, <1>2 DEF SuPaso
  <2> QED
    BY <1>1, <1>2, <1>4, <1>9, <1>13, <2>1, <2>2, LosDemasPasos
<1>16. Turno'
  <2>1. EnEspera(c)'
    BY <1>11 DEF EnEspera
  <2>2. ASSUME NEW r \in Procesos PROVE Tiene(r)' => Tiene(r)
    <3>1. \A d \in Cpus : Duenio(d) = r /\ EnEspera(d) => Duenio(d)' = r /\ EnEspera(d)'
      BY <1>4, <1>11, <1>13, <2>1
    <3> QED
      BY <1>2, <3>1, MismosDentro
  <2>3. \A d \in Cpus : Con(d, "SIGNAL")' => Con(d, "SIGNAL")
    BY <1>11, <1>13
  <2> QED
    BY <1>1, <1>2, <2>2, <2>3, MismoTurno
<1>17. Valores'
  <2>1. Asigna(<<m>>, valor + 1)
    BY <1>5 DEF Asigna
  <2>2. \A d \in Cpus : Asigna(deCpu'[d], valor + 1)
    BY <1>1, <1>7, <2>1 DEF Valores
  <2>3. \A d \in Cpus : Espera(d, "VALOR")' => aCpu'[d][1].valor = valor
    BY <1>1, <1>8 DEF Valores, Espera
  <2>4. \A d \in Cpus : cpu'[d].compartida = 1 => cpu'[d].valor_pagina = valor
    BY <1>1, <1>9 DEF Valores
  <2> QED
    BY <1>1, <1>2, <2>2, <2>3, <2>4 DEF Valores
<1>18. Cuenta'
  <2>1. \A d \in Cpus : Con(d, "ASIGNAR")' <=> Con(d, "ASIGNAR")
    BY <1>3, <1>11, <1>13
  <2>2. \A r \in Procesos : Asignadas(r)' = Asignadas(r)
    BY <1>2 DEF Asignadas
  <2> QED
    BY <1>1, <1>2, <1>10, <1>13, <2>1, <2>2, MismaCuenta
<1> QED
  BY <1>10, <1>13, <1>14, <1>15, <1>16, <1>17, <1>18 DEF Inv

-----------------------------------------------------------------------------
(* The Nucleo takes the first message of the CPU c.                        *)

(* One that it answers: then it was the only one.                          *)
LEMMA AlResponder ==
  ASSUME TypeOK, UnLugar, Formas, NEW c \in Cpus, NEW m \in De(TiposACpu),
         deCpu[c] # <<>>,
         \/ Head(deCpu[c]).tipo = "OBTENER" /\ m.tipo = "VALOR"
         \/ Head(deCpu[c]).tipo = "WAIT" /\ m.tipo \in {"SEGUI_RAFAGA", "ESPERA"},
         m.proceso = Head(deCpu[c]).proceso,
         deCpu' = [deCpu EXCEPT ![c] = Tail(@)], aCpu' = [aCpu EXCEPT ![c] = Append(@, m)],
         UNCHANGED <<bloqueados, listos, libres, cpu>>
  PROVE  /\ deCpu' \in [Cpus -> Seq(De(TiposDeCpu))] /\ aCpu' \in [Cpus -> Seq(De(TiposACpu))]
         /\ deCpu'[c] = <<>> /\ aCpu'[c] = <<m>> /\ <<m>>[1] = m
         /\ \A d \in Cpus \ {c} : deCpu'[d] = deCpu[d] /\ aCpu'[d] = aCpu[d]
         /\ UnLugar' /\ Formas' /\ Duenio(c) \in Procesos
         /\ \A t : Con(c, t) <=> t = Head(deCpu[c]).tipo
         /\ \A t : ~Con(c, t)'
         /\ EnEspera(c) <=> Head(deCpu[c]).tipo = "WAIT"
         /\ EnEspera(c)' <=> m.tipo = "ESPERA"
         /\ cpu[c].espera = IF m.tipo = "VALOR" THEN "compartida" ELSE "wait"
         /\ \A d \in Cpus : Duenio(d)' = Duenio(d)
         /\ \A d \in Cpus \ {c} : (EnEspera(d)' <=> EnEspera(d)) /\ \A t : (Con(d, t)' <=> Con(d, t))
<1> DEFINE h == Head(deCpu[c])
<1>1. /\ aCpu[c] = <<>> /\ c \notin libres /\ cpu[c].compartida = 0
      /\ h = deCpu[c][1] /\ h \in De(TiposDeCpu)
      /\ Duenio(c) = h.proceso /\ Duenio(c) \in Procesos
      /\ Con(c, h.tipo)
  BY ConMensaje
<1>2. /\ Tail(deCpu[c]) = <<>> /\ <<>> \in Seq(De(TiposDeCpu))
      /\ \A t : Con(c, t) <=> t = h.tipo
  <2>1. deCpu[c] \in Seq(De(TiposDeCpu)) /\ Orden(deCpu[c])
    BY Locales DEF Formas, Forma
  <2>2. /\ Tail(deCpu[c]) = <<>> /\ Hay(deCpu[c], h.tipo)
        /\ \A t : Hay(Tail(deCpu[c]), t) <=> Hay(deCpu[c], t) /\ t # h.tipo
    BY <2>1, Sacar DEF Rafaga
  <2>3. \A t : ~Hay(Tail(deCpu[c]), t)
    BY <2>2 DEF Hay
  <2>4. \A t : Hay(deCpu[c], t) <=> t = h.tipo
    BY <2>2, <2>3
  <2> QED
    BY <2>2, <2>4 DEF Con
<1>3. /\ Append(<<>>, m) = <<m>> /\ <<m>> \in Seq(De(TiposACpu)) /\ <<m>> # <<>>
      /\ Len(<<m>>) = 1 /\ <<m>>[1] = m
  BY UnMensaje
<1>4. /\ deCpu' \in [Cpus -> Seq(De(TiposDeCpu))] /\ deCpu'[c] = <<>>
      /\ \A d \in Cpus \ {c} : deCpu'[d] = deCpu[d]
  <2>1. deCpu \in [Cpus -> Seq(De(TiposDeCpu))]
    BY DEF TypeOK
  <2> QED
    BY <1>2, <2>1
<1>5. /\ aCpu' \in [Cpus -> Seq(De(TiposACpu))] /\ aCpu'[c] = <<m>>
      /\ \A d \in Cpus \ {c} : aCpu'[d] = aCpu[d]
  <2>1. aCpu \in [Cpus -> Seq(De(TiposACpu))]
    BY DEF TypeOK
  <2>2. aCpu' = [aCpu EXCEPT ![c] = <<m>>]
    BY <1>1, <1>3, <2>1
  <2> QED
    BY <1>3, <2>1, <2>2
<1>6. Forma(c) /\ cpu[c].proceso # NULO
  BY <1>2 DEF Formas, Forma
<1>7. Duenio(c)' = Duenio(c)
  BY <1>6 DEF Duenio
<1>8. /\ \A t : ~Con(c, t)'
      /\ \A t : Espera(c, t)' <=> m.tipo = t
  BY <1>3, <1>4, <1>5 DEF Con, Hay, Espera
<1>9. cpu[c].espera = IF m.tipo = "VALOR" THEN "compartida" ELSE "wait"
  BY <1>2, <1>6 DEF Forma
<1>10. Forma(c)'
  <2>1. Orden(<<>>) /\ \A r : DeUno(<<>>, r)
    BY DEF Orden, DeUno
  <2>2. /\ Orden(deCpu'[c]) /\ DeUno(deCpu'[c], Duenio(c)') /\ deCpu'[c] = <<>>
    BY <1>4, <2>1
  <2>3. Len(aCpu'[c]) <= 1 /\ aCpu'[c] # <<>>
    BY <1>3, <1>5, SMTT(30)
  <2>4. aCpu'[c][1].proceso = Duenio(c)'
    BY <1>1, <1>3, <1>5, <1>7
  <2> QED
    BY <1>1, <1>6, <1>8, <1>9, <2>2, <2>3, <2>4 DEF Forma
<1>11. /\ Formas'
       /\ \A d \in Cpus \ {c} : /\ Duenio(d)' = Duenio(d) /\ (EnEspera(d)' <=> EnEspera(d))
                                /\ \A t : (Con(d, t)' <=> Con(d, t))
  BY <1>4, <1>5, <1>10, LasDemas
<1>12. UnLugar'
  BY <1>7, <1>11, MismosLugares
<1>13. /\ EnEspera(c) <=> h.tipo = "WAIT"
       /\ EnEspera(c)' <=> m.tipo = "ESPERA"
  BY <1>1, <1>2, <1>8 DEF EnEspera, Espera
<1> QED
  BY <1>1, <1>2, <1>3, <1>4, <1>5, <1>7, <1>8, <1>9, <1>11, <1>12, <1>13

(* atiendo_obtener_compartida: the answer has the value of the moment.     *)
LEMMA InvAtiendoObtenerCompartida ==
  ASSUME Inv, NEW c \in Cpus, AtiendoObtenerCompartida(c)
  PROVE  Inv'
<1>1. TypeOK /\ UnLugar /\ Formas /\ SuPaso /\ Turno /\ Valores /\ Cuenta
  BY DEF Inv
<1>2. PICK h \in De(TiposDeCpu) : h = Head(deCpu[c]) /\ deCpu[c] # <<>> /\ h.tipo = "OBTENER"
  BY <1>1, ConMensaje DEF AtiendoObtenerCompartida, Atiende
<1>3. PICK v \in Nat : v = valor
  BY <1>1 DEF TypeOK
<1> DEFINE m == Mensaje("VALOR", h.proceso, v)
<1>4. /\ deCpu' = [deCpu EXCEPT ![c] = Tail(@)]
      /\ aCpu' = [aCpu EXCEPT ![c] = Append(@, m)]
      /\ UNCHANGED <<valor, semaforo, bloqueados, listos, libres, proceso, cpu>>
  BY <1>2, <1>3 DEF AtiendoObtenerCompartida, Atiende, Responder, Emisor, nucleo
<1>5. m \in De(TiposACpu) /\ m.tipo = "VALOR" /\ m.proceso = h.proceso /\ m.valor = v
  BY DEF De, TiposDeCpu, TiposACpu, Mensaje
<1> HIDE DEF m
<1>6. /\ deCpu' \in [Cpus -> Seq(De(TiposDeCpu))] /\ aCpu' \in [Cpus -> Seq(De(TiposACpu))]
      /\ deCpu'[c] = <<>> /\ aCpu'[c] = <<m>> /\ <<m>>[1] = m
      /\ \A d \in Cpus \ {c} : deCpu'[d] = deCpu[d] /\ aCpu'[d] = aCpu[d]
      /\ UnLugar' /\ Formas' /\ Duenio(c) \in Procesos
      /\ \A t : Con(c, t) <=> t = "OBTENER"
      /\ \A t : ~Con(c, t)'
      /\ EnEspera(c) <=> h.tipo = "WAIT"
      /\ EnEspera(c)' <=> m.tipo = "ESPERA"
      /\ \A d \in Cpus : Duenio(d)' = Duenio(d)
      /\ \A d \in Cpus \ {c} : (EnEspera(d)' <=> EnEspera(d)) /\ \A t : (Con(d, t)' <=> Con(d, t))
  <2>1. /\ deCpu[c] # <<>> /\ Head(deCpu[c]) = h
        /\ Head(deCpu[c]).tipo = "OBTENER" /\ m.tipo = "VALOR"
        /\ m.proceso = Head(deCpu[c]).proceso
        /\ UNCHANGED <<bloqueados, listos, libres, cpu>>
    BY <1>2, <1>4, <1>5
  <2>2. /\ deCpu' \in [Cpus -> Seq(De(TiposDeCpu))] /\ aCpu' \in [Cpus -> Seq(De(TiposACpu))]
        /\ deCpu'[c] = <<>> /\ aCpu'[c] = <<m>> /\ <<m>>[1] = m
        /\ \A d \in Cpus \ {c} : deCpu'[d] = deCpu[d] /\ aCpu'[d] = aCpu[d]
        /\ UnLugar' /\ Formas' /\ Duenio(c) \in Procesos
        /\ \A t : Con(c, t) <=> t = Head(deCpu[c]).tipo
        /\ \A t : ~Con(c, t)'
        /\ EnEspera(c) <=> Head(deCpu[c]).tipo = "WAIT"
        /\ EnEspera(c)' <=> m.tipo = "ESPERA"
        /\ cpu[c].espera = IF m.tipo = "VALOR" THEN "compartida" ELSE "wait"
        /\ \A d \in Cpus : Duenio(d)' = Duenio(d)
        /\ \A d \in Cpus \ {c} : (EnEspera(d)' <=> EnEspera(d)) /\ \A t : (Con(d, t)' <=> Con(d, t))
    BY <1>1, <1>4, <1>5, <2>1, AlResponder
  <2> QED
    BY <2>1, <2>2
<1>7. TypeOK'
  BY <1>1, <1>4, <1>6 DEF TypeOK
<1>8. SuPaso'
  <2>1. Paso(c)'
    BY <1>1, <1>4, <1>6 DEF Paso, SuPaso
  <2>2. proceso'[Duenio(c)].paso \in {"obtener", "asignar"} => proceso'[Duenio(c)].vueltas > 0
    BY <1>1, <1>4, <1>6 DEF SuPaso
  <2> QED
    BY <1>1, <1>4, <1>6, <2>1, <2>2, LosDemasPasos
<1>9. Turno'
  <2>1. ASSUME NEW r \in Procesos PROVE Tiene(r)' => Tiene(r)
    <3>1. \A d \in Cpus : Duenio(d) = r /\ EnEspera(d) => Duenio(d)' = r /\ EnEspera(d)'
      BY <1>2, <1>6
    <3> QED
      BY <1>4, <3>1, MismosDentro
  <2>2. \A d \in Cpus : Con(d, "SIGNAL")' => Con(d, "SIGNAL")
    BY <1>6
  <2> QED
    BY <1>1, <1>4, <2>1, <2>2, MismoTurno
<1>10. Valores'
  <2>1. Asigna(<<>>, valor + 1)
    BY DEF Asigna
  <2>2. \A d \in Cpus : Asigna(deCpu'[d], valor + 1)
    BY <1>1, <1>6, <2>1 DEF Valores
  <2>3. \A d \in Cpus : Espera(d, "VALOR")' => aCpu'[d][1].valor = valor
    BY <1>1, <1>3, <1>5, <1>6, SMTT(30) DEF Valores, Espera
  <2> QED
    BY <1>1, <1>4, <2>2, <2>3 DEF Valores
<1>11. Cuenta'
  <2>1. \A d \in Cpus : Con(d, "ASIGNAR")' <=> Con(d, "ASIGNAR")
    BY <1>6
  <2>2. \A r \in Procesos : Asignadas(r)' = Asignadas(r)
    BY <1>4 DEF Asignadas
  <2> QED
    BY <1>1, <1>4, <1>6, <1>7, <2>1, <2>2, MismaCuenta
<1> QED
  BY <1>6, <1>7, <1>8, <1>9, <1>10, <1>11 DEF Inv

(* The wait: the process is let in, or told to wait.                       *)
LEMMA InvAtiendoWait ==
  ASSUME Inv, NEW c \in Cpus, AtiendoWait(c)
  PROVE  Inv'
<1>1. TypeOK /\ UnLugar /\ Formas /\ SuPaso /\ Turno /\ Valores /\ Cuenta
  BY DEF Inv
<1>2. PICK h \in De(TiposDeCpu) : h = Head(deCpu[c]) /\ deCpu[c] # <<>> /\ h.tipo = "WAIT"
  BY <1>1, ConMensaje DEF AtiendoWait, Atiende
<1>3. PICK tipo \in {"SEGUI_RAFAGA", "ESPERA"} :
        /\ deCpu' = [deCpu EXCEPT ![c] = Tail(@)]
        /\ aCpu' = [aCpu EXCEPT ![c] = Append(@, Mensaje(tipo, h.proceso, 0))]
        /\ UNCHANGED <<valor, bloqueados, listos, libres, proceso, cpu>>
        /\ \/ tipo = "SEGUI_RAFAGA" /\ semaforo = 1 /\ semaforo' = 0
           \/ tipo = "ESPERA" /\ semaforo' = semaforo
  <2>1. semaforo \in {0, 1}
    BY <1>1 DEF TypeOK
  <2>2. CASE semaforo > 0
    <3>1. aCpu' = [aCpu EXCEPT ![c] = Append(@, Mensaje("SEGUI_RAFAGA", h.proceso, 0))]
      BY <1>2, <2>2 DEF AtiendoWait, Responder, Emisor
    <3>2. semaforo = 1 /\ semaforo' = 0
      BY <2>1, <2>2 DEF AtiendoWait
    <3> QED
      BY <1>2, <3>1, <3>2 DEF AtiendoWait, Atiende
  <2>3. CASE ~(semaforo > 0)
    <3>1. aCpu' = [aCpu EXCEPT ![c] = Append(@, Mensaje("ESPERA", h.proceso, 0))]
      BY <1>2, <2>3 DEF AtiendoWait, Responder, Emisor
    <3> QED
      BY <1>2, <2>3, <3>1 DEF AtiendoWait, Atiende
  <2> QED
    BY <2>2, <2>3
<1> DEFINE m == Mensaje(tipo, h.proceso, 0)
<1>4. m \in De(TiposACpu) /\ m.tipo = tipo /\ m.proceso = h.proceso
  BY DEF De, TiposDeCpu, TiposACpu, Mensaje
<1> HIDE DEF m
<1>5. aCpu' = [aCpu EXCEPT ![c] = Append(@, m)]
  BY <1>3 DEF m
<1>6. /\ deCpu' \in [Cpus -> Seq(De(TiposDeCpu))] /\ aCpu' \in [Cpus -> Seq(De(TiposACpu))]
      /\ deCpu'[c] = <<>> /\ aCpu'[c] = <<m>> /\ <<m>>[1] = m
      /\ \A d \in Cpus \ {c} : deCpu'[d] = deCpu[d] /\ aCpu'[d] = aCpu[d]
      /\ UnLugar' /\ Formas' /\ Duenio(c) \in Procesos
      /\ \A t : Con(c, t) <=> t = "WAIT"
      /\ \A t : ~Con(c, t)'
      /\ EnEspera(c) <=> h.tipo = "WAIT"
      /\ EnEspera(c)' <=> m.tipo = "ESPERA"
      /\ cpu[c].espera = IF m.tipo = "VALOR" THEN "compartida" ELSE "wait"
      /\ \A d \in Cpus : Duenio(d)' = Duenio(d)
      /\ \A d \in Cpus \ {c} : (EnEspera(d)' <=> EnEspera(d)) /\ \A t : (Con(d, t)' <=> Con(d, t))
  <2>1. /\ deCpu[c] # <<>> /\ Head(deCpu[c]) = h
        /\ Head(deCpu[c]).tipo = "WAIT" /\ m.tipo \in {"SEGUI_RAFAGA", "ESPERA"}
        /\ m.proceso = Head(deCpu[c]).proceso
        /\ deCpu' = [deCpu EXCEPT ![c] = Tail(@)]
        /\ UNCHANGED <<bloqueados, listos, libres, cpu>>
    BY <1>2, <1>3, <1>4
  <2>2. /\ deCpu' \in [Cpus -> Seq(De(TiposDeCpu))] /\ aCpu' \in [Cpus -> Seq(De(TiposACpu))]
        /\ deCpu'[c] = <<>> /\ aCpu'[c] = <<m>> /\ <<m>>[1] = m
        /\ \A d \in Cpus \ {c} : deCpu'[d] = deCpu[d] /\ aCpu'[d] = aCpu[d]
        /\ UnLugar' /\ Formas' /\ Duenio(c) \in Procesos
        /\ \A t : Con(c, t) <=> t = Head(deCpu[c]).tipo
        /\ \A t : ~Con(c, t)'
        /\ EnEspera(c) <=> Head(deCpu[c]).tipo = "WAIT"
        /\ EnEspera(c)' <=> m.tipo = "ESPERA"
        /\ cpu[c].espera = IF m.tipo = "VALOR" THEN "compartida" ELSE "wait"
        /\ \A d \in Cpus : Duenio(d)' = Duenio(d)
        /\ \A d \in Cpus \ {c} : (EnEspera(d)' <=> EnEspera(d)) /\ \A t : (Con(d, t)' <=> Con(d, t))
    BY <1>1, <1>4, <1>5, <2>1, AlResponder
  <2> QED
    BY <2>1, <2>2
<1>7. TypeOK'
  BY <1>1, <1>3, <1>6 DEF TypeOK
<1>8. SuPaso'
  <2>1. Paso(c)'
    BY <1>1, <1>3, <1>6 DEF Paso, SuPaso
  <2>2. proceso'[Duenio(c)].paso \in {"obtener", "asignar"} => proceso'[Duenio(c)].vueltas > 0
    BY <1>1, <1>3, <1>6 DEF SuPaso
  <2> QED
    BY <1>1, <1>3, <1>6, <2>1, <2>2, LosDemasPasos
<1>9. Turno'
  <2>1. \A d \in Cpus : Con(d, "SIGNAL")' => Con(d, "SIGNAL")
    BY <1>6
  <2>2. CASE tipo = "ESPERA"
    <3>1. ASSUME NEW r \in Procesos PROVE Tiene(r)' => Tiene(r)
      <4>1. \A d \in Cpus : Duenio(d) = r /\ EnEspera(d) => Duenio(d)' = r /\ EnEspera(d)'
        BY <1>4, <1>6, <2>2
      <4> QED
        BY <1>3, <4>1, MismosDentro
    <3> QED
      BY <1>1, <1>3, <2>1, <2>2, <3>1, MismoTurno
  <2>3. CASE tipo = "SEGUI_RAFAGA"
    <3>1. semaforo = 1 /\ semaforo' = 0
      BY <1>3, <2>3
    <3>2. (\A r \in Procesos : ~Tiene(r)) /\ \A d \in Cpus : ~Con(d, "SIGNAL")
      BY <1>1, <3>1 DEF Turno
    <3>3. ASSUME NEW r \in Procesos, r # Duenio(c) PROVE ~Tiene(r)'
      <4>1. \A d \in Cpus : Duenio(d) = r /\ EnEspera(d) => Duenio(d)' = r /\ EnEspera(d)'
        BY <1>6, <3>3
      <4> QED
        BY <1>3, <3>2, <4>1, MismosDentro
    <3> QED
      BY <2>1, <3>1, <3>2, <3>3 DEF Turno
  <2> QED
    BY <2>2, <2>3
<1>10. Valores'
  <2>1. Asigna(<<>>, valor + 1)
    BY DEF Asigna
  <2>2. \A d \in Cpus : Asigna(deCpu'[d], valor + 1)
    BY <1>1, <1>6, <2>1 DEF Valores
  <2>3. \A d \in Cpus : Espera(d, "VALOR")' => aCpu'[d][1].valor = valor
    BY <1>1, <1>4, <1>6, ZenonT(30) DEF Valores, Espera
  <2> QED
    BY <1>1, <1>3, <2>2, <2>3 DEF Valores
<1>11. Cuenta'
  <2>1. \A d \in Cpus : Con(d, "ASIGNAR")' <=> Con(d, "ASIGNAR")
    BY <1>6
  <2>2. \A r \in Procesos : Asignadas(r)' = Asignadas(r)
    BY <1>3 DEF Asignadas
  <2> QED
    BY <1>1, <1>3, <1>6, <1>7, <2>1, <2>2, MismaCuenta
<1> QED
  BY <1>6, <1>7, <1>8, <1>9, <1>10, <1>11 DEF Inv

(* An assignment or a signal: what was sent after it stays.                *)
LEMMA AlAtender ==
  ASSUME TypeOK, UnLugar, Formas, NEW c \in Cpus, deCpu[c] # <<>>,
         Head(deCpu[c]).tipo \in Rafaga,
         deCpu' = [deCpu EXCEPT ![c] = Tail(@)],
         UNCHANGED <<bloqueados, listos, libres, cpu, aCpu>>
  PROVE  /\ deCpu' \in [Cpus -> Seq(De(TiposDeCpu))]
         /\ deCpu'[c] = Tail(deCpu[c]) /\ \A d \in Cpus \ {c} : deCpu'[d] = deCpu[d]
         /\ UnLugar' /\ Formas' /\ Duenio(c) \in Procesos
         /\ Con(c, Head(deCpu[c]).tipo)
         /\ \A t : Con(c, t)' <=> Con(c, t) /\ t # Head(deCpu[c]).tipo
         /\ \A d \in Cpus : Duenio(d)' = Duenio(d) /\ (EnEspera(d)' <=> EnEspera(d))
         /\ \A d \in Cpus \ {c} : \A t : (Con(d, t)' <=> Con(d, t))
         /\ \A v : Asigna(deCpu[c], v) => Asigna(deCpu'[c], v)
         /\ Head(deCpu[c]).tipo = "SIGNAL" => ~Con(c, "ASIGNAR")
<1> DEFINE h == Head(deCpu[c])
           q == Tail(deCpu[c])
<1>1. /\ aCpu[c] = <<>> /\ c \notin libres /\ cpu[c].compartida = 0
      /\ h = deCpu[c][1] /\ h \in De(TiposDeCpu)
      /\ Duenio(c) = deCpu[c][1].proceso /\ Duenio(c) \in Procesos
      /\ Con(c, h.tipo)
  BY ConMensaje
<1>2. /\ deCpu[c] \in Seq(De(TiposDeCpu)) /\ Forma(c)
      /\ Orden(deCpu[c]) /\ DeUno(deCpu[c], Duenio(c))
  BY Locales DEF Formas, Forma
<1>3. /\ q \in Seq(De(TiposDeCpu)) /\ Orden(q) /\ DeUno(q, Duenio(c))
      /\ q # <<>> => q[1].proceso = Duenio(c)
      /\ \A t : Hay(q, t) <=> Hay(deCpu[c], t) /\ t # h.tipo
      /\ \A v : Asigna(deCpu[c], v) => Asigna(q, v)
      /\ Cierra(deCpu[c]) => Cierra(q) /\ q # <<>>
  BY <1>2, Sacar
<1>4. /\ deCpu' \in [Cpus -> Seq(De(TiposDeCpu))] /\ deCpu'[c] = q
      /\ \A d \in Cpus \ {c} : deCpu'[d] = deCpu[d]
  <2>1. deCpu \in [Cpus -> Seq(De(TiposDeCpu))]
    BY DEF TypeOK
  <2> QED
    BY <1>3, <2>1
<1>5. h.tipo = "SIGNAL" => ~Con(c, "ASIGNAR")
  BY <1>1, <1>2, OrdenDice DEF Con
<1> HIDE DEF q
<1>6. Duenio(c)' = Duenio(c)
  <2>1. CASE cpu[c].proceso # NULO
    BY <2>1 DEF Duenio
  <2>2. CASE cpu[c].proceso = NULO
    <3>1. q # <<>> /\ q[1].proceso = Duenio(c)
      BY <1>2, <1>3, <2>2 DEF Forma
    <3> QED
      BY <1>1, <1>4, <2>2, <3>1 DEF Duenio
  <2> QED
    BY <2>1, <2>2
<1>7. /\ \A t : Con(c, t)' <=> Con(c, t) /\ t # h.tipo
      /\ \A t : ~Espera(c, t)' /\ ~Espera(c, t)
  BY <1>1, <1>3, <1>4 DEF Con, Espera
<1>8. EnEspera(c)' <=> EnEspera(c)
  BY <1>7 DEF EnEspera, Rafaga
<1>9. Forma(c)'
  <2>1. /\ Orden(deCpu'[c]) /\ DeUno(deCpu'[c], Duenio(c)') /\ Len(aCpu'[c]) <= 1
        /\ aCpu'[c] = <<>> /\ cpu'[c] = cpu[c] /\ c \notin libres'
    <3>1. Len(<<>>) <= 1
      OBVIOUS
    <3> QED
      BY <1>1, <1>3, <1>4, <1>6, <3>1
  <2>2. cpu[c].proceso = NULO => Cierra(deCpu'[c])
    BY <1>2, <1>3, <1>4 DEF Forma
  <2>3. cpu[c].espera # "compartida"
    <3>1. SUFFICES ASSUME cpu[c].espera = "compartida" PROVE FALSE
      OBVIOUS
    <3>2. Con(c, "OBTENER")
      BY <1>2, <3>1 DEF Forma
    <3> QED
      BY <1>1, <1>2, <3>2, OrdenDice DEF Con, Rafaga
  <2>4. /\ Con(c, "OBTENER")' => Con(c, "OBTENER")
        /\ Con(c, "WAIT")' => Con(c, "WAIT")
        /\ Con(c, "QUANTUM")' => Con(c, "QUANTUM")
        /\ Con(c, "FINALIZADO")' => Con(c, "FINALIZADO")
        /\ Con(c, "WAIT_PCB")' => Con(c, "WAIT_PCB")
    BY <1>7
  <2> QED
    BY <1>1, <1>2, <1>7, <2>1, <2>2, <2>3, <2>4 DEF Forma
<1>10. /\ Formas'
       /\ \A d \in Cpus \ {c} : /\ Duenio(d)' = Duenio(d) /\ (EnEspera(d)' <=> EnEspera(d))
                                /\ \A t : (Con(d, t)' <=> Con(d, t))
  BY <1>4, <1>9, LasDemas
<1>11. UnLugar'
  BY <1>6, <1>10, MismosLugares
<1> QED
  BY <1>1, <1>3, <1>4, <1>5, <1>6, <1>7, <1>8, <1>10, <1>11 DEF q

(* The signal: the token is again in the semaphore.                        *)
LEMMA InvAtiendoSignal ==
  ASSUME Inv, NEW c \in Cpus, AtiendoSignal(c)
  PROVE  Inv'
<1>1. TypeOK /\ UnLugar /\ Formas /\ SuPaso /\ Turno /\ Valores /\ Cuenta
  BY DEF Inv
<1>2. /\ deCpu[c] # <<>> /\ Head(deCpu[c]).tipo = "SIGNAL" /\ Head(deCpu[c]).tipo \in Rafaga
      /\ deCpu' = [deCpu EXCEPT ![c] = Tail(@)]
      /\ semaforo' = semaforo + 1
      /\ UNCHANGED <<valor, bloqueados, listos, libres, proceso, cpu, aCpu>>
  BY DEF AtiendoSignal, Atiende, Rafaga
<1>3. /\ deCpu' \in [Cpus -> Seq(De(TiposDeCpu))]
      /\ deCpu'[c] = Tail(deCpu[c]) /\ \A d \in Cpus \ {c} : deCpu'[d] = deCpu[d]
      /\ UnLugar' /\ Formas' /\ Duenio(c) \in Procesos
      /\ Con(c, Head(deCpu[c]).tipo)
      /\ \A t : Con(c, t)' <=> Con(c, t) /\ t # Head(deCpu[c]).tipo
      /\ \A d \in Cpus : Duenio(d)' = Duenio(d) /\ (EnEspera(d)' <=> EnEspera(d))
      /\ \A d \in Cpus \ {c} : \A t : (Con(d, t)' <=> Con(d, t))
      /\ \A v : Asigna(deCpu[c], v) => Asigna(deCpu'[c], v)
      /\ Head(deCpu[c]).tipo = "SIGNAL" => ~Con(c, "ASIGNAR")
  BY <1>1, <1>2, AlAtender
<1>4. semaforo = 0 /\ semaforo' = 1
  BY <1>1, <1>2, <1>3 DEF Turno, TypeOK
<1>5. TypeOK'
  BY <1>1, <1>2, <1>3, <1>4 DEF TypeOK
<1>6. SuPaso'
  <2>1. Paso(c)'
    BY <1>1, <1>2, <1>3 DEF Paso, SuPaso
  <2>2. proceso'[Duenio(c)].paso \in {"obtener", "asignar"} => proceso'[Duenio(c)].vueltas > 0
    BY <1>1, <1>2, <1>3 DEF SuPaso
  <2> QED
    BY <1>1, <1>2, <1>3, <2>1, <2>2, LosDemasPasos
<1>7. Turno'
  <2>1. ASSUME NEW r \in Procesos PROVE ~Tiene(r)'
    <3>1. \A d \in Cpus : Duenio(d) = r /\ EnEspera(d) => Duenio(d)' = r /\ EnEspera(d)'
      BY <1>3
    <3>2. Tiene(r)' => Tiene(r)
      BY <1>2, <3>1, MismosDentro
    <3> QED
      BY <1>1, <1>2, <1>3, <3>2 DEF Turno
  <2>2. ASSUME NEW d \in Cpus PROVE ~Con(d, "SIGNAL")'
    BY <1>1, <1>2, <1>3 DEF Turno
  <2> QED
    BY <1>4, <2>1, <2>2 DEF Turno
<1>8. Valores'
  <2>1. \A d \in Cpus : Asigna(deCpu'[d], valor + 1)
    BY <1>1, <1>3 DEF Valores
  <2> QED
    BY <1>1, <1>2, <2>1 DEF Valores, Espera
<1>9. Cuenta'
  <2>1. \A d \in Cpus : Con(d, "ASIGNAR")' <=> Con(d, "ASIGNAR")
    BY <1>2, <1>3
  <2>2. \A r \in Procesos : Asignadas(r)' = Asignadas(r)
    BY <1>2 DEF Asignadas
  <2> QED
    BY <1>1, <1>2, <1>3, <1>5, <2>1, <2>2, MismaCuenta
<1> QED
  BY <1>3, <1>5, <1>6, <1>7, <1>8, <1>9 DEF Inv

(* atiendo_asignar_compartida: nobody inside read the value that changes,  *)
(* and no other assignment is on its way.                                  *)
LEMMA InvAtiendoAsignarCompartida ==
  ASSUME Inv, NEW c \in Cpus, AtiendoAsignarCompartida(c)
  PROVE  Inv'
<1>1. TypeOK /\ UnLugar /\ Formas /\ SuPaso /\ Turno /\ Valores /\ Cuenta
  BY DEF Inv
<1>2. /\ deCpu[c] # <<>> /\ Head(deCpu[c]).tipo = "ASIGNAR" /\ Head(deCpu[c]).tipo \in Rafaga
      /\ deCpu' = [deCpu EXCEPT ![c] = Tail(@)]
      /\ valor' = Head(deCpu[c]).valor
      /\ UNCHANGED <<semaforo, bloqueados, listos, libres, proceso, cpu, aCpu>>
  BY DEF AtiendoAsignarCompartida, Atiende, Rafaga
<1>3. /\ deCpu' \in [Cpus -> Seq(De(TiposDeCpu))]
      /\ deCpu'[c] = Tail(deCpu[c]) /\ \A d \in Cpus \ {c} : deCpu'[d] = deCpu[d]
      /\ UnLugar' /\ Formas' /\ Duenio(c) \in Procesos
      /\ Con(c, Head(deCpu[c]).tipo)
      /\ \A t : Con(c, t)' <=> Con(c, t) /\ t # Head(deCpu[c]).tipo
      /\ \A d \in Cpus : Duenio(d)' = Duenio(d) /\ (EnEspera(d)' <=> EnEspera(d))
      /\ \A d \in Cpus \ {c} : \A t : (Con(d, t)' <=> Con(d, t))
      /\ \A v : Asigna(deCpu[c], v) => Asigna(deCpu'[c], v)
      /\ Head(deCpu[c]).tipo = "SIGNAL" => ~Con(c, "ASIGNAR")
  BY <1>1, <1>2, AlAtender
<1>4. valor' = valor + 1 /\ valor \in Nat
  <2>1. Asigna(deCpu[c], valor + 1) /\ deCpu[c] \in Seq(De(TiposDeCpu)) /\ valor \in Nat
    BY <1>1 DEF Valores, TypeOK
  <2>2. 1 \in DOMAIN deCpu[c] /\ Head(deCpu[c]) = deCpu[c][1]
    BY <1>2, <2>1
  <2> QED
    BY <1>2, <2>1, <2>2 DEF Asigna
<1>5. TypeOK'
  BY <1>1, <1>2, <1>3, <1>4 DEF TypeOK
<1>6. SuPaso'
  <2>1. Paso(c)'
    BY <1>1, <1>2, <1>3 DEF Paso, SuPaso
  <2>2. proceso'[Duenio(c)].paso \in {"obtener", "asignar"} => proceso'[Duenio(c)].vueltas > 0
    BY <1>1, <1>2, <1>3 DEF SuPaso
  <2> QED
    BY <1>1, <1>2, <1>3, <2>1, <2>2, LosDemasPasos
<1>7. Turno'
  <2>1. ASSUME NEW r \in Procesos PROVE Tiene(r)' => Tiene(r)
    <3>1. \A d \in Cpus : Duenio(d) = r /\ EnEspera(d) => Duenio(d)' = r /\ EnEspera(d)'
      BY <1>3
    <3> QED
      BY <1>2, <3>1, MismosDentro
  <2>2. \A d \in Cpus : Con(d, "SIGNAL")' => Con(d, "SIGNAL")
    BY <1>3
  <2> QED
    BY <1>1, <1>2, <2>1, <2>2, MismoTurno
(* Nobody else is inside while the assignment is on its way.               *)
<1>8. /\ \A r \in Procesos : Tiene(r) => r = Duenio(c) /\ proceso[r].paso = "signal"
      /\ \A d \in Cpus : Con(d, "SIGNAL") => d = c
  <2>1. CASE Con(c, "SIGNAL")
    BY <1>1, <2>1 DEF Turno
  <2>2. CASE ~Con(c, "SIGNAL")
    <3>1. Tiene(Duenio(c)) /\ proceso[Duenio(c)].paso = "signal"
      BY <1>1, <1>2, <1>3, <2>2, QuienAsigna
    <3> QED
      BY <1>1, <1>3, <3>1 DEF Turno
  <2> QED
    BY <2>1, <2>2
<1>9. ASSUME NEW d \in Cpus, Con(d, "ASIGNAR") PROVE d = c
  <2>1. CASE Con(d, "SIGNAL")
    BY <1>8, <2>1
  <2>2. CASE ~Con(d, "SIGNAL")
    <3>1. Duenio(d) \in Procesos /\ Tiene(Duenio(d))
      BY <1>1, <1>9, <2>2, QuienAsigna
    <3> QED
      BY <1>1, <1>3, <1>8, <3>1, ProcesosAssumption DEF UnLugar
  <2> QED
    BY <2>1, <2>2
<1>10. \A d \in Cpus : ~Con(d, "ASIGNAR")'
  BY <1>2, <1>3, <1>9
<1>11. \A d \in Cpus : cpu[d].espera # "compartida"
  <2>1. SUFFICES ASSUME NEW d \in Cpus, cpu[d].espera = "compartida" PROVE FALSE
    OBVIOUS
  <2>2. Duenio(d) \in Procesos /\ Tiene(Duenio(d)) /\ proceso[Duenio(d)].paso = "obtener"
    BY <1>1, <2>1, QuienLee
  <2> QED
    BY <1>8, <2>2
<1>12. \A r \in Procesos : proceso[r].paso # "asignar"
  <2>1. SUFFICES ASSUME NEW r \in Procesos, proceso[r].paso = "asignar" PROVE FALSE
    OBVIOUS
  <2>2. ~Tiene(r)
    BY <1>8, <2>1
  <2>3. r \notin bloqueados
    BY <1>1, <2>1 DEF SuPaso
  <2>4. PICK d \in Cpus : Duenio(d) = r /\ EnEspera(d)
    BY <2>1, <2>2, <2>3 DEF Tiene, Fuera
  <2>5. cpu[d].espera # "no" \/ Con(d, "WAIT_PCB")
    BY <1>1, <2>4 DEF EnEspera, Formas, Forma
  <2> QED
    BY <1>1, <2>1, <2>4, <2>5 DEF SuPaso, Paso
<1>13. Valores'
  <2>1. \A d \in Cpus : Asigna(deCpu'[d], valor' + 1)
    BY <1>10 DEF Asigna, Con, Hay
  <2>2. \A d \in Cpus : ~Espera(d, "VALOR")' /\ cpu'[d].compartida # 1
    <3>1. \A d \in Cpus : ~Espera(d, "VALOR") /\ cpu[d].compartida # 1
      BY <1>1, <1>11 DEF Formas, Forma
    <3> QED
      BY <1>2, <3>1 DEF Espera
  <2> QED
    BY <1>2, <1>12, <2>1, <2>2 DEF Valores
<1>14. Cuenta'
  <2>1. \A d \in Cpus :
          {k \in DOMAIN deCpu[d] : deCpu[d][k].tipo = "ASIGNAR"}
            = IF Con(d, "ASIGNAR") THEN {1} ELSE {}
    BY <1>1, LugarDeAsignar, Locales DEF Formas, Forma, Con
  <2>2. Con(c, "ASIGNAR")
    BY <1>2, <1>3
  <2>3. \A d \in Cpus : {d} \X {k \in DOMAIN deCpu[d] : deCpu[d][k].tipo = "ASIGNAR"} =
          IF d = c THEN {<<c, 1>>} ELSE {}
    BY <1>9, <2>1, <2>2
  <2>4. EnCamino = {<<c, 1>>}
    BY <2>3 DEF EnCamino
  <2>5. \A d \in Cpus : {k \in DOMAIN deCpu'[d] : deCpu'[d][k].tipo = "ASIGNAR"} = {}
    BY <1>10 DEF Con, Hay
  <2>6. EnCamino' = {}
    BY <2>5 DEF EnCamino
  <2>7. IsFiniteSet(EnCamino') /\ Cardinality(EnCamino') = 0 /\ Cardinality(EnCamino) = 1
    BY <2>4, <2>6, FS_EmptySet, FS_Singleton
  <2>8. Secciones' = Secciones
    BY <1>2 DEF Secciones, Asignadas
  <2>9. valor + Cardinality(EnCamino) = Cardinality(Secciones) /\ IsFiniteSet(Secciones)
    BY <1>1 DEF Cuenta, ContadorExacto
  <2> QED
    BY <1>4, <2>7, <2>8, <2>9 DEF Cuenta, ContadorExacto
<1> QED
  BY <1>3, <1>5, <1>6, <1>7, <1>13, <1>14 DEF Inv

(* The PCB: the process goes to its queue and the CPU is free.             *)
LEMMA InvAtiendoPcb ==
  ASSUME Inv, NEW c \in Cpus, AtiendoPcb(c)
  PROVE  Inv'
<1>1. TypeOK /\ UnLugar /\ Formas /\ SuPaso /\ Turno /\ Valores /\ Cuenta
  BY DEF Inv
<1>2. PICK h \in De(TiposDeCpu) :
        /\ h = Head(deCpu[c]) /\ deCpu[c] # <<>> /\ h.tipo \notin Rafaga
        /\ \/ h.tipo = "QUANTUM" /\ listos' = Append(listos, h.proceso) /\ bloqueados' = bloqueados
           \/ h.tipo = "WAIT_PCB" /\ bloqueados' = bloqueados \cup {h.proceso} /\ listos' = listos
           \/ h.tipo = "FINALIZADO" /\ bloqueados' = bloqueados /\ listos' = listos
  <2>1. deCpu[c] # <<>>
    BY DEF AtiendoPcb, Atiende
  <2>2. Head(deCpu[c]) \in De(TiposDeCpu)
    BY <1>1, <2>1, ConMensaje
  <2> QED
    BY <2>1, <2>2 DEF AtiendoPcb, Atiende, Emisor, Rafaga
<1>3. /\ deCpu' = [deCpu EXCEPT ![c] = Tail(@)]
      /\ libres' = libres \cup {c}
      /\ UNCHANGED <<valor, semaforo, proceso, cpu, aCpu>>
  BY DEF AtiendoPcb, Atiende
<1>4. PICK p \in Procesos : p = Duenio(c) /\ p = h.proceso
  <2>1. Duenio(c) = deCpu[c][1].proceso /\ Duenio(c) \in Procesos /\ h = deCpu[c][1]
    BY <1>1, <1>2, ConMensaje
  <2> QED
    BY <2>1
<1>5. /\ aCpu[c] = <<>> /\ cpu[c].compartida = 0 /\ cpu[c].proceso = NULO /\ cpu[c].espera = "no"
      /\ \A t : Con(c, t) <=> t = h.tipo
      /\ Tail(deCpu[c]) = <<>> /\ <<>> \in Seq(De(TiposDeCpu))
  <2>1. /\ aCpu[c] = <<>> /\ cpu[c].compartida = 0 /\ Con(c, h.tipo)
    BY <1>1, <1>2, ConMensaje
  <2>2. deCpu[c] \in Seq(De(TiposDeCpu)) /\ Orden(deCpu[c]) /\ Forma(c)
    BY <1>1, Locales DEF Formas, Forma
  <2>3. cpu[c].proceso = NULO
    BY <1>2, <2>1, <2>2 DEF Forma
  <2>4. /\ Tail(deCpu[c]) = <<>> /\ <<>> \in Seq(De(TiposDeCpu))
        /\ \A t : Hay(Tail(deCpu[c]), t) <=> Hay(deCpu[c], t) /\ t # h.tipo
    BY <1>2, <2>2, Sacar
  <2>5. \A t : ~Hay(Tail(deCpu[c]), t)
    BY <2>4 DEF Hay
  <2>6. \A t : Hay(deCpu[c], t) => t = h.tipo
    BY <2>4, <2>5
  <2> QED
    BY <2>1, <2>2, <2>3, <2>4, <2>6 DEF Forma, Con
<1>6. /\ deCpu' \in [Cpus -> Seq(De(TiposDeCpu))] /\ deCpu'[c] = <<>>
      /\ \A d \in Cpus \ {c} : deCpu'[d] = deCpu[d]
  <2>1. deCpu \in [Cpus -> Seq(De(TiposDeCpu))]
    BY <1>1 DEF TypeOK
  <2> QED
    BY <1>3, <1>5, <2>1
<1>7. TypeOK'
  <2>1. listos \in Seq(Procesos) /\ bloqueados \subseteq Procesos
    BY <1>1 DEF TypeOK
  <2>2. Append(listos, p) \in Seq(Procesos)
    BY <2>1
  <2>3. listos' \in Seq(Procesos) /\ bloqueados' \subseteq Procesos
    BY <1>2, <1>4, <2>1, <2>2
  <2> QED
    BY <1>1, <1>3, <1>6, <2>3 DEF TypeOK
<1>8. Duenio(c)' = NULO /\ (\A t : ~Con(c, t)' /\ ~Espera(c, t)') /\ ~EnEspera(c)'
  BY <1>3, <1>5, <1>6 DEF Duenio, Con, Hay, Espera, EnEspera
<1>9. Forma(c)'
  <2>1. Orden(<<>>) /\ (\A r : DeUno(<<>>, r)) /\ Len(<<>>) <= 1 /\ Cierra(<<>>)
    BY DEF Orden, DeUno, Cierra
  <2>2. /\ cpu'[c] = cpu[c] /\ deCpu'[c] = <<>> /\ aCpu'[c] = <<>>
    BY <1>3, <1>5, <1>6
  <2> QED
    BY <1>5, <1>8, <2>1, <2>2 DEF Forma
<1>10. /\ Formas'
       /\ \A d \in Cpus \ {c} : /\ Duenio(d)' = Duenio(d) /\ (EnEspera(d)' <=> EnEspera(d))
                                /\ \A t : (Con(d, t)' <=> Con(d, t))
  BY <1>1, <1>3, <1>6, <1>9, LasDemas
<1>11. UnLugar'
  <2>1. /\ \A d, e \in Cpus : Duenio(d)' # NULO /\ Duenio(d)' = Duenio(e)' => d = e
        /\ \A d \in Cpus : Duenio(d)' # p
        /\ p # NULO /\ p \notin bloqueados /\ \A k \in DOMAIN listos : listos[k] # p
    BY <1>1, <1>4, <1>8, <1>10, ProcesosAssumption, ZenonT(30) DEF UnLugar
  <2>2. /\ \A d \in Cpus : \A k \in DOMAIN listos : listos[k] # Duenio(d)'
        /\ \A d \in Cpus : Duenio(d)' \notin bloqueados
    <3>1. listos \in Seq(Procesos) /\ \A k \in DOMAIN listos : listos[k] \in Procesos
      BY <1>1 DEF TypeOK
    <3>2. bloqueados \subseteq Procesos
      BY <1>1 DEF TypeOK
    <3> QED
      BY <1>1, <1>8, <1>10, <3>1, <3>2, ProcesosAssumption DEF UnLugar
  <2>3. CASE listos' = Append(listos, p) /\ bloqueados' = bloqueados
    <3>1. /\ listos \in Seq(Procesos) /\ listos' = Append(listos, p)
      BY <1>1, <2>3 DEF TypeOK
    <3>2. /\ DOMAIN listos' = 1..(Len(listos) + 1) /\ DOMAIN listos = 1..Len(listos)
          /\ Len(listos) \in Nat /\ listos'[Len(listos) + 1] = p
          /\ \A k \in 1..Len(listos) : listos'[k] = listos[k]
      BY <3>1
    <3>3. \A k \in DOMAIN listos' : (k \in DOMAIN listos /\ listos'[k] = listos[k])
                                    \/ (k = Len(listos) + 1 /\ listos'[k] = p)
      BY <3>2
    <3>4. \A j, k \in DOMAIN listos' : listos'[j] = listos'[k] => j = k
      BY <1>1, <2>1, <3>3 DEF UnLugar
    <3> QED
      BY <1>1, <2>1, <2>2, <2>3, <3>3, <3>4 DEF UnLugar
  <2>4. CASE listos' = listos /\ bloqueados' \subseteq bloqueados \cup {p}
    BY <1>1, <2>1, <2>2, <2>4 DEF UnLugar
  <2> QED
    BY <1>2, <1>4, <2>3, <2>4
<1>12. SuPaso'
  <2>1. Paso(c)'
    BY <1>3, <1>5, <1>8 DEF Paso
  <2>2. \A d \in Cpus \ {c} : Paso(d)'
    BY <1>1, <1>3, <1>10 DEF SuPaso, Paso
  <2>3. \A r \in bloqueados' : proceso'[r].paso = "obtener"
    <3>1. h.tipo = "WAIT_PCB" => proceso[p].paso = "obtener"
      BY <1>1, <1>4, <1>5 DEF SuPaso, Paso
    <3> QED
      BY <1>1, <1>2, <1>3, <1>4, <3>1 DEF SuPaso
  <2> QED
    BY <1>1, <1>3, <2>1, <2>2, <2>3 DEF SuPaso
<1>13. Turno'
  <2>1. ASSUME NEW r \in Procesos PROVE Fuera(r) => Fuera(r)'
    <3>1. CASE r = p
      <4>1. EnEspera(c) => h.tipo = "WAIT_PCB"
        <5>1. h.tipo # "WAIT"
          BY <1>2
        <5> QED
          BY <1>5, <5>1 DEF EnEspera, Espera
      <4>2. Fuera(r) => EnEspera(c)
        BY <1>1, <1>4, <3>1, ProcesosAssumption DEF Fuera, UnLugar
      <4>3. h.tipo = "WAIT_PCB" => p \in bloqueados'
        BY <1>2, <1>4
      <4> QED
        BY <3>1, <4>1, <4>2, <4>3 DEF Fuera
    <3>2. CASE r # p
      <4>1. r \in bloqueados => r \in bloqueados'
        BY <1>2
      <4>2. \A d \in Cpus : Duenio(d) = r /\ EnEspera(d) => Duenio(d)' = r /\ EnEspera(d)'
        BY <1>4, <1>10, <3>2
      <4> QED
        BY <4>1, <4>2 DEF Fuera
    <3> QED
      BY <3>1, <3>2
  <2>2. \A r \in Procesos : Tiene(r)' => Tiene(r)
    BY <1>3, <2>1 DEF Tiene
  <2>3. \A d \in Cpus : Con(d, "SIGNAL")' => Con(d, "SIGNAL")
    BY <1>8, <1>10
  <2> QED
    BY <1>1, <1>3, <2>2, <2>3, MismoTurno
<1>14. Valores'
  <2>1. Asigna(<<>>, valor + 1)
    BY DEF Asigna
  <2>2. \A d \in Cpus : Asigna(deCpu'[d], valor + 1)
    BY <1>1, <1>6, <2>1 DEF Valores
  <2> QED
    BY <1>1, <1>3, <2>2 DEF Valores, Espera
<1>15. Cuenta'
  <2>1. \A d \in Cpus : Con(d, "ASIGNAR")' <=> Con(d, "ASIGNAR")
    BY <1>2, <1>5, <1>8, <1>10 DEF Rafaga
  <2>2. \A r \in Procesos : Asignadas(r)' = Asignadas(r)
    BY <1>3 DEF Asignadas
  <2> QED
    BY <1>1, <1>3, <1>7, <1>10, <2>1, <2>2, MismaCuenta
<1> QED
  BY <1>7, <1>10, <1>11, <1>12, <1>13, <1>14, <1>15 DEF Inv

-----------------------------------------------------------------------------
(* The queues of the Nucleo.                                               *)

(* A blocked process gets the unit.                                        *)
LEMMA InvDesbloquear ==
  ASSUME Inv, NEW p \in Procesos, Desbloquear(p)
  PROVE  Inv'
<1>1. TypeOK /\ UnLugar /\ Formas /\ SuPaso /\ Turno /\ Valores /\ Cuenta
  BY DEF Inv
<1>2. /\ p \in bloqueados /\ semaforo > 0 /\ semaforo' = semaforo - 1
      /\ bloqueados' = bloqueados \ {p} /\ listos' = Append(listos, p)
      /\ UNCHANGED <<valor, libres, proceso, cpu, deCpu, aCpu>>
  BY DEF Desbloquear
<1>3. semaforo = 1 /\ semaforo' = 0
  BY <1>1, <1>2 DEF TypeOK
<1>4. TypeOK'
  <2>1. listos' \in Seq(Procesos)
    BY <1>1, <1>2 DEF TypeOK
  <2> QED
    BY <1>1, <1>2, <1>3, <2>1 DEF TypeOK
<1>5. /\ \A d \in Cpus : Duenio(d)' = Duenio(d) /\ (EnEspera(d)' <=> EnEspera(d))
      /\ \A d \in Cpus : \A t : (Con(d, t)' <=> Con(d, t)) /\ (Espera(d, t)' <=> Espera(d, t))
  BY <1>2 DEF Duenio, EnEspera, Con, Espera
<1>6. Formas'
  BY <1>1, <1>2, <1>5 DEF Formas, Forma
<1>7. UnLugar'
  <2>1. /\ listos \in Seq(Procesos) /\ listos' = Append(listos, p)
    BY <1>1, <1>2 DEF TypeOK
  <2>2. /\ DOMAIN listos' = 1..(Len(listos) + 1) /\ DOMAIN listos = 1..Len(listos)
        /\ Len(listos) \in Nat /\ listos'[Len(listos) + 1] = p
        /\ \A k \in 1..Len(listos) : listos'[k] = listos[k]
    BY <2>1
  <2>3. \A k \in DOMAIN listos' : (k \in DOMAIN listos /\ listos'[k] = listos[k])
                                  \/ (k = Len(listos) + 1 /\ listos'[k] = p)
    BY <2>2
  <2>4. \A k \in DOMAIN listos : listos[k] # p
    BY <1>1, <1>2 DEF UnLugar
  <2>5. \A j, k \in DOMAIN listos' : listos'[j] = listos'[k] => j = k
    BY <1>1, <2>3, <2>4 DEF UnLugar
  <2> QED
    BY <1>1, <1>2, <1>5, <2>3, <2>4, <2>5 DEF UnLugar
<1>8. SuPaso'
  BY <1>1, <1>2, <1>5 DEF SuPaso, Paso
<1>9. Turno'
  <2>1. (\A r \in Procesos : ~Tiene(r)) /\ \A d \in Cpus : ~Con(d, "SIGNAL")
    BY <1>1, <1>3 DEF Turno
  <2>2. ASSUME NEW r \in Procesos, r # p PROVE ~Tiene(r)'
    BY <1>2, <1>5, <2>1, <2>2 DEF Tiene, Fuera
  <2> QED
    BY <1>3, <1>5, <2>1, <2>2 DEF Turno
<1>10. Valores'
  BY <1>1, <1>2, <1>5 DEF Valores
<1>11. Cuenta'
  <2>1. \A r \in Procesos : Asignadas(r)' = Asignadas(r)
    BY <1>2 DEF Asignadas
  <2> QED
    BY <1>1, <1>2, <1>4, <1>5, <1>6, <2>1, MismaCuenta
<1> QED
  BY <1>4, <1>6, <1>7, <1>8, <1>9, <1>10, <1>11 DEF Inv

(* The planner sends the first ready PCB to a free CPU.                    *)
LEMMA InvEjecutar ==
  ASSUME Inv, NEW c \in Cpus, Ejecutar(c)
  PROVE  Inv'
<1>1. TypeOK /\ UnLugar /\ Formas /\ SuPaso /\ Turno /\ Valores /\ Cuenta
  BY DEF Inv
<1>2. PICK p \in Procesos : p = Head(listos) /\ p = listos[1] /\ listos # <<>> /\ c \in libres
  BY <1>1 DEF Ejecutar, TypeOK
<1> DEFINE m == Mensaje("PCB", p, 0)
<1>3. /\ aCpu' = [aCpu EXCEPT ![c] = Append(@, m)]
      /\ listos' = Tail(listos) /\ libres' = libres \ {c}
      /\ UNCHANGED <<valor, semaforo, bloqueados, proceso, cpu, deCpu>>
  BY <1>2 DEF Ejecutar, Responder
<1>4. /\ m \in De(TiposACpu) /\ m.tipo = "PCB" /\ m.proceso = p
      /\ Append(<<>>, m) = <<m>> /\ <<m>> \in Seq(De(TiposACpu)) /\ <<m>> # <<>>
      /\ Len(<<m>>) = 1 /\ <<m>>[1] = m
  <2>1. m \in De(TiposACpu) /\ m.tipo = "PCB" /\ m.proceso = p
    BY DEF De, TiposACpu, Mensaje
  <2> QED
    BY <2>1, UnMensaje
<1> HIDE DEF m
<1>5. /\ cpu[c].proceso = NULO /\ deCpu[c] = <<>> /\ aCpu[c] = <<>> /\ cpu[c].espera = "no"
      /\ cpu[c].compartida = 0 /\ Duenio(c) = NULO
  <2>1. Forma(c) /\ cpu[c].compartida \in {0, 1}
    BY <1>1, Locales DEF Formas, DeLaCpu
  <2>2. cpu[c].proceso = NULO /\ deCpu[c] = <<>> /\ aCpu[c] = <<>> /\ cpu[c].espera = "no"
    BY <1>2, <2>1 DEF Forma
  <2> QED
    BY <2>1, <2>2 DEF Forma, Duenio
<1>6. /\ aCpu' \in [Cpus -> Seq(De(TiposACpu))] /\ aCpu'[c] = <<m>>
      /\ \A d \in Cpus \ {c} : aCpu'[d] = aCpu[d]
  <2>1. aCpu \in [Cpus -> Seq(De(TiposACpu))]
    BY <1>1 DEF TypeOK
  <2>2. aCpu' = [aCpu EXCEPT ![c] = <<m>>]
    BY <1>3, <1>4, <1>5, <2>1
  <2> QED
    BY <1>4, <2>1, <2>2
<1>7. /\ listos \in Seq(Procesos) /\ listos' \in Seq(Procesos)
      /\ DOMAIN listos = 1..Len(listos) /\ Len(listos) \in Nat /\ 1 \in DOMAIN listos
      /\ \A k \in DOMAIN listos' : /\ k \in Nat /\ k > 0 /\ k + 1 \in DOMAIN listos
                                   /\ listos'[k] = listos[k + 1]
  BY <1>1, <1>2, <1>3 DEF TypeOK
<1>8. TypeOK'
  BY <1>1, <1>3, <1>6, <1>7 DEF TypeOK
<1>9. /\ Duenio(c)' = p
      /\ \A t : ~Con(c, t)' /\ ~Con(c, t)
      /\ \A t : Espera(c, t)' <=> t = "PCB"
      /\ ~EnEspera(c)' /\ ~EnEspera(c)
  BY <1>3, <1>4, <1>5, <1>6 DEF Duenio, Con, Hay, Espera, EnEspera
<1>10. Forma(c)'
  <2>1. Orden(<<>>) /\ (\A r : DeUno(<<>>, r)) /\ Cierra(<<>>)
    BY DEF Orden, DeUno, Cierra
  <2>2. /\ cpu'[c] = cpu[c] /\ deCpu'[c] = <<>> /\ Len(aCpu'[c]) <= 1 /\ c \notin libres'
        /\ aCpu'[c][1].proceso = p /\ aCpu'[c][1].tipo = "PCB"
    BY <1>3, <1>4, <1>5, <1>6
  <2> QED
    BY <1>5, <1>9, <2>1, <2>2 DEF Forma
<1>11. /\ Formas'
       /\ \A d \in Cpus \ {c} : /\ Duenio(d)' = Duenio(d) /\ (EnEspera(d)' <=> EnEspera(d))
                                /\ \A t : (Con(d, t)' <=> Con(d, t))
  BY <1>1, <1>3, <1>6, <1>10, LasDemas
<1>12. UnLugar'
  <2>1. \A k \in DOMAIN listos' : listos'[k] # p
    BY <1>1, <1>2, <1>7, SMTT(30) DEF UnLugar
  <2>2. \A d \in Cpus \ {c} : Duenio(d)' # p
    BY <1>1, <1>2, <1>7, <1>11 DEF UnLugar
  <2>3. p \notin bloqueados
    BY <1>1, <1>2, <1>7 DEF UnLugar
  <2>4. \A j, k \in DOMAIN listos' : listos'[j] = listos'[k] => j = k
    BY <1>1, <1>7 DEF UnLugar
  <2>5. \A d, e \in Cpus : Duenio(d)' # NULO /\ Duenio(d)' = Duenio(e)' => d = e
    BY <1>1, <1>9, <1>11, <2>2 DEF UnLugar
  <2>6. \A d \in Cpus : \A k \in DOMAIN listos' : listos'[k] # Duenio(d)'
    BY <1>1, <1>7, <1>9, <1>11, <2>1 DEF UnLugar
  <2>7. \A d \in Cpus : Duenio(d)' \notin bloqueados'
    BY <1>1, <1>3, <1>9, <1>11, <2>3 DEF UnLugar
  <2>8. \A k \in DOMAIN listos' : listos'[k] \notin bloqueados'
    BY <1>1, <1>3, <1>7 DEF UnLugar
  <2> QED
    BY <2>4, <2>5, <2>6, <2>7, <2>8 DEF UnLugar
<1>13. SuPaso'
  <2>1. Paso(c)'
    BY <1>3, <1>5, <1>9 DEF Paso
  <2>2. \A d \in Cpus \ {c} : Paso(d)'
    BY <1>1, <1>3, <1>11 DEF SuPaso, Paso
  <2> QED
    BY <1>1, <1>3, <2>1, <2>2 DEF SuPaso
<1>14. Turno'
  <2>1. ASSUME NEW r \in Procesos PROVE Tiene(r)' => Tiene(r)
    <3>1. \A d \in Cpus : Duenio(d) = r /\ EnEspera(d) => Duenio(d)' = r /\ EnEspera(d)'
      BY <1>9, <1>11
    <3> QED
      BY <1>3, <3>1, MismosDentro
  <2>2. \A d \in Cpus : Con(d, "SIGNAL")' => Con(d, "SIGNAL")
    BY <1>9, <1>11
  <2> QED
    BY <1>1, <1>3, <2>1, <2>2, MismoTurno
<1>15. Valores'
  <2>1. \A d \in Cpus : Espera(d, "VALOR")' => aCpu'[d][1].valor = valor
    BY <1>1, <1>6, <1>9 DEF Valores, Espera
  <2> QED
    BY <1>1, <1>3, <2>1 DEF Valores
<1>16. Cuenta'
  <2>1. \A d \in Cpus : Con(d, "ASIGNAR")' <=> Con(d, "ASIGNAR")
    BY <1>9, <1>11
  <2>2. \A r \in Procesos : Asignadas(r)' = Asignadas(r)
    BY <1>3 DEF Asignadas
  <2> QED
    BY <1>1, <1>3, <1>8, <1>11, <2>1, <2>2, MismaCuenta
<1> QED
  BY <1>8, <1>11, <1>12, <1>13, <1>14, <1>15, <1>16 DEF Inv

-----------------------------------------------------------------------------
(* The invariant holds at the beginning.                                   *)
LEMMA InvInicial == Init => Inv
<1> SUFFICES ASSUME Init PROVE Inv
  OBVIOUS
<1>1. /\ valor = 0 /\ semaforo = 1 /\ bloqueados = {} /\ libres = Cpus
      /\ listos \in SetToSeqs(Procesos)
      /\ proceso = [p \in Procesos |-> [paso |-> "wait", local |-> 0, vueltas |-> 0]]
      /\ cpu = [c \in Cpus |-> [proceso |-> NULO, espera |-> "no", valor_pagina |-> 0,
                                compartida |-> 0, corrio |-> FALSE]]
      /\ deCpu = [c \in Cpus |-> <<>>] /\ aCpu = [c \in Cpus |-> <<>>]
  BY DEF Init
<1>2. /\ listos \in Seq(Procesos) /\ \A j, k \in DOMAIN listos : listos[j] = listos[k] => j = k
  <2>1. Cardinality(Procesos) \in Nat
    BY ProcesosAssumption, FS_CardinalityType
  <2>2. /\ listos \in [1..Cardinality(Procesos) -> Procesos]
        /\ \A j, k \in 1..Cardinality(Procesos) : j # k => listos[j] # listos[k]
    BY <1>1 DEF SetToSeqs
  <2> QED
    BY <2>1, <2>2
<1>3. /\ \A c \in Cpus : /\ deCpu[c] = <<>> /\ aCpu[c] = <<>> /\ cpu[c].proceso = NULO
                         /\ cpu[c].espera = "no" /\ cpu[c].compartida = 0
      /\ \A p \in Procesos : proceso[p].paso = "wait" /\ proceso[p].vueltas = 0
  BY <1>1
<1>4. TypeOK
  <2>1. proceso \in [Procesos -> DelProceso]
    BY <1>1 DEF DelProceso, Pasos
  <2>2. cpu \in [Cpus -> DeLaCpu]
    BY <1>1 DEF DeLaCpu
  <2>3. deCpu \in [Cpus -> Seq(De(TiposDeCpu))] /\ aCpu \in [Cpus -> Seq(De(TiposACpu))]
    BY <1>1
  <2> QED
    BY <1>1, <1>2, <2>1, <2>2, <2>3 DEF TypeOK
<1>5. \A c \in Cpus : Duenio(c) = NULO /\ \A t : ~Con(c, t) /\ ~Espera(c, t)
  BY <1>3 DEF Duenio, Con, Hay, Espera
<1>6. UnLugar
  <2>1. \A k \in DOMAIN listos : listos[k] \in Procesos
    BY <1>2
  <2> QED
    BY <1>1, <1>2, <1>5, <2>1, ProcesosAssumption DEF UnLugar
<1>7. Formas
  <2>1. Orden(<<>>) /\ (\A r : DeUno(<<>>, r)) /\ Len(<<>>) <= 1 /\ Cierra(<<>>)
    BY DEF Orden, DeUno, Cierra
  <2> QED
    BY <1>3, <1>5, <2>1 DEF Formas, Forma
<1>8. SuPaso
  BY <1>1, <1>3, <1>5 DEF SuPaso, Paso
<1>9. Turno
  BY <1>3, <1>5 DEF Turno, Tiene
<1>10. Valores
  BY <1>3, <1>5 DEF Valores, Asigna
<1>11. Cuenta
  <2>1. \A p \in Procesos : Asignadas(p) = 0
    BY <1>3 DEF Asignadas
  <2>2. Secciones = {}
    BY <2>1 DEF Secciones
  <2>3. EnCamino = {}
    BY <1>3 DEF EnCamino
  <2> QED
    BY <1>1, <2>2, <2>3, FS_EmptySet DEF Cuenta, ContadorExacto
<1> QED
  BY <1>4, <1>6, <1>7, <1>8, <1>9, <1>10, <1>11 DEF Inv

(* Every step keeps it.                                                    *)
LEMMA InvPaso == Inv /\ [Next]_vars => Inv'
<1> SUFFICES ASSUME Inv, [Next]_vars PROVE Inv'
  OBVIOUS
<1>1. CASE UNCHANGED vars
  <2>1. UNCHANGED <<valor, semaforo, bloqueados, listos, libres, proceso, cpu, deCpu, aCpu>>
    BY <1>1 DEF vars, nucleo
  <2>2. /\ \A c \in Cpus : /\ Duenio(c)' = Duenio(c) /\ (EnEspera(c)' <=> EnEspera(c))
                           /\ \A t : (Con(c, t)' <=> Con(c, t)) /\ (Espera(c, t)' <=> Espera(c, t))
        /\ \A p \in Procesos : Asignadas(p)' = Asignadas(p)
    BY <2>1 DEF Con, Espera, Duenio, EnEspera, Asignadas
  <2>3. \A p \in Procesos : Tiene(p)' <=> Tiene(p)
    BY <2>1, <2>2 DEF Tiene, Fuera
  <2>4. TypeOK'
    BY <2>1 DEF Inv, TypeOK
  <2>5. UnLugar' /\ SuPaso'
    BY <2>1, <2>2 DEF Inv, UnLugar, SuPaso, Paso
  <2>6. Formas'
    BY <2>1, <2>2 DEF Inv, Formas, Forma
  <2>7. Turno'
    BY <2>1, <2>2, <2>3 DEF Inv, Turno
  <2>8. Valores'
    BY <2>1, <2>2 DEF Inv, Valores
  <2>9. Cuenta'
    BY <2>1, <2>2, <2>4, <2>6, MismaCuenta DEF Inv
  <2> QED
    BY <2>4, <2>5, <2>6, <2>7, <2>8, <2>9 DEF Inv
<1>2. ASSUME NEW c \in Cpus,
             \/ Wait(c) \/ ObtenerValorCompartida(c) \/ FinObtener(c) \/ AsignarValorCompartida(c)
             \/ Signal(c) \/ FinQuantum(c) \/ Finalizar(c)
      PROVE  Inv'
  BY <1>2, InvWait, InvObtenerValorCompartida, InvFinObtener, InvAsignarValorCompartida,
     InvSignal, InvFinQuantum, InvFinalizar
<1>3. ASSUME NEW c \in Cpus, AtenderNucleo(c) PROVE Inv'
  BY <1>3, InvReciboPcb, InvRespuestaLeerCompartida, InvRespuestaSeguiRafaga, InvRespuestaWait
     DEF AtenderNucleo
<1>4. ASSUME NEW c \in Cpus, AtenderCpu(c) PROVE Inv'
  BY <1>4, InvAtiendoObtenerCompartida, InvAtiendoAsignarCompartida, InvAtiendoWait,
     InvAtiendoSignal, InvAtiendoPcb DEF AtenderCpu
<1>5. ASSUME NEW c \in Cpus, Ejecutar(c) PROVE Inv'
  BY <1>5, InvEjecutar
<1>6. ASSUME NEW p \in Procesos, Desbloquear(p) PROVE Inv'
  BY <1>6, InvDesbloquear
<1> QED
  BY <1>1, <1>2, <1>3, <1>4, <1>5, <1>6 DEF Next

(* The inductive invariant holds in every state.                           *)
THEOREM Invariante == Spec => []Inv
<1> QED
  BY InvInicial, InvPaso, PTL DEF Spec

(* Every message, PCB and variable is one the program can have: with one   *)
(* unit, the semaphore is 0 or 1.                                          *)
THEOREM TiposDeLasCompartidas == Spec => []TypeOK
<1>1. Inv => TypeOK
  BY DEF Inv
<1> QED
  BY <1>1, Invariante, PTL

(* A process is running, on its way, ready or blocked, in one place: the   *)
(* PCB a CPU sends is never also in a queue of the Nucleo.                 *)
THEOREM ProcesoEnUnLugar == Spec => []UnLugar
<1>1. Inv => UnLugar
  BY DEF Inv
<1> QED
  BY <1>1, Invariante, PTL

(* No increment is lost, with any number of CPUs and processes and however *)
(* late the Nucleo takes the assignments.                                  *)
THEOREM NingunIncrementoSePierde == Spec => []ContadorExacto
<1>1. Inv => ContadorExacto
  BY DEF Inv, Cuenta
<1> QED
  BY <1>1, Invariante, PTL
=============================================================================
