--------------------------- MODULE TramasPruebas ---------------------------
(***************************************************************************)
(* That messages arrive whole and in order, for any number of threads and  *)
(* any lengths, while send and recv do all they are asked (Cortes = {}).   *)
(*                                                                         *)
(* What the socket holds is the packets of the messages that were not      *)
(* delivered, one after the other, but for a header that was read.  The    *)
(* invariant says so with the place in the socket where each message of    *)
(* enviados begins: a message that was read begins before the first byte.  *)
(***************************************************************************)
EXTENDS Tramas, SequenceTheorems, TLAPS

Byte == Mensajes \X Nat

Escritura == [mensaje : Mensajes, puesto : Seq(Byte)]
TypeOK ==
  /\ hilo \in [Hilos -> Escritura \cup {NADA}]
  /\ enviados \in Seq(Mensajes)
  /\ cable \in Seq(Byte)
  /\ entregados \in Seq([header : Seq(Byte), payload : Seq(Byte)])

(* Each thread wrote nothing of its message yet, or all of it.             *)
Enteros ==
  \A h \in Hilos : hilo[h] # NADA =>
    hilo[h].puesto \in {<<>>, PaqueteSerializado(hilo[h].mensaje)}

(* The message that is read next.                                          *)
Proximo == Len(entregados) + 1

(* pos[j] is the place of the socket before the first byte of enviados[j], *)
(* and after the last one of the message before it.                        *)
Ubica(pos) ==
  /\ pos \in [1..(Len(enviados) + 1) -> Int]
  /\ \A j \in 1..Len(enviados) : pos[j + 1] = pos[j] + Largo(enviados[j])
  /\ \A j \in 1..(Len(enviados) + 1) : pos[j] <= Len(cable)
  /\ pos[Len(enviados) + 1] = Len(cable)
  /\ pos[Proximo] = IF lector.fase = "payload" THEN 0 - Cabecera ELSE 0
  /\ \A j \in Proximo..Len(enviados) : \A i \in 1..Largo(enviados[j]) :
       pos[j] + i >= 1 => cable[pos[j] + i] = <<enviados[j], i>>

Leyendo ==
  /\ lector.fase \in {"header", "payload"} => \E pos : Ubica(pos)
  /\ lector.fase = "payload" =>
       /\ Proximo <= Len(enviados)
       /\ lector = [fase |-> "payload", header |-> Header(enviados[Proximo]),
                    longitud |-> Longitud[enviados[Proximo]]]
       /\ lector.longitud > 0
  /\ lector.fase \in {"header", "payload", "fin"}
  /\ ~abierto => \A h \in Hilos : hilo[h] = NADA

Inv == Cortes = {} /\ TypeOK /\ Enteros /\ Leyendo /\ MensajesEnteros

-----------------------------------------------------------------------------
(* The bytes of a message.                                                 *)

(* A stretch of a message is a sequence of bytes.                          *)
LEMMA Tramos ==
  ASSUME NEW m \in Mensajes, NEW a \in Nat, NEW b \in Nat, a <= b + 1, a >= 1
  PROVE  /\ Tramo(m, a, b) \in Seq(Byte) /\ Len(Tramo(m, a, b)) = b + 1 - a
         /\ \A i \in 1..(b + 1 - a) : Tramo(m, a, b)[i] = <<m, a + i - 1>>
<1>1. b + 1 - a \in Nat
  OBVIOUS
<1>2. \A i \in 1..(b + 1 - a) : <<m, a + i - 1>> \in Byte
  BY DEF Byte
<1> QED
  BY <1>1, <1>2 DEF Tramo

(* The packet of a message: its bytes, from the first one of the header.   *)
LEMMA Paquete ==
  ASSUME NEW m \in Mensajes
  PROVE  /\ Largo(m) \in Nat /\ Largo(m) >= Cabecera /\ Longitud[m] \in Nat
         /\ Largo(m) = Cabecera + Longitud[m] /\ Cabecera \in Nat /\ Cabecera >= 1
         /\ Header(m) \in Seq(Byte) /\ Len(Header(m)) = Cabecera
         /\ \A i \in 1..Cabecera : Header(m)[i] = <<m, i>>
         /\ Payload(m) \in Seq(Byte) /\ Len(Payload(m)) = Longitud[m]
         /\ \A i \in 1..Longitud[m] : Payload(m)[i] = <<m, Cabecera + i>>
         /\ PaqueteSerializado(m) \in Seq(Byte) /\ Len(PaqueteSerializado(m)) = Largo(m)
         /\ \A i \in 1..Largo(m) : PaqueteSerializado(m)[i] = <<m, i>>
<1>1. /\ Longitud[m] \in Nat /\ Cabecera \in Nat /\ Cabecera >= 1
      /\ Largo(m) = Cabecera + Longitud[m]
  BY CabeceraAssumption, LongitudAssumption DEF Largo
<1>2. /\ Header(m) \in Seq(Byte) /\ Len(Header(m)) = Cabecera
      /\ \A i \in 1..Cabecera : Header(m)[i] = <<m, i>>
  <2> DEFINE d == 1
  <2>1. d \in Nat /\ d <= Cabecera + 1 /\ d >= 1 /\ Cabecera + 1 - d = Cabecera
    BY <1>1
  <2>2. \A i \in 1..Cabecera : d + i - 1 = i
    BY <1>1
  <2>3. Header(m) = Tramo(m, d, Cabecera)
    BY DEF Header
  <2> HIDE DEF d
  <2>4. /\ Tramo(m, d, Cabecera) \in Seq(Byte) /\ Len(Tramo(m, d, Cabecera)) = Cabecera + 1 - d
        /\ \A i \in 1..(Cabecera + 1 - d) : Tramo(m, d, Cabecera)[i] = <<m, d + i - 1>>
    BY <1>1, <2>1, Tramos
  <2> QED
    BY <1>1, <2>1, <2>2, <2>3, <2>4
<1>3. /\ Payload(m) \in Seq(Byte) /\ Len(Payload(m)) = Longitud[m]
      /\ \A i \in 1..Longitud[m] : Payload(m)[i] = <<m, Cabecera + i>>
  <2> DEFINE d == Cabecera + 1
             h == Largo(m)
  <2>1. d \in Nat /\ h \in Nat /\ d <= h + 1 /\ d >= 1 /\ h + 1 - d = Longitud[m]
    BY <1>1
  <2>2. \A i \in 1..Longitud[m] : d + i - 1 = Cabecera + i
    BY <1>1
  <2>3. Payload(m) = Tramo(m, d, h)
    BY DEF Payload
  <2> HIDE DEF d, h
  <2>4. /\ Tramo(m, d, h) \in Seq(Byte) /\ Len(Tramo(m, d, h)) = h + 1 - d
        /\ \A i \in 1..(h + 1 - d) : Tramo(m, d, h)[i] = <<m, d + i - 1>>
    BY <2>1, Tramos
  <2> QED
    BY <2>1, <2>2, <2>3, <2>4
<1>4. /\ PaqueteSerializado(m) \in Seq(Byte) /\ Len(PaqueteSerializado(m)) = Largo(m)
      /\ \A i \in 1..Largo(m) : PaqueteSerializado(m)[i] = <<m, i>>
  <2> DEFINE x == Header(m)
             y == Payload(m)
  <2>1. /\ x \in Seq(Byte) /\ Len(x) = Cabecera /\ y \in Seq(Byte) /\ Len(y) = Longitud[m]
        /\ PaqueteSerializado(m) = x \o y
    BY <1>2, <1>3 DEF PaqueteSerializado
  <2>2. ASSUME NEW i \in 1..Largo(m)
        PROVE  (IF i <= Cabecera THEN x[i] ELSE y[i - Cabecera]) = <<m, i>>
    <3>1. CASE i <= Cabecera
      BY <1>1, <1>2, <3>1
    <3>2. CASE ~(i <= Cabecera)
      <4>1. i - Cabecera \in 1..Longitud[m] /\ Cabecera + (i - Cabecera) = i
        BY <1>1, <3>2
      <4> QED
        BY <1>3, <3>2, <4>1
    <3> QED
      BY <3>1, <3>2
  <2> HIDE DEF x, y
  <2>3. /\ x \o y \in Seq(Byte) /\ Len(x \o y) = Len(x) + Len(y)
        /\ \A i \in 1..(Len(x) + Len(y)) :
             (x \o y)[i] = IF i <= Len(x) THEN x[i] ELSE y[i - Len(x)]
    BY <2>1, ConcatProperties
  <2> QED
    BY <1>1, <2>1, <2>2, <2>3
<1> QED
  BY <1>1, <1>2, <1>3, <1>4

(* The first n bytes of the socket, and what is left of it.                *)
LEMMA PrimerosBytes ==
  ASSUME NEW S, NEW s \in Seq(S), NEW k \in 0..Len(s)
  PROVE  /\ SubSeq(s, 1, k) \in Seq(S) /\ Len(SubSeq(s, 1, k)) = k
         /\ \A i \in 1..k : SubSeq(s, 1, k)[i] = s[i]
         /\ SubSeq(s, k + 1, Len(s)) \in Seq(S)
         /\ Len(SubSeq(s, k + 1, Len(s))) = Len(s) - k
         /\ \A i \in 1..(Len(s) - k) : SubSeq(s, k + 1, Len(s))[i] = s[k + i]
<1>1. Len(s) \in Nat /\ k \in Nat /\ Len(s) - k \in Nat
  OBVIOUS
<1>2. SubSeq(s, 1, k) = [i \in 1..k |-> s[i]]
  BY <1>1
<1>3. SubSeq(s, k + 1, Len(s)) = [i \in 1..(Len(s) - k) |-> s[k + i]]
  BY <1>1
<1>4. /\ \A i \in 1..k : s[i] \in S
      /\ \A i \in 1..(Len(s) - k) : s[k + i] \in S
  BY <1>1
<1> QED
  BY <1>1, <1>2, <1>3, <1>4

(* Two sequences of the same length with the same elements.                *)
LEMMA Iguales ==
  ASSUME NEW S, NEW s \in Seq(S), NEW t \in Seq(S), Len(s) = Len(t),
         \A i \in 1..Len(s) : s[i] = t[i]
  PROVE  s = t
OBVIOUS

(* Only one message has a given header.                                    *)
LEMMA UnHeader ==
  ASSUME NEW m \in Mensajes
  PROVE  LongitudesDe(Header(m)) = {Longitud[m]}
<1>1. \A x \in Mensajes : Header(x) = Header(m) => x = m
  <2> SUFFICES ASSUME NEW x \in Mensajes, Header(x) = Header(m)
               PROVE  x = m
    OBVIOUS
  <2>1. Header(x)[1] = <<x, 1>> /\ Header(m)[1] = <<m, 1>>
    BY Paquete
  <2> QED
    BY <2>1
<1> QED
  BY <1>1 DEF LongitudesDe

-----------------------------------------------------------------------------
(* Nothing was written yet.                                                *)
LEMMA InvInicial == Cortes = {} /\ Init => Inv
<1> SUFFICES ASSUME Cortes = {}, Init
             PROVE  Inv
  OBVIOUS
<1>1. TypeOK /\ Enteros /\ MensajesEnteros
  BY DEF Init, TypeOK, Enteros, MensajesEnteros
<1>2. lector.fase = "header" /\ abierto
  BY DEF Init
<1>3. Ubica([j \in 1..1 |-> 0])
  BY <1>2 DEF Init, Ubica, Proximo
<1> QED
  BY <1>1, <1>2, <1>3 DEF Inv, Leyendo

(* A step of a thread that puts no byte on the socket.                     *)
LEMMA NadaEnElCable ==
  ASSUME Inv, UNCHANGED <<enviados, cable, lector, entregados>>,
         Enteros', hilo' \in [Hilos -> Escritura \cup {NADA}],
         ~abierto' => \A h \in Hilos : hilo'[h] = NADA
  PROVE  Inv'
<1>1. TypeOK' /\ MensajesEnteros' /\ Proximo' = Proximo
  BY DEF Inv, TypeOK, MensajesEnteros, Proximo
<1>2. ASSUME NEW pos, Ubica(pos)
      PROVE  Ubica(pos)'
  BY <1>1, <1>2 DEF Ubica
<1>3. (\E pos : Ubica(pos)) => (\E pos : Ubica(pos)')
  BY <1>2
<1>4. Leyendo'
  BY <1>1, <1>3 DEF Inv, Leyendo
<1> QED
  BY <1>1, <1>4 DEF Inv

(* enviar_header and enviar_buffer, before the first turn and after the    *)
(* last one, and the end of the writer.                                    *)
LEMMA InvHilos ==
  ASSUME Inv, Cerrar \/ \E h \in Hilos : Enviar(h) \/ FinEnviar(h)
  PROVE  Inv'
<1>1. ASSUME NEW h \in Hilos, Enviar(h)
      PROVE  Inv'
  <2>1. PICK m \in Mensajes : hilo' = [hilo EXCEPT ![h] = [mensaje |-> m, puesto |-> <<>>]]
    BY <1>1 DEF Enviar
  <2>2. abierto' /\ UNCHANGED <<enviados, cable, lector, entregados>>
    BY <1>1 DEF Enviar
  <2>3. [mensaje |-> m, puesto |-> <<>>] \in Escritura
    BY DEF Escritura
  <2>4. Enteros' /\ hilo' \in [Hilos -> Escritura \cup {NADA}]
    BY <2>1, <2>3 DEF Inv, TypeOK, Enteros
  <2> QED
    BY <2>2, <2>4, NadaEnElCable
<1>2. ASSUME NEW h \in Hilos, FinEnviar(h)
      PROVE  Inv'
  <2>1. /\ hilo' = [hilo EXCEPT ![h] = NADA]
        /\ UNCHANGED <<enviados, cable, abierto, lector, entregados>>
    BY <1>2 DEF FinEnviar
  <2>2. Enteros' /\ hilo' \in [Hilos -> Escritura \cup {NADA}]
    BY <2>1 DEF Inv, TypeOK, Enteros
  <2>3. ~abierto' => \A x \in Hilos : hilo'[x] = NADA
    BY <2>1 DEF Inv, TypeOK, Leyendo
  <2> QED
    BY <2>1, <2>2, <2>3, NadaEnElCable
<1>3. CASE Cerrar
  <2>1. /\ hilo' = [h \in Hilos |-> NADA]
        /\ UNCHANGED <<enviados, cable, lector, entregados>>
    BY <1>3 DEF Cerrar
  <2>2. Enteros'
    BY <2>1 DEF Enteros
  <2> QED
    BY <2>1, <2>2, NadaEnElCable
<1> QED
  BY <1>1, <1>2, <1>3

(* A turn of enviar_buffer puts a whole message at the end of the socket.  *)
LEMMA InvSend ==
  ASSUME Inv, NEW h \in Hilos, Send(h)
  PROVE  Inv'
<1>1. PICK m \in Mensajes : m = hilo[h].mensaje
  BY DEF Send, Inv, TypeOK, Escritura
<1>2. /\ hilo[h] # NADA /\ abierto /\ Len(hilo[h].puesto) < Largo(m)
      /\ UNCHANGED <<abierto, lector, entregados>>
  BY <1>1 DEF Send, Falta
<1>3. hilo[h] \in Escritura /\ hilo[h].puesto = <<>>
  <2>1. hilo[h] \in Escritura /\ hilo[h].puesto \in {<<>>, PaqueteSerializado(m)}
    BY <1>1, <1>2 DEF Inv, TypeOK, Enteros
  <2>2. Len(PaqueteSerializado(m)) = Largo(m) /\ Largo(m) \in Nat
    BY Paquete
  <2> QED
    BY <1>2, <2>1, <2>2
<1>4. Hechos("send", Largo(m)) = {Largo(m)}
  BY DEF Hechos, Inv
<1>5. SubSeq(PaqueteSerializado(m), 1, Largo(m)) = PaqueteSerializado(m)
  <2>1. PaqueteSerializado(m) \in Seq(Byte) /\ Len(PaqueteSerializado(m)) = Largo(m)
    BY Paquete
  <2> QED
    BY <2>1
<1>6. <<>> \o PaqueteSerializado(m) = PaqueteSerializado(m)
  <2>1. PaqueteSerializado(m) \in Seq(Byte)
    BY Paquete
  <2> QED
    BY <2>1
<1>7. /\ cable' = cable \o PaqueteSerializado(m)
      /\ hilo' = [hilo EXCEPT ![h].puesto = PaqueteSerializado(m)]
      /\ enviados' = Append(enviados, m)
  <2>1. \E n \in {Largo(m)} :
          LET bytes == SubSeq(PaqueteSerializado(m), 1, n) IN
          /\ cable' = cable \o bytes
          /\ hilo' = [hilo EXCEPT ![h].puesto = hilo[h].puesto \o bytes]
    BY <1>1, <1>4 DEF Send
  <2>2. enviados' = Append(enviados, m)
    BY <1>1, <1>3 DEF Send
  <2> QED
    BY <1>3, <1>5, <1>6, <2>1, <2>2
<1>8. /\ PaqueteSerializado(m) \in Seq(Byte) /\ Len(PaqueteSerializado(m)) = Largo(m)
      /\ Largo(m) \in Nat /\ \A i \in 1..Largo(m) : PaqueteSerializado(m)[i] = <<m, i>>
  BY Paquete
<1>9. Enteros' /\ hilo' \in [Hilos -> Escritura \cup {NADA}]
  <2>1. hilo'[h] = [hilo[h] EXCEPT !.puesto = PaqueteSerializado(m)]
    BY <1>7 DEF Inv, TypeOK
  <2>2. hilo'[h] \in Escritura /\ hilo'[h].mensaje = m /\ hilo'[h].puesto = PaqueteSerializado(m)
    BY <1>1, <1>3, <1>8, <2>1 DEF Escritura
  <2>3. \A x \in Hilos : x # h => hilo'[x] = hilo[x]
    BY <1>7 DEF Inv, TypeOK
  <2>4. hilo' \in [Hilos -> Escritura \cup {NADA}]
    BY <1>7, <2>2, <2>3 DEF Inv, TypeOK
  <2> QED
    BY <2>2, <2>3, <2>4 DEF Inv, Enteros
<1>10. /\ cable \in Seq(Byte) /\ enviados \in Seq(Mensajes)
       /\ cable' \in Seq(Byte) /\ Len(cable') = Len(cable) + Largo(m)
       /\ \A i \in 1..Len(cable) : cable'[i] = cable[i]
       /\ \A i \in 1..Largo(m) : cable'[Len(cable) + i] = <<m, i>>
       /\ enviados' \in Seq(Mensajes) /\ Len(enviados') = Len(enviados) + 1
       /\ \A j \in 1..Len(enviados) : enviados'[j] = enviados[j]
       /\ enviados'[Len(enviados) + 1] = m
  <2>1. cable \in Seq(Byte) /\ enviados \in Seq(Mensajes)
    BY DEF Inv, TypeOK
  <2>2. /\ enviados' \in Seq(Mensajes) /\ Len(enviados') = Len(enviados) + 1
        /\ \A j \in 1..Len(enviados) : enviados'[j] = enviados[j]
        /\ enviados'[Len(enviados) + 1] = m
    BY <1>7, <2>1
  <2> DEFINE y == PaqueteSerializado(m)
  <2>3. y \in Seq(Byte) /\ Len(y) = Largo(m) /\ cable' = cable \o y
    BY <1>7, <1>8
  <2> HIDE DEF y
  <2>4. /\ cable' \in Seq(Byte) /\ Len(cable') = Len(cable) + Len(y)
        /\ \A i \in 1..(Len(cable) + Len(y)) :
             cable'[i] = IF i <= Len(cable) THEN cable[i] ELSE y[i - Len(cable)]
    BY <2>1, <2>3, ConcatProperties
  <2>5. \A i \in 1..Len(cable) : cable'[i] = cable[i]
    BY <2>1, <2>3, <2>4
  <2>6. \A i \in 1..Largo(m) : cable'[Len(cable) + i] = y[i]
    BY <1>8, <2>1, <2>3, <2>4
  <2> QED
    BY <1>8, <2>1, <2>2, <2>3, <2>4, <2>5, <2>6 DEF y
<1>11. TypeOK' /\ MensajesEnteros' /\ Proximo' = Proximo /\ Proximo \in Nat /\ Proximo >= 1
         /\ Proximo <= Len(enviados) + 1
  <2>1. TypeOK'
    BY <1>2, <1>9, <1>10 DEF Inv, TypeOK
  <2>2. Len(entregados) \in Nat /\ Len(entregados) <= Len(enviados) /\ entregados' = entregados
    BY <1>2 DEF Inv, TypeOK, MensajesEnteros
  <2>3. MensajesEnteros'
    BY <1>10, <2>2 DEF Inv, MensajesEnteros
  <2> QED
    BY <2>1, <2>2, <2>3 DEF Proximo
<1>12. ASSUME NEW pos, Ubica(pos)
       PROVE  \E nueva : Ubica(nueva)'
  <2> DEFINE e == Len(enviados)
  <2> PICK nueva :
        nueva = [j \in 1..(e + 2) |-> IF j = e + 2 THEN Len(cable) + Largo(m) ELSE pos[j]]
    OBVIOUS
  <2>1. /\ e \in Nat /\ Len(cable) \in Nat /\ Largo(m) \in Nat /\ pos \in [1..(e + 1) -> Int]
        /\ pos[e + 1] = Len(cable)
        /\ \A j \in 1..(e + 1) : pos[j] \in Int /\ pos[j] <= Len(cable)
        /\ enviados'[e + 1] = m
    <3>1. e \in Nat /\ Len(cable) \in Nat /\ enviados'[e + 1] = m
      BY <1>10
    <3>2. pos \in [1..(e + 1) -> Int] /\ pos[e + 1] = Len(cable)
      BY <1>12 DEF Ubica
    <3>3. \A j \in 1..(e + 1) : pos[j] <= Len(cable)
      BY <1>12 DEF Ubica
    <3> QED
      BY <1>8, <3>1, <3>2, <3>3
  <2>2. /\ nueva \in [1..(e + 2) -> Int] /\ nueva[e + 2] = Len(cable) + Largo(m)
        /\ \A j \in 1..(e + 1) : nueva[j] = pos[j]
    BY <2>1
  <2>3. Len(enviados') + 1 = e + 2 /\ Len(enviados') = e + 1
    BY <1>10, <2>1
  <2> HIDE DEF e
  <2>4. \A j \in 1..(e + 1) : nueva[j + 1] = nueva[j] + Largo(enviados'[j])
    <3>1. \A j \in 1..e : nueva[j + 1] = nueva[j] + Largo(enviados'[j])
      <4> SUFFICES ASSUME NEW j \in 1..e
                   PROVE  nueva[j + 1] = nueva[j] + Largo(enviados'[j])
        OBVIOUS
      <4>1. pos[j + 1] = pos[j] + Largo(enviados[j])
        BY <1>12 DEF Ubica, e
      <4>2. enviados'[j] = enviados[j] /\ j \in 1..(e + 1) /\ j + 1 \in 1..(e + 1)
        BY <1>10, <2>1 DEF e
      <4> QED
        BY <2>2, <4>1, <4>2
    <3>2. nueva[(e + 1) + 1] = nueva[e + 1] + Largo(enviados'[e + 1])
      <4>1. (e + 1) + 1 = e + 2 /\ e + 1 \in 1..(e + 1)
        BY <2>1
      <4> QED
        BY <2>1, <2>2, <4>1
    <3>3. \A j \in 1..(e + 1) : j \in 1..e \/ j = e + 1
      BY <2>1
    <3> QED
      BY <3>1, <3>2, <3>3
  <2>5. \A j \in 1..(e + 2) : nueva[j] <= Len(cable')
    BY <1>10, <2>1, <2>2
  <2>6. nueva[Proximo] = IF lector.fase = "payload" THEN 0 - Cabecera ELSE 0
    BY <1>11, <1>12, <2>1, <2>2 DEF Ubica, e
  <2>7. ASSUME NEW j \in Proximo..(e + 1), NEW i \in 1..Largo(enviados'[j]), nueva[j] + i >= 1
        PROVE  cable'[nueva[j] + i] = <<enviados'[j], i>>
    <3>1. CASE j = e + 1
      <4>1. e + 1 \in 1..(e + 1) /\ nueva[j] = Len(cable) /\ enviados'[j] = m
        BY <2>1, <2>2, <3>1
      <4> QED
        BY <1>10, <2>7, <4>1
    <3>2. CASE j # e + 1
      <4>1. /\ j \in 1..e /\ j \in Proximo..e /\ nueva[j] = pos[j] /\ enviados'[j] = enviados[j]
            /\ pos[j + 1] = pos[j] + Largo(enviados[j]) /\ j + 1 \in 1..(e + 1)
        BY <1>10, <1>11, <1>12, <2>1, <2>2, <2>7, <3>2, SMTT(30) DEF Ubica, e
      <4>2. Largo(enviados[j]) \in Nat
        BY <1>10, <4>1, Paquete, SMTT(30) DEF e
      <4>3. pos[j] + i \in 1..Len(cable)
        <5>1. /\ pos[j] \in Int /\ pos[j + 1] \in Int /\ pos[j + 1] <= Len(cable)
              /\ Len(cable) \in Nat
          BY <2>1, <4>1
        <5>2. i \in Nat /\ i <= Largo(enviados[j]) /\ pos[j] + i >= 1
          BY <2>7, <4>1, <4>2
        <5> QED
          BY <4>1, <4>2, <5>1, <5>2
      <4>4. cable[pos[j] + i] = <<enviados[j], i>>
        BY <1>12, <2>7, <4>1 DEF Ubica, e
      <4> QED
        BY <1>10, <4>1, <4>3, <4>4
    <3> QED
      BY <3>1, <3>2
  <2>8. Ubica(nueva)'
    <3>1. nueva \in [1..(Len(enviados') + 1) -> Int] /\ nueva[Len(enviados') + 1] = Len(cable')
      BY <1>10, <2>2, <2>3
    <3>2. \A j \in Proximo'..Len(enviados') : \A i \in 1..Largo(enviados'[j]) :
            nueva[j] + i >= 1 => cable'[nueva[j] + i] = <<enviados'[j], i>>
      BY <1>11, <2>3, <2>7
    <3>3. nueva[Proximo'] = IF lector'.fase = "payload" THEN 0 - Cabecera ELSE 0
      BY <1>2, <1>11, <2>6
    <3>4. /\ \A j \in 1..Len(enviados') : nueva[j + 1] = nueva[j] + Largo(enviados'[j])
          /\ \A j \in 1..(Len(enviados') + 1) : nueva[j] <= Len(cable')
      BY <2>3, <2>4, <2>5
    <3> QED
      BY <3>1, <3>2, <3>3, <3>4 DEF Ubica
  <2> QED
    BY <2>8
<1>13. Leyendo'
  <2>1. lector'.fase \in {"header", "payload"} => \E pos : Ubica(pos)'
    BY <1>2, <1>12 DEF Inv, Leyendo
  <2>2. lector'.fase = "payload" =>
          /\ Proximo' <= Len(enviados')
          /\ lector' = [fase |-> "payload", header |-> Header(enviados'[Proximo']),
                        longitud |-> Longitud[enviados'[Proximo']]]
          /\ lector'.longitud > 0
    BY <1>2, <1>10, <1>11 DEF Inv, Leyendo
  <2> QED
    BY <1>2, <2>1, <2>2 DEF Inv, Leyendo
<1> QED
  BY <1>9, <1>11, <1>13 DEF Inv

-----------------------------------------------------------------------------
(* recibir_mensaje.                                                        *)

(* While the socket has bytes the next message is there, all of it but the *)
(* header when it was read.                                                *)
LEMMA ElPrimero ==
  ASSUME Inv, NEW pos, Ubica(pos), cable # <<>> \/ lector.fase = "payload"
  PROVE  /\ Proximo \in 1..Len(enviados) /\ enviados[Proximo] \in Mensajes
         /\ Len(cable) \in Nat
         /\ pos[Proximo + 1] = pos[Proximo] + Largo(enviados[Proximo])
         /\ pos[Proximo + 1] <= Len(cable)
<1>1. /\ Proximo \in Nat /\ Proximo >= 1 /\ Proximo <= Len(enviados) + 1 /\ Len(enviados) \in Nat
      /\ cable \in Seq(Byte) /\ Len(cable) \in Nat /\ enviados \in Seq(Mensajes)
  BY DEF Inv, TypeOK, MensajesEnteros, Proximo
<1>2. Proximo # Len(enviados) + 1
  <2>1. CASE lector.fase = "payload"
    BY <1>1, <2>1 DEF Inv, Leyendo
  <2>2. CASE lector.fase # "payload"
    <3>1. Len(cable) # 0
      BY <1>1, <2>2
    <3> QED
      BY <2>2, <3>1 DEF Ubica
  <2> QED
    BY <2>1, <2>2
<1>3. Proximo \in 1..Len(enviados) /\ Proximo + 1 \in 1..(Len(enviados) + 1)
  BY <1>1, <1>2
<1> QED
  BY <1>1, <1>3 DEF Ubica

(* The places are integers, and stay so when all of them move.             *)
LEMMA Lugares ==
  ASSUME NEW n \in Nat, NEW pos \in [1..(n + 1) -> Int], NEW k \in Nat
  PROVE  /\ \A j \in 1..(n + 1) : pos[j] \in Int /\ pos[j] - k \in Int
         /\ [j \in 1..(n + 1) |-> pos[j] - k] \in [1..(n + 1) -> Int]
         /\ \A j \in 1..n : j \in 1..(n + 1) /\ j + 1 \in 1..(n + 1)
         /\ n + 1 \in 1..(n + 1)
OBVIOUS

(* The first k bytes are read: every message is k places nearer.           *)
LEMMA AlLeer ==
  ASSUME Inv, NEW pos, Ubica(pos), NEW k \in 0..Len(cable),
         cable' = SubSeq(cable, k + 1, Len(cable)), enviados' = enviados,
         Proximo' \in {Proximo, Proximo + 1}, Proximo' \in 1..(Len(enviados) + 1),
         pos[Proximo'] - k = IF lector'.fase = "payload" THEN 0 - Cabecera ELSE 0
  PROVE  \E nueva : Ubica(nueva)'
<1> DEFINE e == Len(enviados)
<1> PICK nueva : nueva = [j \in 1..(e + 1) |-> pos[j] - k]
  OBVIOUS
<1>1. /\ cable \in Seq(Byte) /\ Len(cable) \in Nat /\ enviados \in Seq(Mensajes) /\ e \in Nat
      /\ Proximo \in Nat /\ Proximo >= 1 /\ k \in Nat
  BY DEF Inv, TypeOK, Proximo
<1>2. /\ pos \in [1..(e + 1) -> Int] /\ pos[e + 1] = Len(cable)
      /\ \A j \in 1..e : pos[j + 1] = pos[j] + Largo(enviados[j])
      /\ \A j \in 1..(e + 1) : pos[j] <= Len(cable)
  BY DEF Ubica
<1>3. /\ \A j \in 1..(e + 1) : pos[j] \in Int /\ pos[j] - k \in Int
      /\ [j \in 1..(e + 1) |-> pos[j] - k] \in [1..(e + 1) -> Int]
      /\ \A j \in 1..e : j \in 1..(e + 1) /\ j + 1 \in 1..(e + 1)
      /\ e + 1 \in 1..(e + 1)
  <2> HIDE DEF e
  <2> QED
    BY <1>1, <1>2, Lugares
<1>4. /\ cable' \in Seq(Byte) /\ Len(cable') = Len(cable) - k
      /\ \A i \in 1..(Len(cable) - k) : cable'[i] = cable[k + i]
  BY <1>1, PrimerosBytes
<1>5. /\ nueva \in [1..(e + 1) -> Int] /\ \A j \in 1..(e + 1) : nueva[j] = pos[j] - k
  BY <1>3
<1>6. \A j \in 1..e : Largo(enviados[j]) \in Nat
  BY <1>1, Paquete, SMTT(30)
<1>7. \A j \in 1..e : nueva[j + 1] = nueva[j] + Largo(enviados[j])
  <2> SUFFICES ASSUME NEW j \in 1..e
               PROVE  nueva[j + 1] = nueva[j] + Largo(enviados[j])
    OBVIOUS
  <2>1. j \in 1..(e + 1) /\ j + 1 \in 1..(e + 1) /\ pos[j] \in Int /\ pos[j + 1] \in Int
    BY <1>3
  <2> QED
    BY <1>1, <1>2, <1>5, <1>6, <2>1
<1>8. nueva[e + 1] = Len(cable') /\ \A j \in 1..(e + 1) : nueva[j] <= Len(cable')
  <2>1. e + 1 \in 1..(e + 1) /\ \A j \in 1..(e + 1) : pos[j] \in Int
    BY <1>3
  <2>2. nueva[e + 1] = Len(cable) - k
    BY <1>2, <1>5, <2>1
  <2>3. \A j \in 1..(e + 1) : nueva[j] <= Len(cable) - k
    BY <1>1, <1>2, <1>5, <2>1
  <2> QED
    BY <1>4, <2>2, <2>3
<1>9. ASSUME NEW j \in Proximo'..e, NEW i \in 1..Largo(enviados[j]), nueva[j] + i >= 1
      PROVE  cable'[nueva[j] + i] = <<enviados[j], i>>
  <2>1. /\ j \in 1..e /\ j \in 1..(e + 1) /\ j + 1 \in 1..(e + 1) /\ j \in Proximo..e
        /\ Largo(enviados[j]) \in Nat /\ i \in Nat
    BY <1>1, <1>6
  <2>2. /\ pos[j] \in Int /\ nueva[j] = pos[j] - k
        /\ pos[j + 1] = pos[j] + Largo(enviados[j]) /\ pos[j + 1] <= Len(cable)
    BY <1>2, <1>5, <2>1
  <2>3. pos[j] + i >= 1 /\ nueva[j] + i \in 1..(Len(cable) - k) /\ k + (nueva[j] + i) = pos[j] + i
    BY <1>1, <1>9, <2>1, <2>2, SMTT(30)
  <2>4. cable[pos[j] + i] = <<enviados[j], i>>
    BY <2>1, <2>3 DEF Ubica
  <2> QED
    BY <1>4, <2>3, <2>4
<1>10. nueva[Proximo'] = IF lector'.fase = "payload" THEN 0 - Cabecera ELSE 0
  BY <1>5
<1>11. Ubica(nueva)'
  <2>1. nueva \in [1..(Len(enviados') + 1) -> Int] /\ nueva[Len(enviados') + 1] = Len(cable')
    BY <1>5, <1>8
  <2>2. \A j \in Proximo'..Len(enviados') : \A i \in 1..Largo(enviados'[j]) :
          nueva[j] + i >= 1 => cable'[nueva[j] + i] = <<enviados'[j], i>>
    BY <1>9
  <2>3. /\ \A j \in 1..Len(enviados') : nueva[j + 1] = nueva[j] + Largo(enviados'[j])
        /\ \A j \in 1..(Len(enviados') + 1) : nueva[j] <= Len(cable')
    BY <1>7, <1>8
  <2> QED
    BY <1>10, <2>1, <2>2, <2>3 DEF Ubica
<1> QED
  BY <1>11

(* A message more was delivered, the next one of those that were written.  *)
LEMMA UnoMas ==
  ASSUME Inv, Proximo \in 1..Len(enviados), enviados' = enviados,
         entregados' = Append(entregados, Sobre(enviados[Proximo]))
  PROVE  /\ MensajesEnteros' /\ Proximo' = Proximo + 1 /\ Proximo' \in 1..(Len(enviados) + 1)
         /\ entregados' \in Seq([header : Seq(Byte), payload : Seq(Byte)])
<1>1. /\ entregados \in Seq([header : Seq(Byte), payload : Seq(Byte)])
      /\ Len(entregados) \in Nat /\ Len(enviados) \in Nat /\ enviados[Proximo] \in Mensajes
      /\ Proximo = Len(entregados) + 1
  BY DEF Inv, TypeOK, Proximo
<1>2. Sobre(enviados[Proximo]) \in [header : Seq(Byte), payload : Seq(Byte)]
  BY <1>1, Paquete DEF Sobre
<1>3. /\ entregados' \in Seq([header : Seq(Byte), payload : Seq(Byte)])
      /\ Len(entregados') = Len(entregados) + 1
      /\ entregados'[Len(entregados) + 1] = Sobre(enviados[Proximo])
      /\ \A i \in 1..Len(entregados) : entregados'[i] = entregados[i]
  BY <1>1, <1>2
<1>4. MensajesEnteros'
  <2>1. \A i \in 1..Len(entregados) : entregados[i] = Sobre(enviados[i])
    BY DEF Inv, MensajesEnteros
  <2>2. \A i \in 1..Len(entregados') : i \in 1..Len(entregados) \/ i = Len(entregados) + 1
    BY <1>1, <1>3
  <2>3. \A i \in 1..Len(entregados') : entregados'[i] = Sobre(enviados[i])
    BY <1>1, <1>3, <2>1, <2>2
  <2>4. Len(entregados') <= Len(enviados)
    BY <1>1, <1>3
  <2> QED
    BY <2>3, <2>4 DEF MensajesEnteros, Sobre
<1> QED
  BY <1>1, <1>3, <1>4 DEF Proximo

(* recv of a header, or the end of the connection.                         *)
LEMMA InvRecibirHeader ==
  ASSUME Inv, RecibirHeader
  PROVE  Inv'
<1>1. /\ lector.fase = "header" /\ UNCHANGED <<hilo, enviados, abierto>>
      /\ cable \in Seq(Byte) /\ Len(cable) \in Nat /\ Cabecera \in Nat /\ Cabecera >= 1
      /\ Proximo \in Nat
  BY CabeceraAssumption DEF RecibirHeader, Inv, TypeOK, Proximo
<1>2. PICK k \in Recibidos(Cabecera) :
        /\ Quitar(k)
        /\ \/ /\ k = 0
              /\ lector' = Terminado
              /\ UNCHANGED entregados
           \/ /\ k > 0
              /\ \E n \in LongitudesDe(SubSeq(cable, 1, k)) :
                   IF n > 0
                     THEN /\ lector' = [fase |-> "payload", header |-> SubSeq(cable, 1, k),
                                        longitud |-> n]
                          /\ UNCHANGED entregados
                     ELSE /\ entregados' = Append(entregados, [header |-> SubSeq(cable, 1, k),
                                                               payload |-> <<>>])
                          /\ lector' = EsperarHeader
  BY DEF RecibirHeader, Seguir
<1>3. /\ EsperarHeader.fase = "header" /\ Terminado.fase = "fin"
  BY DEF EsperarHeader, Terminado
<1>4. Enteros' /\ (~abierto' => \A h \in Hilos : hilo'[h] = NADA)
  BY <1>1 DEF Inv, Enteros, Leyendo
<1>5. CASE cable = <<>>
  <2>1. k = 0
    BY <1>2, <1>5 DEF Recibidos
  <2>2. lector' = Terminado /\ entregados' = entregados /\ cable' = SubSeq(cable, k + 1, Len(cable))
    BY <1>2, <2>1 DEF Quitar
  <2>3. cable' \in Seq(Byte)
    BY <1>1, <2>1, <2>2, PrimerosBytes
  <2>4. TypeOK' /\ MensajesEnteros'
    BY <1>1, <2>2, <2>3 DEF Inv, TypeOK, MensajesEnteros
  <2>5. Leyendo'
    BY <1>3, <1>4, <2>2 DEF Leyendo
  <2> QED
    BY <1>4, <2>4, <2>5 DEF Inv
<1>6. CASE cable # <<>>
  <2>1. PICK pos : Ubica(pos)
    BY <1>1 DEF Inv, Leyendo
  <2>2. PICK m \in Mensajes : m = enviados[Proximo]
    BY <1>6, <2>1, ElPrimero
  <2>3. /\ Proximo \in 1..Len(enviados)
        /\ pos[Proximo + 1] = pos[Proximo] + Largo(m) /\ pos[Proximo + 1] <= Len(cable)
        /\ pos[Proximo] = 0
    BY <1>1, <1>6, <2>1, <2>2, ElPrimero DEF Ubica
  <2>4. /\ Largo(m) = Cabecera + Longitud[m] /\ Longitud[m] \in Nat /\ Largo(m) \in Nat
        /\ Header(m) \in Seq(Byte) /\ Len(Header(m)) = Cabecera
        /\ \A i \in 1..Cabecera : Header(m)[i] = <<m, i>>
    BY Paquete
  <2>5. Cabecera <= Len(cable)
    BY <1>1, <2>3, <2>4
  <2>6. k = Cabecera /\ k \in 0..Len(cable) /\ k > 0
    <3>1. Min({Cabecera, Len(cable)}) = Cabecera
      BY <1>1, <2>5 DEF Min
    <3>2. Hechos("recv", Cabecera) = {Cabecera}
      BY DEF Hechos, Inv
    <3>3. Recibidos(Cabecera) = {Cabecera}
      BY <1>6, <3>1, <3>2 DEF Recibidos
    <3> QED
      BY <1>1, <1>2, <2>5, <3>3
  <2>7. SubSeq(cable, 1, k) = Header(m)
    <3> DEFINE s == SubSeq(cable, 1, k)
    <3>1. s \in Seq(Byte) /\ Len(s) = k /\ \A i \in 1..k : s[i] = cable[i]
      BY <1>1, <2>6, PrimerosBytes
    <3>2. ASSUME NEW i \in 1..k
          PROVE  cable[i] = <<m, i>>
      <4>1. i \in 1..Largo(m) /\ 0 + i = i /\ i >= 1 /\ Proximo \in Proximo..Len(enviados)
        BY <1>1, <2>3, <2>4, <2>6
      <4> QED
        BY <2>1, <2>2, <2>3, <4>1 DEF Ubica
    <3> HIDE DEF s
    <3>3. s = Header(m)
      BY <2>4, <2>6, <3>1, <3>2, Iguales
    <3> QED
      BY <3>3 DEF s
  <2>8. \/ /\ Longitud[m] > 0
           /\ lector' = [fase |-> "payload", header |-> Header(m), longitud |-> Longitud[m]]
           /\ entregados' = entregados
        \/ /\ Longitud[m] = 0
           /\ entregados' = Append(entregados, [header |-> Header(m), payload |-> <<>>])
           /\ lector' = EsperarHeader
    <3>1. LongitudesDe(SubSeq(cable, 1, k)) = {Longitud[m]}
      BY <2>7, UnHeader
    <3> QED
      BY <1>2, <2>4, <2>6, <2>7, <3>1
  <2>9. cable' = SubSeq(cable, k + 1, Len(cable)) /\ cable' \in Seq(Byte)
    <3>1. cable' = SubSeq(cable, k + 1, Len(cable))
      BY <1>2 DEF Quitar
    <3> QED
      BY <1>1, <2>6, <3>1, PrimerosBytes
  <2>10. CASE Longitud[m] > 0
    <3>1. /\ lector' = [fase |-> "payload", header |-> Header(m), longitud |-> Longitud[m]]
          /\ entregados' = entregados
      BY <2>4, <2>8, <2>10
    <3>2. Proximo' = Proximo /\ lector'.fase = "payload" /\ MensajesEnteros'
      BY <1>1, <3>1 DEF Proximo, Inv, MensajesEnteros
    <3>3. pos[Proximo'] - k = IF lector'.fase = "payload" THEN 0 - Cabecera ELSE 0
      BY <1>1, <2>3, <2>6, <3>2
    <3>4. Proximo' \in {Proximo, Proximo + 1} /\ Proximo' \in 1..(Len(enviados) + 1)
      BY <2>3, <3>2
    <3>5. \E nueva : Ubica(nueva)'
      BY <1>1, <2>1, <2>6, <2>9, <3>3, <3>4, AlLeer
    <3>6. Leyendo'
      BY <1>1, <1>4, <2>2, <2>3, <2>10, <3>1, <3>2, <3>5 DEF Leyendo
    <3>7. TypeOK'
      BY <1>1, <2>9, <3>1 DEF Inv, TypeOK
    <3> QED
      BY <1>4, <3>2, <3>6, <3>7 DEF Inv
  <2>11. CASE Longitud[m] = 0
    <3>1. Payload(m) = <<>>
      <4>1. Payload(m) \in Seq(Byte) /\ Len(Payload(m)) = Longitud[m]
        BY Paquete
      <4> QED
        BY <2>11, <4>1
    <3>2. entregados' = Append(entregados, Sobre(m)) /\ lector'.fase = "header"
      BY <1>3, <2>8, <2>11, <3>1 DEF Sobre
    <3>3. /\ MensajesEnteros' /\ Proximo' = Proximo + 1 /\ Proximo' \in 1..(Len(enviados) + 1)
          /\ entregados' \in Seq([header : Seq(Byte), payload : Seq(Byte)])
      BY <1>1, <2>2, <2>3, <3>2, UnoMas
    <3>4. pos[Proximo'] - k = IF lector'.fase = "payload" THEN 0 - Cabecera ELSE 0
      BY <1>1, <2>3, <2>4, <2>6, <2>11, <3>2, <3>3
    <3>5. \E nueva : Ubica(nueva)'
      BY <1>1, <2>1, <2>6, <2>9, <3>3, <3>4, AlLeer
    <3>6. Leyendo'
      BY <1>4, <3>2, <3>5 DEF Leyendo
    <3>7. TypeOK'
      BY <1>1, <2>9, <3>3 DEF Inv, TypeOK
    <3> QED
      BY <1>4, <3>3, <3>6, <3>7 DEF Inv
  <2> QED
    BY <2>4, <2>10, <2>11
<1> QED
  BY <1>5, <1>6

(* recv of a payload.                                                      *)
LEMMA InvRecibirPayload ==
  ASSUME Inv, RecibirPayload
  PROVE  Inv'
<1>1. /\ lector.fase = "payload" /\ UNCHANGED <<hilo, enviados, abierto>>
      /\ cable \in Seq(Byte) /\ Len(cable) \in Nat /\ Cabecera \in Nat /\ Cabecera >= 1
      /\ Proximo \in Nat /\ lector' = EsperarHeader /\ lector'.fase = "header"
  BY CabeceraAssumption DEF RecibirPayload, Inv, TypeOK, Proximo, Seguir, EsperarHeader
<1>2. Enteros' /\ (~abierto' => \A h \in Hilos : hilo'[h] = NADA)
  BY <1>1 DEF Inv, Enteros, Leyendo
<1>3. PICK pos : Ubica(pos)
  BY <1>1 DEF Inv, Leyendo
<1>4. PICK m \in Mensajes : m = enviados[Proximo]
  BY <1>1, <1>3, ElPrimero
<1>5. /\ Proximo \in 1..Len(enviados)
      /\ pos[Proximo + 1] = pos[Proximo] + Largo(m) /\ pos[Proximo + 1] <= Len(cable)
      /\ pos[Proximo] = 0 - Cabecera
  BY <1>1, <1>3, <1>4, ElPrimero DEF Ubica
<1>6. /\ lector.longitud = Longitud[m] /\ lector.header = Header(m) /\ Longitud[m] > 0
  BY <1>1, <1>4 DEF Inv, Leyendo
<1>7. /\ Largo(m) = Cabecera + Longitud[m] /\ Longitud[m] \in Nat /\ Largo(m) \in Nat
      /\ Payload(m) \in Seq(Byte) /\ Len(Payload(m)) = Longitud[m]
      /\ \A i \in 1..Longitud[m] : Payload(m)[i] = <<m, Cabecera + i>>
  BY Paquete
<1>8. pos[Proximo + 1] = Longitud[m] /\ Longitud[m] <= Len(cable)
  BY <1>1, <1>5, <1>7
<1>9. PICK k \in Recibidos(Longitud[m]) :
        /\ Quitar(k)
        /\ entregados' = Append(entregados, [header |-> Header(m), payload |-> SubSeq(cable, 1, k)])
  BY <1>6 DEF RecibirPayload, Pedido
<1>10. k = Longitud[m] /\ k \in 0..Len(cable)
  <2>1. Min({Longitud[m], Len(cable)}) = Longitud[m]
    BY <1>1, <1>7, <1>8 DEF Min
  <2>2. Hechos("recv", Longitud[m]) = {Longitud[m]}
    BY DEF Hechos, Inv
  <2>3. cable # <<>>
    BY <1>1, <1>6, <1>7, <1>8
  <2> QED
    BY <1>7, <1>8, <1>1, <1>9, <2>1, <2>2, <2>3 DEF Recibidos
<1>11. SubSeq(cable, 1, k) = Payload(m)
  <2> DEFINE s == SubSeq(cable, 1, k)
  <2>1. s \in Seq(Byte) /\ Len(s) = k /\ \A i \in 1..k : s[i] = cable[i]
    BY <1>1, <1>10, PrimerosBytes
  <2>2. ASSUME NEW i \in 1..k
        PROVE  cable[i] = <<m, Cabecera + i>>
    <3>1. /\ Cabecera + i \in 1..Largo(m) /\ (0 - Cabecera) + (Cabecera + i) = i /\ i >= 1
          /\ Proximo \in Proximo..Len(enviados)
      BY <1>1, <1>5, <1>7, <1>10
    <3> QED
      BY <1>3, <1>4, <1>5, <3>1 DEF Ubica
  <2> HIDE DEF s
  <2>3. s = Payload(m)
    BY <1>7, <1>10, <2>1, <2>2, Iguales, ZenonT(30)
  <2> QED
    BY <2>3 DEF s
<1>12. entregados' = Append(entregados, Sobre(m))
  BY <1>9, <1>11 DEF Sobre
<1>13. /\ MensajesEnteros' /\ Proximo' = Proximo + 1 /\ Proximo' \in 1..(Len(enviados) + 1)
       /\ entregados' \in Seq([header : Seq(Byte), payload : Seq(Byte)])
  BY <1>1, <1>4, <1>5, <1>12, UnoMas
<1>14. cable' = SubSeq(cable, k + 1, Len(cable)) /\ cable' \in Seq(Byte)
  <2>1. cable' = SubSeq(cable, k + 1, Len(cable))
    BY <1>9 DEF Quitar
  <2> QED
    BY <1>1, <1>10, <2>1, PrimerosBytes
<1>15. pos[Proximo'] - k = IF lector'.fase = "payload" THEN 0 - Cabecera ELSE 0
  BY <1>1, <1>7, <1>8, <1>10, <1>13
<1>16. \E nueva : Ubica(nueva)'
  BY <1>1, <1>3, <1>10, <1>13, <1>14, <1>15, AlLeer
<1>17. Leyendo'
  BY <1>1, <1>2, <1>16 DEF Leyendo
<1>18. TypeOK'
  BY <1>1, <1>13, <1>14 DEF Inv, TypeOK
<1> QED
  BY <1>2, <1>13, <1>17, <1>18 DEF Inv

(* The connection is reset.                                                *)
LEMMA InvRecibirError ==
  ASSUME Inv, RecibirError
  PROVE  Inv'
<1>1. /\ lector' = Terminado /\ cable' = <<>> /\ UNCHANGED <<hilo, enviados, abierto, entregados>>
  BY DEF RecibirError
<1>2. Terminado.fase = "fin"
  BY DEF Terminado, EsperarHeader
<1>3. Enteros' /\ MensajesEnteros' /\ TypeOK'
  BY <1>1 DEF Inv, TypeOK, Enteros, MensajesEnteros
<1>4. Leyendo'
  BY <1>1, <1>2 DEF Inv, Leyendo
<1> QED
  BY <1>3, <1>4 DEF Inv

(* Every step keeps the invariant.                                         *)
LEMMA InvPaso == Inv /\ [Next]_vars => Inv'
<1> SUFFICES ASSUME Inv, [Next]_vars
             PROVE  Inv'
  OBVIOUS
<1>1. CASE UNCHANGED vars
  <2>1. UNCHANGED <<enviados, cable, lector, entregados>> /\ hilo' = hilo /\ abierto' = abierto
    BY <1>1 DEF vars
  <2>2. /\ Enteros' /\ hilo' \in [Hilos -> Escritura \cup {NADA}]
        /\ ~abierto' => \A h \in Hilos : hilo'[h] = NADA
    BY <2>1 DEF Inv, TypeOK, Enteros, Leyendo
  <2> QED
    BY <2>1, <2>2, NadaEnElCable
<1>2. CASE Cerrar \/ \E h \in Hilos : Enviar(h) \/ FinEnviar(h)
  BY <1>2, InvHilos
<1>3. ASSUME NEW h \in Hilos, Send(h) PROVE Inv'
  BY <1>3, InvSend
<1>4. CASE RecibirHeader
  BY <1>4, InvRecibirHeader
<1>5. CASE RecibirPayload
  BY <1>5, InvRecibirPayload
<1>6. CASE RecibirError
  BY <1>6, InvRecibirError
<1> QED
  BY <1>1, <1>2, <1>3, <1>4, <1>5, <1>6 DEF Next, RecibirMensaje, EnviarBuffer

-----------------------------------------------------------------------------
(* While send and recv do all they are asked, the bytes of the socket are  *)
(* the packets of the messages not delivered.                              *)
THEOREM Invariante == Cortes = {} /\ Spec => []Inv
BY InvInicial, InvPaso, PTL DEF Spec

(* recibir_mensaje hands over the messages whole, each once and in the     *)
(* order in which enviar_buffer began to write them.                       *)
THEOREM MensajesSiempreEnteros == Cortes = {} /\ Spec => []MensajesEnteros
<1>1. Inv => MensajesEnteros
  BY DEF Inv
<1> QED
  BY Invariante, <1>1, PTL
=============================================================================
