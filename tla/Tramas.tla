------------------------------- MODULE Tramas -------------------------------
(***************************************************************************)
(* One direction of a connection, byte by byte (comunicaciones.c): the     *)
(* threads that write messages on the socket with enviar_header and        *)
(* enviar_buffer, and the thread that reads them in recibir_mensaje, a     *)
(* header and then the payload whose length the header says.  The socket   *)
(* is a stream: nothing in it tells one message from the next.             *)
(*                                                                         *)
(* send and recv may do less than they are asked.  Cortes says which of    *)
(* them does: {} is the network module Canales stands on.                  *)
(***************************************************************************)
EXTENDS Naturals, SequencesExt, FiniteSetsExt

CONSTANTS Hilos,               (* the threads that write on the socket     *)
          Mensajes,            (* the messages they write                  *)
          Longitud,            (* longitud_mensaje of each, 0 without      *)
                               (* payload                                  *)
          Cabecera,            (* sizeof(t_header)                         *)
          Cortes,              (* of {"send", "recv"}                      *)
          NADA,                (* no message                               *)
          MaxEnvios            (* bound: messages written                  *)

ASSUME CabeceraAssumption == Cabecera \in Nat \ {0}
ASSUME LongitudAssumption == Longitud \in [Mensajes -> Nat]
ASSUME CortesAssumption == Cortes \subseteq {"send", "recv"}

VARIABLES
  hilo,       (* per thread, the message it writes and what its calls of   *)
              (* send put on the socket; NADA between two messages         *)
  enviados,   (* the messages, in the order they began                     *)
  cable,      (* the bytes in the socket: <<message, place>>               *)
  abierto,    (* the writer did not close it, nor end                      *)
  lector,     (* fase of recibir_mensaje; header, the bytes it has;        *)
              (* longitud, the payload it says                             *)
  entregados  (* what the handler was called with                          *)

vars == <<hilo, enviados, cable, abierto, lector, entregados>>

Tramo(m, desde, hasta) == [i \in 1..(hasta + 1 - desde) |-> <<m, desde + i - 1>>]
Largo(m) == Cabecera + Longitud[m]

(* serializar_con_header: the header and, after it, the payload.           *)
Header(m) == Tramo(m, 1, Cabecera)
Payload(m) == Tramo(m, Cabecera + 1, Largo(m))
PaqueteSerializado(m) == Header(m) \o Payload(m)

(* What a call of send or recv for n bytes may do.                         *)
Hechos(llamada, n) == IF llamada \in Cortes THEN 1..n ELSE {n}

Init ==
  /\ hilo = [h \in Hilos |-> NADA]
  /\ enviados = <<>> /\ cable = <<>> /\ entregados = <<>>
  /\ abierto = TRUE
  /\ lector = [fase |-> "header", header |-> <<>>, longitud |-> 0]

-----------------------------------------------------------------------------
(* enviar_header, enviar_buffer: the loop counts the bytes, and every turn *)
(* asks for the whole message from its first byte.                         *)

Enviar(h) ==
  /\ abierto /\ hilo[h] = NADA
  /\ Len(enviados) + Cardinality({x \in Hilos : hilo[x] # NADA}) < MaxEnvios
  /\ \E m \in Mensajes : hilo' = [hilo EXCEPT ![h] = [mensaje |-> m, puesto |-> <<>>]]
  /\ UNCHANGED <<enviados, cable, abierto, lector, entregados>>

Falta(total, cantidad) == total < cantidad

(* One turn.                                                               *)
Send(h) ==
  /\ abierto /\ hilo[h] # NADA
  /\ LET m == hilo[h].mensaje IN
     /\ Falta(Len(hilo[h].puesto), Largo(m))
     /\ \E n \in Hechos("send", Largo(m)) :
          LET bytes == SubSeq(PaqueteSerializado(m), 1, n) IN
          /\ cable' = cable \o bytes
          /\ hilo' = [hilo EXCEPT ![h].puesto = @ \o bytes]
     /\ enviados' = IF hilo[h].puesto = <<>> THEN Append(enviados, m) ELSE enviados
  /\ UNCHANGED <<abierto, lector, entregados>>

FinEnviar(h) ==
  /\ hilo[h] # NADA
  /\ ~Falta(Len(hilo[h].puesto), Largo(hilo[h].mensaje))
  /\ hilo' = [hilo EXCEPT ![h] = NADA]
  /\ UNCHANGED <<enviados, cable, abierto, lector, entregados>>

(* The process of the writer closes the socket, or dies.                   *)
Cerrar ==
  /\ abierto = TRUE
  /\ abierto' = FALSE
  /\ hilo' = [h \in Hilos |-> NADA]
  /\ UNCHANGED <<enviados, cable, lector, entregados>>

-----------------------------------------------------------------------------
(* recibir_mensaje.                                                        *)

(* deserializar_header: bytes that are not a header give any length.       *)
LongitudMaxima == Max({Longitud[m] : m \in Mensajes})
LongitudesDe(bytes) ==
  IF \E m \in Mensajes : bytes = Header(m)
  THEN {Longitud[m] : m \in {x \in Mensajes : bytes = Header(x)}}
  ELSE 0..LongitudMaxima

(* What a recv of at most n bytes returns now: it waits while there is     *)
(* none, and returns 0 when there will be none.                            *)
Recibidos(n) ==
  IF cable # <<>> THEN Hechos("recv", Min({n, Len(cable)}))
  ELSE IF abierto THEN {} ELSE {0}
Quitar(k) == cable' = SubSeq(cable, k + 1, Len(cable))

EsperarHeader == [fase |-> "header", header |-> <<>>, longitud |-> 0]
Terminado == [EsperarHeader EXCEPT !.fase = "fin"]

(* Mutants: of Pedido, recv of the payload asks for a header more; of      *)
(* Seguir, a message without payload ends the loop.                        *)
PedidoConCabecera == lector.longitud + Cabecera
SeguirSiTrajo(n) == IF n = 0 THEN Terminado ELSE EsperarHeader

Pedido == lector.longitud
Seguir(n) == EsperarHeader

(* The header; a message without payload goes to the handler at once.      *)
RecibirHeader ==
  /\ lector.fase = "header"
  /\ \E k \in Recibidos(Cabecera) :
       LET bytes == SubSeq(cable, 1, k) IN
       /\ Quitar(k)
       /\ \/ /\ k = 0
             /\ lector' = Terminado
             /\ UNCHANGED entregados
          \/ /\ k > 0
             /\ \E n \in LongitudesDe(bytes) :
                  IF n > 0
                    THEN /\ lector' = [fase |-> "payload", header |-> bytes, longitud |-> n]
                         /\ UNCHANGED entregados
                    ELSE /\ entregados' = Append(entregados, [header |-> bytes, payload |-> <<>>])
                         /\ lector' = Seguir(n)
  /\ UNCHANGED <<hilo, enviados, abierto>>

(* The payload: nobody looks at how much of it came.                       *)
RecibirPayload ==
  /\ lector.fase = "payload"
  /\ \E k \in Recibidos(Pedido) :
       /\ Quitar(k)
       /\ entregados' = Append(entregados, [header |-> lector.header,
                                            payload |-> SubSeq(cable, 1, k)])
  /\ lector' = Seguir(lector.longitud)
  /\ UNCHANGED <<hilo, enviados, abierto>>

(* The connection is reset: recv returns -1 and what was in it is lost.    *)
RecibirError ==
  /\ ~abierto /\ lector.fase # "fin"
  /\ lector' = Terminado
  /\ cable' = <<>>
  /\ UNCHANGED <<hilo, enviados, abierto, entregados>>

-----------------------------------------------------------------------------
RecibirMensaje == RecibirHeader \/ RecibirPayload \/ RecibirError
EnviarBuffer(h) == Send(h) \/ FinEnviar(h)

Next == Cerrar \/ RecibirMensaje \/ \E h \in Hilos : Enviar(h) \/ EnviarBuffer(h)

(* A thread that began to send goes on, and the thread that reads reads.   *)
Spec ==
  /\ Init /\ [][Next]_vars
  /\ WF_vars(RecibirHeader \/ RecibirPayload)
  /\ \A h \in Hilos : WF_vars(EnviarBuffer(h))

-----------------------------------------------------------------------------
(* Properties.                                                             *)

(* The handler is called with the messages that were written, whole, each  *)
(* once and in the order in which they began, whichever threads wrote them *)
(* and wherever the connection ends (recibir_mensaje, enviar_buffer).      *)
Sobre(m) == [header |-> Header(m), payload |-> Payload(m)]
MensajesEnteros ==
  /\ Len(entregados) <= Len(enviados)
  /\ \A i \in 1..Len(entregados) : entregados[i] = Sobre(enviados[i])

(* Every message written is read, unless the connection ends first, and    *)
(* the thread that reads ends when the connection does.                    *)
TodoLlega ==
  /\ \A k \in 1..MaxEnvios : Len(enviados) >= k ~> Len(entregados) >= k \/ ~abierto
  /\ ~abierto ~> lector.fase = "fin"
=============================================================================
