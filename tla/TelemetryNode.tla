---------------------------- MODULE TelemetryNode ----------------------------
(***************************************************************************)
(* clients/telemetry_node.py, class NodoTelemetria: it registers over TCP,  *)
(* sends one TELEMETRY a cycle over UDP and waits a second for its answer.  *)
(* The answer is taken from whatever the socket holds: neither ACK nor ERR  *)
(* is compared with the sequence number just sent.                          *)
(*                                                                          *)
(* The environment: a network that loses, delays and duplicates datagrams,  *)
(* and a server that knows the node or not (NodeRegistry!RegisterNode and   *)
(* RecordTelemetry), forgets it when it restarts and answers each datagram. *)
(***************************************************************************)
EXTENDS Integers, Sequences

CONSTANTS
    MaxSeq,        \* bound: measurements of a session
    MaxPerdidas,   \* bound: datagrams and answers the network loses
    MaxCopias,     \* bound: datagrams and answers it delivers twice
    MaxErrores,    \* bound: sends that fail (no DNS, no route)
    MaxTardios,    \* bound: answers that take longer than the second the node waits
    MaxReinicios   \* bound: restarts of the server

(* What can keep a measurement from getting its own answer. *)
Contratiempos == MaxPerdidas + MaxCopias + MaxErrores + MaxTardios

ASSUME NodeAssumption ==
    /\ MaxPerdidas \in Nat /\ MaxCopias \in Nat /\ MaxErrores \in Nat /\ MaxTardios \in Nat
    /\ MaxReinicios \in Nat
    /\ MaxSeq \in Nat /\ MaxSeq > Contratiempos + 1

VARIABLES
    fase,         \* "ciclo", "registro", "espera" (of the ACK), "fin"
    registrado,   \* self.registrado
    seq,          \* self.seq
    cuentas,      \* self.enviados, confirmados, sin_confirmar, errores_envio, registros
    rechazos,     \* history: how many 406 reached the node
    conocido,     \* the server has the node in its table
    ida,          \* datagrams on their way to the server
    vuelta,       \* answers on their way to the node
    buzon,        \* answers in the node's socket
    perdidas, copias, tardios, reinicios   \* how much of each bound is used

nodo == <<fase, registrado, seq, cuentas>>
red == <<ida, vuelta, buzon, perdidas, copias, tardios>>
vars == <<fase, registrado, seq, cuentas, rechazos, conocido, ida, vuelta, buzon,
          perdidas, copias, tardios, reinicios>>

Init ==
    /\ fase = "ciclo" /\ registrado = FALSE /\ seq = 0
    /\ cuentas = [enviados |-> 0, confirmados |-> 0, sin_confirmar |-> 0, errores_envio |-> 0,
                  registros |-> 0]
    /\ rechazos = 0 /\ conocido = FALSE
    /\ ida = {} /\ vuelta = {} /\ buzon = <<>>
    /\ perdidas = 0 /\ copias = 0 /\ tardios = 0 /\ reinicios = 0

-----------------------------------------------------------------------------
(* The node.                                                                *)

Cuenta(campo) == cuentas' = [cuentas EXCEPT ![campo] = @ + 1]

(* ejecutar, the top of a cycle: register first if need be. *)
Ciclo ==
    /\ fase = "ciclo" /\ ~registrado
    /\ fase' = "registro"
    /\ UNCHANGED <<registrado, seq, cuentas, rechazos, conocido, red, reinicios>>

(* registrar: the server takes the REGISTER and the node gets its OK, or the *)
(* answer is lost and the node will try again.                              *)
Registrar ==
    /\ fase = "registro"
    /\ conocido' = TRUE
    /\ \/ fase' = "envio" /\ registrado' = TRUE /\ Cuenta("registros") /\ UNCHANGED perdidas
       \/ /\ perdidas < MaxPerdidas /\ perdidas' = perdidas + 1
          /\ UNCHANGED <<fase, registrado, cuentas>>
    /\ UNCHANGED <<seq, rechazos, ida, vuelta, buzon, copias, tardios, reinicios>>

(* Mutant: only a measurement that was sent spends its number. *)
SeqTrasFalloIgual(s) == s

(* self.seq after a send that failed: the number is spent, and the server   *)
(* will count it as lost.                                                   *)
SeqTrasFallo(s) == s + 1

(* enviar_medicion, up to recvfrom. *)
Enviar ==
    /\ fase = "envio" \/ (fase = "ciclo" /\ registrado)
    /\ seq < MaxSeq
    /\ \/ /\ seq' = seq + 1 /\ fase' = "espera"
          /\ ida' = ida \cup {seq'} /\ Cuenta("enviados")
       \/ /\ cuentas.errores_envio < MaxErrores
          /\ seq' = SeqTrasFallo(seq) /\ fase' = "ciclo"
          /\ Cuenta("errores_envio") /\ UNCHANGED ida
    /\ UNCHANGED <<registrado, rechazos, conocido, vuelta, buzon, perdidas, copias,
                   tardios, reinicios>>

(* Mutants: a rejected node goes on sending; a measurement that was not     *)
(* confirmed sends the node to register again.                              *)
SigueRegistradoSiempre(tipo) == TRUE
SigueRegistradoSoloConAck(tipo) == tipo = "ACK"

(* What the node makes of self.registrado after an answer, or none. *)
SigueRegistrado(tipo) == tipo # "406"

(* enviar_medicion, once recvfrom returns or times out: an ERR has no       *)
(* counter.                                                                 *)
Tratar(tipo) ==
    /\ fase' = "ciclo"
    /\ registrado' = SigueRegistrado(tipo)
    /\ CASE tipo = "ACK" -> Cuenta("confirmados")
         [] tipo = "nada" -> Cuenta("sin_confirmar")
         [] OTHER -> UNCHANGED cuentas
    /\ UNCHANGED <<seq, rechazos, conocido, ida, vuelta, perdidas, copias, reinicios>>

Recibir ==
    /\ fase = "espera" /\ buzon # <<>>
    /\ Tratar(Head(buzon).tipo)
    /\ buzon' = Tail(buzon)
    /\ UNCHANGED tardios

(* No answer within the second: there will be none, or it comes later. *)
SinRespuesta ==
    /\ fase = "espera" /\ buzon = <<>>
    /\ IF ida = {} /\ vuelta = {} THEN UNCHANGED tardios
       ELSE tardios < MaxTardios /\ tardios' = tardios + 1
    /\ Tratar("nada")
    /\ UNCHANGED buzon

(* SIGINT or SIGTERM: detener, seen at the top of a cycle or between two     *)
(* attempts to register.                                                    *)
Detener ==
    /\ fase \in {"ciclo", "registro"}
    /\ fase' = "fin"
    /\ UNCHANGED <<registrado, seq, cuentas, rechazos, conocido, red, reinicios>>

-----------------------------------------------------------------------------
(* The environment.                                                         *)

Respuesta(s) == [tipo |-> IF conocido THEN "ACK" ELSE "406", seq |-> s]

(* A datagram reaches the server and is answered; a copy of it may follow.  *)
LlegaAlServidor ==
    /\ \E s \in ida :
         /\ vuelta' = vuelta \cup {Respuesta(s)}
         /\ \/ ida' = ida \ {s} /\ UNCHANGED copias
            \/ copias < MaxCopias /\ copias' = copias + 1 /\ UNCHANGED ida
    /\ UNCHANGED <<nodo, rechazos, conocido, buzon, perdidas, tardios, reinicios>>

(* An answer reaches the node's socket; a copy of it may follow. *)
LlegaAlNodo ==
    /\ \E r \in vuelta :
         /\ buzon' = Append(buzon, r)
         /\ rechazos' = rechazos + (IF r.tipo = "406" THEN 1 ELSE 0)
         /\ \/ vuelta' = vuelta \ {r} /\ UNCHANGED copias
            \/ copias < MaxCopias /\ copias' = copias + 1 /\ UNCHANGED vuelta
    /\ UNCHANGED <<nodo, conocido, ida, perdidas, tardios, reinicios>>

SePierde ==
    /\ perdidas < MaxPerdidas /\ perdidas' = perdidas + 1
    /\ \/ \E s \in ida : ida' = ida \ {s} /\ UNCHANGED vuelta
       \/ \E r \in vuelta : vuelta' = vuelta \ {r} /\ UNCHANGED ida
    /\ UNCHANGED <<nodo, rechazos, conocido, buzon, copias, tardios, reinicios>>

(* The server restarts with empty tables.  Bound: only while the node has   *)
(* more measurements left than the mishaps that can keep it from noticing.  *)
Reiniciar ==
    /\ reinicios < MaxReinicios /\ seq + Contratiempos + 1 < MaxSeq
    /\ reinicios' = reinicios + 1
    /\ conocido' = FALSE
    /\ UNCHANGED <<nodo, rechazos, red>>

Next ==
    \/ Ciclo \/ Registrar \/ Enviar \/ Recibir \/ SinRespuesta \/ Detener
    \/ LlegaAlServidor \/ LlegaAlNodo \/ SePierde \/ Reiniciar

Spec == Init /\ [][Next]_vars

(* The node's loop runs, and what is on its way and is not lost arrives. *)
FairSpec ==
    /\ Spec
    /\ WF_vars(Ciclo) /\ WF_vars(Registrar) /\ WF_vars(Enviar)
    /\ WF_vars(Recibir) /\ WF_vars(SinRespuesta)
    /\ WF_vars(LlegaAlServidor) /\ WF_vars(LlegaAlNodo)

-----------------------------------------------------------------------------
Respuestas == [tipo : {"ACK", "406"}, seq : 1..MaxSeq]

(* Besides the types: every number went to a datagram or to a failed send,  *)
(* every datagram sent was given at most one answer, and only a registered  *)
(* node waits for one.                                                      *)
TypeOK ==
    /\ fase \in {"ciclo", "registro", "envio", "espera", "fin"}
    /\ registrado \in BOOLEAN /\ conocido \in BOOLEAN /\ seq \in 0..MaxSeq
    /\ seq = cuentas.enviados + cuentas.errores_envio
    /\ cuentas.confirmados + cuentas.sin_confirmar
         <= cuentas.enviados - (IF fase = "espera" THEN 1 ELSE 0)
    /\ fase \in {"envio", "espera"} => registrado
    /\ ida \subseteq 1..seq /\ vuelta \subseteq Respuestas
    /\ \A i \in DOMAIN buzon : buzon[i] \in Respuestas

(* Only a 406 makes the node register again, and each one once at most: an   *)
(* ACK that does not come, a failed send or an answer to an older datagram  *)
(* never resets the server's counters.  (enviar_medicion: registrado is     *)
(* cleared for ERR_NOT_REGISTERED alone.)                                   *)
SinRechazoNoHayRegistro == TypeOK /\ cuentas.registros <= 1 + rechazos

(* A server that lost its tables has the node back in them after finitely   *)
(* many measurements, whatever is lost, late or duplicated meanwhile        *)
(* (PROTOCOLO.md section 5.1: the nodes recover by themselves if the server *)
(* restarts), unless the node is stopped.                                   *)
NodoSeRecupera == ~conocido ~> (conocido \/ fase = "fin")

=============================================================================
