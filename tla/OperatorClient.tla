--------------------------- MODULE OperatorClient ---------------------------
(***************************************************************************)
(* clients/operator_cli.py, class SesionOperador, over clients/tsp.py       *)
(* (leer_respuesta, TspConexion): the main thread sends commands and waits  *)
(* for their answers on a queue; a reader thread takes every line from the  *)
(* socket, shows the ALERTs and queues the rest.                            *)
(*                                                                          *)
(* The server is the environment: it serves the requests of a connection in *)
(* order and sends every answer whole (OperatorSessions!RespuestaEntera),   *)
(* with ALERTs between them.  A line is a record: its type, the request it  *)
(* answers and, in the header of a multiple answer, how many rows follow.   *)
(***************************************************************************)
EXTENDS Integers, Sequences

CONSTANTS
    Simples,       \* commands answered with one line (SUBSCRIBE among them)
    Multiples,     \* RESPUESTAS_MULTIPLES: commands answered with rows and END
    MaxPedidos,    \* bound: requests of a session
    MaxAvisos,     \* bound: ALERTs the server pushes
    MaxFilas,      \* bound: rows of an answer
    MaxTardanzas   \* bound: answers that take longer than 15 seconds

ASSUME ClientAssumption ==
    /\ MaxPedidos \in Nat \ {0} /\ MaxAvisos \in Nat /\ MaxFilas \in Nat /\ MaxTardanzas \in Nat
    /\ Simples \cap Multiples = {} /\ {"HELLO", "SUBSCRIBE"} \subseteq Simples

VARIABLES
    principal,   \* the main thread: "inicio", "prompt", "cabecera", "filas", "cerrando", ...
    lector,      \* the reader thread: "leyendo" (in leer_linea), "vuelta", "fin"
    activo,      \* self.activo
    cola,        \* self.cola
    leidas,      \* the answer leer_respuesta is putting together
    pedidos,     \* how many requests were sent
    pendientes,  \* requests the server has not answered
    red,         \* lines on their way to the client
    cerrado,     \* the server has closed the connection
    suscrita,    \* the server pushes ALERTs on this connection
    empujados,   \* how many it pushed
    mostrados,   \* history: the ALERTs shown, in order
    tardanzas,   \* how many waits ended in queue.Empty
    entregada    \* history: the last answer given to a command

cliente == <<principal, lector, activo, cola, leidas, pedidos>>
servidor == <<pendientes, red, cerrado, suscrita, empujados>>
clienteVars == <<principal, lector, activo, cola, leidas, pedidos, pendientes, red, cerrado,
          suscrita, empujados, mostrados, tardanzas, entregada>>

Linea(tipo, de, n) == [tipo |-> tipo, de |-> de, n |-> n]
Perdida == Linea("None", 0, 0)
NadaEntregado == [pedido |-> 0, lineas |-> <<>>]

(* SesionOperador.abrir: connected and with its reader running. *)
ClienteInit ==
    /\ principal = "inicio" /\ lector = "leyendo" /\ activo = TRUE
    /\ cola = <<>> /\ leidas = <<>> /\ pedidos = 0
    /\ pendientes = <<>> /\ red = <<>> /\ cerrado = FALSE
    /\ suscrita = FALSE /\ empujados = 0
    /\ mostrados = <<>> /\ tardanzas = 0 /\ entregada = NadaEntregado

-----------------------------------------------------------------------------
(* The server.                                                              *)

(* A header, the rows it announces and the sentinel. *)
Multiple(k, n) ==
    [i \in 1..n + 2 |-> CASE i = 1 -> Linea("OK*", k, n)
                        [] i = n + 2 -> Linea("END", k, 0)
                        [] OTHER -> Linea("FILA", k, 0)]

(* The lines it may answer request p with. *)
Respuestas(p) ==
    {<<Linea("ERR", p.k, 0)>>} \cup
    IF p.comando \in Multiples
    THEN {Multiple(p.k, n) : n \in 0..MaxFilas}
    ELSE {<<Linea("OK", p.k, 0)>>}

Responde ==
    /\ pendientes # <<>> /\ ~cerrado
    /\ \E r \in Respuestas(Head(pendientes)) : red' = red \o r
    /\ suscrita' = (suscrita \/ Head(pendientes).comando = "SUBSCRIBE")
    /\ cerrado' = (Head(pendientes).comando = "BYE")
    /\ pendientes' = Tail(pendientes)
    /\ UNCHANGED <<cliente, empujados, mostrados, tardanzas, entregada>>

(* An ALERT for a subscriber, one whose SUBSCRIBE is being served included. *)
Empuja ==
    /\ ~cerrado /\ empujados < MaxAvisos
    /\ suscrita \/ (pendientes # <<>> /\ Head(pendientes).comando = "SUBSCRIBE")
    /\ empujados' = empujados + 1
    /\ red' = Append(red, Linea("ALERT", empujados', 0))
    /\ UNCHANGED <<cliente, pendientes, cerrado, suscrita, mostrados, tardanzas, entregada>>

(* The server or the network fails; what was on its way may be lost. *)
Corta ==
    /\ ~cerrado
    /\ cerrado' = TRUE
    /\ red' \in {red, <<>>}
    /\ UNCHANGED <<cliente, pendientes, suscrita, empujados, mostrados, tardanzas, entregada>>

-----------------------------------------------------------------------------
(* The reader thread.                                                       *)

EsAviso(l) == l.tipo = "ALERT"

(* Mutant: ALERTs go through the queue, where leer_respuesta drops them.    *)
EsAsincronaNinguna(l) == FALSE

(* Only an ALERT is asynchronous. *)
EsAsincrona(l) == EsAviso(l)

(* _bucle_lector, a line. *)
LectorLee ==
    /\ lector = "leyendo" /\ red # <<>>
    /\ IF EsAsincrona(Head(red))
       THEN mostrados' = Append(mostrados, Head(red).de) /\ UNCHANGED cola
       ELSE cola' = Append(cola, Head(red)) /\ UNCHANGED mostrados
    /\ red' = Tail(red)
    /\ lector' = "vuelta"
    /\ UNCHANGED <<principal, activo, leidas, pedidos, pendientes, cerrado, suscrita,
                   empujados, tardanzas, entregada>>

(* while self.activo *)
LectorVuelta ==
    /\ lector = "vuelta"
    /\ lector' = IF activo THEN "leyendo" ELSE "fin"
    /\ UNCHANGED <<principal, activo, cola, leidas, pedidos, servidor, mostrados, tardanzas,
                   entregada>>

(* Mutants: the reader goes on after the error; it dies without a word.     *)
TrasErrorSigue == [lector |-> "vuelta", cola |-> <<Perdida>>]
TrasErrorMudo == [lector |-> "fin", cola |-> <<>>]

(* What a lost connection does to the reader, and what it queues. *)
TrasError == [lector |-> "fin", cola |-> <<Perdida>>]

(* recv() finds the connection closed, by the server or by cerrar(), or times *)
(* out after cerrar() began; while active a time out only tries again.      *)
LectorFalla ==
    /\ lector = "leyendo"
    /\ (red = <<>> /\ (cerrado \/ ~activo)) \/ principal = "fin"
    /\ lector' = TrasError.lector
    /\ cola' = IF activo THEN cola \o TrasError.cola ELSE cola
    /\ UNCHANGED <<principal, activo, leidas, pedidos, servidor, mostrados, tardanzas,
                   entregada>>

-----------------------------------------------------------------------------
(* The main thread.                                                         *)

Esperando == principal \in {"cabecera", "filas"}
Abriendo == pedidos = 1

(* A ConnectionError ends the session; in abrir, without cerrar. *)
TrasPerder(k) == IF k = 1 THEN "fin" ELSE "cerrando"

(* SesionOperador.comando, up to the wait.  When the server is gone the send *)
(* may fail or not.                                                         *)
Comando(c) ==
    /\ pedidos' = pedidos + 1
    /\ \/ /\ principal' = "cabecera" /\ leidas' = <<>>
          /\ pendientes' = Append(pendientes, [k |-> pedidos', comando |-> c])
       \/ /\ cerrado
          /\ principal' = TrasPerder(pedidos')
          /\ UNCHANGED <<leidas, pendientes>>
    /\ UNCHANGED <<lector, activo, cola, red, cerrado, suscrita, empujados, mostrados,
                   tardanzas, entregada>>

Abrir == principal = "inicio" /\ Comando("HELLO")

Pedir(c) == principal = "prompt" /\ pedidos < MaxPedidos /\ Comando(c)

Salir ==
    /\ principal = "prompt"
    /\ principal' = "cerrando"
    /\ UNCHANGED <<lector, activo, cola, leidas, pedidos, servidor, mostrados, tardanzas,
                   entregada>>

(* Mutant: any line but a row ends the rows.                                *)
EsFinPrimera(l) == l.tipo = "FILA"

(* The sentinel of a multiple answer. *)
EsFin(l) == l.tipo = "END"

(* leer_respuesta, a line of the queue: the header or a row. *)
Entregar(lineas) ==
    /\ principal' = "prompt"
    /\ entregada' = [pedido |-> pedidos, lineas |-> lineas]

TomaLinea ==
    /\ Esperando /\ cola # <<>>
    /\ LET l == Head(cola) IN
       \/ l.tipo = "None" /\ principal' = TrasPerder(pedidos) /\ UNCHANGED entregada
       \/ /\ l.tipo = "ERR"
          /\ IF Abriendo THEN principal' = "cerrando" /\ UNCHANGED entregada
             ELSE Entregar(<<l>>)
       \/ /\ principal = "cabecera" /\ l.tipo = "OK*"
          /\ principal' = "filas" /\ UNCHANGED entregada
       \/ /\ principal = "cabecera" /\ l.tipo \notin {"None", "ERR", "OK*", "ALERT"}
          /\ Entregar(<<l>>)
       \/ principal = "filas" /\ EsFin(l) /\ Entregar(leidas)
       \/ /\ principal = "filas" /\ ~EsFin(l) /\ l.tipo \notin {"None", "ERR"}
          /\ UNCHANGED <<principal, entregada>>
       \/ l.tipo = "ALERT" /\ UNCHANGED <<principal, entregada>>
    /\ leidas' = IF Head(cola).tipo = "ALERT" THEN leidas ELSE Append(leidas, Head(cola))
    /\ cola' = Tail(cola)
    /\ UNCHANGED <<lector, activo, pedidos, servidor, mostrados, tardanzas>>

(* queue.Empty after 15 seconds: the command is given up.  The opening HELLO *)
(* does not catch it, and the process ends.                                 *)
Tardanza ==
    /\ Esperando /\ cola = <<>> /\ tardanzas < MaxTardanzas
    /\ tardanzas' = tardanzas + 1
    /\ principal' = IF Abriendo THEN "fin" ELSE "prompt"
    /\ UNCHANGED <<lector, activo, cola, leidas, pedidos, servidor, mostrados, entregada>>

(* cerrar: BYE, and leer_linea from this thread; the reader may be there.   *)
Despedirse ==
    /\ principal = "cerrando"
    /\ activo' = FALSE
    /\ \/ /\ principal' = "bye"
          /\ pendientes' = Append(pendientes, [k |-> pedidos + 1, comando |-> "BYE"])
       \/ cerrado /\ principal' = "fin" /\ UNCHANGED pendientes
    /\ UNCHANGED <<lector, cola, leidas, pedidos, red, cerrado, suscrita, empujados,
                   mostrados, tardanzas, entregada>>

(* It gets a line, sees the connection closed or gives up after 10 seconds. *)
Cerrar ==
    /\ principal = "bye"
    /\ principal' = "fin"
    /\ red' \in {red} \cup (IF red = <<>> THEN {} ELSE {Tail(red)})
    /\ UNCHANGED <<lector, activo, cola, leidas, pedidos, pendientes, cerrado, suscrita,
                   empujados, mostrados, tardanzas, entregada>>

ClienteNext ==
    \/ Responde \/ Empuja \/ Corta
    \/ LectorLee \/ LectorVuelta \/ LectorFalla
    \/ Abrir \/ Salir \/ \E c \in Simples \cup Multiples : Pedir(c)
    \/ TomaLinea \/ Tardanza \/ Despedirse \/ Cerrar

ClienteSpec == ClienteInit /\ [][ClienteNext]_clienteVars

(* The server answers, and both threads of the client run.  The user may    *)
(* never type another command.                                              *)
ClienteFairSpec ==
    /\ ClienteSpec
    /\ WF_clienteVars(Responde)
    /\ WF_clienteVars(LectorLee) /\ WF_clienteVars(LectorVuelta) /\ WF_clienteVars(LectorFalla)
    /\ WF_clienteVars(TomaLinea)

-----------------------------------------------------------------------------
Tipos == {"OK", "OK*", "FILA", "END", "ERR", "ALERT", "None"}
EsLinea(l) == l.tipo \in Tipos /\ l.de \in Nat /\ l.n \in 0..MaxFilas
EsPeticion(p) == p.k \in 1..MaxPedidos + 1 /\ p.comando \in Simples \cup Multiples \cup {"BYE"}

(* Besides the types: the mark of the lost connection is queued once, last. *)
ClienteTypeOK ==
    /\ principal \in {"inicio", "prompt", "cabecera", "filas", "cerrando", "bye", "fin"}
    /\ lector \in {"leyendo", "vuelta", "fin"}
    /\ activo \in BOOLEAN /\ cerrado \in BOOLEAN /\ suscrita \in BOOLEAN
    /\ \A s \in {cola, leidas, red} : \A i \in DOMAIN s : EsLinea(s[i])
    /\ \A i \in DOMAIN cola : cola[i] = Perdida => i = Len(cola) /\ lector = "fin"
    /\ \A i \in DOMAIN pendientes : EsPeticion(pendientes[i])
    /\ pedidos \in 0..MaxPedidos /\ tardanzas \in 0..MaxTardanzas
    /\ empujados \in 0..MaxAvisos /\ Len(mostrados) <= empujados

(* While no wait has been given up, what a command is given is the answer to *)
(* that command, whole: its header and as many rows as it announces         *)
(* (PROTOCOLO.md section 2: "una respuesta asociada a cada peticion").  The *)
(* queue has no trace of the request, so it is the order of every line from *)
(* the server to the main thread that this rests on.  After a wait that was *)
(* given up it no longer holds.                                             *)
RespuestaCorresponde ==
    /\ ClienteTypeOK
    /\ tardanzas = 0 /\ entregada # NadaEntregado =>
        LET ls == entregada.lineas IN
        /\ ls[1].tipo \in {"OK", "OK*", "ERR"}
        /\ \A i \in DOMAIN ls : ls[i].de = entregada.pedido
        /\ Len(ls) = ls[1].n + 1

(* The ALERTs on their way. *)
AvisosEnRed == {i \in DOMAIN red : EsAviso(red[i])}

(* While the connection is open every ALERT is shown, in the order the      *)
(* server pushed them, or still on its way, after those and in that order;  *)
(* none ends in an answer, whatever the main thread is waiting for.         *)
NingunAvisoSePierde ==
    ~cerrado /\ principal \notin {"bye", "fin"} =>
        /\ \A i \in DOMAIN mostrados : mostrados[i] = i
        /\ {red[i].de : i \in AvisosEnRed} = Len(mostrados) + 1..empujados
        /\ \A i, j \in AvisosEnRed : i < j => red[i].de < red[j].de

(* A command that waits gets its answer, an error or the loss of the        *)
(* connection, without the 15 second limit: the reader hands over every     *)
(* line, the sentinel ends every multiple answer and a dead reader leaves   *)
(* word in the queue.                                                       *)
ComandoAcaba == Esperando ~> ~Esperando

=============================================================================
