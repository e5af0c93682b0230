----------------------------- MODULE OperatorGui -----------------------------
(***************************************************************************)
(* clients/operator_gui.py, class TrabajadorTelemetria, over clients/tsp.py: *)
(* the one thread that talks to the server for the window.  It connects,    *)
(* serves what the user asked for, runs a round of queries, and after any   *)
(* failure closes, waits and connects again.                                *)
(*                                                                          *)
(* The window empties the worker's queue of events in order: it is modelled *)
(* by what it shows once it is empty.  A request and its answer are one line *)
(* each (an answer leaves the server whole); the pauses are not timed.  A   *)
(* send() that fails is one whose answer never comes: both end in the same  *)
(* handler.  The server is the environment.                                 *)
(***************************************************************************)
EXTENDS Naturals, Sequences, FiniteSets

CONSTANTS
    Clases,         \* kinds of petitions the user types: "buena", "mala" (codificar raises ValueError)
    FilasAlertas,   \* the 25 of GET_ALERTS: alerts each round asks for
    MaxPeticiones,  \* bound: petitions
    MaxAlertas,     \* bound: alerts of the server
    MaxFallos       \* bound: cuts, refused connections, time outs and ERR that end a session

ASSUME GuiAssumption ==
    /\ Clases \subseteq {"buena", "mala"}
    /\ FilasAlertas \in Nat \ {0}
    /\ MaxPeticiones \in Nat /\ MaxAlertas \in Nat /\ MaxFallos \in Nat

VARIABLES
    hilo,        \* the worker: the command it waits for, or the place of _bucle it is at
    activo,      \* self.activo
    seleccion,   \* self.nodo_seleccionado is set
    conexion,    \* number of self._conexion, 0 for None
    abiertas,    \* the connections whose socket is open
    peticiones,  \* self.peticiones: [k, clase]
    pedidas,     \* how many petitions the user made
    enCurso,     \* the petition in the hands of _atender_peticiones, 0 for none
    estado,      \* the window's label: "conectando", "conectado", "sin conexion"
    avisadas,    \* petitions whose result the window showed
    vivas,       \* alerts shown when they arrived
    tabla,       \* alerts in the window's table, as the last round repainted it
    pendientes,  \* requests of the connection the server has not answered
    red,         \* lines on their way to the worker
    cortada,     \* the connection is broken
    suscrita,    \* the server pushes ALERTs on the connection
    generadas,   \* alerts the server has stored
    difundidas,  \* alerts it has pushed
    fallos,      \* failures so far
    cruzada      \* history: an answer was taken for a request it does not answer

ventana == <<seleccion, pedidas>>
pantalla == <<estado, avisadas, vivas, tabla>>
canal == <<pendientes, red, cortada, suscrita>>
alertas == <<generadas, difundidas>>
vars == <<hilo, activo, seleccion, conexion, abiertas, peticiones, pedidas, enCurso, estado,
          avisadas, vivas, tabla, pendientes, red, cortada, suscrita, generadas, difundidas,
          fallos, cruzada>>

Apertura == {"HELLO", "SUBSCRIBE"}
Ronda == {"LIST_NODES", "GET_SYSTEM", "GET_ALERTS", "GET_STATUS"}
Comandos == Apertura \cup Ronda \cup {"SET_THRESHOLD"}

Peticion(c, k) == [comando |-> c, k |-> k]
Linea(tipo, p, a) == [tipo |-> tipo, de |-> p, alertas |-> a]
Ninguna == Peticion("", 0)

Init ==
    /\ hilo = "conectar" /\ activo = TRUE /\ seleccion = FALSE
    /\ conexion = 0 /\ abiertas = {}
    /\ peticiones = <<>> /\ pedidas = 0 /\ enCurso = 0
    /\ estado = "conectando" /\ avisadas = {} /\ vivas = {} /\ tabla = {}
    /\ pendientes = <<>> /\ red = <<>> /\ cortada = FALSE /\ suscrita = FALSE
    /\ generadas = 0 /\ difundidas = 0 /\ fallos = 0
    /\ cruzada = FALSE

-----------------------------------------------------------------------------
(* The window.                                                              *)

(* aplicar_umbral *)
PedirUmbral ==
    /\ activo /\ pedidas < MaxPeticiones
    /\ pedidas' = pedidas + 1
    /\ \E c \in Clases : peticiones' = Append(peticiones, [k |-> pedidas', clase |-> c])
    /\ UNCHANGED <<hilo, activo, seleccion, conexion, abiertas, enCurso, pantalla, canal,
                   alertas, fallos, cruzada>>

(* al_seleccionar *)
Seleccionar ==
    /\ activo /\ ~seleccion
    /\ seleccion' = TRUE
    /\ UNCHANGED <<hilo, activo, conexion, abiertas, peticiones, pedidas, enCurso, pantalla,
                   canal, alertas, fallos, cruzada>>

(* al_cerrar; nobody waits for the worker, a daemon thread. *)
Detener ==
    /\ activo
    /\ activo' = FALSE
    /\ UNCHANGED <<hilo, ventana, conexion, abiertas, peticiones, enCurso, pantalla, canal,
                   alertas, fallos, cruzada>>

-----------------------------------------------------------------------------
(* The server and the network.                                              *)

EntornoIgual == UNCHANGED <<hilo, activo, ventana, conexion, abiertas, peticiones, enCurso,
                            pantalla, cruzada>>

(* An alert enters the history, and is pushed later (NodeRegistry). *)
Genera ==
    /\ generadas < MaxAlertas
    /\ generadas' = generadas + 1
    /\ EntornoIgual /\ UNCHANGED <<canal, difundidas, fallos>>

Difunde ==
    /\ difundidas < generadas
    /\ difundidas' = difundidas + 1
    /\ red' = IF suscrita THEN Append(red, Linea("ALERT", Ninguna, {difundidas'})) ELSE red
    /\ EntornoIgual /\ UNCHANGED <<pendientes, cortada, suscrita, generadas, fallos>>

(* cmd_subscribe: the slot is subscribed before the answer is sent. *)
Suscribe ==
    /\ pendientes # <<>> /\ Head(pendientes).comando = "SUBSCRIBE" /\ ~suscrita
    /\ suscrita' = TRUE
    /\ EntornoIgual /\ UNCHANGED <<pendientes, red, cortada, alertas, fallos>>

(* registry_build_alerts: of the alerts stored, the newest that were asked    *)
(* for; the server's own history keeps more than FilasAlertas.              *)
Recientes == {k \in 1..generadas : k > generadas - FilasAlertas}
Contenido(p) == IF p.comando = "GET_ALERTS" THEN Recientes ELSE {}

(* An ERR to these is an event like any other, not the end of the session. *)
Rechazable(c) == c \in {"SET_THRESHOLD", "GET_STATUS"}

Responde ==
    /\ pendientes # <<>>
    /\ LET p == Head(pendientes) IN
       \/ /\ p.comando = "SUBSCRIBE" => suscrita
          /\ red' = Append(red, Linea("OK", p, Contenido(p)))
          /\ UNCHANGED fallos
       \/ /\ p.comando = "SUBSCRIBE" => ~suscrita
          /\ Rechazable(p.comando) \/ fallos < MaxFallos
          /\ fallos' = IF Rechazable(p.comando) THEN fallos ELSE fallos + 1
          /\ red' = Append(red, Linea("ERR", p, {}))
    /\ pendientes' = Tail(pendientes)
    /\ EntornoIgual /\ UNCHANGED <<cortada, suscrita, alertas>>

(* The connection breaks; what was on its way may be lost. *)
Corta ==
    /\ conexion # 0 /\ ~cortada /\ fallos < MaxFallos
    /\ cortada' = TRUE /\ fallos' = fallos + 1
    /\ red' \in {red, <<>>}
    /\ pendientes' = <<>> /\ suscrita' = FALSE
    /\ EntornoIgual /\ UNCHANGED alertas

-----------------------------------------------------------------------------
(* The worker.                                                              *)

Esperando == hilo \in Comandos
Pedida == Peticion(hilo, enCurso)

(* comando(): sends, and goes on to wait in leer_respuesta. *)
Pedir(c, k) ==
    /\ hilo' = c /\ enCurso' = k
    /\ pendientes' = IF cortada THEN pendientes ELSE Append(pendientes, Peticion(c, k))

(* Mutant: the session is not closed before the next one.                   *)
TrasCerrarNada(s) == s

(* _cerrar, without BYE. *)
TrasCerrar(s) == s \ {conexion}

(* Out of _bucle: self.activo is false. *)
Terminar ==
    /\ hilo' = "fin"
    /\ conexion' = 0 /\ abiertas' = TrasCerrar(abiertas)
    /\ pendientes' = <<>> /\ red' = <<>> /\ cortada' = FALSE /\ suscrita' = FALSE
    /\ UNCHANGED estado

(* The handler of _bucle. *)
Desconectar ==
    IF ~activo THEN Terminar
    ELSE /\ hilo' = "espera"
         /\ estado' = "sin conexion"
         /\ conexion' = 0 /\ abiertas' = TrasCerrar(abiertas)
         /\ pendientes' = <<>> /\ red' = <<>> /\ cortada' = FALSE /\ suscrita' = FALSE

(* _conectar, up to the answer to HELLO. *)
Conectar ==
    /\ hilo = "conectar"
    /\ conexion' = fallos + 1 /\ abiertas' = abiertas \cup {conexion'}
    /\ Pedir("HELLO", 0)
    /\ red' = <<>>
    /\ UNCHANGED <<activo, ventana, peticiones, pantalla, cortada, suscrita, alertas, fallos,
                   cruzada>>

NoConecta ==
    /\ hilo = "conectar" /\ fallos < MaxFallos
    /\ fallos' = fallos + 1
    /\ Desconectar
    /\ UNCHANGED <<activo, ventana, peticiones, enCurso, avisadas, vivas, tabla, alertas,
                   cruzada>>

(* leer_respuesta, an ALERT: the calls of _conectar pass no callback. *)
LeeAlerta ==
    /\ Esperando /\ red # <<>> /\ Head(red).tipo = "ALERT"
    /\ vivas' = IF hilo \in Apertura THEN vivas ELSE vivas \cup Head(red).alertas
    /\ red' = Tail(red)
    /\ UNCHANGED <<hilo, activo, ventana, conexion, abiertas, peticiones, enCurso, estado,
                   avisadas, tabla, pendientes, cortada, suscrita, alertas, fallos, cruzada>>

(* Mutants: nobody is subscribed; the round starts over without the alerts. *)
SiguienteSinSuscribir == [HELLO |-> "ciclo", SUBSCRIBE |-> "ciclo",
    SET_THRESHOLD |-> "peticiones", LIST_NODES |-> "GET_SYSTEM", GET_SYSTEM |-> "GET_ALERTS",
    GET_ALERTS |-> IF seleccion THEN "GET_STATUS" ELSE "ciclo", GET_STATUS |-> "ciclo"]
SiguienteSinAlertas == [HELLO |-> "SUBSCRIBE", SUBSCRIBE |-> "ciclo",
    SET_THRESHOLD |-> "peticiones", LIST_NODES |-> "GET_SYSTEM",
    GET_SYSTEM |-> IF seleccion THEN "GET_STATUS" ELSE "ciclo", GET_ALERTS |-> "ciclo",
    GET_STATUS |-> "ciclo"]

(* What follows the answer to each command. *)
Siguiente == [HELLO |-> "SUBSCRIBE", SUBSCRIBE |-> "ciclo",
    SET_THRESHOLD |-> "peticiones", LIST_NODES |-> "GET_SYSTEM", GET_SYSTEM |-> "GET_ALERTS",
    GET_ALERTS |-> IF seleccion THEN "GET_STATUS" ELSE "ciclo", GET_STATUS |-> "ciclo"]

(* leer_respuesta, the answer, and the event it gives the window: that of    *)
(* GET_ALERTS repaints the table with the rows of the answer and no others. *)
LeeRespuesta ==
    /\ Esperando /\ red # <<>>
    /\ LET l == Head(red)
           c == Siguiente[hilo] IN
       /\ l.tipo = "OK" \/ (l.tipo = "ERR" /\ Rechazable(hilo))
       /\ IF c \in Comandos
          THEN Pedir(c, 0)
          ELSE hilo' = c /\ enCurso' = 0 /\ UNCHANGED pendientes
       /\ red' = Tail(red)
       /\ estado' = IF hilo \in Apertura /\ c = "ciclo" THEN "conectado" ELSE estado
       /\ avisadas' = IF hilo = "SET_THRESHOLD" THEN avisadas \cup {enCurso} ELSE avisadas
       /\ tabla' = IF hilo = "GET_ALERTS" THEN l.alertas ELSE tabla
       /\ cruzada' = (cruzada \/ l.de # Pedida)
    /\ UNCHANGED <<activo, ventana, conexion, abiertas, peticiones, vivas, cortada, suscrita,
                   alertas, fallos>>

(* leer_respuesta raises: ERR, or the connection is broken. *)
LeeFallo ==
    /\ Esperando
    /\ \/ red # <<>> /\ Head(red).tipo = "ERR" /\ ~Rechazable(hilo)
       \/ red = <<>> /\ cortada
    /\ Desconectar /\ enCurso' = 0
    /\ UNCHANGED <<activo, ventana, peticiones, avisadas, vivas, tabla, alertas, fallos,
                   cruzada>>

(* Mutant: a time out is no reason to leave the connection.                 *)
TardarSigue == hilo' = "ciclo" /\ UNCHANGED <<estado, conexion, abiertas, canal>>

(* socket.timeout is an OSError. *)
Tardar == Desconectar

(* No line in 8 seconds. *)
LeeTarda ==
    /\ Esperando /\ red = <<>> /\ ~cortada /\ fallos < MaxFallos
    /\ fallos' = fallos + 1
    /\ Tardar /\ enCurso' = 0
    /\ UNCHANGED <<activo, ventana, peticiones, avisadas, vivas, tabla, alertas, cruzada>>

(* The inner while of _bucle, after the pause between rounds. *)
Ciclo ==
    /\ hilo = "ciclo"
    /\ \/ activo /\ hilo' = "peticiones" /\ UNCHANGED <<estado, conexion, abiertas, canal>>
       \/ ~activo /\ Terminar
    /\ UNCHANGED <<activo, ventana, peticiones, enCurso, avisadas, vivas, tabla, alertas, fallos,
                   cruzada>>

(* Mutant: the worker ends with the connection.                             *)
TrasEsperaSale == "fin"

(* The outer while goes round. *)
TrasEspera == "conectar"

Reintentar ==
    /\ hilo = "espera"
    /\ \/ activo /\ hilo' = TrasEspera /\ UNCHANGED <<estado, conexion, abiertas, canal>>
       \/ ~activo /\ Terminar
    /\ UNCHANGED <<activo, ventana, peticiones, enCurso, avisadas, vivas, tabla, alertas, fallos,
                   cruzada>>

(* Mutant: the queue is emptied from the wrong end.                         *)
QuedanPrimeras(s) == SubSeq(s, 1, Len(s) - 1)

(* get_nowait takes the oldest petition. *)
Quedan(s) == Tail(s)

(* codificar accepts the fields: no separator, no line feed, not too long.  *)
Codificable(p) == p.clase # "mala"

(* _atender_peticiones: codificar raises a ValueError that nobody catches;  *)
(* the petition is sent; or there is none, and the round of queries begins. *)
AtenderPeticiones ==
    /\ hilo = "peticiones"
    /\ IF peticiones = <<>> THEN Pedir("LIST_NODES", 0) /\ UNCHANGED peticiones
       ELSE /\ peticiones' = Quedan(peticiones)
            /\ IF Codificable(Head(peticiones))
               THEN Pedir("SET_THRESHOLD", Head(peticiones).k)
               ELSE hilo' = "muerto" /\ UNCHANGED <<enCurso, pendientes>>
    /\ UNCHANGED <<activo, ventana, conexion, abiertas, pantalla, red, cortada, suscrita, alertas,
                   fallos, cruzada>>

Trabajador ==
    \/ Conectar \/ NoConecta \/ LeeAlerta \/ LeeRespuesta \/ LeeFallo \/ LeeTarda
    \/ Ciclo \/ Reintentar \/ AtenderPeticiones

Next ==
    \/ PedirUmbral \/ Seleccionar \/ Detener
    \/ Genera \/ Difunde \/ Suscribe \/ Responde \/ Corta
    \/ Trabajador

Spec == Init /\ [][Next]_vars

(* The server's threads and the worker run.  Failures happen at most        *)
(* MaxFallos times: then the network is good for long enough.               *)
FairSpec ==
    /\ Spec
    /\ WF_vars(Difunde) /\ WF_vars(Suscribe) /\ WF_vars(Responde)
    /\ WF_vars(Trabajador)

-----------------------------------------------------------------------------
EsPeticion(p) == p.comando \in Comandos \cup {""} /\ p.k \in 0..MaxPeticiones

(* Besides the types: the petitions not served yet are numbered in order.   *)
TypeOK ==
    /\ hilo \in Comandos \cup {"conectar", "ciclo", "peticiones", "espera", "fin", "muerto"}
    /\ activo \in BOOLEAN /\ seleccion \in BOOLEAN
    /\ conexion \in 0..MaxFallos + 1 /\ abiertas \subseteq 1..MaxFallos + 1
    /\ pedidas \in 0..MaxPeticiones /\ enCurso \in 0..pedidas
    /\ \A i \in DOMAIN peticiones :
          peticiones[i] \in [k : {pedidas - Len(peticiones) + i}, clase : Clases]
    /\ estado \in {"conectando", "conectado", "sin conexion"}
    /\ avisadas \subseteq 1..pedidas
    /\ vivas \subseteq 1..difundidas
    /\ tabla \subseteq 1..generadas /\ difundidas \in 0..generadas /\ generadas \in 0..MaxAlertas
    /\ \A i \in DOMAIN pendientes : EsPeticion(pendientes[i])
    /\ \A i \in DOMAIN red : red[i].tipo \in {"OK", "ERR", "ALERT"} /\ EsPeticion(red[i].de)
                           /\ red[i].alertas \subseteq 1..generadas
    /\ cortada \in BOOLEAN /\ suscrita \in BOOLEAN /\ cruzada \in BOOLEAN /\ fallos \in 0..MaxFallos

(* Every answer is taken for the request it answers, time outs included: the *)
(* worker leaves the connection whose answer it gave up, unlike the command *)
(* line client.                                                             *)
RespuestaCorresponde == ~cruzada

(* No connection is left open behind the one in use, through any number of  *)
(* failures: each would hold a slot of the server's operator table.         *)
SinConexionesOlvidadas == abiertas \subseteq {conexion}

(* While the label says connected, the worker has a connection on which the *)
(* server pushes alerts, or one whose loss it has still to notice.          *)
VentanaAlDia ==
    estado = "conectado" /\ activo /\ hilo # "muerto" =>
        conexion \in abiertas /\ (suscrita \/ cortada)

(* A lost connection is replaced, whatever failed and however often.        *)
Reconecta == estado = "sin conexion" ~> (estado = "conectado" \/ ~activo)

(* Every alert of the server is shown, live or in the table, unless          *)
(* FilasAlertas newer ones overtake it before a round of queries asks: those *)
(* pushed while there was no connection, or before the answer to SUBSCRIBE  *)
(* (which leer_respuesta drops), included.  A round asks for the newest 25, *)
(* so what an interruption lets pile up beyond them is never shown.  A      *)
(* petition codificar refuses kills the worker, and with it this promise.   *)
Superada(k) == generadas >= k + FilasAlertas

AlertaEnPantalla ==
    \A k \in 1..MaxAlertas :
        k <= generadas ~> (k \in vivas \cup tabla \/ Superada(k) \/ ~activo \/ hilo = "muerto")

(* A petition leaves the queue before it is sent and is never put back, so a *)
(* failure loses the one in service: that one and no more.  Every other one *)
(* is waiting, being served or shown as answered.                           *)
UnaPeticionPorFallo ==
    /\ TypeOK
    /\ Cardinality({k \in 1..pedidas :
                    /\ k \notin avisadas \cup {enCurso}
                    /\ \A i \in DOMAIN peticiones : peticiones[i].k # k})
        <= fallos + (IF hilo = "muerto" THEN 1 ELSE 0)
=============================================================================
