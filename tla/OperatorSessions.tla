-------------------------- MODULE OperatorSessions --------------------------
(***************************************************************************)
(* The TCP side of the server: main()'s accept loop, one                    *)
(* handle_tcp_client thread per connection (server_concurrent.c), the       *)
(* handlers that change a session (handlers.c) and the g_operators table    *)
(* g_op_mutex protects (registry.c), through which every answer and every   *)
(* pushed alert is written.                                                 *)
(*                                                                          *)
(* A critical section of g_op_mutex is one action when it only touches the  *)
(* table.  The two that write to sockets, registry_operator_send and one    *)
(* turn of difundir_alertas, hold the mutex over several send() calls, any  *)
(* of which may block on a client that does not read: one action per call.  *)
(***************************************************************************)
EXTENDS Naturals, Sequences, FiniteSets

CONSTANTS
    Conns,        \* client connections; one that was closed may connect again
    Difusores,    \* the other threads that push alerts: UDP and monitor
    MaxOperators, \* MAX_OPERATORS
    Fds,          \* descriptors accept() may return
    Nadie,        \* no thread, no descriptor
    Trozos,       \* send() calls one answer takes
    Capacidad     \* what a client's socket buffer holds, in send() calls

ASSUME SessionsAssumption ==
    /\ MaxOperators \in Nat \ {0}
    /\ Fds \subseteq Nat
    /\ Trozos \in Nat \ {0} /\ Capacidad \in Nat \ {0}
    /\ Nadie \notin Conns \cup Difusores \cup Fds
    /\ Conns \cap Difusores = {}

VARIABLES
    fase,        \* per connection: where its thread stands
    fd,          \* per connection: the descriptor the kernel has open for it
    slot,        \* per connection: sesion.slot (0: none)
    rol,         \* per connection: sesion.rol
    cerrar,      \* per connection: sesion.cerrar
    operators,   \* g_operators
    mutex,       \* holder of g_op_mutex across steps, or Nadie
    paso,        \* per thread inside a writing section: the next slot of the
                 \* push, or the next piece of the answer (0: outside)
    destinos,    \* history: connections the alert being pushed was written to
    pendiente,   \* per UDP/monitor thread: it has an alert to push
    buffer,      \* per connection: what was sent and not read yet
    viva,        \* per connection: the client has not closed its end
    quiere       \* history: per connection, what its last (UN)SUBSCRIBE left

tableVars   == <<operators, slot>>
sessionVars == <<rol, cerrar, quiere>>
kernelVars  == <<fd, buffer, viva>>
lockVars    == <<mutex, paso, destinos>>
vars == <<fase, tableVars, sessionVars, kernelVars, lockVars, pendiente>>

Ranuras == 1..MaxOperators
Hilos == Conns \cup Difusores
Roles == {"UNKNOWN", "OPERATOR", "NODE"}
Fases == {"nueva", "aceptada", "sesion", "difunde", "registrada", "suscribe",
          "desuscribe", "responde", "saliendo", "rechazada", "fin"}

RanuraVacia == [en_uso |-> FALSE, fd |-> Nadie, suscrito |-> FALSE, es_operador |-> FALSE]

Init ==
    /\ fase = [c \in Conns |-> "nueva"]
    /\ fd = [c \in Conns |-> Nadie]
    /\ slot = [c \in Conns |-> 0]
    /\ rol = [c \in Conns |-> "UNKNOWN"]
    /\ cerrar = [c \in Conns |-> FALSE]
    /\ operators = [s \in Ranuras |-> RanuraVacia]
    /\ mutex = Nadie /\ paso = [h \in Hilos |-> 0] /\ destinos = {}
    /\ pendiente = [d \in Difusores |-> FALSE]
    /\ buffer = [c \in Conns |-> <<>>]
    /\ viva = [c \in Conns |-> FALSE]
    /\ quiere = [c \in Conns |-> FALSE]

Pasa(c, a, b) == fase[c] = a /\ fase' = [fase EXCEPT ![c] = b]
MutexLibre == mutex = Nadie
EsPrimero(x, S) == x \in S /\ \A y \in S : x <= y

-----------------------------------------------------------------------------
(* The clients: connect, read, hang up. *)
Abiertos == {fd[c] : c \in Conns} \ {Nadie}

(* accept(): POSIX gives the lowest descriptor that is free. *)
Accept(c) ==
    /\ Pasa(c, "nueva", "aceptada")
    /\ \E f \in Fds : EsPrimero(f, Fds \ Abiertos) /\ fd' = [fd EXCEPT ![c] = f]
    /\ viva' = [viva EXCEPT ![c] = TRUE]
    /\ buffer' = [buffer EXCEPT ![c] = <<>>]
    /\ UNCHANGED <<tableVars, sessionVars, lockVars, pendiente>>

ClientRead(c) ==
    /\ viva[c] /\ buffer[c] # <<>>
    /\ buffer' = [buffer EXCEPT ![c] = Tail(@)]
    /\ UNCHANGED <<fase, fd, viva, tableVars, sessionVars, lockVars, pendiente>>

ClientClose(c) ==
    /\ viva[c]
    /\ viva' = [viva EXCEPT ![c] = FALSE]
    /\ buffer' = [buffer EXCEPT ![c] = <<>>]
    /\ UNCHANGED <<fase, fd, tableVars, sessionVars, lockVars, pendiente>>

-----------------------------------------------------------------------------
(* handlers_session_init and registry_operator_add. *)
RanurasLibres == {s \in Ranuras : ~operators[s].en_uso}

OperatorAdd(c) ==
    /\ MutexLibre
    /\ \E s \in Ranuras :
        /\ EsPrimero(s, RanurasLibres)
        /\ operators' = [operators EXCEPT ![s] =
                            [RanuraVacia EXCEPT !.en_uso = TRUE, !.fd = fd[c]]]
        /\ slot' = [slot EXCEPT ![c] = s]
    /\ Pasa(c, "aceptada", "sesion")
    /\ rol' = [rol EXCEPT ![c] = "UNKNOWN"]
    /\ cerrar' = [cerrar EXCEPT ![c] = FALSE]
    /\ quiere' = [quiere EXCEPT ![c] = FALSE]
    /\ UNCHANGED <<kernelVars, lockVars, pendiente>>

(* No slot left: 503 is written straight to the socket, then it is closed. *)
SinRanura(c) ==
    /\ MutexLibre
    /\ RanurasLibres = {}
    /\ Pasa(c, "aceptada", "rechazada")
    /\ UNCHANGED <<tableVars, sessionVars, kernelVars, lockVars, pendiente>>

Rechazar(c) ==
    /\ Pasa(c, "rechazada", "fin")
    /\ buffer' = [buffer EXCEPT ![c] = IF viva[c] THEN Append(@, "ERR503") ELSE @]
    /\ UNCHANGED <<fd, viva, tableVars, sessionVars, lockVars, pendiente>>

-----------------------------------------------------------------------------
(* One line of the client's, up to the answer it leaves in sesion.respuesta. *)
Rol(c, r, es_operador) ==
    /\ MutexLibre
    /\ rol' = [rol EXCEPT ![c] = r]
    /\ operators' = [operators EXCEPT ![slot[c]].es_operador = es_operador]

CmdHello(c) ==
    /\ Pasa(c, "sesion", "responde")
    /\ Rol(c, "OPERATOR", TRUE)
    /\ UNCHANGED <<slot, cerrar, quiere, kernelVars, lockVars, pendiente>>

(* registry_register_node has its turn before the role changes: a node that *)
(* was down is announced by this very thread (`volvio`).                    *)
CmdRegister(c, volvio) ==
    /\ Pasa(c, "sesion", IF volvio THEN "difunde" ELSE "registrada")
    /\ UNCHANGED <<tableVars, sessionVars, kernelVars, lockVars, pendiente>>

Registrada(c) ==
    /\ Pasa(c, "registrada", "responde")
    /\ Rol(c, "NODE", FALSE)
    /\ UNCHANGED <<slot, cerrar, quiere, kernelVars, lockVars, pendiente>>

(* cmd_subscribe sets the role and the subscription in two critical sections. *)
CmdSubscribe(c, activar) ==
    /\ Pasa(c, "sesion", IF activar THEN "suscribe" ELSE "desuscribe")
    /\ Rol(c, "OPERATOR", TRUE)
    /\ UNCHANGED <<slot, cerrar, quiere, kernelVars, lockVars, pendiente>>

OperatorSubscribe(c) ==
    /\ MutexLibre
    /\ fase[c] \in {"suscribe", "desuscribe"}
    /\ fase' = [fase EXCEPT ![c] = "responde"]
    /\ operators' = [operators EXCEPT ![slot[c]].suscrito = (fase[c] = "suscribe")]
    /\ quiere' = [quiere EXCEPT ![c] = (fase[c] = "suscribe")]
    /\ UNCHANGED <<slot, rol, cerrar, kernelVars, lockVars, pendiente>>

(* The commands that only read, PING, and every line answered with ERR. *)
CmdConsulta(c) ==
    /\ Pasa(c, "sesion", "responde")
    /\ UNCHANGED <<tableVars, sessionVars, kernelVars, lockVars, pendiente>>

CmdBye(c) ==
    /\ Pasa(c, "sesion", "responde")
    /\ cerrar' = [cerrar EXCEPT ![c] = TRUE]
    /\ UNCHANGED <<tableVars, rol, quiere, kernelVars, lockVars, pendiente>>

ProcessLine(c) ==
    \/ CmdHello(c)
    \/ \E volvio \in BOOLEAN : CmdRegister(c, volvio)
    \/ \E activar \in BOOLEAN : CmdSubscribe(c, activar)
    \/ CmdConsulta(c)
    \/ CmdBye(c)

-----------------------------------------------------------------------------
(* send() on descriptor f reaches the connection the kernel has under f.    *)
(* It blocks while that client's buffer is full; once the client has hung   *)
(* up it fails, or succeeds and the data is lost.                           *)
Receptor(f) == {c \in Conns : fd[c] = f /\ viva[c]}
CabeEn(f) == \A c \in Receptor(f) : Len(buffer[c]) < Capacidad
Enviar(f, dato) ==
    /\ CabeEn(f)
    /\ buffer' = [c \in Conns |-> IF c \in Receptor(f) THEN Append(buffer[c], dato)
                                                      ELSE buffer[c]]

(* pthread_mutex_unlock. *)
Soltar(h) == mutex' = IF mutex = h THEN Nadie ELSE mutex

(* Mutant: the answer is written after the mutex is released. *)
SendHolderFuera(c) == Nadie

(* Who holds g_op_mutex while the answer is being written. *)
SendHolder(c) == c

(* registry_operator_send: lock, send() until the answer is out, unlock. *)
SendLock(c) ==
    /\ MutexLibre
    /\ fase[c] = "responde" /\ paso[c] = 0
    /\ mutex' = SendHolder(c)
    /\ paso' = [paso EXCEPT ![c] = 1]
    /\ UNCHANGED <<fase, destinos, tableVars, sessionVars, kernelVars, pendiente>>

SendPiece(c) ==
    /\ fase[c] = "responde" /\ paso[c] \in 1..Trozos
    /\ Enviar(operators[slot[c]].fd, IF paso[c] = Trozos THEN "FIN" ELSE "TROZO")
    /\ paso' = [paso EXCEPT ![c] = @ + 1]
    /\ UNCHANGED <<fase, fd, viva, mutex, destinos, tableVars, sessionVars, pendiente>>

SendUnlock(c) ==
    /\ fase[c] = "responde" /\ paso[c] > Trozos
    /\ Soltar(c)
    /\ paso' = [paso EXCEPT ![c] = 0]
    /\ fase' = [fase EXCEPT ![c] = IF cerrar[c] THEN "saliendo" ELSE "sesion"]
    /\ UNCHANGED <<destinos, tableVars, sessionVars, kernelVars, pendiente>>

SendFails(c) ==
    /\ fase[c] = "responde" /\ paso[c] > 0 /\ ~viva[c]
    /\ Soltar(c)
    /\ paso' = [paso EXCEPT ![c] = 0]
    /\ fase' = [fase EXCEPT ![c] = "saliendo"]
    /\ UNCHANGED <<destinos, tableVars, sessionVars, kernelVars, pendiente>>

-----------------------------------------------------------------------------
(* difundir_alertas: lock, one send() to every subscribed slot, unlock.     *)
(* pendiente[d] is raised by the registry (module NodeRegistry).            *)
Alertar(d) ==
    /\ ~pendiente[d]
    /\ pendiente' = [pendiente EXCEPT ![d] = TRUE]
    /\ UNCHANGED <<fase, tableVars, sessionVars, kernelVars, lockVars>>

Difunde(h) == IF h \in Conns THEN fase[h] = "difunde" ELSE pendiente[h]

DifundirLock(h) ==
    /\ MutexLibre
    /\ Difunde(h) /\ paso[h] = 0
    /\ mutex' = h
    /\ paso' = [paso EXCEPT ![h] = 1]
    /\ UNCHANGED <<fase, destinos, tableVars, sessionVars, kernelVars, pendiente>>

(* Mutants: the loop breaks where it should continue; the index advances    *)
(* twice; it does not advance.                                              *)
TrasSaltarSale(s) == MaxOperators + 1
TrasSaltarDoble(s) == s + 2
TrasSaltarQueda(s) == s

(* The slot looked at after one with nobody to alert. *)
TrasSaltar(s) == s + 1

DifundirTurno(h) ==
    /\ Difunde(h) /\ paso[h] \in Ranuras
    /\ LET op == operators[paso[h]] IN
        IF op.en_uso /\ op.suscrito
        THEN /\ Enviar(op.fd, "ALERTA")
             /\ destinos' = destinos \cup Receptor(op.fd)
             /\ paso' = [paso EXCEPT ![h] = @ + 1]
        ELSE /\ paso' = [paso EXCEPT ![h] = TrasSaltar(@)]
             /\ UNCHANGED <<buffer, destinos>>
    /\ UNCHANGED <<fase, tableVars, sessionVars, fd, viva, mutex, pendiente>>

DifundirUnlock(h) ==
    /\ Difunde(h) /\ paso[h] > MaxOperators
    /\ Soltar(h)
    /\ destinos' = {}
    /\ paso' = [paso EXCEPT ![h] = 0]
    /\ IF h \in Conns
       THEN fase' = [fase EXCEPT ![h] = "registrada"] /\ UNCHANGED pendiente
       ELSE pendiente' = [pendiente EXCEPT ![h] = FALSE] /\ UNCHANGED fase
    /\ UNCHANGED <<tableVars, sessionVars, kernelVars>>

-----------------------------------------------------------------------------
(* recv() returns 0 or an error: the client is gone. *)
RecvFin(c) ==
    /\ ~viva[c]
    /\ Pasa(c, "sesion", "saliendo")
    /\ UNCHANGED <<tableVars, sessionVars, kernelVars, lockVars, pendiente>>

(* Mutants: the slot stays in use; the slot is not touched at all. *)
RanuraTrasSesionViva(s) == [operators[s] EXCEPT !.suscrito = FALSE]
RanuraTrasSesionIntacta(s) == operators[s]

(* What registry_operator_remove leaves in the slot. *)
RanuraTrasSesion(s) ==
    [operators[s] EXCEPT !.en_uso = FALSE, !.suscrito = FALSE, !.fd = Nadie]

(* handlers_session_end: the slot goes first, the descriptor after it. *)
OperatorRemove(c) ==
    /\ MutexLibre
    /\ Pasa(c, "saliendo", "fin")
    /\ operators' = [operators EXCEPT ![slot[c]] = RanuraTrasSesion(slot[c])]
    /\ slot' = [slot EXCEPT ![c] = 0]
    /\ UNCHANGED <<sessionVars, kernelVars, lockVars, pendiente>>

(* close(), and the thread ends with its tsp_session_t. *)
CloseFd(c) ==
    /\ Pasa(c, "fin", "nueva")
    /\ rol' = [rol EXCEPT ![c] = "UNKNOWN"]
    /\ cerrar' = [cerrar EXCEPT ![c] = FALSE]
    /\ quiere' = [quiere EXCEPT ![c] = FALSE]
    /\ fd' = [fd EXCEPT ![c] = Nadie]
    /\ viva' = [viva EXCEPT ![c] = FALSE]
    /\ buffer' = [buffer EXCEPT ![c] = <<>>]
    /\ UNCHANGED <<tableVars, lockVars, pendiente>>

-----------------------------------------------------------------------------
(* What thread h does by itself, once it has something to do: the steps that *)
(* wait for g_op_mutex, and the others.                                     *)
TomaMutex(h) ==
    \/ DifundirLock(h)
    \/ /\ h \in Conns
       /\ \/ OperatorAdd(h) \/ SinRanura(h) \/ SendLock(h) \/ OperatorRemove(h)
          \/ Registrada(h) \/ OperatorSubscribe(h)
Sigue(h) ==
    \/ DifundirTurno(h) \/ DifundirUnlock(h)
    \/ /\ h \in Conns
       /\ \/ SendPiece(h) \/ SendUnlock(h) \/ SendFails(h)
          \/ Rechazar(h) \/ RecvFin(h) \/ CloseFd(h)

Next ==
    \/ \E c \in Conns : Accept(c) \/ ClientRead(c) \/ ClientClose(c) \/ ProcessLine(c)
    \/ \E d \in Difusores : Alertar(d)
    \/ \E h \in Hilos : TomaMutex(h) \/ Sigue(h)

Spec == Init /\ [][Next]_vars

(* The server's threads run, and a thread that keeps asking for g_op_mutex  *)
(* gets it: strong fairness, since the mutex is free only now and then.     *)
(* Nothing is asked of the clients.                                         *)
FairServer == Spec /\ \A h \in Hilos : SF_vars(TomaMutex(h)) /\ WF_vars(Sigue(h))

(* Besides, every client keeps reading what it is sent. *)
FairReaders == FairServer /\ \A c \in Conns : WF_vars(ClientRead(c))

-----------------------------------------------------------------------------
(* The last value a loop index takes. *)
Tope == IF Trozos > MaxOperators THEN Trozos + 1 ELSE MaxOperators + 1

EnSesion(c) == fase[c] \in {"sesion", "difunde", "registrada", "suscribe",
                            "desuscribe", "responde", "saliendo"}

(* Every variable stays in its range, the loop indices included. *)
TypeOK ==
    /\ fase \in [Conns -> Fases]
    /\ fd \in [Conns -> Fds \cup {Nadie}]
    /\ slot \in [Conns -> 0..MaxOperators]
    /\ rol \in [Conns -> Roles]
    /\ cerrar \in [Conns -> BOOLEAN]
    /\ quiere \in [Conns -> BOOLEAN]
    /\ operators \in [Ranuras -> [en_uso : BOOLEAN, fd : Fds \cup {Nadie},
                                  suscrito : BOOLEAN, es_operador : BOOLEAN]]
    /\ mutex \in Hilos \cup {Nadie}
    /\ paso \in [Hilos -> 0..Tope]
    /\ destinos \subseteq Conns
    /\ pendiente \in [Difusores -> BOOLEAN]
    /\ buffer \in [Conns -> Seq({"ERR503", "TROZO", "FIN", "ALERTA"})]
    /\ viva \in [Conns -> BOOLEAN]

(* A slot in use belongs to one live session, and the descriptor written in *)
(* it is the one the kernel still has open for that session: a push or an   *)
(* answer through the table cannot reach a connection that was given the    *)
(* same descriptor later.                                                   *)
RanuraEsDeSuSesion ==
    /\ \A c \in Conns : EnSesion(c) =>
          /\ slot[c] \in Ranuras
          /\ operators[slot[c]].en_uso /\ operators[slot[c]].fd = fd[c]
          /\ fd[c] # Nadie
    /\ \A s \in Ranuras : operators[s].en_uso =>
          \E c \in Conns : EnSesion(c) /\ slot[c] = s
    /\ \A c, e \in Conns : c # e /\ fd[c] # Nadie => fd[c] # fd[e]
    /\ \A c, e \in Conns : c # e /\ slot[c] # 0 => slot[c] # slot[e]

(* An ALERT is written only to a connection that asked for it: never before *)
(* its SUBSCRIBE, after its UNSUBSCRIBE took effect, or to the heir of a    *)
(* subscriber's descriptor.                                                 *)
AlertaSoloAQuienLaPidio ==
    [][\A c \in Conns :
          (Len(buffer'[c]) > Len(buffer[c]) /\ buffer'[c][Len(buffer'[c])] = "ALERTA")
              => quiere[c]]_vars

(* The pieces of one answer reach the client together: no ALERT and no other *)
(* answer falls between them, however many send() calls it takes.           *)
RespuestaEntera ==
    /\ TypeOK
    /\ \A c \in Conns : \A i \in 1..(Len(buffer[c]) - 1) :
        buffer[c][i] = "TROZO" => buffer[c][i + 1] \in {"TROZO", "FIN"}

(* When the loop of a push ends, every subscriber still there was written to. *)
TodosAvisados ==
    \A h \in Hilos : (Difunde(h) /\ paso[h] > MaxOperators) =>
        \A s \in Ranuras : operators[s].en_uso /\ operators[s].suscrito =>
            Receptor(operators[s].fd) \subseteq destinos

(* A command that got to its answer is answered, or its session ends. *)
RespuestaSale == \A c \in Conns : fase[c] = "responde" ~> fase[c] # "responde"

(* "El envio por socket jamas bloquea al hilo UDP": a thread with an alert  *)
(* to push comes back to its own work.                                      *)
DifusorVuelve == \A d \in Difusores : pendiente[d] ~> ~pendiente[d]
=============================================================================
