---------------------------- MODULE NodeRegistry ----------------------------
(***************************************************************************)
(* The tables of server/registry.c that g_mutex protects, and the threads   *)
(* that work on them: the UDP thread (registry_record_telemetry), the TCP   *)
(* session threads (registry_register_node) and the monitor thread.         *)
(*                                                                          *)
(* A critical section of g_mutex is one action, except the monitor's scan,  *)
(* which takes one action per slot while it holds the mutex.  The alerts a  *)
(* critical section stores are pushed to the operators after it ends, one   *)
(* DifundirAlerta step per alert: other threads run in between.             *)
(*                                                                          *)
(* An alert is identified by the position guardar_alerta gave it in         *)
(* `historial`, the log of every alert ever stored.  g_alertas_generadas is *)
(* Len(historial), and the ring g_alerts holds its last MAX_ALERTS entries  *)
(* (module HistoryRing).                                                   *)
(***************************************************************************)
EXTENDS Integers, Sequences, FiniteSets

CONSTANTS
    NodeId,           \* identifiers that appear in REGISTER and TELEMETRY
    SinId,            \* the id of a slot never used (memset to zero)
    Recorte,          \* Recorte[id]: what copiar() keeps of id in NODE_ID_LEN bytes
    MaxNodes,         \* MAX_NODES
    Sessions,         \* TCP session threads
    NodeTimeout,      \* NODE_TIMEOUT_SEG
    MaxAlertsPerMsg,  \* MAX_ALERTS_PER_MSG
    MaxVars,          \* MAX_VARS_PER_NODE
    MaxTime,          \* bound: the clock stops here
    MaxSeq,           \* bound: largest SEQ a datagram carries
    MaxDatagrams      \* bound: datagrams the UDP thread handles

ASSUME RegistryAssumption ==
    /\ MaxNodes \in Nat \ {0}
    /\ NodeTimeout \in Nat
    /\ MaxAlertsPerMsg \in Nat \ {0}
    /\ MaxVars \in Nat /\ MaxTime \in Nat /\ MaxSeq \in Nat /\ MaxDatagrams \in Nat
    /\ Recorte \in [NodeId -> NodeId]
    /\ SinId \notin NodeId
    /\ {"udp", "monitor"} \cap Sessions = {}

VARIABLES
    now,                   \* time(NULL)
    nodes,                 \* g_nodes
    telemetria_ok,         \* g_telemetria_ok
    telemetria_rechazada,  \* g_telemetria_rechazada
    historial,             \* every alert guardar_alerta stored, oldest first
    pendientes,            \* per thread: the alerts its difundir_alertas still has to push
    entregadas,            \* the alerts pushed to the operators, in push order
    monitor,               \* the monitor thread: phase, its `ahora`, its loop index
    vistos,                \* history: per slot, the SEQs received since its last REGISTER
    primero,               \* history: per slot, the first of them (-1: none yet)
    aceptados              \* history: the ids answered OK|REGISTER

registryVars == <<nodes, telemetria_ok, telemetria_rechazada, historial>>
traceVars    == <<vistos, primero, aceptados>>
vars == <<now, registryVars, pendientes, entregadas, monitor, traceVars>>

Slots == 1..MaxNodes
Hilos == Sessions \cup {"udp", "monitor"}
Tipos == {"NODE_ONLINE", "NODE_OFFLINE", "ANOMALIA"}

Alerta == [tipo : Tipos, node_id : NodeId \cup {SinId}]
Nodo == [en_uso : BOOLEAN, id : NodeId \cup {SinId}, online : BOOLEAN,
         ultima_medicion : Nat, ultimo_seq : Nat \cup {-1},
         msgs_recibidos : Nat, perdidos_est : Nat]

Aviso(tipo, id) == [tipo |-> tipo, node_id |-> id]

(* The state memset(g_nodes, 0) leaves in a slot. *)
NodoVacio == [en_uso |-> FALSE, id |-> SinId, online |-> FALSE,
              ultima_medicion |-> 0, ultimo_seq |-> 0,
              msgs_recibidos |-> 0, perdidos_est |-> 0]

Init ==
    /\ now = 0
    /\ nodes = [s \in Slots |-> NodoVacio]
    /\ telemetria_ok = 0 /\ telemetria_rechazada = 0
    /\ historial = <<>>
    /\ pendientes = [h \in Hilos |-> {}]
    /\ entregadas = <<>>
    /\ monitor = [fase |-> "dormido", ahora |-> 0, i |-> 1]
    /\ vistos = [s \in Slots |-> {}]
    /\ primero = [s \in Slots |-> -1]
    /\ aceptados = {}

-----------------------------------------------------------------------------
(* g_mutex: only the monitor holds it across steps. *)
MutexLibre == monitor.fase # "recorriendo"

(* buscar_nodo: the first slot in use whose stored id equals id. *)
Coinciden(id) == {s \in Slots : nodes[s].en_uso /\ nodes[s].id = id}
Libres == {s \in Slots : ~nodes[s].en_uso}
EsPrimero(s, S) == s \in S /\ \A r \in S : s <= r

(* Mutant: REGISTER does not look the id up. *)
EsDestinoSinBuscar(s, id) == EsPrimero(s, Libres)

(* The slot REGISTER writes: the node's own, otherwise the first free one. *)
EsDestino(s, id) ==
    IF Coinciden(id) # {} THEN EsPrimero(s, Coinciden(id)) ELSE EsPrimero(s, Libres)

(* Mutant: the last alert stored is not copied to the thread's array. *)
NuevasMenosUna(avisos) == (Len(historial) + 1)..(Len(historial) + Len(avisos) - 1)

(* The positions of the alerts about to be stored. *)
Nuevas(avisos) == (Len(historial) + 1)..(Len(historial) + Len(avisos))

(* guardar_alerta for each alert in turn, kept in the thread's local array. *)
GuardarAlertas(h, avisos) ==
    /\ historial' = historial \o avisos
    /\ pendientes' = [pendientes EXCEPT ![h] = @ \cup Nuevas(avisos)]

-----------------------------------------------------------------------------
Tick ==
    /\ now < MaxTime
    /\ now' = now + 1
    /\ UNCHANGED <<registryVars, pendientes, entregadas, monitor, traceVars>>

(* Mutant: a node that comes back through REGISTER is not announced. *)
AvisoDeRegistroMudo(s, id) == <<>>

(* `volvio`: the node was down, its REGISTER is a return to service. *)
AvisoDeRegistro(s, id) ==
    IF Coinciden(id) # {} /\ ~nodes[s].online
    THEN <<Aviso("NODE_ONLINE", Recorte[id])>> ELSE <<>>

(* The slot after memset and the assignments of REGISTER. *)
NodoNuevo(id) == [en_uso |-> TRUE, id |-> Recorte[id], online |-> TRUE,
                  ultima_medicion |-> now, ultimo_seq |-> -1,
                  msgs_recibidos |-> 0, perdidos_est |-> 0]

(* registry_register_node, called by session thread h. *)
RegisterNode(h, id) ==
    /\ MutexLibre
    /\ pendientes[h] = {}
    /\ \E s \in Slots :
        /\ EsDestino(s, id)
        /\ nodes' = [nodes EXCEPT ![s] = NodoNuevo(id)]
        /\ GuardarAlertas(h, AvisoDeRegistro(s, id))
        /\ vistos' = [vistos EXCEPT ![s] = {}]
        /\ primero' = [primero EXCEPT ![s] = -1]
    /\ aceptados' = aceptados \cup {id}
    /\ UNCHANGED <<now, telemetria_ok, telemetria_rechazada, entregadas, monitor>>

-----------------------------------------------------------------------------
UdpListo ==
    /\ MutexLibre
    /\ pendientes["udp"] = {}
    /\ telemetria_ok + telemetria_rechazada < MaxDatagrams

(* The early returns of handlers_process_udp, and the 406 of the registry. *)
RechazarDatagrama ==
    /\ UdpListo
    /\ telemetria_rechazada' = telemetria_rechazada + 1
    /\ UNCHANGED <<now, nodes, telemetria_ok, historial, pendientes,
                   entregadas, monitor, traceVars>>

(* Mutant: no test for a first datagram. *)
PerdidosDesdeElPrimero(nodo, seq) ==
    IF seq > nodo.ultimo_seq + 1 THEN seq - nodo.ultimo_seq - 1 ELSE 0

(* Datagrams a SEQ counts as lost: only a jump past the largest SEQ seen. *)
Perdidos(nodo, seq) ==
    IF nodo.ultimo_seq >= 0 /\ seq > nodo.ultimo_seq + 1
    THEN seq - nodo.ultimo_seq - 1 ELSE 0

(* Mutant: a datagram does not renew the last contact. *)
RecibeSinContacto(nodo, seq) ==
    [nodo EXCEPT !.online = TRUE, !.msgs_recibidos = @ + 1,
                 !.perdidos_est = @ + Perdidos(nodo, seq),
                 !.ultimo_seq = IF seq > @ THEN seq ELSE @]

(* The node after a datagram: loss estimate, counters, last contact, ONLINE. *)
Recibe(nodo, seq) ==
    [en_uso |-> nodo.en_uso, id |-> nodo.id, online |-> TRUE,
     ultima_medicion |-> now,
     ultimo_seq |-> IF seq > nodo.ultimo_seq THEN seq ELSE nodo.ultimo_seq,
     msgs_recibidos |-> nodo.msgs_recibidos + 1,
     perdidos_est |-> nodo.perdidos_est + Perdidos(nodo, seq)]

(* The alerts of one datagram: NODE_ONLINE if the node had been down, then  *)
(* its out-of-range variables, as many as pendientes[] has room for.        *)
AvisosDe(nodo, anomalas) ==
    LET vuelta == IF nodo.online THEN <<>> ELSE <<Aviso("NODE_ONLINE", nodo.id)>>
        caben  == MaxAlertsPerMsg - Len(vuelta)
    IN  vuelta \o [k \in 1..(IF anomalas <= caben THEN anomalas ELSE caben) |->
                     Aviso("ANOMALIA", nodo.id)]

(* registry_record_telemetry for a known node; `anomalas` variables of the  *)
(* datagram are outside their threshold (module AnomalyDetection).          *)
RecordTelemetry(id, seq, anomalas) ==
    /\ UdpListo
    /\ \E s \in Slots :
        /\ EsPrimero(s, Coinciden(id))
        /\ nodes' = [nodes EXCEPT ![s] = Recibe(@, seq)]
        /\ GuardarAlertas("udp", AvisosDe(nodes[s], anomalas))
        /\ vistos' = [vistos EXCEPT ![s] = @ \cup {seq}]
        /\ primero' = [primero EXCEPT ![s] = IF @ = -1 THEN seq ELSE @]
    /\ telemetria_ok' = telemetria_ok + 1
    /\ UNCHANGED <<now, telemetria_rechazada, entregadas, monitor, aceptados>>

-----------------------------------------------------------------------------
(* monitor_thread: sleep, read the clock, lock, scan every slot, unlock.    *)
(* The clock is read before the lock is asked for.                          *)
MonitorDespierta ==
    /\ monitor.fase = "dormido"
    /\ pendientes["monitor"] = {}
    /\ monitor' = [fase |-> "despierto", ahora |-> now, i |-> monitor.i]
    /\ UNCHANGED <<now, registryVars, pendientes, entregadas, traceVars>>

MonitorBloquea ==
    /\ monitor.fase = "despierto"
    /\ monitor' = [fase |-> "recorriendo", ahora |-> monitor.ahora, i |-> 1]
    /\ UNCHANGED <<now, registryVars, pendientes, entregadas, traceVars>>

(* Mutant: >= for >. *)
VencidoAlLimite(nodo, ahora) ==
    nodo.en_uso /\ nodo.online /\ ahora - nodo.ultima_medicion >= NodeTimeout

Vencido(nodo, ahora) ==
    nodo.en_uso /\ nodo.online /\ ahora - nodo.ultima_medicion > NodeTimeout

(* Mutant: the loop ends one slot early. *)
FinDelRecorridoAntes == monitor.i >= MaxNodes

FinDelRecorrido == monitor.i > MaxNodes

MonitorRevisa ==
    /\ monitor.fase = "recorriendo"
    /\ ~FinDelRecorrido
    /\ LET s == monitor.i IN
        IF Vencido(nodes[s], monitor.ahora)
        THEN /\ nodes' = [nodes EXCEPT ![s].online = FALSE]
             /\ GuardarAlertas("monitor", <<Aviso("NODE_OFFLINE", nodes[s].id)>>)
        ELSE UNCHANGED <<nodes, historial, pendientes>>
    /\ monitor' = [fase |-> monitor.fase, ahora |-> monitor.ahora, i |-> monitor.i + 1]
    /\ UNCHANGED <<now, telemetria_ok, telemetria_rechazada, entregadas, traceVars>>

MonitorLibera ==
    /\ monitor.fase = "recorriendo"
    /\ FinDelRecorrido
    /\ monitor' = [fase |-> "dormido", ahora |-> monitor.ahora, i |-> monitor.i]
    /\ UNCHANGED <<now, registryVars, pendientes, entregadas, traceVars>>

MonitorStep == MonitorDespierta \/ MonitorBloquea \/ MonitorRevisa \/ MonitorLibera

-----------------------------------------------------------------------------
(* One turn of difundir_alertas' loop: thread h pushes the next alert of    *)
(* its array under g_op_mutex.  The monitor gets here once it has unlocked. *)
DifundirAlerta(h) ==
    /\ h = "monitor" => monitor.fase = "dormido"
    /\ \E a \in pendientes[h] :
        /\ EsPrimero(a, pendientes[h])
        /\ entregadas' = Append(entregadas, a)
        /\ pendientes' = [pendientes EXCEPT ![h] = @ \ {a}]
    /\ UNCHANGED <<now, registryVars, monitor, traceVars>>

Next ==
    \/ Tick
    \/ \E h \in Sessions, id \in NodeId : RegisterNode(h, id)
    \/ RechazarDatagrama
    \/ \E id \in NodeId, seq \in 0..MaxSeq, anomalas \in 0..MaxVars :
          RecordTelemetry(id, seq, anomalas)
    \/ MonitorStep
    \/ \E h \in Hilos : DifundirAlerta(h)

Spec == Init /\ [][Next]_vars

(* The monitor is an endless loop and its pushes return: no step of its own *)
(* is postponed for ever.  The other threads and the clock owe nothing.     *)
FairSpec ==
    /\ Spec
    /\ WF_vars(MonitorStep)
    /\ WF_vars(DifundirAlerta("monitor"))

-----------------------------------------------------------------------------
(* What an operator sees of a node, whatever slot it is in. *)
Estado(id) ==
    IF Coinciden(id) = {} THEN "desconocido"
    ELSE IF \E s \in Coinciden(id) : nodes[s].online THEN "arriba" ELSE "abajo"
Contacto(id) ==
    IF Coinciden(id) = {} THEN 0
    ELSE nodes[CHOOSE s \in Coinciden(id) : TRUE].ultima_medicion
Publicados == {entregadas[k] : k \in DOMAIN entregadas}

Disponibilidad == INSTANCE NodeAvailability WITH
    Limite <- NodeTimeout, MaxAvisos <- MaxAlertsPerMsg,
    ahora <- now, estado <- [id \in NodeId |-> Estado(id)],
    contacto <- [id \in NodeId |-> Contacto(id)],
    avisos <- historial, publicados <- Publicados

(* The identifiers the nodes use fit in NODE_ID_LEN, as docs/PROTOCOLO.md    *)
(* asks of them: copiar() stores them whole.                                *)
IdsCaben == \A id \in NodeId : Recorte[id] = id

(* Every variable stays in its range; the SEQs kept in `vistos` and         *)
(* `primero` are those the slot's counters speak of.                        *)
TypeOK ==
    /\ now \in Nat
    /\ nodes \in [Slots -> Nodo]
    /\ telemetria_ok \in Nat /\ telemetria_rechazada \in Nat
    /\ historial \in Seq(Alerta)
    /\ pendientes \in [Hilos -> SUBSET (1..Len(historial))]
    /\ entregadas \in Seq(1..Len(historial))
    /\ monitor \in [fase : {"dormido", "despierto", "recorriendo"},
                    ahora : 0..now, i : 1..(MaxNodes + 1)]
    /\ vistos \in [Slots -> SUBSET Nat]
    /\ primero \in [Slots -> Nat \cup {-1}]
    /\ aceptados \subseteq NodeId

(* A node has one slot, however REGISTER and TELEMETRY of several threads    *)
(* interleave: buscar_nodo never has two candidates.                        *)
IdUnico ==
    \A r, s \in Slots :
        nodes[r].en_uso /\ nodes[s].en_uso /\ nodes[r].id = nodes[s].id => r = s

(* An id answered OK|REGISTER is found by the lookup of every later         *)
(* TELEMETRY: a registered node never gets 406 while the server lives.      *)
RegistradoEsConocido == \A id \in aceptados : Coinciden(id) # {}

(* REGISTER and TELEMETRY agree on which slot is whose.                     *)
UnSlotPorNodo == TypeOK /\ IdUnico /\ RegistradoEsConocido

(* Of the first n alerts of the log, the last one about the availability of *)
(* id is a NODE_OFFLINE.                                                     *)
CaidoHasta(log, n, id) ==
    \E p \in 1..n :
        /\ log[p].node_id = id /\ log[p].tipo = "NODE_OFFLINE"
        /\ \A q \in (p + 1)..n : log[q].node_id = id => log[q].tipo = "ANOMALIA"

(* The flag LIST_NODES shows and the alert log agree: a node is OFFLINE      *)
(* exactly when its last availability alert says so, whatever thread        *)
(* (monitor, UDP, REGISTER) made the last transition.                       *)
EstadoCoincideConAvisos ==
    \A s \in Slots : nodes[s].en_uso =>
        (~nodes[s].online <=> CaidoHasta(historial, Len(historial), nodes[s].id))

(* "Una unica alerta NODE_OFFLINE en la transicion": a node is announced     *)
(* down only when its alerts do not say so already, and announced back only *)
(* when they do.                                                            *)
AvisosAlternan ==
    \A q \in DOMAIN historial :
        /\ historial[q].tipo = "NODE_OFFLINE"
              => ~CaidoHasta(historial, q - 1, historial[q].node_id)
        /\ historial[q].tipo = "NODE_ONLINE"
              => CaidoHasta(historial, q - 1, historial[q].node_id)

(* LIST_NODES, the alert log and its transitions tell one story of a node.  *)
EstadoSegunAvisos == EstadoCoincideConAvisos /\ AvisosAlternan

(* Every alert the history holds is pushed once: it has been pushed, or one *)
(* thread still carries it, and never both or two threads.                  *)
CadaAlertaUnaVez ==
    /\ \A a \in 1..Len(historial) :
         \/ \E k \in DOMAIN entregadas : entregadas[k] = a
         \/ \E h \in Hilos : a \in pendientes[h]
    /\ \A j, k \in DOMAIN entregadas : entregadas[j] = entregadas[k] => j = k
    /\ \A h \in Hilos : \A k \in DOMAIN entregadas : entregadas[k] \notin pendientes[h]
    /\ \A g, h \in Hilos : g # h => pendientes[g] \cap pendientes[h] = {}

(* perdidos_est never misses a datagram that did not arrive between the      *)
(* first and the last SEQ since REGISTER, and never exceeds the span,       *)
(* whatever the network lost, repeated or reordered.                        *)
PerdidosAcotan ==
    \A s \in Slots : primero[s] # -1 =>
        LET n == nodes[s] IN
        /\ Cardinality((primero[s]..n.ultimo_seq) \ vistos[s]) <= n.perdidos_est
        /\ n.perdidos_est <= n.ultimo_seq - primero[s]

(* A node is declared down only if its last measurement is really older     *)
(* than NODE_TIMEOUT_SEG at that moment, although the monitor compares with *)
(* a clock it read before waiting for g_mutex.                              *)
CaidaJustificada ==
    [][\A s \in Slots : nodes[s].online /\ ~nodes'[s].online =>
            now - nodes[s].ultima_medicion > NodeTimeout]_vars

(* The registry keeps NodeAvailability: through a scan of the monitor that   *)
(* others wait for and that others get ahead of, a node is down only after  *)
(* its silence, each change of a node is logged in the step that makes it,  *)
(* with the anomalies of the same datagram after it, and no alert is pushed *)
(* twice or before it is logged (registry_register_node,                    *)
(* registry_record_telemetry, monitor_thread, difundir_alertas).            *)
CumpleDisponibilidad == Disponibilidad!Spec

(* A silent node does not stay ONLINE for ever, and its fall does not stay   *)
(* in the server: the monitor finds it and pushes NODE_OFFLINE, unless the  *)
(* node speaks again first.                                                 *)
CaidaLlegaAlOperador ==
    \A s \in Slots :
        (nodes[s].online /\ now - nodes[s].ultima_medicion > NodeTimeout)
            ~> \/ now - nodes[s].ultima_medicion <= NodeTimeout
               \/ \E k \in DOMAIN entregadas :
                      /\ historial[entregadas[k]] = Aviso("NODE_OFFLINE", nodes[s].id)
                      /\ \A q \in entregadas[k]..Len(historial) :
                            historial[q] # Aviso("NODE_ONLINE", nodes[s].id)
=============================================================================
