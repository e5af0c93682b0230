------------------------- MODULE NodeRegistryProofs -------------------------
(***************************************************************************)
(* Theorems about NodeRegistry, for any number of nodes, slots, sessions    *)
(* and datagrams.                                                           *)
(***************************************************************************)
EXTENDS NodeRegistry, FiniteSetTheorems, TLAPS

(* A sequence over a set is a sequence over any larger one. *)
LEMMA SeqMonotona ==
    ASSUME NEW S, NEW T, S \subseteq T, NEW s \in Seq(S)
    PROVE  s \in Seq(T)
  OBVIOUS

(* The alerts of one datagram form a sequence of alerts of that node. *)
LEMMA AvisosDeTipo ==
    ASSUME RegistryAssumption, NEW n \in Nodo, NEW a \in 0..MaxVars
    PROVE  AvisosDe(n, a) \in Seq(Alerta)
  <1> DEFINE vuelta == IF n.online THEN <<>> ELSE <<Aviso("NODE_ONLINE", n.id)>>
             caben  == MaxAlertsPerMsg - Len(vuelta)
             tope   == IF a <= caben THEN a ELSE caben
             anoms  == [k \in 1..tope |-> Aviso("ANOMALIA", n.id)]
  <1>1. vuelta \in Seq(Alerta)
    <2>1. Aviso("NODE_ONLINE", n.id) \in Alerta /\ n.online \in BOOLEAN
      BY DEF Aviso, Alerta, Tipos, Nodo
    <2>2. CASE n.online
      BY <2>2
    <2>3. CASE ~n.online
      BY <2>1, <2>3
    <2> QED  BY <2>1, <2>2, <2>3
  <1>2. tope \in Nat
    BY <1>1 DEF RegistryAssumption
  <1>3. Aviso("ANOMALIA", n.id) \in Alerta
    BY DEF Aviso, Alerta, Tipos, Nodo
  <1>4. anoms \in Seq(Alerta)
    BY <1>2, <1>3
  <1>5. vuelta \o anoms \in Seq(Alerta)
    BY <1>1, <1>4
  <1> QED  BY <1>5 DEF AvisosDe

LEMMA AvisoDeRegistroTipo ==
    ASSUME RegistryAssumption, NEW id \in NodeId, NEW s \in Slots
    PROVE  AvisoDeRegistro(s, id) \in Seq(Alerta)
  <1> DEFINE volvio == Coinciden(id) # {} /\ ~nodes[s].online
  <1>1. Aviso("NODE_ONLINE", Recorte[id]) \in Alerta
    BY DEF Aviso, Alerta, Tipos, RegistryAssumption
  <1>2. CASE volvio
    BY <1>1, <1>2 DEF AvisoDeRegistro
  <1>3. CASE ~volvio
    BY <1>3 DEF AvisoDeRegistro
  <1> QED  BY <1>2, <1>3

(* Storing alerts keeps the log, the threads' arrays and the pushed log in   *)
(* their ranges: the log only grows.                                        *)
LEMMA GuardarTipo ==
    ASSUME TypeOK, NEW h \in Hilos, NEW avisos \in Seq(Alerta), GuardarAlertas(h, avisos)
    PROVE  /\ historial' \in Seq(Alerta)
           /\ Len(historial') = Len(historial) + Len(avisos)
           /\ pendientes' \in [Hilos -> SUBSET (1..Len(historial'))]
           /\ entregadas \in Seq(1..Len(historial'))
  <1>1. /\ historial' \in Seq(Alerta)
        /\ Len(historial') = Len(historial) + Len(avisos)
    BY DEF TypeOK, GuardarAlertas
  <1>2. 1..Len(historial) \subseteq 1..Len(historial')
    BY <1>1 DEF TypeOK
  <1>3. Nuevas(avisos) \subseteq 1..Len(historial')
    BY <1>1 DEF TypeOK, Nuevas
  <1>4. pendientes' \in [Hilos -> SUBSET (1..Len(historial'))]
    BY <1>2, <1>3 DEF TypeOK, GuardarAlertas
  <1>5. entregadas \in Seq(1..Len(historial'))
    BY <1>2, SeqMonotona DEF TypeOK
  <1> QED  BY <1>1, <1>4, <1>5

LEMMA NodoVacioTipo == NodoVacio \in Nodo
  BY DEF NodoVacio, Nodo

(* What a SEQ adds to perdidos_est is a natural number. *)
LEMMA PerdidosNat ==
    ASSUME NEW n \in Nodo, NEW seq \in Nat
    PROVE  Perdidos(n, seq) \in Nat
  BY DEF Perdidos, Nodo

(* The two records the handlers write in a slot are nodes. *)
LEMMA NodoNuevoTipo ==
    ASSUME RegistryAssumption, now \in Nat, NEW id \in NodeId
    PROVE  NodoNuevo(id) \in Nodo
  BY DEF NodoNuevo, Nodo, RegistryAssumption

LEMMA RecibeTipo ==
    ASSUME now \in Nat, NEW n \in Nodo, NEW seq \in Nat
    PROVE  Recibe(n, seq) \in Nodo
  <1>1. Perdidos(n, seq) \in Nat
    BY PerdidosNat
  <1>2. n.ultimo_seq \in Nat \cup {-1} /\ n.perdidos_est \in Nat /\ n.msgs_recibidos \in Nat
        /\ n.en_uso \in BOOLEAN /\ n.id \in NodeId \cup {SinId}
    BY DEF Nodo
  <1>3. (IF seq > n.ultimo_seq THEN seq ELSE n.ultimo_seq) \in Nat \cup {-1}
    BY <1>2
  <1> QED  BY <1>1, <1>2, <1>3 DEF Recibe, Nodo

LEMMA CaidoTipo ==
    ASSUME NEW n \in Nodo
    PROVE  [n EXCEPT !.online = FALSE] \in Nodo
  BY DEF Nodo

(* Every variable of the registry stays in its range: the loss counter never *)
(* goes negative and every alert a thread carries is one that was stored.   *)
THEOREM TypeCorrect == Spec => []TypeOK
  <1>1. Init => TypeOK
    BY RegistryAssumption, NodoVacioTipo DEF Init, TypeOK, RegistryAssumption
  <1>2. TypeOK /\ [Next]_vars => TypeOK'
    <2> SUFFICES ASSUME TypeOK, [Next]_vars PROVE TypeOK'
      OBVIOUS
    <2> USE RegistryAssumption DEF RegistryAssumption
    <2>1. CASE Tick
      BY <2>1 DEF TypeOK, Tick, registryVars, traceVars
    <2>2. ASSUME NEW h \in Sessions, NEW id \in NodeId, RegisterNode(h, id) PROVE TypeOK'
      <3>1. PICK s \in Slots :
              /\ nodes' = [nodes EXCEPT ![s] = NodoNuevo(id)]
              /\ GuardarAlertas(h, AvisoDeRegistro(s, id))
              /\ vistos' = [vistos EXCEPT ![s] = {}]
              /\ primero' = [primero EXCEPT ![s] = -1]
        BY <2>2 DEF RegisterNode
      <3>2. AvisoDeRegistro(s, id) \in Seq(Alerta)
        BY AvisoDeRegistroTipo
      <3>3. h \in Hilos
        BY DEF Hilos
      <3>4. nodes' \in [Slots -> Nodo]
        BY <3>1, NodoNuevoTipo DEF TypeOK
      <3> QED  BY <2>2, <3>1, <3>2, <3>3, <3>4, GuardarTipo DEF TypeOK, RegisterNode
    <2>3. CASE RechazarDatagrama
      BY <2>3 DEF TypeOK, RechazarDatagrama, traceVars
    <2>4. ASSUME NEW id \in NodeId, NEW seq \in 0..MaxSeq, NEW a \in 0..MaxVars,
                 RecordTelemetry(id, seq, a)
          PROVE  TypeOK'
      <3>1. PICK s \in Slots :
              /\ nodes' = [nodes EXCEPT ![s] = Recibe(@, seq)]
              /\ GuardarAlertas("udp", AvisosDe(nodes[s], a))
              /\ vistos' = [vistos EXCEPT ![s] = @ \cup {seq}]
              /\ primero' = [primero EXCEPT ![s] = IF @ = -1 THEN seq ELSE @]
        BY <2>4 DEF RecordTelemetry
      <3>2. nodes[s] \in Nodo /\ seq \in Nat /\ "udp" \in Hilos
        BY DEF TypeOK, Hilos
      <3>3. AvisosDe(nodes[s], a) \in Seq(Alerta) /\ Perdidos(nodes[s], seq) \in Nat
        BY <3>2, AvisosDeTipo, PerdidosNat
      <3>4. nodes' \in [Slots -> Nodo]
        BY <3>1, <3>2, RecibeTipo DEF TypeOK
      <3>5. /\ historial' \in Seq(Alerta)
            /\ pendientes' \in [Hilos -> SUBSET (1..Len(historial'))]
            /\ entregadas \in Seq(1..Len(historial'))
        BY <3>1, <3>2, <3>3, GuardarTipo
      <3>6. /\ vistos' \in [Slots -> SUBSET Nat]
            /\ primero' \in [Slots -> Nat \cup {-1}]
        BY <3>1, <3>2 DEF TypeOK
      <3> QED  BY <2>4, <3>4, <3>5, <3>6 DEF TypeOK, RecordTelemetry
    <2>5. CASE MonitorDespierta
      BY <2>5 DEF TypeOK, MonitorDespierta, registryVars, traceVars
    <2>6. CASE MonitorBloquea
      BY <2>6 DEF TypeOK, MonitorBloquea, registryVars, traceVars
    <2>7. CASE MonitorRevisa
      <3>1. monitor.i \in Slots
        BY <2>7 DEF TypeOK, MonitorRevisa, FinDelRecorrido, Slots
      <3>2. monitor' \in [fase : {"dormido", "despierto", "recorriendo"},
                          ahora : 0..now', i : 1..(MaxNodes + 1)]
        BY <2>7, <3>1 DEF TypeOK, MonitorRevisa, Slots
      <3>3. CASE Vencido(nodes[monitor.i], monitor.ahora)
        <4>1. <<Aviso("NODE_OFFLINE", nodes[monitor.i].id)>> \in Seq(Alerta)
          BY <3>1 DEF TypeOK, Nodo, Aviso, Alerta, Tipos
        <4>2. "monitor" \in Hilos
          BY DEF Hilos
        <4>3. nodes' \in [Slots -> Nodo]
          <5>1. nodes' = [nodes EXCEPT ![monitor.i].online = FALSE]
            BY <2>7, <3>3 DEF MonitorRevisa
          <5>2. [nodes[monitor.i] EXCEPT !.online = FALSE] \in Nodo
            BY <3>1, CaidoTipo DEF TypeOK
          <5> QED  BY <5>1, <5>2, <3>1 DEF TypeOK
        <4> QED  BY <2>7, <3>2, <3>3, <4>1, <4>2, <4>3, GuardarTipo
                 DEF TypeOK, MonitorRevisa, traceVars
      <3>4. CASE ~Vencido(nodes[monitor.i], monitor.ahora)
        BY <2>7, <3>2, <3>4 DEF TypeOK, MonitorRevisa, traceVars
      <3> QED  BY <3>3, <3>4
    <2>8. CASE MonitorLibera
      BY <2>8 DEF TypeOK, MonitorLibera, registryVars, traceVars
    <2>9. ASSUME NEW h \in Hilos, DifundirAlerta(h) PROVE TypeOK'
      <3>1. PICK a \in pendientes[h] : /\ entregadas' = Append(entregadas, a)
                                       /\ pendientes' = [pendientes EXCEPT ![h] = @ \ {a}]
        BY <2>9 DEF DifundirAlerta
      <3>2. a \in 1..Len(historial)
        BY <3>1 DEF TypeOK
      <3>3. entregadas' \in Seq(1..Len(historial))
        BY <3>1, <3>2 DEF TypeOK
      <3>4. pendientes' \in [Hilos -> SUBSET (1..Len(historial))]
        BY <3>1 DEF TypeOK
      <3> QED  BY <2>9, <3>3, <3>4 DEF TypeOK, DifundirAlerta, registryVars, traceVars
    <2>10. CASE UNCHANGED vars
      BY <2>10 DEF TypeOK, vars, registryVars, traceVars
    <2> QED  BY <2>1, <2>2, <2>3, <2>4, <2>5, <2>6, <2>7, <2>8, <2>9, <2>10
             DEF Next, MonitorStep
  <1> QED  BY <1>1, <1>2, PTL DEF Spec

-----------------------------------------------------------------------------
(* A node is marked OFFLINE only when its last measurement is older than    *)
(* NODE_TIMEOUT_SEG by the clock of that very moment: reading `ahora`       *)
(* before waiting for g_mutex can only delay the alarm, never bring it on.  *)
THEOREM CaidaSiempreJustificada == Spec => CaidaJustificada
  <1> DEFINE Justificada == \A s \in Slots : nodes[s].online /\ ~nodes'[s].online =>
                                now - nodes[s].ultima_medicion > NodeTimeout
  <1>1. TypeOK /\ TypeOK' /\ [Next]_vars => [Justificada]_vars
    <2> SUFFICES ASSUME TypeOK, Next, NEW s \in Slots, nodes[s].online, ~nodes'[s].online
                 PROVE  now - nodes[s].ultima_medicion > NodeTimeout
      BY DEF vars
    <2> USE RegistryAssumption DEF RegistryAssumption
    <2>1. nodes' # nodes
      OBVIOUS
    <2>2. ASSUME NEW h \in Sessions, NEW id \in NodeId, RegisterNode(h, id) PROVE FALSE
      <3>1. PICK r \in Slots : nodes' = [nodes EXCEPT ![r] = NodoNuevo(id)]
        BY <2>2 DEF RegisterNode
      <3> QED  BY <3>1 DEF NodoNuevo, TypeOK
    <2>3. ASSUME NEW id \in NodeId, NEW seq \in 0..MaxSeq, NEW a \in 0..MaxVars,
                 RecordTelemetry(id, seq, a)
          PROVE  FALSE
      <3>1. PICK r \in Slots : nodes' = [nodes EXCEPT ![r] = Recibe(@, seq)]
        BY <2>3 DEF RecordTelemetry
      <3> QED  BY <3>1 DEF Recibe, TypeOK
    <2>4. CASE MonitorRevisa
      <3>1. Vencido(nodes[monitor.i], monitor.ahora)
            /\ nodes' = [nodes EXCEPT ![monitor.i].online = FALSE]
        BY <2>1, <2>4 DEF MonitorRevisa
      <3>2. s = monitor.i
        BY <3>1 DEF TypeOK
      <3>3. monitor.ahora - nodes[s].ultima_medicion > NodeTimeout
        BY <3>1, <3>2 DEF Vencido
      <3>4. /\ monitor.ahora \in Nat /\ monitor.ahora <= now /\ now \in Nat
            /\ nodes[s].ultima_medicion \in Nat
        BY DEF TypeOK, Nodo
      <3> QED  BY <3>3, <3>4
    <2>5. nodes' = nodes => FALSE
      BY <2>1
    <2> QED  BY <2>2, <2>3, <2>4, <2>5
             DEF Next, MonitorStep, Tick, RechazarDatagrama, MonitorDespierta,
                 MonitorBloquea, MonitorLibera, DifundirAlerta, registryVars
  <1>2. QED  BY <1>1, TypeCorrect, PTL DEF Spec, CaidaJustificada

-----------------------------------------------------------------------------
(* Storing alerts gives each to one thread. *)
LEMMA GuardarUnaVez ==
    ASSUME TypeOK, CadaAlertaUnaVez, NEW h \in Hilos, NEW avisos \in Seq(Alerta),
           GuardarAlertas(h, avisos), entregadas' = entregadas
    PROVE  CadaAlertaUnaVez'
  <1>1. /\ Len(historial) \in Nat /\ Len(avisos) \in Nat
        /\ Len(historial') = Len(historial) + Len(avisos)
    BY GuardarTipo DEF TypeOK
  <1>2. /\ \A g \in Hilos : pendientes[g] \subseteq 1..Len(historial)
        /\ \A k \in DOMAIN entregadas : entregadas[k] \in 1..Len(historial)
    BY DEF TypeOK
  <1>3. /\ pendientes'[h] = pendientes[h] \cup Nuevas(avisos)
        /\ \A g \in Hilos : g # h => pendientes'[g] = pendientes[g]
    BY DEF GuardarAlertas, TypeOK
  <1>4. Nuevas(avisos) = (Len(historial) + 1)..Len(historial')
    BY <1>1 DEF Nuevas
  <1>5. Nuevas(avisos) \cap (1..Len(historial)) = {}
    BY <1>1, <1>4
  <1>6. \A a \in 1..Len(historial') : a \in 1..Len(historial) \/ a \in Nuevas(avisos)
    BY <1>1, <1>4
  <1>7. \A a \in 1..Len(historial') :
          \/ \E k \in DOMAIN entregadas' : entregadas'[k] = a
          \/ \E g \in Hilos : a \in pendientes'[g]
    BY <1>3, <1>6 DEF CadaAlertaUnaVez
  <1>8. \A g \in Hilos : \A k \in DOMAIN entregadas' : entregadas'[k] \notin pendientes'[g]
    BY <1>2, <1>3, <1>5 DEF CadaAlertaUnaVez
  <1>9. \A g, f \in Hilos : g # f => pendientes'[g] \cap pendientes'[f] = {}
    <2> SUFFICES ASSUME NEW g \in Hilos, NEW f \in Hilos, g # f
                 PROVE  pendientes'[g] \cap pendientes'[f] = {}
      OBVIOUS
    <2>1. pendientes[g] \cap pendientes[f] = {}
      BY DEF CadaAlertaUnaVez
    <2>2. /\ pendientes[g] \cap Nuevas(avisos) = {}
          /\ pendientes[f] \cap Nuevas(avisos) = {}
      BY <1>2, <1>5
    <2> QED  BY <1>3, <2>1, <2>2
  <1> QED  BY <1>7, <1>8, <1>9 DEF CadaAlertaUnaVez

(* Pushing one alert moves it from its thread to the pushed log. *)
LEMMA DifundirUnaVez ==
    ASSUME TypeOK, CadaAlertaUnaVez, NEW h \in Hilos, DifundirAlerta(h)
    PROVE  CadaAlertaUnaVez'
  <1>1. PICK a \in pendientes[h] : /\ entregadas' = Append(entregadas, a)
                                   /\ pendientes' = [pendientes EXCEPT ![h] = @ \ {a}]
    BY DEF DifundirAlerta
  <1>2. /\ pendientes'[h] = pendientes[h] \ {a}
        /\ \A g \in Hilos : g # h => pendientes'[g] = pendientes[g]
    BY <1>1 DEF TypeOK
  <1>3. Len(entregadas) \in Nat /\ DOMAIN entregadas = 1..Len(entregadas)
    BY DEF TypeOK
  <1>4. /\ DOMAIN entregadas' = 1..(Len(entregadas) + 1)
        /\ entregadas'[Len(entregadas) + 1] = a
        /\ \A k \in 1..Len(entregadas) : entregadas'[k] = entregadas[k]
    BY <1>1, <1>3 DEF TypeOK
  <1>5. \A k \in DOMAIN entregadas : entregadas[k] # a
    BY <1>1 DEF CadaAlertaUnaVez
  <1>6. \A g \in Hilos : g # h => a \notin pendientes[g]
    BY <1>1 DEF CadaAlertaUnaVez
  <1>7. historial' = historial
    BY DEF DifundirAlerta, registryVars
  <1>8. \A b \in 1..Len(historial) :
          \/ \E k \in DOMAIN entregadas' : entregadas'[k] = b
          \/ \E g \in Hilos : b \in pendientes'[g]
    <2> SUFFICES ASSUME NEW b \in 1..Len(historial), b # a
                 PROVE  \/ \E k \in DOMAIN entregadas' : entregadas'[k] = b
                        \/ \E g \in Hilos : b \in pendientes'[g]
      BY <1>3, <1>4
    <2>1. CASE \E k \in DOMAIN entregadas : entregadas[k] = b
      BY <1>3, <1>4, <2>1
    <2>2. CASE \E g \in Hilos : b \in pendientes[g]
      BY <1>2, <2>2
    <2> QED  BY <2>1, <2>2 DEF CadaAlertaUnaVez
  <1>9. \A j, k \in DOMAIN entregadas' : entregadas'[j] = entregadas'[k] => j = k
    BY <1>3, <1>4, <1>5 DEF CadaAlertaUnaVez
  <1>10. \A g \in Hilos : \A k \in DOMAIN entregadas' : entregadas'[k] \notin pendientes'[g]
    BY <1>2, <1>3, <1>4, <1>6 DEF CadaAlertaUnaVez
  <1>11. \A g, f \in Hilos : g # f => pendientes'[g] \cap pendientes'[f] = {}
    BY <1>2 DEF CadaAlertaUnaVez
  <1> QED  BY <1>7, <1>8, <1>9, <1>10, <1>11 DEF CadaAlertaUnaVez

(* No alert is pushed twice and none is forgotten: at any moment each alert  *)
(* of the history is either pushed or in the array of one thread.           *)
THEOREM CadaAlertaSeEmpujaUnaVez == Spec => []CadaAlertaUnaVez
  <1>1. Init => CadaAlertaUnaVez
    BY DEF Init, CadaAlertaUnaVez
  <1>2. TypeOK /\ CadaAlertaUnaVez /\ [Next]_vars => CadaAlertaUnaVez'
    <2> SUFFICES ASSUME TypeOK, CadaAlertaUnaVez, [Next]_vars PROVE CadaAlertaUnaVez'
      OBVIOUS
    <2> USE RegistryAssumption
    <2>1. ASSUME NEW h \in Sessions, NEW id \in NodeId, RegisterNode(h, id)
          PROVE  CadaAlertaUnaVez'
      <3>1. PICK s \in Slots : GuardarAlertas(h, AvisoDeRegistro(s, id))
        BY <2>1 DEF RegisterNode
      <3>2. AvisoDeRegistro(s, id) \in Seq(Alerta) /\ h \in Hilos
        BY AvisoDeRegistroTipo DEF Hilos
      <3> QED  BY <2>1, <3>1, <3>2, GuardarUnaVez DEF RegisterNode
    <2>2. ASSUME NEW id \in NodeId, NEW seq \in 0..MaxSeq, NEW a \in 0..MaxVars,
                 RecordTelemetry(id, seq, a)
          PROVE  CadaAlertaUnaVez'
      <3>1. PICK s \in Slots : GuardarAlertas("udp", AvisosDe(nodes[s], a))
        BY <2>2 DEF RecordTelemetry
      <3>2. AvisosDe(nodes[s], a) \in Seq(Alerta) /\ "udp" \in Hilos
        BY AvisosDeTipo DEF Hilos, TypeOK
      <3> QED  BY <2>2, <3>1, <3>2, GuardarUnaVez DEF RecordTelemetry
    <2>3. CASE MonitorRevisa
      <3>1. monitor.i \in Slots /\ "monitor" \in Hilos
        BY <2>3 DEF TypeOK, MonitorRevisa, FinDelRecorrido, Slots, Hilos, RegistryAssumption
      <3>2. CASE Vencido(nodes[monitor.i], monitor.ahora)
        <4>1. <<Aviso("NODE_OFFLINE", nodes[monitor.i].id)>> \in Seq(Alerta)
          BY <3>1 DEF TypeOK, Nodo, Aviso, Alerta, Tipos
        <4> QED  BY <2>3, <3>1, <3>2, <4>1, GuardarUnaVez DEF MonitorRevisa
      <3>3. CASE ~Vencido(nodes[monitor.i], monitor.ahora)
        BY <2>3, <3>3 DEF MonitorRevisa, CadaAlertaUnaVez
      <3> QED  BY <3>2, <3>3
    <2>4. ASSUME NEW h \in Hilos, DifundirAlerta(h) PROVE CadaAlertaUnaVez'
      BY <2>4, DifundirUnaVez
    <2>5. CASE UNCHANGED <<historial, pendientes, entregadas>>
      BY <2>5 DEF CadaAlertaUnaVez
    <2> QED  BY <2>1, <2>2, <2>3, <2>4, <2>5
             DEF Next, MonitorStep, Tick, RechazarDatagrama, MonitorDespierta,
                 MonitorBloquea, MonitorLibera, registryVars, vars
  <1>3. QED  BY <1>1, <1>2, TypeCorrect, PTL DEF Spec

-----------------------------------------------------------------------------
(* One slot per node, and the agreement between a node's ONLINE flag and    *)
(* the alert log.  Both need IdsCaben: with an identifier that copiar() cuts *)
(* short they are false (the id `largo` of MCNodeRegistry).                 *)

(* What the availability alerts say depends on the entries read only. *)
LEMMA CaidoPrefijo ==
    ASSUME NEW L, NEW M, NEW n \in Nat, NEW id, \A p \in 1..n : L[p] = M[p]
    PROVE  CaidoHasta(L, n, id) <=> CaidoHasta(M, n, id)
  BY DEF CaidoHasta

(* If the last alert is of the node, it decides. *)
LEMMA CaidoPorElUltimo ==
    ASSUME NEW L, NEW n \in Nat, n >= 1, NEW id, L[n].node_id = id
    PROVE  /\ L[n].tipo = "NODE_OFFLINE" => CaidoHasta(L, n, id)
           /\ L[n].tipo = "NODE_ONLINE" => ~CaidoHasta(L, n, id)
  <1>1. ASSUME L[n].tipo = "NODE_OFFLINE" PROVE CaidoHasta(L, n, id)
    <2>1. n \in 1..n /\ (n + 1)..n = {}
      OBVIOUS
    <2> QED  BY <1>1, <2>1 DEF CaidoHasta
  <1>2. ASSUME L[n].tipo = "NODE_ONLINE", CaidoHasta(L, n, id) PROVE FALSE
    <2>1. PICK p \in 1..n :
             /\ L[p].node_id = id /\ L[p].tipo = "NODE_OFFLINE"
             /\ \A q \in (p + 1)..n : L[q].node_id = id => L[q].tipo = "ANOMALIA"
      BY <1>2 DEF CaidoHasta
    <2>2. p # n
      BY <1>2, <2>1
    <2>3. n \in (p + 1)..n
      BY <2>2
    <2> QED  BY <1>2, <2>1, <2>3
  <1> QED  BY <1>1, <1>2

(* Entries of the log that say nothing of id's availability do not matter. *)
LEMMA CaidoIgual ==
    ASSUME NEW L, NEW m \in Nat, NEW n \in Nat, m <= n, NEW id,
           \A q \in (m + 1)..n : L[q].node_id = id => L[q].tipo = "ANOMALIA"
    PROVE  CaidoHasta(L, n, id) <=> CaidoHasta(L, m, id)
  <1>1. ASSUME CaidoHasta(L, n, id) PROVE CaidoHasta(L, m, id)
    <2>1. PICK p \in 1..n :
             /\ L[p].node_id = id /\ L[p].tipo = "NODE_OFFLINE"
             /\ \A q \in (p + 1)..n : L[q].node_id = id => L[q].tipo = "ANOMALIA"
      BY <1>1 DEF CaidoHasta
    <2>2. p \notin (m + 1)..n
      BY <2>1
    <2>3. p \in 1..m /\ \A q \in (p + 1)..m : q \in (p + 1)..n
      BY <2>2
    <2> QED  BY <2>1, <2>3 DEF CaidoHasta
  <1>2. ASSUME CaidoHasta(L, m, id) PROVE CaidoHasta(L, n, id)
    <2>1. PICK p \in 1..m :
             /\ L[p].node_id = id /\ L[p].tipo = "NODE_OFFLINE"
             /\ \A q \in (p + 1)..m : L[q].node_id = id => L[q].tipo = "ANOMALIA"
      BY <1>2 DEF CaidoHasta
    <2>2. \A q \in (p + 1)..n : q \in (p + 1)..m \/ q \in (m + 1)..n
      OBVIOUS
    <2>3. p \in 1..n
      OBVIOUS
    <2> QED  BY <2>1, <2>2, <2>3 DEF CaidoHasta
  <1> QED  BY <1>1, <1>2

-----------------------------------------------------------------------------
(* The lookup and the slots: with ids that fit, a REGISTER never makes a     *)
(* second slot for a node, and never loses one.                             *)
THEOREM SiempreUnSlotPorNodo ==
    ASSUME IdsCaben
    PROVE  Spec => []UnSlotPorNodo
  <1> DEFINE Inv == IdUnico /\ RegistradoEsConocido
  <1>1. Init => Inv
    BY DEF Init, NodoVacio, IdUnico, RegistradoEsConocido
  <1>2. TypeOK /\ Inv /\ [Next]_vars => Inv'
    <2> SUFFICES ASSUME TypeOK, Inv, [Next]_vars PROVE Inv'
      OBVIOUS
    <2>1. ASSUME NEW h \in Sessions, NEW id \in NodeId, RegisterNode(h, id) PROVE Inv'
      <3>1. PICK s \in Slots : EsDestino(s, id) /\ nodes' = [nodes EXCEPT ![s] = NodoNuevo(id)]
        BY <2>1 DEF RegisterNode
      <3>2. /\ nodes'[s].en_uso /\ nodes'[s].id = id
            /\ \A r \in Slots : r # s => nodes'[r] = nodes[r]
        BY <3>1 DEF TypeOK, NodoNuevo, IdsCaben
      <3>3. nodes[s].en_uso => nodes[s].id = id
        BY <3>1 DEF EsDestino, EsPrimero, Coinciden, Libres
      <3>4. \A r \in Slots : r # s /\ nodes[r].en_uso => nodes[r].id # id
        BY <3>1 DEF EsDestino, EsPrimero, Coinciden, Libres, IdUnico
      <3>5. IdUnico'
        BY <3>2, <3>4 DEF IdUnico
      <3>6. aceptados' = aceptados \cup {id}
        BY <2>1 DEF RegisterNode
      <3>7. RegistradoEsConocido'
        BY <3>2, <3>3, <3>6 DEF RegistradoEsConocido, Coinciden
      <3> QED  BY <3>5, <3>7
    <2>2. ASSUME NEW s \in Slots, nodes' = [nodes EXCEPT ![s] = nodes'[s]],
                 nodes'[s].en_uso = nodes[s].en_uso, nodes'[s].id = nodes[s].id,
                 aceptados' = aceptados
          PROVE  Inv'
      <3>1. \A r \in Slots : nodes'[r].en_uso = nodes[r].en_uso /\ nodes'[r].id = nodes[r].id
        BY <2>2 DEF TypeOK
      <3> QED  BY <2>2, <3>1 DEF IdUnico, RegistradoEsConocido, Coinciden
    <2>3. ASSUME NEW id \in NodeId, NEW seq \in 0..MaxSeq, NEW a \in 0..MaxVars,
                 RecordTelemetry(id, seq, a)
          PROVE  Inv'
      <3>1. PICK s \in Slots : nodes' = [nodes EXCEPT ![s] = Recibe(@, seq)]
        BY <2>3 DEF RecordTelemetry
      <3>2. nodes'[s] = Recibe(nodes[s], seq)
        BY <3>1 DEF TypeOK
      <3>3. nodes'[s].en_uso = nodes[s].en_uso /\ nodes'[s].id = nodes[s].id
        BY <3>2 DEF Recibe
      <3>4. nodes' = [nodes EXCEPT ![s] = nodes'[s]] /\ aceptados' = aceptados
        BY <2>3, <3>1, <3>2 DEF RecordTelemetry
      <3> QED  BY <2>2, <3>3, <3>4
    <2>4. CASE MonitorRevisa
      <3>1. CASE Vencido(nodes[monitor.i], monitor.ahora)
        <4>1. monitor.i \in Slots
          BY <2>4, RegistryAssumption
             DEF TypeOK, MonitorRevisa, FinDelRecorrido, Slots, RegistryAssumption
        <4>2. nodes' = [nodes EXCEPT ![monitor.i].online = FALSE] /\ aceptados' = aceptados
          BY <2>4, <3>1 DEF MonitorRevisa, traceVars
        <4>3. nodes'[monitor.i] = [nodes[monitor.i] EXCEPT !.online = FALSE]
          BY <4>1, <4>2 DEF TypeOK
        <4>4. /\ nodes'[monitor.i].en_uso = nodes[monitor.i].en_uso
              /\ nodes'[monitor.i].id = nodes[monitor.i].id
          BY <4>1, <4>3 DEF TypeOK, Nodo
        <4>5. nodes' = [nodes EXCEPT ![monitor.i] = nodes'[monitor.i]]
          BY <4>2, <4>3
        <4> QED  BY <2>2, <4>1, <4>2, <4>4, <4>5
      <3>2. CASE ~Vencido(nodes[monitor.i], monitor.ahora)
        BY <2>4, <3>2 DEF MonitorRevisa, traceVars, IdUnico, RegistradoEsConocido, Coinciden
      <3> QED  BY <3>1, <3>2
    <2>5. CASE UNCHANGED <<nodes, aceptados>>
      BY <2>5 DEF IdUnico, RegistradoEsConocido, Coinciden
    <2> QED  BY <2>1, <2>3, <2>4, <2>5
             DEF Next, MonitorStep, Tick, RechazarDatagrama, MonitorDespierta, MonitorBloquea,
                 MonitorLibera, DifundirAlerta, registryVars, traceVars, vars
  <1>3. TypeOK /\ Inv => UnSlotPorNodo
    BY DEF UnSlotPorNodo
  <1>4. QED  BY <1>1, <1>2, <1>3, TypeCorrect, PTL DEF Spec

-----------------------------------------------------------------------------
(* Every alert speaks of a node that is registered. *)
AlertasConocidas == \A p \in DOMAIN historial : Coinciden(historial[p].node_id) # {}

EstadoInv == EstadoCoincideConAvisos /\ AvisosAlternan /\ AlertasConocidas

(* The alerts a step stores when it rewrites slot s as nodo are all of node   *)
(* quien, the only one in the slot, and tell what happens to its flag:      *)
(* nothing when it stays, NODE_ONLINE first when it is raised, NODE_OFFLINE *)
(* first when it is lowered.                                                *)
Fieles(avisos, quien, s, nodo) ==
    /\ nodo.en_uso /\ nodo.id = quien
    /\ nodes[s].en_uso => nodes[s].id = quien
    /\ \A r \in Slots : r # s /\ nodes[r].en_uso => nodes[r].id # quien
    /\ \A k \in DOMAIN avisos : avisos[k].node_id = quien
    /\ \A k \in DOMAIN avisos : k # 1 => avisos[k].tipo = "ANOMALIA"
    /\ \/ /\ \A k \in DOMAIN avisos : avisos[k].tipo = "ANOMALIA"
          /\ nodo.online <=> (nodes[s].en_uso => nodes[s].online)
       \/ /\ avisos # <<>> /\ avisos[1].tipo = "NODE_ONLINE"
          /\ nodes[s].en_uso /\ ~nodes[s].online /\ nodo.online
       \/ /\ avisos # <<>> /\ avisos[1].tipo = "NODE_OFFLINE"
          /\ nodes[s].en_uso /\ nodes[s].online /\ ~nodo.online

(* Such a step keeps the agreement. *)
LEMMA AvisarConserva ==
    ASSUME TypeOK, EstadoInv,
           NEW avisos \in Seq(Alerta), NEW quien, NEW s \in Slots, NEW nodo,
           historial' = historial \o avisos, nodes' = [nodes EXCEPT ![s] = nodo],
           Fieles(avisos, quien, s, nodo)
    PROVE  EstadoInv'
  <1> USE DEF Fieles
  <1> DEFINE n0 == Len(historial)
             n1 == n0 + Len(avisos)
  <1>1. /\ n0 \in Nat /\ n1 \in Nat /\ Len(avisos) \in Nat /\ n0 <= n1
        /\ Len(historial') = n1 /\ DOMAIN historial' = 1..n1 /\ DOMAIN historial = 1..n0
        /\ DOMAIN avisos = 1..Len(avisos)
    BY DEF TypeOK
  <1>2. \A p \in 1..n0 : historial[p] = historial'[p]
    BY <1>1 DEF TypeOK
  <1>3. \A q \in (n0 + 1)..n1 : historial'[q] = avisos[q - n0] /\ q - n0 \in DOMAIN avisos
    BY <1>1 DEF TypeOK
  <1>4. /\ nodes'[s] = nodo
        /\ \A r \in Slots : r # s => nodes'[r] = nodes[r]
    BY DEF TypeOK
  <1> HIDE DEF n0, n1
  <1>5. \A e : CaidoHasta(historial', n0, e) <=> CaidoHasta(historial, n0, e)
    <2> TAKE e
    <2> QED  BY <1>1, <1>2, CaidoPrefijo
  <1>6. \A e, m : m \in Nat /\ m <= n1
                   /\ (\A q \in (m + 1)..n1 : historial'[q].node_id = e
                                                  => historial'[q].tipo = "ANOMALIA")
          => (CaidoHasta(historial', n1, e) <=> CaidoHasta(historial', m, e))
    <2> TAKE e, m
    <2> QED  BY <1>1, CaidoIgual
  <1>6b. \A e : /\ historial'[n0 + 1].node_id = e /\ historial'[n0 + 1].tipo = "NODE_OFFLINE"
                      => CaidoHasta(historial', n0 + 1, e)
                /\ historial'[n0 + 1].node_id = e /\ historial'[n0 + 1].tipo = "NODE_ONLINE"
                      => ~CaidoHasta(historial', n0 + 1, e)
    <2> TAKE e
    <2> DEFINE m == n0 + 1
    <2>1. m \in Nat /\ m >= 1
      BY <1>1
    <2> HIDE DEF m
    <2>2. /\ historial'[m].node_id = e /\ historial'[m].tipo = "NODE_OFFLINE"
               => CaidoHasta(historial', m, e)
          /\ historial'[m].node_id = e /\ historial'[m].tipo = "NODE_ONLINE"
               => ~CaidoHasta(historial', m, e)
      BY <2>1, CaidoPorElUltimo
    <2> QED  BY <2>2 DEF m
  <1>7. nodes[s].en_uso => (~nodes[s].online <=> CaidoHasta(historial, n0, quien))
    BY DEF EstadoInv, EstadoCoincideConAvisos, n0
  <1>8. ~nodes[s].en_uso => ~CaidoHasta(historial, n0, quien)
    <2>1. ~nodes[s].en_uso => Coinciden(quien) = {}
      BY DEF Coinciden
    <2> QED  BY <1>1, <2>1 DEF CaidoHasta, EstadoInv, AlertasConocidas
  <1>9. ~nodo.online <=> CaidoHasta(historial', n1, quien)
    <2>1. CASE \A k \in DOMAIN avisos : avisos[k].tipo = "ANOMALIA"
      <3>1. \A q \in (n0 + 1)..n1 : historial'[q].node_id = quien => historial'[q].tipo = "ANOMALIA"
        BY <1>3, <2>1
      <3>2. CaidoHasta(historial', n1, quien) <=> CaidoHasta(historial', n0, quien)
        BY <1>1, <1>6, <3>1
      <3>3. nodo.online <=> (nodes[s].en_uso => nodes[s].online)
        BY <1>1, <2>1
      <3> QED  BY <1>5, <1>7, <1>8, <3>2, <3>3
    <2>2. CASE ~(\A k \in DOMAIN avisos : avisos[k].tipo = "ANOMALIA")
      <3>1. 1 \in DOMAIN avisos
        BY <1>1, <2>2
      <3>2. n0 + 1 \in (n0 + 1)..n1 /\ n0 + 1 <= n1 /\ n0 + 1 \in Nat /\ (n0 + 1) - n0 = 1
        BY <1>1, <3>1 DEF n1
      <3>3. historial'[n0 + 1] = avisos[1] /\ avisos[1].node_id = quien
        BY <1>3, <3>1, <3>2
      <3>4. \A q \in ((n0 + 1) + 1)..n1 : historial'[q].tipo = "ANOMALIA"
        <4> TAKE q \in ((n0 + 1) + 1)..n1
        <4>1. q \in (n0 + 1)..n1 /\ q - n0 # 1
          BY <1>1
        <4> QED  BY <1>3, <4>1
      <3>5. CaidoHasta(historial', n1, quien) <=> CaidoHasta(historial', n0 + 1, quien)
        BY <1>1, <1>6, <3>2, <3>4
      <3>6. CASE avisos[1].tipo = "NODE_ONLINE" /\ nodo.online
        BY <1>1, <1>6b, <3>3, <3>5, <3>6
      <3>7. CASE avisos[1].tipo = "NODE_OFFLINE" /\ ~nodo.online
        BY <1>1, <1>6b, <3>3, <3>5, <3>7
      <3> QED  BY <2>2, <3>6, <3>7
    <2> QED  BY <2>1, <2>2
  <1>10. EstadoCoincideConAvisos'
    <2> SUFFICES ASSUME NEW r \in Slots, nodes'[r].en_uso
                 PROVE  ~nodes'[r].online <=> CaidoHasta(historial', n1, nodes'[r].id)
      BY <1>1 DEF EstadoCoincideConAvisos
    <2>1. CASE r = s
      BY <1>4, <1>9, <2>1
    <2>2. CASE r # s
      <3>1. nodes'[r] = nodes[r] /\ nodes[r].en_uso /\ nodes[r].id # quien
        BY <1>4, <2>2
      <3>2. ~nodes[r].online <=> CaidoHasta(historial, n0, nodes[r].id)
        BY <3>1 DEF EstadoInv, EstadoCoincideConAvisos, n0
      <3>3. \A q \in (n0 + 1)..n1 : historial'[q].node_id # nodes[r].id
        <4> TAKE q \in (n0 + 1)..n1
        <4>1. historial'[q] = avisos[q - n0] /\ q - n0 \in DOMAIN avisos
          BY <1>3
        <4>2. avisos[q - n0].node_id = quien
          BY <4>1
        <4> QED  BY <3>1, <4>1, <4>2
      <3>4. CaidoHasta(historial', n1, nodes[r].id) <=> CaidoHasta(historial', n0, nodes[r].id)
        BY <1>1, <1>6, <3>3
      <3> QED  BY <1>5, <3>1, <3>2, <3>4
    <2> QED  BY <2>1, <2>2
  <1>11. AvisosAlternan'
    <2> SUFFICES ASSUME NEW q \in 1..n1
                 PROVE  /\ historial'[q].tipo = "NODE_OFFLINE"
                              => ~CaidoHasta(historial', q - 1, historial'[q].node_id)
                        /\ historial'[q].tipo = "NODE_ONLINE"
                              => CaidoHasta(historial', q - 1, historial'[q].node_id)
      BY <1>1 DEF AvisosAlternan
    <2>1. CASE q \in 1..n0
      <3>1. /\ historial[q].tipo = "NODE_OFFLINE"
                  => ~CaidoHasta(historial, q - 1, historial[q].node_id)
            /\ historial[q].tipo = "NODE_ONLINE"
                  => CaidoHasta(historial, q - 1, historial[q].node_id)
        BY <1>1, <2>1 DEF EstadoInv, AvisosAlternan
      <3>2. q - 1 \in Nat /\ \A p \in 1..(q - 1) : historial[p] = historial'[p]
        BY <1>1, <1>2, <2>1
      <3>3. CaidoHasta(historial, q - 1, historial[q].node_id)
              <=> CaidoHasta(historial', q - 1, historial[q].node_id)
        BY <3>2, CaidoPrefijo
      <3> QED  BY <1>2, <2>1, <3>1, <3>3
    <2>2. CASE q = n0 + 1
      <3>1. q - 1 = n0 /\ q \in (n0 + 1)..n1 /\ q - n0 = 1
        BY <1>1, <2>2
      <3>2. historial'[q] = avisos[1] /\ avisos[1].node_id = quien /\ 1 \in DOMAIN avisos
        BY <1>3, <3>1
      <3> QED  BY <1>5, <1>7, <3>1, <3>2
    <2>3. CASE q \in (n0 + 2)..n1
      <3>1. q \in (n0 + 1)..n1 /\ q - n0 # 1
        BY <1>1, <2>3
      <3>2. historial'[q].tipo = "ANOMALIA"
        BY <1>3, <3>1
      <3> QED  BY <3>2
    <2>4. q \in 1..n0 \/ q = n0 + 1 \/ q \in (n0 + 2)..n1
      BY <1>1
    <2> QED  BY <2>1, <2>2, <2>3, <2>4
  <1>12. AlertasConocidas'
    <2> SUFFICES ASSUME NEW p \in 1..n1
                 PROVE  \E r \in Slots : nodes'[r].en_uso /\ nodes'[r].id = historial'[p].node_id
      BY <1>1 DEF AlertasConocidas, Coinciden
    <2>1. CASE p \in 1..n0
      <3>1. PICK r \in Slots : nodes[r].en_uso /\ nodes[r].id = historial[p].node_id
        BY <1>1, <2>1 DEF EstadoInv, AlertasConocidas, Coinciden
      <3>2. nodes'[r].en_uso /\ nodes'[r].id = nodes[r].id
        BY <1>4, <3>1
      <3> QED  BY <1>2, <2>1, <3>1, <3>2
    <2>2. CASE p \in (n0 + 1)..n1
      <3>1. p - n0 \in DOMAIN avisos /\ historial'[p] = avisos[p - n0]
        BY <1>1, <1>3, <2>2
      <3>2. historial'[p].node_id = quien
        BY <3>1
      <3>3. nodes'[s].en_uso /\ nodes'[s].id = quien
        BY <1>4
      <3> QED  BY <3>2, <3>3
    <2> QED  BY <1>1, <2>1, <2>2
  <1> QED  BY <1>10, <1>11, <1>12 DEF EstadoInv

(* The alerts of a datagram are of its node; only a node that had been down  *)
(* is announced, and first.                                                 *)
LEMMA AvisosDeForma ==
    ASSUME RegistryAssumption, NEW n \in Nodo, NEW a \in 0..MaxVars
    PROVE  LET avisos == AvisosDe(n, a) IN
           /\ \A k \in DOMAIN avisos : avisos[k].node_id = n.id
           /\ \A k \in DOMAIN avisos : k # 1 => avisos[k].tipo = "ANOMALIA"
           /\ n.online => \A k \in DOMAIN avisos : avisos[k].tipo = "ANOMALIA"
           /\ ~n.online => avisos # <<>> /\ avisos[1].tipo = "NODE_ONLINE"
  <1> DEFINE vuelta == IF n.online THEN <<>> ELSE <<Aviso("NODE_ONLINE", n.id)>>
             caben  == MaxAlertsPerMsg - Len(vuelta)
             tope   == IF a <= caben THEN a ELSE caben
             anoms  == [k \in 1..tope |-> Aviso("ANOMALIA", n.id)]
  <1>1. AvisosDe(n, a) = vuelta \o anoms
    BY DEF AvisosDe
  <1>2. \A k \in 1..tope : anoms[k].node_id = n.id /\ anoms[k].tipo = "ANOMALIA"
    BY DEF Aviso
  <1>3. CASE n.online
    <2>1. vuelta = <<>> /\ tope \in Nat
      BY <1>3, RegistryAssumption DEF RegistryAssumption
    <2> HIDE DEF tope, vuelta
    <2>2. anoms \in Seq({Aviso("ANOMALIA", n.id)}) /\ Len(anoms) = tope
      BY <2>1
    <2> HIDE DEF anoms
    <2>3. vuelta \o anoms = anoms /\ DOMAIN anoms = 1..tope
      BY <2>1, <2>2
    <2> QED  BY <1>1, <1>2, <1>3, <2>3
  <1>4. CASE ~n.online
    <2>1. vuelta = <<Aviso("NODE_ONLINE", n.id)>> /\ tope \in Nat
      BY <1>4, RegistryAssumption DEF RegistryAssumption
    <2> HIDE DEF tope, vuelta
    <2>2. anoms \in Seq({Aviso("ANOMALIA", n.id)}) /\ Len(anoms) = tope
      BY <2>1
    <2> HIDE DEF anoms
    <2>3. /\ DOMAIN (vuelta \o anoms) = 1..(tope + 1)
          /\ (vuelta \o anoms)[1] = Aviso("NODE_ONLINE", n.id)
          /\ \A k \in 2..(tope + 1) : (vuelta \o anoms)[k] = anoms[k - 1] /\ k - 1 \in 1..tope
      BY <2>1, <2>2
    <2>4. vuelta \o anoms # <<>>
      BY <2>1, <2>3
    <2>5. \A k \in 1..(tope + 1) : k = 1 \/ k \in 2..(tope + 1)
      BY <2>1
    <2>6. /\ Aviso("NODE_ONLINE", n.id).node_id = n.id
          /\ Aviso("NODE_ONLINE", n.id).tipo = "NODE_ONLINE"
      BY DEF Aviso
    <2>7. \A k \in DOMAIN (vuelta \o anoms) : (vuelta \o anoms)[k].node_id = n.id
      <3> TAKE k \in DOMAIN (vuelta \o anoms)
      <3>1. CASE k = 1
        BY <2>3, <2>6, <3>1
      <3>2. CASE k \in 2..(tope + 1)
        BY <1>2, <2>3, <3>2
      <3> QED  BY <2>3, <2>5, <3>1, <3>2
    <2>8. \A k \in DOMAIN (vuelta \o anoms) :
             k # 1 => (vuelta \o anoms)[k].tipo = "ANOMALIA"
      BY <1>2, <2>3, <2>5
    <2> HIDE DEF vuelta, anoms
    <2> QED  BY <1>1, <1>4, <2>3, <2>4, <2>6, <2>7, <2>8
  <1> QED  BY <1>3, <1>4

(* The ONLINE flag of a node and the alert log never disagree, and the log   *)
(* announces each fall and each return once, whichever of the monitor, a    *)
(* datagram or a REGISTER makes the transition.                             *)
THEOREM SiempreSegunAvisos ==
    ASSUME IdsCaben
    PROVE  Spec => []EstadoSegunAvisos
  <1>1. Init => EstadoInv
    BY DEF Init, NodoVacio, EstadoInv, EstadoCoincideConAvisos, AvisosAlternan, AlertasConocidas
  <1>2. TypeOK /\ IdUnico /\ EstadoInv /\ [Next]_vars => EstadoInv'
    <2> SUFFICES ASSUME TypeOK, IdUnico, EstadoInv, [Next]_vars PROVE EstadoInv'
      OBVIOUS
    <2>1. ASSUME NEW h \in Sessions, NEW id \in NodeId, RegisterNode(h, id) PROVE EstadoInv'
      <3>1. PICK s \in Slots : /\ EsDestino(s, id)
                               /\ nodes' = [nodes EXCEPT ![s] = NodoNuevo(id)]
                               /\ GuardarAlertas(h, AvisoDeRegistro(s, id))
        BY <2>1 DEF RegisterNode
      <3>2. /\ nodes[s].en_uso => nodes[s].id = id
            /\ nodes[s].en_uso <=> Coinciden(id) # {}
        BY <3>1 DEF EsDestino, EsPrimero, Coinciden, Libres
      <3>3. \A r \in Slots : r # s /\ nodes[r].en_uso => nodes[r].id # id
        BY <3>1 DEF EsDestino, EsPrimero, Coinciden, Libres, IdUnico
      <3>4. NodoNuevo(id).en_uso /\ NodoNuevo(id).id = id /\ NodoNuevo(id).online
        BY DEF NodoNuevo, IdsCaben
      <3>5. AvisoDeRegistro(s, id) \in Seq(Alerta)
        BY RegistryAssumption, AvisoDeRegistroTipo
      <3>6. historial' = historial \o AvisoDeRegistro(s, id)
        BY <3>1 DEF GuardarAlertas
      <3>7. CASE nodes[s].en_uso /\ ~nodes[s].online
        <4>1. AvisoDeRegistro(s, id) = <<Aviso("NODE_ONLINE", id)>>
          BY <3>2, <3>7 DEF AvisoDeRegistro, IdsCaben
        <4>2. /\ Aviso("NODE_ONLINE", id).node_id = id
              /\ Aviso("NODE_ONLINE", id).tipo = "NODE_ONLINE"
          BY DEF Aviso
        <4>3. Fieles(<<Aviso("NODE_ONLINE", id)>>, id, s, NodoNuevo(id))
          BY <3>2, <3>3, <3>4, <3>7, <4>2 DEF Fieles
        <4> QED  BY <3>1, <3>5, <3>6, <4>1, <4>3, AvisarConserva
      <3>8. CASE ~(nodes[s].en_uso /\ ~nodes[s].online)
        <4>1. AvisoDeRegistro(s, id) = <<>>
          BY <3>2, <3>8 DEF AvisoDeRegistro
        <4>2. Fieles(<<>>, id, s, NodoNuevo(id))
          BY <3>2, <3>3, <3>4, <3>8 DEF Fieles
        <4> QED  BY <3>1, <3>5, <3>6, <4>1, <4>2, AvisarConserva
      <3> QED  BY <3>7, <3>8
    <2>2. ASSUME NEW id \in NodeId, NEW seq \in 0..MaxSeq, NEW a \in 0..MaxVars,
                 RecordTelemetry(id, seq, a)
          PROVE  EstadoInv'
      <3>1. PICK s \in Slots : /\ EsPrimero(s, Coinciden(id))
                               /\ nodes' = [nodes EXCEPT ![s] = Recibe(@, seq)]
                               /\ GuardarAlertas("udp", AvisosDe(nodes[s], a))
        BY <2>2 DEF RecordTelemetry
      <3>2. nodes[s].en_uso /\ nodes[s].id = id /\ nodes[s] \in Nodo
        BY <3>1 DEF EsPrimero, Coinciden, TypeOK
      <3>3. \A r \in Slots : r # s /\ nodes[r].en_uso => nodes[r].id # id
        BY <3>2 DEF IdUnico
      <3>4. nodes' = [nodes EXCEPT ![s] = Recibe(nodes[s], seq)]
        BY <3>1 DEF TypeOK
      <3>5. /\ Recibe(nodes[s], seq).en_uso /\ Recibe(nodes[s], seq).id = id
            /\ Recibe(nodes[s], seq).online
        BY <3>2 DEF Recibe
      <3>6. AvisosDe(nodes[s], a) \in Seq(Alerta)
        BY <3>2, RegistryAssumption, AvisosDeTipo
      <3>7. historial' = historial \o AvisosDe(nodes[s], a)
        BY <3>1 DEF GuardarAlertas
      <3>8. LET avisos == AvisosDe(nodes[s], a) IN
            /\ \A k \in DOMAIN avisos : avisos[k].node_id = id
            /\ \A k \in DOMAIN avisos : k # 1 => avisos[k].tipo = "ANOMALIA"
            /\ nodes[s].online => \A k \in DOMAIN avisos : avisos[k].tipo = "ANOMALIA"
            /\ ~nodes[s].online => avisos # <<>> /\ avisos[1].tipo = "NODE_ONLINE"
        BY <3>2, RegistryAssumption, AvisosDeForma
      <3>9. Fieles(AvisosDe(nodes[s], a), id, s, Recibe(nodes[s], seq))
        BY <3>2, <3>3, <3>5, <3>8 DEF Fieles
      <3> QED  BY <3>4, <3>6, <3>7, <3>9, AvisarConserva
    <2>3. CASE MonitorRevisa
      <3> DEFINE s == monitor.i
                 caido == [nodes[s] EXCEPT !.online = FALSE]
                 avisos == <<Aviso("NODE_OFFLINE", nodes[s].id)>>
      <3>1. CASE Vencido(nodes[s], monitor.ahora)
        <4>1. s \in Slots
          BY <2>3, RegistryAssumption
             DEF TypeOK, MonitorRevisa, FinDelRecorrido, Slots, RegistryAssumption
        <4>2. nodes' = [nodes EXCEPT ![s].online = FALSE] /\ historial' = historial \o avisos
          BY <2>3, <3>1 DEF MonitorRevisa, GuardarAlertas
        <4>3. nodes[s] \in Nodo /\ nodes' = [nodes EXCEPT ![s] = caido]
          BY <4>1, <4>2 DEF TypeOK
        <4>4. nodes[s].en_uso /\ nodes[s].online
          BY <3>1 DEF Vencido
        <4>5. caido.en_uso /\ caido.id = nodes[s].id /\ ~caido.online
          BY <4>3, <4>4 DEF Nodo
        <4>6. Aviso("NODE_OFFLINE", nodes[s].id) \in Alerta
          BY <4>3 DEF Aviso, Alerta, Tipos, Nodo
        <4>7. /\ avisos \in Seq(Alerta) /\ DOMAIN avisos = {1} /\ avisos # <<>>
              /\ avisos[1].node_id = nodes[s].id /\ avisos[1].tipo = "NODE_OFFLINE"
          BY <4>6 DEF Aviso
        <4>8. \A r \in Slots : r # s /\ nodes[r].en_uso => nodes[r].id # nodes[s].id
          BY <4>1, <4>4 DEF IdUnico
        <4> HIDE DEF s, caido, avisos
        <4>9. Fieles(avisos, nodes[s].id, s, caido)
          BY <4>4, <4>5, <4>7, <4>8 DEF Fieles
        <4> QED  BY <4>1, <4>2, <4>3, <4>7, <4>9, AvisarConserva
      <3>2. CASE ~Vencido(nodes[s], monitor.ahora)
        BY <2>3, <3>2 DEF MonitorRevisa, EstadoInv, EstadoCoincideConAvisos, AvisosAlternan,
                          AlertasConocidas, Coinciden, CaidoHasta
      <3> QED  BY <3>1, <3>2
    <2>4. CASE UNCHANGED <<nodes, historial>>
      BY <2>4 DEF EstadoInv, EstadoCoincideConAvisos, AvisosAlternan, AlertasConocidas,
                  Coinciden, CaidoHasta
    <2> QED  BY <2>1, <2>2, <2>3, <2>4
             DEF Next, MonitorStep, Tick, RechazarDatagrama, MonitorDespierta, MonitorBloquea,
                 MonitorLibera, DifundirAlerta, registryVars, traceVars, vars
  <1>3. EstadoInv => EstadoSegunAvisos
    BY DEF EstadoInv, EstadoSegunAvisos
  <1>4. Spec => [](IdUnico /\ RegistradoEsConocido)
    BY SiempreUnSlotPorNodo, PTL DEF UnSlotPorNodo
  <1>5. QED  BY <1>1, <1>2, <1>3, <1>4, TypeCorrect, PTL DEF Spec

-----------------------------------------------------------------------------
(* The loss estimate of registry_record_telemetry is bounded from both      *)
(* sides, whatever the network does to the datagrams.                       *)

(* With m counted losses bounding the gaps of p..u from above, a datagram    *)
(* seq keeps m bounded after the update Recibe makes.                       *)
LEMMA HuecosAcotados ==
    ASSUME NEW p \in Nat, NEW u \in Nat, p <= u, NEW V, NEW m \in Nat, NEW seq \in Nat,
           Cardinality((p..u) \ V) <= m, m <= u - p
    PROVE  LET u2 == IF seq > u THEN seq ELSE u
               m2 == m + (IF seq > u + 1 THEN seq - u - 1 ELSE 0)
           IN  /\ Cardinality((p..u2) \ (V \cup {seq})) <= m2
               /\ m2 <= u2 - p
  <1> DEFINE Huecos == (p..u) \ V
             Salto  == (u + 1)..(seq - 1)
  <1>1. IsFiniteSet(Huecos) /\ Cardinality(Huecos) \in Nat
    <2>1. IsFiniteSet(p..u)
      BY FS_Interval
    <2>2. IsFiniteSet(Huecos)
      BY <2>1, FS_Difference
    <2> QED  BY <2>2, FS_CardinalityType
  <1>2. CASE seq <= u
    <2>1. (p..u) \ (V \cup {seq}) \subseteq Huecos
      OBVIOUS
    <2>2. /\ Cardinality((p..u) \ (V \cup {seq})) <= Cardinality(Huecos)
          /\ Cardinality((p..u) \ (V \cup {seq})) \in Nat
      BY <1>1, <2>1, FS_Subset, FS_CardinalityType
    <2>3. Cardinality((p..u) \ (V \cup {seq})) <= m
      BY <1>1, <2>2
    <2> QED  BY <1>2, <2>3
  <1>3. CASE seq > u
    <2>1. IsFiniteSet(Salto) /\ Cardinality(Salto) = seq - u - 1
      <3>1. seq - 1 \in Int /\ u + 1 \in Int
        OBVIOUS
      <3>2. IsFiniteSet(Salto)
            /\ Cardinality(Salto) = IF u + 1 > seq - 1 THEN 0 ELSE (seq - 1) - (u + 1) + 1
        BY <3>1, FS_Interval
      <3> QED  BY <1>3, <3>2
    <2>2. /\ IsFiniteSet(Huecos \cup Salto)
          /\ Cardinality(Huecos \cup Salto)
               = Cardinality(Huecos) + Cardinality(Salto) - Cardinality(Huecos \cap Salto)
      BY <1>1, <2>1, FS_Union
    <2>3. Cardinality(Huecos \cap Salto) \in Nat
      BY <1>1, FS_Intersection, FS_CardinalityType
    <2>4. (p..seq) \ (V \cup {seq}) \subseteq Huecos \cup Salto
      BY <1>3
    <2>5. /\ Cardinality((p..seq) \ (V \cup {seq})) <= Cardinality(Huecos \cup Salto)
          /\ Cardinality((p..seq) \ (V \cup {seq})) \in Nat
      BY <2>2, <2>4, FS_Subset, FS_CardinalityType
    <2>6. Cardinality((p..seq) \ (V \cup {seq})) <= m + (seq - u - 1)
      <3> HIDE DEF Huecos, Salto
      <3> QED  BY <1>1, <2>1, <2>2, <2>3, <2>5, <1>3 DEF Huecos
    <2>7. (IF seq > u + 1 THEN seq - u - 1 ELSE 0) = seq - u - 1
      BY <1>3
    <2> QED  BY <1>3, <2>6, <2>7
  <1> QED  BY <1>2, <1>3

(* PerdidosAcotan, with what the slot holds before its first datagram. *)
PerdidasInv ==
    \A s \in Slots :
        /\ primero[s] # -1 => nodes[s].en_uso /\ primero[s] <= nodes[s].ultimo_seq
        /\ nodes[s].en_uso /\ primero[s] = -1
              => nodes[s].ultimo_seq = -1 /\ nodes[s].perdidos_est = 0
        /\ primero[s] # -1 =>
              /\ Cardinality((primero[s]..nodes[s].ultimo_seq) \ vistos[s])
                    <= nodes[s].perdidos_est
              /\ nodes[s].perdidos_est <= nodes[s].ultimo_seq - primero[s]

(* However datagrams are lost, repeated or reordered, perdidos_est is at     *)
(* least the number that never arrived and at most the span of the SEQs.    *)
THEOREM EstimacionAcotada == Spec => []PerdidosAcotan
  <1>1. Init => PerdidasInv
    BY DEF Init, NodoVacio, PerdidasInv
  <1>2. TypeOK /\ PerdidasInv /\ [Next]_vars => PerdidasInv'
    <2> SUFFICES ASSUME TypeOK, PerdidasInv, [Next]_vars PROVE PerdidasInv'
      OBVIOUS
    <2>1. ASSUME NEW h \in Sessions, NEW id \in NodeId, RegisterNode(h, id) PROVE PerdidasInv'
      <3>1. PICK s \in Slots : /\ nodes' = [nodes EXCEPT ![s] = NodoNuevo(id)]
                               /\ vistos' = [vistos EXCEPT ![s] = {}]
                               /\ primero' = [primero EXCEPT ![s] = -1]
        BY <2>1 DEF RegisterNode
      <3>2. /\ nodes'[s] = NodoNuevo(id) /\ primero'[s] = -1
            /\ \A r \in Slots : r # s => /\ nodes'[r] = nodes[r] /\ primero'[r] = primero[r]
                                         /\ vistos'[r] = vistos[r]
        BY <3>1 DEF TypeOK
      <3>3. nodes'[s].ultimo_seq = -1 /\ nodes'[s].perdidos_est = 0
        BY <3>2 DEF NodoNuevo
      <3> QED  BY <3>2, <3>3 DEF PerdidasInv
    <2>2. ASSUME NEW id \in NodeId, NEW seq \in 0..MaxSeq, NEW a \in 0..MaxVars,
                 RecordTelemetry(id, seq, a)
          PROVE  PerdidasInv'
      <3>1. PICK s \in Slots :
              /\ EsPrimero(s, Coinciden(id))
              /\ nodes' = [nodes EXCEPT ![s] = Recibe(@, seq)]
              /\ vistos' = [vistos EXCEPT ![s] = @ \cup {seq}]
              /\ primero' = [primero EXCEPT ![s] = IF @ = -1 THEN seq ELSE @]
        BY <2>2 DEF RecordTelemetry
      <3> DEFINE n == nodes[s]
                 u == n.ultimo_seq
                 m == n.perdidos_est
                 p == primero[s]
      <3>2. /\ nodes'[s] = Recibe(n, seq) /\ primero'[s] = (IF p = -1 THEN seq ELSE p)
            /\ vistos'[s] = vistos[s] \cup {seq}
            /\ \A r \in Slots : r # s => /\ nodes'[r] = nodes[r] /\ primero'[r] = primero[r]
                                         /\ vistos'[r] = vistos[r]
        BY <3>1 DEF TypeOK
      <3>3. /\ n.en_uso /\ u \in Nat \cup {-1} /\ m \in Nat /\ p \in Nat \cup {-1}
            /\ seq \in Nat
        BY <3>1 DEF TypeOK, Nodo, EsPrimero, Coinciden
      <3>4. /\ nodes'[s].en_uso = n.en_uso
            /\ nodes'[s].ultimo_seq = (IF seq > u THEN seq ELSE u)
            /\ nodes'[s].perdidos_est
                 = m + (IF u >= 0 /\ seq > u + 1 THEN seq - u - 1 ELSE 0)
        BY <3>2 DEF Recibe, Perdidos
      <3> DEFINE Bien == /\ nodes'[s].en_uso /\ primero'[s] # -1
                         /\ primero'[s] <= nodes'[s].ultimo_seq
                         /\ Cardinality((primero'[s]..nodes'[s].ultimo_seq) \ vistos'[s])
                               <= nodes'[s].perdidos_est
                         /\ nodes'[s].perdidos_est <= nodes'[s].ultimo_seq - primero'[s]
      <3>5. ASSUME p = -1 PROVE Bien
        <4>1. u = -1 /\ m = 0
          BY <3>3, <3>5 DEF PerdidasInv
        <4>2. /\ primero'[s] = seq /\ nodes'[s].ultimo_seq = seq /\ nodes'[s].perdidos_est = 0
              /\ nodes'[s].en_uso
          BY <3>2, <3>3, <3>4, <3>5, <4>1
        <4>3. (seq..seq) \ (vistos[s] \cup {seq}) = {}
          BY <3>3
        <4>4. Cardinality((primero'[s]..nodes'[s].ultimo_seq) \ vistos'[s]) = 0
          BY <3>2, <4>2, <4>3, FS_EmptySet
        <4> QED  BY <3>3, <4>2, <4>4
      <3>6. ASSUME p # -1 PROVE Bien
        <4>1. /\ p <= u /\ Cardinality((p..u) \ vistos[s]) <= m /\ m <= u - p
          BY <3>6 DEF PerdidasInv
        <4>2. p \in Nat /\ u \in Nat
          BY <3>3, <3>6, <4>1
        <4> DEFINE u2 == IF seq > u THEN seq ELSE u
                   m2 == m + (IF seq > u + 1 THEN seq - u - 1 ELSE 0)
        <4> HIDE DEF p, u, m, n
        <4>3. /\ Cardinality((p..u2) \ (vistos[s] \cup {seq})) <= m2
              /\ m2 <= u2 - p
          BY <3>3, <4>1, <4>2, HuecosAcotados
        <4>4. /\ primero'[s] = p
              /\ nodes'[s].ultimo_seq = u2
              /\ nodes'[s].perdidos_est = m2
              /\ vistos'[s] = vistos[s] \cup {seq}
          BY <3>2, <3>4, <3>6, <4>2
        <4>5. p # -1 /\ p <= u2
          BY <3>3, <4>1, <4>2
        <4>6. nodes'[s].en_uso
          BY <3>3, <3>4
        <4> HIDE DEF u2, m2
        <4> QED  BY <4>3, <4>4, <4>5, <4>6
      <3>7. Bien
        BY <3>5, <3>6
      <3> HIDE DEF Bien
      <3>8. \A r \in Slots : r # s =>
              /\ nodes'[r] = nodes[r] /\ primero'[r] = primero[r] /\ vistos'[r] = vistos[r]
        BY <3>2
      <3> QED  BY <3>7, <3>8 DEF PerdidasInv, Bien
    <2>3. CASE MonitorRevisa
      <3>1. /\ vistos' = vistos /\ primero' = primero
            /\ \A r \in Slots : /\ nodes'[r].en_uso = nodes[r].en_uso
                                /\ nodes'[r].ultimo_seq = nodes[r].ultimo_seq
                                /\ nodes'[r].perdidos_est = nodes[r].perdidos_est
        <4>1. CASE Vencido(nodes[monitor.i], monitor.ahora)
          <5>1. nodes' = [nodes EXCEPT ![monitor.i].online = FALSE]
            BY <2>3, <4>1 DEF MonitorRevisa
          <5> QED  BY <2>3, <5>1 DEF MonitorRevisa, TypeOK, Nodo, traceVars
        <4>2. CASE ~Vencido(nodes[monitor.i], monitor.ahora)
          BY <2>3, <4>2 DEF MonitorRevisa, traceVars
        <4> QED  BY <4>1, <4>2
      <3> QED  BY <3>1 DEF PerdidasInv
    <2>4. CASE UNCHANGED <<nodes, vistos, primero>>
      BY <2>4 DEF PerdidasInv
    <2> QED  BY <2>1, <2>2, <2>3, <2>4
             DEF Next, MonitorStep, Tick, RechazarDatagrama, MonitorDespierta, MonitorBloquea,
                 MonitorLibera, DifundirAlerta, registryVars, traceVars, vars
  <1>3. PerdidasInv => PerdidosAcotan
    BY DEF PerdidasInv, PerdidosAcotan
  <1>4. QED  BY <1>1, <1>2, <1>3, TypeCorrect, PTL DEF Spec

-----------------------------------------------------------------------------
(* A slot in use is of a node. *)
IdsEnUso == \A s \in Slots : nodes[s].en_uso => nodes[s].id \in NodeId

LEMMA SiempreIdsEnUso == Spec => []IdsEnUso
  <1>1. Init => IdsEnUso
    BY DEF Init, NodoVacio, IdsEnUso
  <1>2. TypeOK /\ IdsEnUso /\ [Next]_vars => IdsEnUso'
    <2> SUFFICES ASSUME TypeOK, IdsEnUso, [Next]_vars PROVE IdsEnUso'
      OBVIOUS
    <2>1. ASSUME NEW h \in Sessions, NEW id \in NodeId, RegisterNode(h, id) PROVE IdsEnUso'
      <3>1. PICK s \in Slots : nodes' = [nodes EXCEPT ![s] = NodoNuevo(id)]
        BY <2>1 DEF RegisterNode
      <3>2. NodoNuevo(id).id \in NodeId
        BY RegistryAssumption DEF NodoNuevo, RegistryAssumption
      <3> QED  BY <3>1, <3>2 DEF IdsEnUso, TypeOK
    <2>2. ASSUME NEW id \in NodeId, NEW seq \in 0..MaxSeq, NEW a \in 0..MaxVars,
                 RecordTelemetry(id, seq, a)
          PROVE  IdsEnUso'
      <3>1. PICK s \in Slots : nodes' = [nodes EXCEPT ![s] = Recibe(@, seq)]
        BY <2>2 DEF RecordTelemetry
      <3>2. nodes' = [nodes EXCEPT ![s] = Recibe(nodes[s], seq)]
        BY <3>1 DEF TypeOK
      <3>3. /\ Recibe(nodes[s], seq).id = nodes[s].id
            /\ Recibe(nodes[s], seq).en_uso = nodes[s].en_uso
        BY DEF Recibe
      <3> QED  BY <3>2, <3>3 DEF IdsEnUso, TypeOK
    <2>3. CASE MonitorRevisa
      <3>1. nodes' = nodes \/ nodes' = [nodes EXCEPT ![monitor.i].online = FALSE]
        BY <2>3 DEF MonitorRevisa
      <3>2. CASE nodes' = nodes
        BY <3>2 DEF IdsEnUso
      <3>3. CASE nodes' = [nodes EXCEPT ![monitor.i].online = FALSE]
        <4>1. /\ nodes[monitor.i] \in Nodo
              /\ nodes' = [nodes EXCEPT ![monitor.i] = [nodes[monitor.i] EXCEPT !.online = FALSE]]
          BY <2>3, <3>3, RegistryAssumption
             DEF TypeOK, MonitorRevisa, FinDelRecorrido, Slots, RegistryAssumption
        <4> DEFINE caido == [nodes[monitor.i] EXCEPT !.online = FALSE]
        <4>2. caido.en_uso = nodes[monitor.i].en_uso /\ caido.id = nodes[monitor.i].id
          BY <4>1 DEF Nodo
        <4> HIDE DEF caido
        <4>3. nodes' = [nodes EXCEPT ![monitor.i] = caido]
          BY <4>1 DEF caido
        <4> QED  BY <4>2, <4>3 DEF IdsEnUso, TypeOK
      <3> QED  BY <3>1, <3>2, <3>3
    <2>4. CASE UNCHANGED nodes
      BY <2>4 DEF IdsEnUso
    <2> QED  BY <2>1, <2>2, <2>3, <2>4
             DEF Next, MonitorStep, Tick, RechazarDatagrama, MonitorDespierta, MonitorBloquea,
                 MonitorLibera, DifundirAlerta, registryVars, vars
  <1>3. QED  BY <1>1, <1>2, TypeCorrect, PTL DEF Spec

(* What an operator sees of a node is what its only slot says. *)
LEMMA UnCandidato ==
    ASSUME IdUnico, NEW s \in Slots, NEW id, nodes[s].en_uso, nodes[s].id = id
    PROVE  /\ Coinciden(id) = {s}
           /\ Estado(id) = IF nodes[s].online THEN "arriba" ELSE "abajo"
           /\ Contacto(id) = nodes[s].ultima_medicion
  <1>1. Coinciden(id) = {s}
    BY DEF Coinciden, IdUnico
  <1>2. (CHOOSE r \in {s} : TRUE) = s
    OBVIOUS
  <1> QED  BY <1>1, <1>2 DEF Estado, Contacto

(* When a step rewrites the slot of node id, or gives it one, the others     *)
(* look the same.                                                           *)
LEMMA SoloUnNodo ==
    ASSUME TypeOK, IdUnico', NEW s \in Slots, NEW id \in NodeId, NEW n,
           nodes' = [nodes EXCEPT ![s] = n], n.en_uso, n.id = id,
           nodes[s].en_uso => nodes[s].id = id
    PROVE  /\ Estado(id)' = IF n.online THEN "arriba" ELSE "abajo"
           /\ Contacto(id)' = n.ultima_medicion
           /\ \A g \in NodeId : g # id => Estado(g)' = Estado(g) /\ Contacto(g)' = Contacto(g)
  <1>1. nodes'[s] = n /\ \A r \in Slots : r # s => nodes'[r] = nodes[r]
    BY DEF TypeOK
  <1>2. /\ Estado(id)' = IF n.online THEN "arriba" ELSE "abajo"
        /\ Contacto(id)' = n.ultima_medicion
    <2>1. Coinciden(id)' = {s}
      BY <1>1 DEF Coinciden, IdUnico
    <2>2. (CHOOSE r \in {s} : TRUE) = s
      OBVIOUS
    <2> QED  BY <1>1, <2>1, <2>2 DEF Estado, Contacto
  <1>3. ASSUME NEW g \in NodeId, g # id
        PROVE  Estado(g)' = Estado(g) /\ Contacto(g)' = Contacto(g)
    <2>1. Coinciden(g)' = Coinciden(g) /\ s \notin Coinciden(g)
      BY <1>1, <1>3 DEF Coinciden
    <2>2. \A r \in Coinciden(g) : nodes'[r] = nodes[r]
      BY <1>1, <2>1 DEF Coinciden
    <2>3. Estado(g)' = Estado(g)
      BY <2>1, <2>2 DEF Estado
    <2>4. Coinciden(g) # {} => (CHOOSE r \in Coinciden(g) : TRUE) \in Coinciden(g)
      OBVIOUS
    <2>5. Contacto(g)' = Contacto(g)
      BY <2>1, <2>2, <2>4 DEF Contacto
    <2> QED  BY <2>3, <2>5
  <1> QED  BY <1>2, <1>3

(* The three steps that move a node. *)
LEMMA RegistroContacta ==
    ASSUME IdsCaben, TypeOK, IdUnico, IdUnico', NEW h \in Sessions, NEW id \in NodeId,
           RegisterNode(h, id)
    PROVE  Disponibilidad!Contacta(id, 0)
  <1>1. PICK s \in Slots : /\ EsDestino(s, id)
                           /\ nodes' = [nodes EXCEPT ![s] = NodoNuevo(id)]
                           /\ GuardarAlertas(h, AvisoDeRegistro(s, id))
    BY DEF RegisterNode
  <1>2. /\ nodes[s].en_uso => nodes[s].id = id
        /\ nodes[s].en_uso <=> Coinciden(id) # {}
    BY <1>1 DEF EsDestino, EsPrimero, Coinciden, Libres
  <1>3. NodoNuevo(id).en_uso /\ NodoNuevo(id).id = id /\ NodoNuevo(id).online
        /\ NodoNuevo(id).ultima_medicion = now
    BY DEF NodoNuevo, IdsCaben
  <1>4. /\ [g \in NodeId |-> Estado(g)]' = [[g \in NodeId |-> Estado(g)] EXCEPT ![id] = "arriba"]
        /\ [g \in NodeId |-> Contacto(g)]' = [[g \in NodeId |-> Contacto(g)] EXCEPT ![id] = now]
    <2>1. /\ Estado(id)' = "arriba" /\ Contacto(id)' = now
          /\ \A g \in NodeId : g # id => Estado(g)' = Estado(g) /\ Contacto(g)' = Contacto(g)
      BY <1>1, <1>2, <1>3, SoloUnNodo
    <2> QED  BY <2>1
  <1>5. Disponibilidad!Vuelta(id) = AvisoDeRegistro(s, id)
    <2>1. CASE Coinciden(id) = {}
      <3>1. Estado(id) = "desconocido"
        BY <2>1 DEF Estado
      <3> QED  BY <2>1, <3>1 DEF Disponibilidad!Vuelta, AvisoDeRegistro
    <2>2. CASE Coinciden(id) # {}
      <3>1. Estado(id) = IF nodes[s].online THEN "arriba" ELSE "abajo"
        BY <1>2, <2>2, UnCandidato
      <3> QED  BY <2>2, <3>1
               DEF Disponibilidad!Vuelta, Disponibilidad!Aviso, AvisoDeRegistro, Aviso, IdsCaben
    <2> QED  BY <2>1, <2>2
  <1>6. AvisoDeRegistro(s, id) \in Seq(Alerta) /\ Len(AvisoDeRegistro(s, id)) <= MaxAlertsPerMsg
    <2>1. AvisoDeRegistro(s, id) = <<>> \/ AvisoDeRegistro(s, id) = <<Aviso("NODE_ONLINE", Recorte[id])>>
      BY DEF AvisoDeRegistro
    <2>2. Len(AvisoDeRegistro(s, id)) \in {0, 1}
      BY <2>1
    <2>3. PICK l \in {0, 1} : Len(AvisoDeRegistro(s, id)) = l
      BY <2>2
    <2>4. MaxAlertsPerMsg \in Nat \ {0}
      BY RegistryAssumption DEF RegistryAssumption
    <2>5. l <= MaxAlertsPerMsg
      BY <2>4
    <2>6. AvisoDeRegistro(s, id) \in Seq(Alerta)
      BY AvisoDeRegistroTipo, RegistryAssumption
    <2> QED  BY <2>3, <2>5, <2>6
  <1>7. AvisoDeRegistro(s, id) \o [k \in 1..0 |-> Disponibilidad!Aviso("ANOMALIA", id)]
           = AvisoDeRegistro(s, id)
    <2>1. [k \in 1..0 |-> Disponibilidad!Aviso("ANOMALIA", id)] = <<>>
      OBVIOUS
    <2> QED  BY <1>6, <2>1
  <1>8. historial' = historial \o (Disponibilidad!Vuelta(id)
                        \o [k \in 1..0 |-> Disponibilidad!Aviso("ANOMALIA", id)])
    BY <1>1, <1>5, <1>7 DEF GuardarAlertas
  <1>9. Len(Disponibilidad!Vuelta(id)) + 0 <= MaxAlertsPerMsg
    <2>1. Len(AvisoDeRegistro(s, id)) \in Nat
      BY <1>6
    <2> QED  BY <1>5, <1>6, <2>1
  <1>10. now' = now /\ Publicados' = Publicados
    BY DEF RegisterNode, Publicados
  <1> QED  BY <1>4, <1>8, <1>9, <1>10 DEF Disponibilidad!Contacta

LEMMA TelemetriaContacta ==
    ASSUME TypeOK, IdUnico, IdUnico', NEW id \in NodeId, NEW seq \in 0..MaxSeq,
           NEW a \in 0..MaxVars, RecordTelemetry(id, seq, a)
    PROVE  \E n \in 0..MaxAlertsPerMsg : Disponibilidad!Contacta(id, n)
  <1>1. PICK s \in Slots : /\ EsPrimero(s, Coinciden(id))
                           /\ nodes' = [nodes EXCEPT ![s] = Recibe(@, seq)]
                           /\ GuardarAlertas("udp", AvisosDe(nodes[s], a))
    BY DEF RecordTelemetry
  <1>2. nodes[s].en_uso /\ nodes[s].id = id
    BY <1>1 DEF EsPrimero, Coinciden
  <1>3. nodes' = [nodes EXCEPT ![s] = Recibe(nodes[s], seq)]
    BY <1>1 DEF TypeOK
  <1>4. /\ Recibe(nodes[s], seq).en_uso /\ Recibe(nodes[s], seq).id = id
        /\ Recibe(nodes[s], seq).online /\ Recibe(nodes[s], seq).ultima_medicion = now
    BY <1>2 DEF Recibe
  <1>5. /\ [g \in NodeId |-> Estado(g)]' = [[g \in NodeId |-> Estado(g)] EXCEPT ![id] = "arriba"]
        /\ [g \in NodeId |-> Contacto(g)]' = [[g \in NodeId |-> Contacto(g)] EXCEPT ![id] = now]
    <2>1. /\ Estado(id)' = "arriba" /\ Contacto(id)' = now
          /\ \A g \in NodeId : g # id => Estado(g)' = Estado(g) /\ Contacto(g)' = Contacto(g)
      BY <1>2, <1>3, <1>4, SoloUnNodo
    <2> QED  BY <2>1
  <1>6. Estado(id) = IF nodes[s].online THEN "arriba" ELSE "abajo"
    BY <1>2, UnCandidato
  <1> DEFINE vuelta == IF nodes[s].online THEN <<>> ELSE <<Aviso("NODE_ONLINE", nodes[s].id)>>
             caben  == MaxAlertsPerMsg - Len(vuelta)
             n      == IF a <= caben THEN a ELSE caben
  <1>7. Disponibilidad!Vuelta(id) = vuelta
    BY <1>2, <1>6 DEF Disponibilidad!Vuelta, Disponibilidad!Aviso, Aviso
  <1>8. AvisosDe(nodes[s], a)
           = vuelta \o [k \in 1..n |-> Disponibilidad!Aviso("ANOMALIA", id)]
    BY <1>2 DEF AvisosDe, Disponibilidad!Aviso, Aviso
  <1>9. Len(vuelta) \in {0, 1}
    OBVIOUS
  <1> HIDE DEF vuelta
  <1>10. n \in 0..MaxAlertsPerMsg /\ Len(vuelta) + n <= MaxAlertsPerMsg
    <2>1. PICK l \in {0, 1} : Len(vuelta) = l
      BY <1>9
    <2>2. MaxAlertsPerMsg \in Nat \ {0} /\ a \in Nat
      BY RegistryAssumption DEF RegistryAssumption
    <2>3. n = IF a <= MaxAlertsPerMsg - l THEN a ELSE MaxAlertsPerMsg - l
      BY <2>1
    <2> HIDE DEF n
    <2> QED  BY <2>1, <2>2, <2>3
  <1> HIDE DEF n
  <1>11. historial' = historial \o (Disponibilidad!Vuelta(id)
                        \o [k \in 1..n |-> Disponibilidad!Aviso("ANOMALIA", id)])
    BY <1>1, <1>7, <1>8 DEF GuardarAlertas
  <1>12. now' = now /\ Publicados' = Publicados
    BY DEF RecordTelemetry, Publicados
  <1>13. Estado(id) # "desconocido"
    BY <1>6
  <1>14. Disponibilidad!Contacta(id, n)
    BY <1>5, <1>7, <1>10, <1>11, <1>12, <1>13 DEF Disponibilidad!Contacta
  <1> QED  BY <1>10, <1>14

LEMMA RevisaCae ==
    ASSUME TypeOK, IdUnico, IdUnico', IdsEnUso, MonitorRevisa,
           Vencido(nodes[monitor.i], monitor.ahora)
    PROVE  \E id \in NodeId : Disponibilidad!CaeNodo(id)
  <1> DEFINE s == monitor.i
             id == nodes[s].id
             caido == [nodes[s] EXCEPT !.online = FALSE]
  <1>1. s \in Slots
    BY RegistryAssumption DEF TypeOK, MonitorRevisa, FinDelRecorrido, Slots, RegistryAssumption
  <1>2. nodes' = [nodes EXCEPT ![s].online = FALSE]
        /\ historial' = historial \o <<Aviso("NODE_OFFLINE", id)>>
    BY DEF MonitorRevisa, GuardarAlertas
  <1>3. nodes[s] \in Nodo /\ nodes' = [nodes EXCEPT ![s] = caido]
    BY <1>1, <1>2 DEF TypeOK
  <1>4. nodes[s].en_uso /\ nodes[s].online /\ monitor.ahora - nodes[s].ultima_medicion > NodeTimeout
    BY DEF Vencido
  <1>5. caido.en_uso /\ caido.id = id /\ ~caido.online
        /\ caido.ultima_medicion = nodes[s].ultima_medicion
    BY <1>3, <1>4 DEF Nodo
  <1>6. id \in NodeId
    BY <1>1, <1>4 DEF IdsEnUso
  <1>7. Estado(id) = "arriba" /\ Contacto(id) = nodes[s].ultima_medicion
    BY <1>1, <1>4, UnCandidato
  <1>8. now - Contacto(id) > NodeTimeout
    <2>1. /\ monitor.ahora \in Nat /\ monitor.ahora <= now /\ now \in Nat
          /\ nodes[s].ultima_medicion \in Nat
      BY <1>3 DEF TypeOK, Nodo
    <2>2. NodeTimeout \in Nat
      BY RegistryAssumption DEF RegistryAssumption
    <2> QED  BY <1>4, <1>7, <2>1, <2>2
  <1>9. nodes[s].id = id
    OBVIOUS
  <1>10. caido \in Nodo
    BY <1>3 DEF Nodo
  <1> HIDE DEF s, id, caido
  <1>11. /\ [g \in NodeId |-> Estado(g)]' = [[g \in NodeId |-> Estado(g)] EXCEPT ![id] = "abajo"]
        /\ [g \in NodeId |-> Contacto(g)]'
             = [[g \in NodeId |-> Contacto(g)] EXCEPT ![id] = Contacto(id)]
    <2>1. PICK r \in Slots, g0 \in NodeId, c \in Nodo : r = s /\ g0 = id /\ c = caido
      BY <1>1, <1>6, <1>10
    <2>2. /\ nodes' = [nodes EXCEPT ![r] = c] /\ c.en_uso /\ c.id = g0 /\ ~c.online
          /\ nodes[r].en_uso => nodes[r].id = g0
      BY <1>9, <1>3, <1>5, <2>1
    <2>3. /\ Estado(g0)' = "abajo" /\ Contacto(g0)' = c.ultima_medicion
          /\ \A g \in NodeId : g # g0 => Estado(g)' = Estado(g) /\ Contacto(g)' = Contacto(g)
      BY <2>2, SoloUnNodo
    <2> QED  BY <1>5, <1>7, <2>1, <2>3
  <1>12. [g \in NodeId |-> Contacto(g)]' = [g \in NodeId |-> Contacto(g)]
    BY <1>6, <1>11
  <1>13. historial' = Append(historial, Disponibilidad!Aviso("NODE_OFFLINE", id))
    <2>1. Aviso("NODE_OFFLINE", id) \in Alerta
      BY <1>6 DEF Aviso, Alerta, Tipos
    <2>2. Aviso("NODE_OFFLINE", id) = Disponibilidad!Aviso("NODE_OFFLINE", id)
      BY DEF Aviso, Disponibilidad!Aviso
    <2> QED  BY <1>2, <2>1, <2>2 DEF TypeOK
  <1>14. now' = now /\ Publicados' = Publicados
    BY DEF MonitorRevisa, Publicados
  <1>15. Disponibilidad!CaeNodo(id)
    BY <1>6, <1>7, <1>8, <1>11, <1>12, <1>13, <1>14 DEF Disponibilidad!CaeNodo
  <1> QED  BY <1>6, <1>15

(* A push publishes an alert of the log that had not been. *)
LEMMA DifundirPublica ==
    ASSUME TypeOK, CadaAlertaUnaVez, NEW h \in Hilos, DifundirAlerta(h)
    PROVE  Disponibilidad!Publica
  <1>1. PICK a \in pendientes[h] : entregadas' = Append(entregadas, a)
    BY DEF DifundirAlerta
  <1>2. a \in 1..Len(historial) /\ DOMAIN historial = 1..Len(historial)
    BY <1>1 DEF TypeOK
  <1>3. a \notin Publicados
    BY <1>1 DEF CadaAlertaUnaVez, Publicados
  <1>4. Publicados' = Publicados \cup {a}
    <2>1. Len(entregadas) \in Nat /\ DOMAIN entregadas = 1..Len(entregadas)
      BY DEF TypeOK
    <2>2. /\ DOMAIN entregadas' = 1..(Len(entregadas) + 1)
          /\ entregadas'[Len(entregadas) + 1] = a
          /\ \A k \in 1..Len(entregadas) : entregadas'[k] = entregadas[k]
      BY <1>1, <2>1 DEF TypeOK
    <2> QED  BY <2>1, <2>2 DEF Publicados
  <1>5. UNCHANGED <<now, nodes, historial>>
    BY DEF DifundirAlerta, registryVars
  <1>6. [g \in NodeId |-> Estado(g)]' = [g \in NodeId |-> Estado(g)]
        /\ [g \in NodeId |-> Contacto(g)]' = [g \in NodeId |-> Contacto(g)]
    BY <1>5 DEF Estado, Contacto, Coinciden
  <1> QED  BY <1>2, <1>3, <1>4, <1>5, <1>6 DEF Disponibilidad!Publica

LEMMA PasoDisponibilidad ==
    ASSUME IdsCaben, TypeOK, IdUnico, IdUnico', IdsEnUso, CadaAlertaUnaVez, [Next]_vars
    PROVE  [Disponibilidad!Next]_(Disponibilidad!disponibilidadVars)
  <1>1. ASSUME NEW h \in Sessions, NEW id \in NodeId, RegisterNode(h, id)
        PROVE  Disponibilidad!Next
    <2>1. 0 \in 0..MaxAlertsPerMsg
      BY RegistryAssumption DEF RegistryAssumption
    <2> QED  BY <1>1, <2>1, RegistroContacta DEF Disponibilidad!Next
  <1>2. ASSUME NEW id \in NodeId, NEW seq \in 0..MaxSeq, NEW a \in 0..MaxVars,
               RecordTelemetry(id, seq, a)
        PROVE  Disponibilidad!Next
    BY <1>2, TelemetriaContacta DEF Disponibilidad!Next
  <1>3. ASSUME NEW h \in Hilos, DifundirAlerta(h) PROVE Disponibilidad!Next
    BY <1>3, DifundirPublica DEF Disponibilidad!Next
  <1>4. ASSUME UNCHANGED <<nodes, historial, entregadas>>
        PROVE  UNCHANGED <<[g \in NodeId |-> Estado(g)], [g \in NodeId |-> Contacto(g)],
                           historial, Publicados>>
    BY <1>4 DEF Estado, Contacto, Coinciden, Publicados
  <1>5. CASE Tick
    <2>1. UNCHANGED <<nodes, historial, entregadas>> /\ now' = now + 1
      BY <1>5 DEF Tick, registryVars
    <2> QED  BY <1>4, <2>1 DEF Disponibilidad!Next, Disponibilidad!Pasa
  <1>6. CASE MonitorRevisa
    <2>1. CASE Vencido(nodes[monitor.i], monitor.ahora)
      BY <1>6, <2>1, RevisaCae DEF Disponibilidad!Next
    <2>2. CASE ~Vencido(nodes[monitor.i], monitor.ahora)
      <3>1. UNCHANGED <<nodes, historial, entregadas, now>>
        BY <1>6, <2>2 DEF MonitorRevisa
      <3> QED  BY <1>4, <3>1 DEF Disponibilidad!disponibilidadVars
    <2> QED  BY <2>1, <2>2
  <1>7. CASE UNCHANGED <<nodes, historial, entregadas, now>>
    BY <1>4, <1>7 DEF Disponibilidad!disponibilidadVars
  <1> QED  BY <1>1, <1>2, <1>3, <1>5, <1>6, <1>7
           DEF Next, MonitorStep, RechazarDatagrama, MonitorDespierta, MonitorBloquea,
               MonitorLibera, registryVars, vars

(* The registry implements NodeAvailability, for any nodes whose identifiers *)
(* fit: whatever way sessions, datagrams and the monitor's scan interleave, *)
(* each of their steps is a step of the promise or changes nothing in it.   *)
THEOREM RegistroCumpleDisponibilidad ==
    ASSUME IdsCaben
    PROVE  Spec => CumpleDisponibilidad
  <1>1. Init => Disponibilidad!Init
    <2> SUFFICES ASSUME Init PROVE Disponibilidad!Init
      OBVIOUS
    <2>1. \A id \in NodeId : Coinciden(id) = {}
      BY DEF Init, NodoVacio, Coinciden
    <2>2. \A id \in NodeId : Estado(id) = "desconocido" /\ Contacto(id) = 0
      BY <2>1 DEF Estado, Contacto
    <2>3. Publicados = {} /\ now = 0 /\ historial = <<>>
      BY DEF Init, Publicados
    <2> QED  BY <2>2, <2>3 DEF Disponibilidad!Init
  <1>2. TypeOK /\ IdUnico /\ IdUnico' /\ IdsEnUso /\ CadaAlertaUnaVez /\ [Next]_vars
           => [Disponibilidad!Next]_(Disponibilidad!disponibilidadVars)
    BY PasoDisponibilidad
  <1>3. Spec => []IdUnico
    BY SiempreUnSlotPorNodo, PTL DEF UnSlotPorNodo
  <1> QED  BY <1>1, <1>2, <1>3, TypeCorrect, SiempreIdsEnUso, CadaAlertaSeEmpujaUnaVez, PTL
           DEF Spec, CumpleDisponibilidad, Disponibilidad!Spec
=============================================================================
