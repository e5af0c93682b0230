-------------------------- MODULE AnomalyDetection --------------------------
(***************************************************************************)
(* What one datagram does to the variables of its node and which alerts it  *)
(* gives rise to: the threshold table of server/registry.c (buscar_umbral,  *)
(* registry_set_threshold), the variables of each node and the loop of      *)
(* registry_record_telemetry over the pairs of the datagram.                *)
(*                                                                          *)
(* Every section runs under g_mutex.  The loop is one action per pair, with *)
(* the mutex held, between RecordTelemetry and FinTelemetria.               *)
(* NodeRegistry's RecordTelemetry abstracts this loop: its `anomalas` is    *)
(* how many pairs of the datagram are outside their threshold.              *)
(***************************************************************************)
EXTENDS Integers, Sequences, FiniteSets

CONSTANTS
    NodeId,           \* registered identifiers
    Todos,            \* "*", the destination of a global threshold
    Var,              \* variable names
    Numero,           \* the limits SET_THRESHOLD carries: integers, perhaps NaN
    NaN,              \* the value strtod() gives for "nan"
    Defectos,         \* the thresholds of registry_init: a sequence of records
    Declaradas,       \* the variable lists REGISTER may declare
    Datagramas,       \* the pair lists TELEMETRY may carry
    MaxThresholds,    \* MAX_THRESHOLDS
    MaxVars,          \* MAX_VARS_PER_NODE
    MaxAlertsPerMsg   \* MAX_ALERTS_PER_MSG

ASSUME DetectionAssumption ==
    /\ MaxThresholds \in Nat /\ MaxVars \in Nat \ {0} /\ MaxAlertsPerMsg \in Nat \ {0}
    /\ Numero \ {NaN} \subseteq Int /\ NaN \notin Int
    /\ Todos \notin NodeId
    /\ Defectos \in Seq([var : Var, minimo : Int, maximo : Int])
    /\ Len(Defectos) <= MaxThresholds
    /\ \A i, j \in DOMAIN Defectos : Defectos[i].var = Defectos[j].var => i = j
    /\ \A d \in Declaradas : d \in Seq(Var) /\ Len(d) \in 1..MaxVars
    /\ \A d \in Datagramas :
         d \in Seq([var : Var, valor : Int \cup {NaN}]) /\ Len(d) \in 1..MaxVars

VARIABLES
    thresholds,  \* g_thresholds
    vars_,       \* g_nodes[].vars per id; <<>> while it is not registered
    online,      \* g_nodes[].online per id
    enCurso,     \* the datagram the UDP thread is working on
    dicho        \* history: per <<destination, variable>>, the limits last
                 \* accepted, as a set of at most one element

vars == <<thresholds, vars_, online, enCurso, dicho>>

Ranuras == 1..MaxThresholds
Destinos == NodeId \cup {Todos}
Umbral(dest, v, min, max) ==
    [en_uso |-> TRUE, node_id |-> dest, var |-> v, minimo |-> min, maximo |-> max]
UmbralVacio == [en_uso |-> FALSE]
Limites(u) == [minimo |-> u.minimo, maximo |-> u.maximo]
SinDatagrama == [fase |-> "libre"]

(* registry_init *)
Init ==
    /\ thresholds = [i \in Ranuras |->
         IF i \in DOMAIN Defectos
         THEN Umbral(Todos, Defectos[i].var, Defectos[i].minimo, Defectos[i].maximo)
         ELSE UmbralVacio]
    /\ vars_ = [id \in NodeId |-> <<>>]
    /\ online = [id \in NodeId |-> FALSE]
    /\ enCurso = SinDatagrama
    /\ dicho = [p \in Destinos \X Var |->
         {Limites(Defectos[i]) : i \in {i \in DOMAIN Defectos : p = <<Todos, Defectos[i].var>>}}]

Registrado(id) == id \in NodeId /\ vars_[id] # <<>>
MutexLibre == enCurso.fase = "libre"

-----------------------------------------------------------------------------
(* Comparisons of doubles: every one with NaN is false. *)
MenorIgual(a, b) == a # NaN /\ b # NaN /\ a <= b
Mayor(a, b) == a # NaN /\ b # NaN /\ a > b

De(dest, v) == {i \in Ranuras : /\ thresholds[i].en_uso
                                /\ thresholds[i].node_id = dest /\ thresholds[i].var = v}
EsPrimero(i, S) == i \in S /\ \A j \in S : i <= j
EsUltimo(i, S) == i \in S /\ \A j \in S : j <= i

(* Mutant: the first entry for the variable, the exception or not. *)
EsAplicablePrimero(i, id, v) == EsPrimero(i, De(id, v) \cup De(Todos, v))

(* buscar_umbral: the node's exception, otherwise the global threshold (the *)
(* last one the loop passes).                                               *)
EsAplicable(i, id, v) ==
    IF De(id, v) # {} THEN EsPrimero(i, De(id, v)) ELSE EsUltimo(i, De(Todos, v))

(* The entry SET_THRESHOLD writes. *)
EsDestino(i, dest, v) ==
    IF De(dest, v) # {} THEN EsPrimero(i, De(dest, v))
    ELSE EsPrimero(i, {j \in Ranuras : ~thresholds[j].en_uso})

(* The limits cmd_set_threshold lets through (registry_set_threshold asks    *)
(* the same again).                                                         *)
LimitesValidos(min, max) == ~Mayor(min, max)

(* cmd_set_threshold and registry_set_threshold.  With MIN > MAX, an        *)
(* unknown node or no entry left there is no step: the table stays as it is. *)
SetThreshold(dest, v, min, max) ==
    /\ MutexLibre
    /\ LimitesValidos(min, max)
    /\ dest = Todos \/ Registrado(dest)
    /\ \E i \in Ranuras :
        /\ EsDestino(i, dest, v)
        /\ thresholds' = [thresholds EXCEPT ![i] = Umbral(dest, v, min, max)]
    /\ dicho' = [dicho EXCEPT ![<<dest, v>>] = {[minimo |-> min, maximo |-> max]}]
    /\ UNCHANGED <<vars_, online, enCurso>>

-----------------------------------------------------------------------------
(* The part of registry_register_node that concerns the variables. *)
RegisterNode(id, nombres) ==
    /\ MutexLibre
    /\ vars_' = [vars_ EXCEPT ![id] =
          [i \in DOMAIN nombres |-> [var |-> nombres[i], tiene_valor |-> FALSE, valor |-> 0]]]
    /\ online' = [online EXCEPT ![id] = TRUE]
    /\ UNCHANGED <<thresholds, enCurso, dicho>>

(* The monitor declares the node down. *)
NodoCae(id) ==
    /\ MutexLibre
    /\ Registrado(id) /\ online[id]
    /\ online' = [online EXCEPT ![id] = FALSE]
    /\ UNCHANGED <<thresholds, vars_, enCurso, dicho>>

-----------------------------------------------------------------------------
Vuelta == <<"NODE", "ONLINE">>

(* registry_record_telemetry, up to its loop. *)
RecordTelemetry(id, pares) ==
    /\ MutexLibre
    /\ Registrado(id)
    /\ enCurso' = [fase |-> "bucle", id |-> id, pares |-> pares, i |-> 1,
                   volvio |-> ~online[id],
                   avisos |-> IF online[id] THEN <<>> ELSE <<Vuelta>>]
    /\ online' = [online EXCEPT ![id] = TRUE]
    /\ UNCHANGED <<thresholds, vars_, dicho>>

(* Mutant: one variable too many. *)
LugarPorUno(id, v, j) ==
    LET mias == {k \in DOMAIN vars_[id] : vars_[id][k].var = v}
    IN  IF mias # {} THEN EsPrimero(j, mias)
        ELSE Len(vars_[id]) <= MaxVars /\ j = Len(vars_[id]) + 1

(* Mutant: the name is not looked for before a place is taken. *)
LugarSinBuscar(id, v, j) == Len(vars_[id]) < MaxVars /\ j = Len(vars_[id]) + 1

(* Where a pair of the datagram is stored: the node's variable of that name, *)
(* or a new one while there is room.                                        *)
Lugar(id, v, j) ==
    LET mias == {k \in DOMAIN vars_[id] : vars_[id][k].var = v}
    IN  IF mias # {} THEN EsPrimero(j, mias)
        ELSE Len(vars_[id]) < MaxVars /\ j = Len(vars_[id]) + 1

Fuera(u, x) == ~(MenorIgual(u.minimo, x) /\ MenorIgual(x, u.maximo))

(* Above the limit or, in any other case, below. *)
Tipo(u, v, x) == <<v, IF Mayor(x, u.maximo) THEN "HIGH" ELSE "LOW">>

(* Mutant: the array takes one alert more than it has room for. *)
CabeUnaMas(avisos) == Len(avisos) <= MaxAlertsPerMsg

(* There is room in `pendientes`. *)
CabeAviso(avisos) == Len(avisos) < MaxAlertsPerMsg

(* The alerts of pair p of node id, none or one. *)
AvisoDe(id, p, avisos) ==
    {Tipo(thresholds[i], p.var, p.valor) :
        i \in {i \in Ranuras : /\ EsAplicable(i, id, p.var)
                              /\ Fuera(thresholds[i], p.valor)
                              /\ CabeAviso(avisos)}}

GuardarPar(id, p, j) ==
    vars_' = [vars_ EXCEPT ![id] =
        [k \in DOMAIN @ \cup {j} |->
            IF k = j THEN [var |-> p.var, tiene_valor |-> TRUE, valor |-> p.valor] ELSE @[k]]]

(* One turn of the loop. *)
ProcesarPar ==
    /\ enCurso.fase = "bucle" /\ enCurso.i \in DOMAIN enCurso.pares
    /\ LET id == enCurso.id
           p  == enCurso.pares[enCurso.i]
           nuevos == AvisoDe(id, p, enCurso.avisos)
           seguir(mas) == enCurso' = [enCurso EXCEPT !.i = @ + 1,
                                                     !.avisos = @ \o mas]
       IN  \/ /\ \A j \in 1..Len(vars_[id]) + 1 : ~Lugar(id, p.var, j)
              /\ seguir(<<>>)
              /\ UNCHANGED vars_
           \/ /\ \E j \in 1..Len(vars_[id]) + 1 : Lugar(id, p.var, j) /\ GuardarPar(id, p, j)
              /\ \/ nuevos = {} /\ seguir(<<>>)
                 \/ \E a \in nuevos : seguir(<<a>>)
    /\ UNCHANGED <<thresholds, online, dicho>>

(* The loop is over: g_mutex is released, the alerts are pushed and counted *)
(* in the ACK.                                                              *)
FinTelemetria ==
    /\ enCurso.fase = "bucle" /\ enCurso.i \notin DOMAIN enCurso.pares
    /\ enCurso' = SinDatagrama
    /\ UNCHANGED <<thresholds, vars_, online, dicho>>

Next ==
    \/ \E d \in Destinos, v \in Var, min, max \in Numero : SetThreshold(d, v, min, max)
    \/ \E id \in NodeId, nombres \in Declaradas : RegisterNode(id, nombres)
    \/ \E id \in NodeId : NodoCae(id)
    \/ \E id \in NodeId, pares \in Datagramas : RecordTelemetry(id, pares)
    \/ ProcesarPar
    \/ FinTelemetria

Spec == Init /\ [][Next]_vars

-----------------------------------------------------------------------------
Umbrales == [en_uso : {TRUE}, node_id : Destinos, var : Var, minimo : Int \cup {NaN},
             maximo : Int \cup {NaN}]
Variables == [var : Var, tiene_valor : BOOLEAN, valor : Int \cup {NaN}]

(* The tables keep within their arrays: the thresholds of MAX_THRESHOLDS,   *)
(* the variables of a node of MAX_VARS_PER_NODE and the alerts of one       *)
(* datagram of MAX_ALERTS_PER_MSG.                                          *)
TypeOK ==
    /\ thresholds \in [Ranuras -> Umbrales \cup {UmbralVacio}]
    /\ DOMAIN vars_ = NodeId
    /\ \A id \in NodeId : Len(vars_[id]) <= MaxVars
                         /\ \A k \in DOMAIN vars_[id] : vars_[id][k] \in Variables
    /\ online \in [NodeId -> BOOLEAN]
    /\ enCurso.fase = "bucle" => /\ enCurso.i \in 1..Len(enCurso.pares) + 1
                                 /\ Len(enCurso.avisos) <= MaxAlertsPerMsg
    /\ \A p \in DOMAIN dicho : Cardinality(dicho[p]) <= 1

(* The limits in force for a variable of a node: its exception if one was   *)
(* accepted, otherwise the global ones.                                     *)
Vigente(id, v) == IF dicho[<<id, v>>] # {} THEN dicho[<<id, v>>] ELSE dicho[<<Todos, v>>]

(* buscar_umbral finds, for every node and variable, exactly the limits that *)
(* were last accepted for them: the exception first, the global ones if there *)
(* is none, none if nobody set any.  An entry written twice, in two places of *)
(* the table, would leave the older one to be found.                        *)
UmbralVigente ==
    \A id \in NodeId, v \in Var :
        {Limites(thresholds[i]) : i \in {i \in Ranuras : EsAplicable(i, id, v)}} = Vigente(id, v)

Terminado == enCurso.fase = "bucle" /\ enCurso.i \notin DOMAIN enCurso.pares
Guardada(id, v) == \E k \in DOMAIN vars_[id] : vars_[id][k].var = v

(* The pairs of the datagram that were stored and are outside their limits. *)
Anomalos ==
    {k \in DOMAIN enCurso.pares :
        /\ Guardada(enCurso.id, enCurso.pares[k].var)
        /\ \E u \in Vigente(enCurso.id, enCurso.pares[k].var) : Fuera(u, enCurso.pares[k].valor)}

(* When the loop ends, a variable of the datagram holds the value of its    *)
(* last pair, and one that is not in the node's table found the table full. *)
TodoParSeGuarda ==
    /\ TypeOK
    /\ Terminado =>
        \A k \in DOMAIN enCurso.pares :
            LET v == enCurso.pares[k].var IN
            \/ ~Guardada(enCurso.id, v) /\ Len(vars_[enCurso.id]) = MaxVars
            \/ \E j \in DOMAIN vars_[enCurso.id], ultimo \in DOMAIN enCurso.pares :
                  /\ enCurso.pares[ultimo].var = v
                  /\ \A m \in ultimo + 1..Len(enCurso.pares) : enCurso.pares[m].var # v
                  /\ vars_[enCurso.id][j] =
                       [var |-> v, tiene_valor |-> TRUE, valor |-> enCurso.pares[ultimo].valor]

(* The alerts of a datagram: one for each stored value outside its limits   *)
(* and one if the node was back, up to the size of the array.               *)
AvisosJustos ==
    Terminado =>
        LET todos == Cardinality(Anomalos) + (IF enCurso.volvio THEN 1 ELSE 0)
        IN  Len(enCurso.avisos) = (IF todos <= MaxAlertsPerMsg THEN todos ELSE MaxAlertsPerMsg)

=============================================================================
