----------------------- MODULE AnomalyDetectionProofs -----------------------
(***************************************************************************)
(* For any sizes of the tables, any defaults, any datagrams and any limits,  *)
(* not-a-number included: the lookup of a threshold finds the limits last    *)
(* accepted, every pair of a datagram is stored while there is room for its *)
(* variable, and it gives rise to the alerts it should.                     *)
(***************************************************************************)
EXTENDS AnomalyDetection, FiniteSetTheorems, WellFoundedInduction, TLAPS

(* One entry per destination and variable, and it holds what was accepted   *)
(* last.  The lookup, which stops at the first exception but at the last     *)
(* global entry, needs nothing else to be right.                            *)
UnaEntrada ==
    \A d \in Destinos, v \in Var : \A i, j \in De(d, v) : i = j
DiceLoAceptado ==
    \A d \in Destinos, v \in Var :
        dicho[<<d, v>>] = {Limites(thresholds[i]) : i \in De(d, v)}

IInv ==
    /\ thresholds \in [Ranuras -> Umbrales \cup {UmbralVacio}]
    /\ DOMAIN dicho = Destinos \X Var
    /\ UnaEntrada
    /\ DiceLoAceptado

LEMMA Inicio ==
    ASSUME Init
    PROVE  IInv
  <1>a. /\ Defectos \in Seq([var : Var, minimo : Int, maximo : Int])
        /\ Len(Defectos) <= MaxThresholds /\ MaxThresholds \in Nat
        /\ \A i, j \in DOMAIN Defectos : Defectos[i].var = Defectos[j].var => i = j
    BY DetectionAssumption
  <1>0. /\ DOMAIN Defectos \subseteq Ranuras
        /\ \A i \in DOMAIN Defectos : Defectos[i] \in [var : Var, minimo : Int, maximo : Int]
    <2>1. Len(Defectos) \in Nat /\ DOMAIN Defectos = 1..Len(Defectos)
      BY <1>a
    <2>2. ASSUME NEW S, NEW q \in Seq(S) PROVE \A i \in DOMAIN q : q[i] \in S
      OBVIOUS
    <2>3. \A i \in DOMAIN Defectos : Defectos[i] \in [var : Var, minimo : Int, maximo : Int]
      BY <1>a, <2>2, Zenon
    <2> QED  BY <1>a, <2>1, <2>3 DEF Ranuras
  <1>1. \A i \in Ranuras : thresholds[i] =
            IF i \in DOMAIN Defectos
            THEN Umbral(Todos, Defectos[i].var, Defectos[i].minimo, Defectos[i].maximo)
            ELSE UmbralVacio
    BY DEF Init
  <1>2. thresholds \in [Ranuras -> Umbrales \cup {UmbralVacio}]
    <2>1. \A i \in DOMAIN Defectos :
            Umbral(Todos, Defectos[i].var, Defectos[i].minimo, Defectos[i].maximo) \in Umbrales
      BY <1>0 DEF Umbral, Umbrales, Destinos
    <2> QED  BY <1>1, <2>1 DEF Init
  <1>3. ASSUME NEW d \in Destinos, NEW v \in Var
        PROVE  De(d, v) = {i \in DOMAIN Defectos : d = Todos /\ Defectos[i].var = v}
    <2>1. ASSUME NEW i \in DOMAIN Defectos
          PROVE  /\ thresholds[i].en_uso /\ thresholds[i].node_id = Todos
                 /\ thresholds[i].var = Defectos[i].var
      <3>1. thresholds[i] =
              Umbral(Todos, Defectos[i].var, Defectos[i].minimo, Defectos[i].maximo)
        BY <1>0, <1>1
      <3> QED  BY <3>1 DEF Umbral
    <2>2. \A i \in Ranuras : i \notin DOMAIN Defectos => ~thresholds[i].en_uso
      BY <1>1 DEF UmbralVacio
    <2> QED  BY <1>0, <2>1, <2>2 DEF De
  <1>4. UnaEntrada
    BY <1>3, <1>a DEF UnaEntrada
  <1>5. ASSUME NEW d \in Destinos, NEW v \in Var
        PROVE  dicho[<<d, v>>] = {Limites(thresholds[i]) : i \in De(d, v)}
    <2>1. dicho[<<d, v>>] = {Limites(Defectos[i]) :
                i \in {i \in DOMAIN Defectos : <<d, v>> = <<Todos, Defectos[i].var>>}}
      BY DEF Init
    <2>2. {i \in DOMAIN Defectos : <<d, v>> = <<Todos, Defectos[i].var>>} = De(d, v)
      BY <1>3
    <2>3. ASSUME NEW i \in De(d, v)
          PROVE  Limites(thresholds[i]) = Limites(Defectos[i])
      <3>1. i \in DOMAIN Defectos /\ i \in Ranuras
        BY <1>0, <1>3
      <3>2. thresholds[i] =
              Umbral(Todos, Defectos[i].var, Defectos[i].minimo, Defectos[i].maximo)
        BY <1>1, <3>1
      <3> QED  BY <3>2 DEF Umbral, Limites
    <2> QED  BY <2>1, <2>2, <2>3
  <1> QED  BY <1>2, <1>4, <1>5 DEF IInv, DiceLoAceptado, Init

(* Writing an entry of the destination, or a free one when it has none,     *)
(* leaves it with that entry alone and the others with theirs.              *)
LEMMA UnaSolaTrasEscribir ==
    ASSUME IInv, NEW dest \in Destinos, NEW v \in Var,
           NEW min \in Numero, NEW max \in Numero,
           NEW i \in Ranuras, EsDestino(i, dest, v),
           thresholds' = [thresholds EXCEPT ![i] = Umbral(dest, v, min, max)]
    PROVE  /\ De(dest, v)' = {i}
           /\ \A d \in Destinos, w \in Var :
                 d # dest \/ w # v => De(d, w)' = De(d, w) /\ i \notin De(d, w)
  <1>1. /\ thresholds'[i] = Umbral(dest, v, min, max)
        /\ \A j \in Ranuras : j # i => thresholds'[j] = thresholds[j]
    BY DEF IInv
  <1>2. /\ thresholds'[i].en_uso /\ thresholds'[i].node_id = dest /\ thresholds'[i].var = v
    BY <1>1 DEF Umbral
  <1>3. \/ i \in De(dest, v)
        \/ De(dest, v) = {} /\ ~thresholds[i].en_uso
    BY DEF EsDestino, EsPrimero
  <1>4. De(dest, v) \subseteq {i}
    BY <1>3 DEF IInv, UnaEntrada
  <1>5. De(dest, v)' = {i}
    BY <1>1, <1>2, <1>4 DEF De
  <1>6. ASSUME NEW d \in Destinos, NEW w \in Var, d # dest \/ w # v
        PROVE  De(d, w)' = De(d, w) /\ i \notin De(d, w)
    <2>1. i \notin De(d, w) /\ i \notin De(d, w)'
      BY <1>2, <1>3, <1>6 DEF De
    <2> QED  BY <2>1, <1>1 DEF De
  <1> QED  BY <1>5, <1>6

LEMMA Paso ==
    ASSUME IInv, [Next]_vars
    PROVE  IInv'
  <1>1. ASSUME NEW dest \in Destinos, NEW v \in Var, NEW min \in Numero, NEW max \in Numero,
               SetThreshold(dest, v, min, max)
        PROVE  IInv'
    <2>1. PICK i \in Ranuras : /\ EsDestino(i, dest, v)
                               /\ thresholds' = [thresholds EXCEPT ![i] = Umbral(dest, v, min, max)]
      BY <1>1 DEF SetThreshold
    <2>2. dicho' = [dicho EXCEPT ![<<dest, v>>] = {[minimo |-> min, maximo |-> max]}]
      BY <1>1 DEF SetThreshold
    <2>3. /\ De(dest, v)' = {i}
          /\ \A d \in Destinos, w \in Var :
                d # dest \/ w # v => De(d, w)' = De(d, w) /\ i \notin De(d, w)
      BY <2>1, UnaSolaTrasEscribir
    <2>4. Umbral(dest, v, min, max) \in Umbrales
      BY DetectionAssumption DEF Umbral, Umbrales
    <2>5. thresholds' \in [Ranuras -> Umbrales \cup {UmbralVacio}]
      BY <2>1, <2>4 DEF IInv
    <2>6. DOMAIN dicho' = Destinos \X Var
      BY <2>2 DEF IInv
    <2>7. UnaEntrada'
      <3> SUFFICES ASSUME NEW d \in Destinos, NEW w \in Var
                   PROVE  \A j, k \in De(d, w)' : j = k
        BY DEF UnaEntrada
      <3>1. CASE d = dest /\ w = v
        BY <3>1, <2>3
      <3>2. CASE d # dest \/ w # v
        BY <3>2, <2>3 DEF IInv, UnaEntrada
      <3> QED  BY <3>1, <3>2
    <2>8. DiceLoAceptado'
      <3> SUFFICES ASSUME NEW d \in Destinos, NEW w \in Var
                   PROVE  dicho'[<<d, w>>] = {Limites(thresholds'[j]) : j \in De(d, w)'}
        BY DEF DiceLoAceptado
      <3>1. CASE d = dest /\ w = v
        <4>1. Limites(thresholds'[i]) = [minimo |-> min, maximo |-> max]
          BY <2>1 DEF IInv, Limites, Umbral
        <4>2. dicho'[<<d, w>>] = {[minimo |-> min, maximo |-> max]}
          BY <3>1, <2>2 DEF IInv
        <4>3. De(d, w)' = {i}
          BY <3>1, <2>3
        <4> QED  BY <4>1, <4>2, <4>3
      <3>2. CASE d # dest \/ w # v
        <4>1. dicho'[<<d, w>>] = dicho[<<d, w>>]
          BY <3>2, <2>2 DEF IInv
        <4>2. De(d, w)' = De(d, w) /\ i \notin De(d, w)
          BY <3>2, <2>3
        <4>3. \A j \in De(d, w) : thresholds'[j] = thresholds[j]
          BY <2>1, <4>2 DEF IInv, De
        <4>4. {Limites(thresholds'[j]) : j \in De(d, w)'} = {Limites(thresholds[j]) : j \in De(d, w)}
          BY <4>2, <4>3
        <4> QED  BY <4>1, <4>4 DEF IInv, DiceLoAceptado
      <3> QED  BY <3>1, <3>2
    <2> QED  BY <2>5, <2>6, <2>7, <2>8 DEF IInv
  <1>2. CASE UNCHANGED <<thresholds, dicho>>
    <2>1. \A d, v : De(d, v)' = De(d, v)
      BY <1>2 DEF De
    <2> QED  BY <1>2, <2>1 DEF IInv, UnaEntrada, DiceLoAceptado
  <1> QED
    BY <1>1, <1>2
    DEF Next, vars, RegisterNode, NodoCae, RecordTelemetry, ProcesarPar, FinTelemetria

THEOREM Invariante == Spec => []IInv
  BY Inicio, Paso, PTL DEF Spec

(* The lookup finds the exception of the node, or the global entry where     *)
(* there is none: the only ones there are.                                  *)
LEMMA LaQueSeAplica ==
    ASSUME IInv, NEW id \in NodeId, NEW v \in Var
    PROVE  {i \in Ranuras : EsAplicable(i, id, v)} =
               IF De(id, v) # {} THEN De(id, v) ELSE De(Todos, v)
  <1>1. id \in Destinos /\ Todos \in Destinos
    BY DEF Destinos
  <1>2. /\ \A i \in De(id, v) : i \in Ranuras /\ De(id, v) = {i}
        /\ \A i \in De(Todos, v) : i \in Ranuras /\ De(Todos, v) = {i}
    BY <1>1 DEF IInv, UnaEntrada, De
  <1>3. \A i \in Ranuras : i <= i
    BY DEF Ranuras
  <1> QED  BY <1>2, <1>3 DEF EsAplicable, EsPrimero, EsUltimo

LEMMA EsVigente ==
    ASSUME IInv
    PROVE  UmbralVigente
  <1> SUFFICES ASSUME NEW id \in NodeId, NEW v \in Var
               PROVE  {Limites(thresholds[i]) : i \in {i \in Ranuras : EsAplicable(i, id, v)}}
                          = Vigente(id, v)
    BY DEF UmbralVigente
  <1>1. /\ dicho[<<id, v>>] = {Limites(thresholds[i]) : i \in De(id, v)}
        /\ dicho[<<Todos, v>>] = {Limites(thresholds[i]) : i \in De(Todos, v)}
    BY DEF IInv, DiceLoAceptado, Destinos
  <1>2. {i \in Ranuras : EsAplicable(i, id, v)} =
             IF De(id, v) # {} THEN De(id, v) ELSE De(Todos, v)
    BY LaQueSeAplica
  <1>3. dicho[<<id, v>>] # {} <=> De(id, v) # {}
    BY <1>1
  <1> QED  BY <1>1, <1>2, <1>3 DEF Vigente

(* Whatever thresholds are set, globally or for a node, in any order and     *)
(* with a full table or not, buscar_umbral applies the limits last accepted. *)
THEOREM SiempreUmbralVigente == Spec => []UmbralVigente
  BY Invariante, EsVigente, PTL

(* What a sequence holds. *)
LEMMA ElementoDe ==
    ASSUME NEW S, NEW q \in Seq(S), NEW i \in 1..Len(q)
    PROVE  q[i] \in S
  OBVIOUS

-----------------------------------------------------------------------------
(* The loop.  What holds of the first n pairs of the datagram once they have *)
(* been through it.                                                         *)
Avisos == (Var \X {"HIGH", "LOW"}) \cup {Vuelta}
Tarea == [fase : {"bucle"}, id : NodeId, pares : Datagramas, i : Nat, volvio : BOOLEAN,
          avisos : Seq(Avisos)]

TablasInv ==
    /\ vars_ \in [NodeId -> Seq(Variables)]
    /\ \A id \in NodeId : Len(vars_[id]) <= MaxVars
    /\ online \in [NodeId -> BOOLEAN]

CursoInv ==
    enCurso.fase = "bucle" =>
        enCurso \in Tarea /\ enCurso.i \in 1..(Len(enCurso.pares) + 1)

(* Entry j of a table t holds the last of the first n pairs that name v. *)
Ultimo(t, pares, n, v, j) ==
    \E u \in 1..n :
        /\ pares[u].var = v
        /\ \A m \in (u + 1)..n : pares[m].var # v
        /\ t[j] = [var |-> v, tiene_valor |-> TRUE, valor |-> pares[u].valor]

Tiene(t, v) == \E k \in DOMAIN t : t[k].var = v
Atendida(t, pares, n, v) ==
    \/ ~Tiene(t, v) /\ Len(t) = MaxVars
    \/ \E j \in DOMAIN t : Ultimo(t, pares, n, v, j)

ParesInv ==
    enCurso.fase = "bucle" =>
        \A k \in 1..(enCurso.i - 1) :
            Atendida(vars_[enCurso.id], enCurso.pares, enCurso.i - 1, enCurso.pares[k].var)

Anomalo(k) ==
    /\ Guardada(enCurso.id, enCurso.pares[k].var)
    /\ \E u \in Vigente(enCurso.id, enCurso.pares[k].var) : Fuera(u, enCurso.pares[k].valor)
AnomalosHasta(n) == {k \in 1..n : Anomalo(k)}

(* The alerts of n anomalous values, and the one of a node that was back. *)
Debidos(n) == n + (IF enCurso.volvio THEN 1 ELSE 0)
CuentaInv ==
    enCurso.fase = "bucle" =>
        LET todos == Debidos(Cardinality(AnomalosHasta(enCurso.i - 1)))
        IN  Len(enCurso.avisos) = (IF todos <= MaxAlertsPerMsg THEN todos ELSE MaxAlertsPerMsg)

BucleInv == TablasInv /\ CursoInv /\ ParesInv /\ CuentaInv

(* A set of naturals has a least element. *)
LEMMA Minimo ==
    ASSUME NEW T, T \subseteq Nat, T # {}
    PROVE  \E x \in T : \A y \in T : x <= y
  <1>1. IsWellFoundedOn(OpToRel(<, Nat), Nat)
    BY NatLessThanWellFounded
  <1>2. PICK x \in T : \A y \in T : ~ (<<y, x>> \in OpToRel(<, Nat))
    BY <1>1, WFMin
  <1>3. \A y \in T : ~ (y < x)
    BY <1>2 DEF OpToRel
  <1> QED  BY <1>3

(* A pair finds no place only if the table is full without its variable. *)
LEMMA SinLugar ==
    ASSUME TablasInv, NEW id \in NodeId, NEW v,
           \A j \in 1..Len(vars_[id]) + 1 : ~Lugar(id, v, j)
    PROVE  ~Guardada(id, v) /\ Len(vars_[id]) = MaxVars
  <1> DEFINE mias == {k \in DOMAIN vars_[id] : vars_[id][k].var = v}
  <1>1. vars_[id] \in Seq(Variables) /\ Len(vars_[id]) \in Nat /\ Len(vars_[id]) <= MaxVars
        /\ DOMAIN vars_[id] = 1..Len(vars_[id]) /\ MaxVars \in Nat
    BY DetectionAssumption DEF TablasInv
  <1>2. mias = {}
    <2> SUFFICES ASSUME mias # {} PROVE FALSE
      OBVIOUS
    <2>1. mias \subseteq Nat
      BY <1>1
    <2>2. PICK j \in mias : \A k \in mias : j <= k
      BY <2>1, Minimo
    <2>3. Lugar(id, v, j)
      BY <2>2 DEF Lugar, EsPrimero
    <2>4. j \in 1..Len(vars_[id]) + 1
      BY <1>1, <2>2
    <2> QED  BY <2>3, <2>4
  <1>3. Len(vars_[id]) = MaxVars
    <2>1. Len(vars_[id]) + 1 \in 1..Len(vars_[id]) + 1
      BY <1>1
    <2>2. ~Lugar(id, v, Len(vars_[id]) + 1)
      BY <2>1
    <2>3. ~(Len(vars_[id]) < MaxVars)
      BY <1>2, <2>2 DEF Lugar
    <2> QED  BY <1>1, <2>3
  <1> QED  BY <1>2, <1>3 DEF Guardada

(* What storing a pair at j does to the variables of its node. *)
LEMMA GuardarEfecto ==
    ASSUME TablasInv, NEW id \in NodeId, NEW p \in [var : Var, valor : Int \cup {NaN}],
           NEW j \in 1..Len(vars_[id]) + 1, Lugar(id, p.var, j), GuardarPar(id, p, j)
    PROVE  /\ vars_' \in [NodeId -> Seq(Variables)]
           /\ \A n \in NodeId : Len(vars_'[n]) <= MaxVars
           /\ vars_'[id][j] = [var |-> p.var, tiene_valor |-> TRUE, valor |-> p.valor]
           /\ j \in DOMAIN vars_'[id]
           /\ \A k \in DOMAIN vars_[id] : k \in DOMAIN vars_'[id]
                 /\ (k # j => vars_'[id][k] = vars_[id][k])
           /\ \A k \in DOMAIN vars_'[id] : k # j => k \in DOMAIN vars_[id]
           /\ j \in DOMAIN vars_[id] => vars_[id][j].var = p.var
           /\ Len(vars_[id]) = MaxVars => Guardada(id, p.var) /\ Len(vars_'[id]) = MaxVars
  <1> DEFINE t == vars_[id]
             r == [var |-> p.var, tiene_valor |-> TRUE, valor |-> p.valor]
             t2 == [k \in DOMAIN t \cup {j} |-> IF k = j THEN r ELSE t[k]]
             mias == {k \in DOMAIN t : t[k].var = p.var}
  <1>1. t \in Seq(Variables) /\ Len(t) \in Nat /\ Len(t) <= MaxVars /\ DOMAIN t = 1..Len(t)
        /\ MaxVars \in Nat
    BY DetectionAssumption DEF TablasInv
  <1>2. /\ vars_'[id] = t2 /\ DOMAIN vars_' = NodeId
        /\ \A n \in NodeId : n # id => vars_'[n] = vars_[n]
    BY DEF GuardarPar, TablasInv
  <1>3. \/ j \in DOMAIN t /\ t[j].var = p.var
        \/ j = Len(t) + 1 /\ Len(t) < MaxVars
    BY DEF Lugar, EsPrimero
  <1>4. PICK n \in Nat : /\ DOMAIN t \cup {j} = 1..n /\ n <= MaxVars /\ n >= Len(t)
    <2>1. CASE j \in DOMAIN t
      <3>1. DOMAIN t \cup {j} = 1..Len(t)
        BY <1>1, <2>1
      <3> QED  BY <1>1, <3>1
    <2>2. CASE j = Len(t) + 1 /\ Len(t) < MaxVars
      <3>1. DOMAIN t \cup {j} = 1..(Len(t) + 1)
        BY <1>1, <2>2
      <3> QED  BY <1>1, <2>2, <3>1
    <2> QED  BY <1>3, <2>1, <2>2
  <1>5. r \in Variables
    BY DEF Variables
  <1>6. t2 \in [1..n -> Variables]
    <2>1. \A k \in DOMAIN t : t[k] \in Variables
      BY <1>1
    <2> QED  BY <1>4, <1>5, <2>1
  <1>8. t2[j] = r /\ DOMAIN t2 = DOMAIN t \cup {j} /\ \A k \in DOMAIN t : k # j => t2[k] = t[k]
    OBVIOUS
  <1> HIDE DEF t2, r
  <1>7. t2 \in Seq(Variables) /\ Len(t2) = n
    BY <1>4, <1>6
  <1>9. /\ vars_' \in [NodeId -> Seq(Variables)]
        /\ \A m \in NodeId : Len(vars_'[m]) <= MaxVars
    <2>1. vars_' = [vars_ EXCEPT ![id] = t2]
      BY DEF GuardarPar, t2, r
    <2>2. vars_' \in [NodeId -> Seq(Variables)]
      BY <1>7, <2>1 DEF TablasInv
    <2> QED  BY <1>2, <1>4, <1>7, <2>2 DEF TablasInv
  <1>10. Len(t) = MaxVars => Guardada(id, p.var) /\ Len(t2) = MaxVars
    BY <1>1, <1>3, <1>4, <1>7 DEF Guardada
  <1>11. j \in DOMAIN t => t[j].var = p.var
    BY <1>1, <1>3
  <1> QED  BY <1>2, <1>8, <1>9, <1>10, <1>11 DEF r

(* What a turn of the loop does to the table of its node: it stays, full     *)
(* without the variable, or the pair is written at j.                       *)
Escrita(t, t2, p, j) ==
    /\ t2[j] = [var |-> p.var, tiene_valor |-> TRUE, valor |-> p.valor] /\ j \in DOMAIN t2
    /\ \A k \in DOMAIN t : k \in DOMAIN t2 /\ (k # j => t2[k] = t[k])
    /\ \A k \in DOMAIN t2 : k # j => k \in DOMAIN t
    /\ j \in DOMAIN t => t[j].var = p.var
    /\ Len(t) = MaxVars => Tiene(t, p.var) /\ Len(t2) = MaxVars
Turno(t, t2, p) ==
    \/ t2 = t /\ ~Tiene(t, p.var) /\ Len(t) = MaxVars
    \/ \E j \in DOMAIN t2 : Escrita(t, t2, p, j)

LEMMA GuardarEscribe ==
    ASSUME TablasInv, NEW id \in NodeId, NEW p \in [var : Var, valor : Int \cup {NaN}],
           NEW j \in 1..Len(vars_[id]) + 1, Lugar(id, p.var, j), GuardarPar(id, p, j)
    PROVE  j \in DOMAIN vars_'[id] /\ Escrita(vars_[id], vars_'[id], p, j)
  BY GuardarEfecto DEF Escrita, Tiene, Guardada

(* The alert of a pair: one if its value is outside the limits in force and  *)
(* there is room for it, none otherwise.                                    *)
LEMMA AvisoSegunVigente ==
    ASSUME IInv, NEW id \in NodeId, NEW p, p.var \in Var, NEW avisos
    PROVE  /\ (AvisoDe(id, p, avisos) # {}) <=>
                 /\ \E u \in Vigente(id, p.var) : Fuera(u, p.valor)
                 /\ Len(avisos) < MaxAlertsPerMsg
           /\ AvisoDe(id, p, avisos) \subseteq Avisos
  <1> DEFINE A == {i \in Ranuras : EsAplicable(i, id, p.var)}
  <1>1. Vigente(id, p.var) = {Limites(thresholds[i]) : i \in A}
    BY EsVigente DEF UmbralVigente
  <1>2. \A i \in A : Fuera(Limites(thresholds[i]), p.valor) <=> Fuera(thresholds[i], p.valor)
    BY DEF Fuera, Limites
  <1>3. (\E u \in Vigente(id, p.var) : Fuera(u, p.valor)) <=> \E i \in A : Fuera(thresholds[i], p.valor)
    BY <1>1, <1>2
  <1>4. (AvisoDe(id, p, avisos) # {}) <=>
            \E i \in A : Fuera(thresholds[i], p.valor) /\ CabeAviso(avisos)
    BY DEF AvisoDe
  <1>5. AvisoDe(id, p, avisos) \subseteq Avisos
    <2>1. \A u, x : Tipo(u, p.var, x) \in Avisos
      BY DEF Tipo, Avisos
    <2> QED  BY <2>1 DEF AvisoDe
  <1> QED  BY <1>3, <1>4, <1>5 DEF CabeAviso

(* The three ways a turn of the loop can go. *)
LEMMA VueltaEfecto ==
    ASSUME TablasInv, CursoInv, IInv, ProcesarPar
    PROVE  LET id == enCurso.id
               i  == enCurso.i
               p  == enCurso.pares[i]
               anomalo == \E u \in Vigente(id, p.var) : Fuera(u, p.valor)
           IN  /\ enCurso \in Tarea /\ enCurso' \in Tarea
               /\ i \in 1..Len(enCurso.pares) /\ Len(enCurso.pares) \in Nat
               /\ p.var \in Var /\ p.valor \in Int \cup {NaN}
               /\ enCurso'.id = id /\ enCurso'.i = i + 1 /\ enCurso'.pares = enCurso.pares
               /\ enCurso'.volvio = enCurso.volvio
               /\ \/ /\ \A j \in 1..Len(vars_[id]) + 1 : ~Lugar(id, p.var, j)
                     /\ vars_' = vars_ /\ enCurso'.avisos = enCurso.avisos
                  \/ /\ \E j \in 1..Len(vars_[id]) + 1 : Lugar(id, p.var, j) /\ GuardarPar(id, p, j)
                     /\ \/ /\ ~(anomalo /\ Len(enCurso.avisos) < MaxAlertsPerMsg)
                           /\ enCurso'.avisos = enCurso.avisos
                        \/ /\ anomalo /\ Len(enCurso.avisos) < MaxAlertsPerMsg
                           /\ Len(enCurso'.avisos) = Len(enCurso.avisos) + 1
  <1> DEFINE id == enCurso.id
             i  == enCurso.i
             p  == enCurso.pares[i]
             nuevos == AvisoDe(id, p, enCurso.avisos)
  <1>1. enCurso \in Tarea /\ enCurso.i \in DOMAIN enCurso.pares
    BY DEF ProcesarPar, CursoInv
  <1>2. /\ id \in NodeId /\ enCurso.pares \in Datagramas /\ i \in Nat
        /\ enCurso.volvio \in BOOLEAN /\ enCurso.avisos \in Seq(Avisos)
        /\ enCurso.fase = "bucle"
    BY <1>1 DEF Tarea
  <1>3. enCurso.pares \in Seq([var : Var, valor : Int \cup {NaN}])
    BY <1>2, DetectionAssumption
  <1>4. i \in 1..Len(enCurso.pares) /\ Len(enCurso.pares) \in Nat
    BY <1>1, <1>3
  <1>5. p \in [var : Var, valor : Int \cup {NaN}]
    BY <1>3, <1>4, ElementoDe
  <1>6. /\ (nuevos # {}) <=> /\ \E u \in Vigente(id, p.var) : Fuera(u, p.valor)
                             /\ Len(enCurso.avisos) < MaxAlertsPerMsg
        /\ nuevos \subseteq Avisos
    BY <1>2, <1>5, AvisoSegunVigente
  <1>7. ASSUME NEW mas \in Seq(Avisos),
               enCurso' = [enCurso EXCEPT !.i = @ + 1, !.avisos = @ \o mas]
        PROVE  /\ enCurso' \in Tarea
               /\ enCurso'.id = id /\ enCurso'.i = i + 1 /\ enCurso'.pares = enCurso.pares
               /\ enCurso'.volvio = enCurso.volvio
               /\ enCurso'.avisos = enCurso.avisos \o mas
    <2>1. enCurso.avisos \o mas \in Seq(Avisos) /\ i + 1 \in Nat
      BY <1>2
    <2> QED  BY <1>1, <1>7, <2>1 DEF Tarea
  <1>8. <<>> \in Seq(Avisos) /\ enCurso.avisos \o <<>> = enCurso.avisos
    BY <1>2
  <1>9. \A a \in nuevos : <<a>> \in Seq(Avisos)
                          /\ Len(enCurso.avisos \o <<a>>) = Len(enCurso.avisos) + 1
    BY <1>2, <1>6
  <1>10. CASE /\ \A j \in 1..Len(vars_[id]) + 1 : ~Lugar(id, p.var, j)
              /\ enCurso' = [enCurso EXCEPT !.i = @ + 1, !.avisos = @ \o <<>>]
              /\ UNCHANGED vars_
    BY <1>1, <1>4, <1>5, <1>7, <1>8, <1>10
  <1>11. CASE /\ \E j \in 1..Len(vars_[id]) + 1 : Lugar(id, p.var, j) /\ GuardarPar(id, p, j)
              /\ nuevos = {} /\ enCurso' = [enCurso EXCEPT !.i = @ + 1, !.avisos = @ \o <<>>]
    BY <1>1, <1>4, <1>5, <1>6, <1>7, <1>8, <1>11
  <1>12. CASE /\ \E j \in 1..Len(vars_[id]) + 1 : Lugar(id, p.var, j) /\ GuardarPar(id, p, j)
              /\ \E a \in nuevos : enCurso' = [enCurso EXCEPT !.i = @ + 1, !.avisos = @ \o <<a>>]
    <2>1. PICK a \in nuevos : enCurso' = [enCurso EXCEPT !.i = @ + 1, !.avisos = @ \o <<a>>]
      BY <1>12
    <2>2. nuevos # {} /\ <<a>> \in Seq(Avisos)
      BY <1>9, <2>1
    <2> QED  BY <1>1, <1>4, <1>5, <1>6, <1>7, <1>9, <1>12, <2>1, <2>2
  <1> QED  BY <1>10, <1>11, <1>12 DEF ProcesarPar

LEMMA TablasPaso ==
    ASSUME TablasInv, CursoInv, IInv, [Next]_vars
    PROVE  TablasInv' /\ CursoInv'
  <1>1. CASE UNCHANGED <<vars_, online, enCurso>>
    BY <1>1 DEF TablasInv, CursoInv
  <1>2. ASSUME NEW id \in NodeId, NEW nombres \in Declaradas, RegisterNode(id, nombres)
        PROVE  TablasInv' /\ CursoInv'
    <2> DEFINE t == [i \in DOMAIN nombres |-> [var |-> nombres[i], tiene_valor |-> FALSE, valor |-> 0]]
    <2>1. nombres \in Seq(Var) /\ Len(nombres) \in 1..MaxVars /\ MaxVars \in Nat
      BY DetectionAssumption
    <2>2. Len(nombres) \in Nat /\ DOMAIN nombres = 1..Len(nombres) /\ Len(nombres) <= MaxVars
      BY <2>1
    <2>3. t \in [1..Len(nombres) -> Variables]
      <3>1. \A i \in 1..Len(nombres) : nombres[i] \in Var
        BY <2>1, ElementoDe
      <3> QED  BY <2>2, <3>1 DEF Variables
    <2> HIDE DEF t
    <2>4. t \in Seq(Variables) /\ Len(t) = Len(nombres)
      BY <2>2, <2>3
    <2>5. vars_' = [vars_ EXCEPT ![id] = t] /\ online' = [online EXCEPT ![id] = TRUE]
          /\ enCurso' = enCurso
      BY <1>2 DEF RegisterNode, t
    <2>6. TablasInv'
      BY <2>2, <2>4, <2>5 DEF TablasInv
    <2> QED  BY <2>5, <2>6 DEF CursoInv
  <1>3. ASSUME NEW id \in NodeId, NodoCae(id)
        PROVE  TablasInv' /\ CursoInv'
    BY <1>3 DEF NodoCae, TablasInv, CursoInv
  <1>4. ASSUME NEW id \in NodeId, NEW pares \in Datagramas, RecordTelemetry(id, pares)
        PROVE  TablasInv' /\ CursoInv'
    <2>1. enCurso' = [fase |-> "bucle", id |-> id, pares |-> pares, i |-> 1,
                      volvio |-> ~online[id],
                      avisos |-> IF online[id] THEN <<>> ELSE <<Vuelta>>]
      BY <1>4 DEF RecordTelemetry
    <2>2. <<>> \in Seq(Avisos) /\ <<Vuelta>> \in Seq(Avisos)
      BY DEF Avisos
    <2>3. online[id] \in BOOLEAN /\ Len(pares) \in Nat
      BY DetectionAssumption DEF TablasInv
    <2>4. enCurso' \in Tarea /\ enCurso'.i \in 1..(Len(enCurso'.pares) + 1)
      BY <2>1, <2>2, <2>3 DEF Tarea
    <2> QED  BY <1>4, <2>4 DEF RecordTelemetry, TablasInv, CursoInv
  <1>5. CASE ProcesarPar
    <2>1. /\ enCurso \in Tarea /\ enCurso' \in Tarea /\ enCurso.i \in 1..Len(enCurso.pares)
          /\ Len(enCurso.pares) \in Nat
          /\ enCurso'.i = enCurso.i + 1 /\ enCurso'.pares = enCurso.pares
      BY <1>5, VueltaEfecto
    <2>2. CursoInv'
      BY <2>1 DEF CursoInv
    <2>3. online' = online
      BY <1>5 DEF ProcesarPar
    <2> DEFINE id == enCurso.id
               p  == enCurso.pares[enCurso.i]
    <2>4. id \in NodeId /\ p \in [var : Var, valor : Int \cup {NaN}]
      <3>1. id \in NodeId /\ enCurso.pares \in Datagramas
        BY <2>1 DEF Tarea
      <3> QED  BY <2>1, <3>1, ElementoDe, DetectionAssumption
    <2>5. CASE vars_' = vars_
      BY <2>2, <2>3, <2>5 DEF TablasInv
    <2>6. CASE \E j \in 1..Len(vars_[id]) + 1 : Lugar(id, p.var, j) /\ GuardarPar(id, p, j)
      BY <2>2, <2>3, <2>4, <2>6, GuardarEfecto DEF TablasInv
    <2> QED  BY <1>5, <2>5, <2>6, VueltaEfecto
  <1>6. CASE FinTelemetria
    BY <1>6 DEF FinTelemetria, SinDatagrama, TablasInv, CursoInv
  <1> QED  BY <1>1, <1>2, <1>3, <1>4, <1>5, <1>6 DEF Next, vars, SetThreshold

LEMMA VueltaTabla ==
    ASSUME TablasInv, CursoInv, IInv, ProcesarPar
    PROVE  LET id == enCurso.id
               i  == enCurso.i
               p  == enCurso.pares[i]
               anomalo == \E u \in Vigente(id, p.var) : Fuera(u, p.valor)
           IN  /\ id \in NodeId /\ i \in 1..Len(enCurso.pares) /\ Len(enCurso.pares) \in Nat
               /\ enCurso'.fase = "bucle" /\ enCurso.fase = "bucle"
               /\ enCurso'.id = id /\ enCurso'.i = i + 1 /\ enCurso'.pares = enCurso.pares
               /\ enCurso'.volvio = enCurso.volvio /\ enCurso.avisos \in Seq(Avisos)
               /\ p.var \in Var
               /\ Turno(vars_[id], vars_'[id], p)
               /\ \/ /\ ~Tiene(vars_'[id], p.var)
                     /\ enCurso'.avisos = enCurso.avisos
                  \/ /\ Tiene(vars_'[id], p.var)
                     /\ ~(anomalo /\ Len(enCurso.avisos) < MaxAlertsPerMsg)
                     /\ enCurso'.avisos = enCurso.avisos
                  \/ /\ Tiene(vars_'[id], p.var)
                     /\ anomalo /\ Len(enCurso.avisos) < MaxAlertsPerMsg
                     /\ Len(enCurso'.avisos) = Len(enCurso.avisos) + 1
  <1> DEFINE id == enCurso.id
             i  == enCurso.i
             p  == enCurso.pares[i]
             anomalo == \E u \in Vigente(id, p.var) : Fuera(u, p.valor)
  <1>1. /\ enCurso \in Tarea /\ enCurso' \in Tarea
        /\ i \in 1..Len(enCurso.pares) /\ Len(enCurso.pares) \in Nat
        /\ enCurso'.id = id /\ enCurso'.i = i + 1 /\ enCurso'.pares = enCurso.pares
        /\ enCurso'.volvio = enCurso.volvio
        /\ \/ /\ \A j \in 1..Len(vars_[id]) + 1 : ~Lugar(id, p.var, j)
              /\ vars_' = vars_ /\ enCurso'.avisos = enCurso.avisos
           \/ /\ \E j \in 1..Len(vars_[id]) + 1 : Lugar(id, p.var, j) /\ GuardarPar(id, p, j)
              /\ \/ /\ ~(anomalo /\ Len(enCurso.avisos) < MaxAlertsPerMsg)
                    /\ enCurso'.avisos = enCurso.avisos
                 \/ /\ anomalo /\ Len(enCurso.avisos) < MaxAlertsPerMsg
                    /\ Len(enCurso'.avisos) = Len(enCurso.avisos) + 1
    BY VueltaEfecto
  <1>2. /\ id \in NodeId /\ enCurso.pares \in Datagramas /\ enCurso.avisos \in Seq(Avisos)
        /\ enCurso'.fase = "bucle" /\ enCurso.fase = "bucle"
    BY <1>1 DEF Tarea
  <1>2b. enCurso.pares \in Seq([var : Var, valor : Int \cup {NaN}])
    BY <1>2, DetectionAssumption
  <1>2c. p \in [var : Var, valor : Int \cup {NaN}]
    BY <1>1, <1>2b, ElementoDe
  <1>3. p \in [var : Var, valor : Int \cup {NaN}] /\ p.var \in Var
    BY <1>2c
  <1> HIDE DEF anomalo, id, i, p
  <1>5. ASSUME NEW j \in 1..Len(vars_[id]) + 1, Lugar(id, p.var, j), GuardarPar(id, p, j)
        PROVE  Turno(vars_[id], vars_'[id], p) /\ Tiene(vars_'[id], p.var)
    <2>1. j \in DOMAIN vars_'[id] /\ Escrita(vars_[id], vars_'[id], p, j)
      BY <1>2, <1>3, <1>5, GuardarEscribe
    <2>6. Tiene(vars_'[id], p.var)
      BY <2>1 DEF Tiene, Escrita
    <2> QED  BY <2>1, <2>6 DEF Turno
  <1>6. CASE /\ \A j \in 1..Len(vars_[id]) + 1 : ~Lugar(id, p.var, j)
             /\ vars_' = vars_ /\ enCurso'.avisos = enCurso.avisos
    <2>1. ~Tiene(vars_[id], p.var) /\ Len(vars_[id]) = MaxVars
      BY <1>2, <1>6, SinLugar DEF Tiene, Guardada
    <2>2. ~Tiene(vars_'[id], p.var) /\ Turno(vars_[id], vars_'[id], p)
      BY <1>6, <2>1 DEF Turno
    <2> QED  BY <1>1, <1>2, <1>3, <1>6, <2>2 DEF id, i, p, anomalo
  <1>7. CASE /\ \E j \in 1..Len(vars_[id]) + 1 : Lugar(id, p.var, j) /\ GuardarPar(id, p, j)
             /\ \/ /\ ~(anomalo /\ Len(enCurso.avisos) < MaxAlertsPerMsg)
                   /\ enCurso'.avisos = enCurso.avisos
                \/ /\ anomalo /\ Len(enCurso.avisos) < MaxAlertsPerMsg
                   /\ Len(enCurso'.avisos) = Len(enCurso.avisos) + 1
    <2>1. Tiene(vars_'[id], p.var) /\ Turno(vars_[id], vars_'[id], p)
      BY <1>5, <1>7
    <2> QED  BY <1>1, <1>2, <1>3, <1>7, <2>1 DEF id, i, p, anomalo
  <1> QED  BY <1>1, <1>6, <1>7 DEF id, i, p, anomalo

(* A turn never loses a variable of the node, and in a full table it never   *)
(* adds one.                                                                *)
LEMMA TieneQueda ==
    ASSUME NEW t, NEW t2, NEW p, Turno(t, t2, p), NEW v
    PROVE  /\ Tiene(t, v) => Tiene(t2, v)
           /\ Len(t) = MaxVars /\ ~Tiene(t, v) => Len(t2) = MaxVars /\ (v # p.var => ~Tiene(t2, v))
  <1>1. CASE t2 = t
    BY <1>1
  <1>2. ASSUME NEW j \in DOMAIN t2, Escrita(t, t2, p, j)
        PROVE  /\ Tiene(t, v) => Tiene(t2, v)
               /\ Len(t) = MaxVars /\ ~Tiene(t, v)
                    => Len(t2) = MaxVars /\ (v # p.var => ~Tiene(t2, v))
    <2>1. t2[j].var = p.var
      BY <1>2 DEF Escrita
    <2>2. ASSUME NEW k \in DOMAIN t, t[k].var = v
          PROVE  k \in DOMAIN t2 /\ t2[k].var = v
      BY <1>2, <2>1, <2>2 DEF Escrita
    <2>3. ASSUME NEW k \in DOMAIN t2, t2[k].var = v, v # p.var
          PROVE  k \in DOMAIN t /\ t[k].var = v
      BY <1>2, <2>1, <2>3 DEF Escrita
    <2> QED  BY <1>2, <2>2, <2>3 DEF Tiene, Escrita
  <1> QED  BY <1>1, <1>2 DEF Turno

(* A variable that was attended after n - 1 pairs is after pair n, and so is *)
(* the one pair n names.                                                    *)
LEMMA AtendidaQueda ==
    ASSUME NEW t, NEW t2, NEW pares, NEW n \in Nat, n >= 1, Turno(t, t2, pares[n]), NEW v,
           v # pares[n].var => Atendida(t, pares, n - 1, v)
    PROVE  Atendida(t2, pares, n, v)
  <1> DEFINE w == pares[n].var
  <1>0. n \in 1..n /\ (n + 1)..n = {} /\ \A u \in 1..(n - 1) : u \in 1..n
    OBVIOUS
  <1>1. CASE v = w
    <2>1. CASE t2 = t /\ ~Tiene(t, w) /\ Len(t) = MaxVars
      BY <1>1, <2>1 DEF Atendida
    <2>2. ASSUME NEW j \in DOMAIN t2, Escrita(t, t2, pares[n], j)
          PROVE  Atendida(t2, pares, n, v)
      <3>1. t2[j] = [var |-> v, tiene_valor |-> TRUE, valor |-> pares[n].valor]
        BY <1>1, <2>2 DEF Escrita
      <3>2. Ultimo(t2, pares, n, v, j)
        BY <1>0, <1>1, <3>1 DEF Ultimo
      <3> QED  BY <3>2 DEF Atendida
    <2> QED  BY <2>1, <2>2 DEF Turno
  <1>2. CASE v # w /\ ~Tiene(t, v) /\ Len(t) = MaxVars
    BY <1>2, TieneQueda DEF Atendida
  <1>3. ASSUME v # w, NEW j \in DOMAIN t, Ultimo(t, pares, n - 1, v, j)
        PROVE  Atendida(t2, pares, n, v)
    <2>1. PICK u \in 1..(n - 1) :
             /\ pares[u].var = v
             /\ \A m \in (u + 1)..(n - 1) : pares[m].var # v
             /\ t[j] = [var |-> v, tiene_valor |-> TRUE, valor |-> pares[u].valor]
      BY <1>3 DEF Ultimo
    <2>2. \A m \in (u + 1)..n : m \in (u + 1)..(n - 1) \/ m = n
      OBVIOUS
    <2>3. \A m \in (u + 1)..n : pares[m].var # v
      BY <1>3, <2>1, <2>2
    <2>4. j \in DOMAIN t2 /\ t2[j] = t[j]
      <3>1. t[j].var = v
        BY <2>1
      <3> QED  BY <1>3, <3>1 DEF Turno, Escrita
    <2>5. Ultimo(t2, pares, n, v, j)
      BY <1>0, <2>1, <2>3, <2>4 DEF Ultimo
    <2> QED  BY <2>4, <2>5 DEF Atendida
  <1> QED  BY <1>1, <1>2, <1>3 DEF Atendida

(* The steps that leave the datagram under way as it is, or end it. *)
LEMMA OtrosPasos ==
    ASSUME [Next]_vars,
           \A id \in NodeId, pares \in Datagramas : ~RecordTelemetry(id, pares),
           ~ProcesarPar
    PROVE  \/ enCurso'.fase # "bucle"
           \/ UNCHANGED <<thresholds, vars_, enCurso, dicho>>
  <1>1. CASE \E d \in Destinos, v \in Var, min, max \in Numero : SetThreshold(d, v, min, max)
    BY <1>1 DEF SetThreshold, MutexLibre
  <1>2. CASE \E id \in NodeId, nombres \in Declaradas : RegisterNode(id, nombres)
    BY <1>2 DEF RegisterNode, MutexLibre
  <1>3. CASE \E id \in NodeId : NodoCae(id)
    BY <1>3 DEF NodoCae, MutexLibre
  <1>4. CASE FinTelemetria
    BY <1>4 DEF FinTelemetria, SinDatagrama
  <1> QED  BY <1>1, <1>2, <1>3, <1>4 DEF Next, vars

LEMMA ParesPaso ==
    ASSUME TablasInv, CursoInv, IInv, ParesInv, [Next]_vars
    PROVE  ParesInv'
  <1>1. ASSUME NEW id \in NodeId, NEW pares \in Datagramas, RecordTelemetry(id, pares)
        PROVE  ParesInv'
    <2>1. enCurso'.i = 1
      BY <1>1 DEF RecordTelemetry
    <2> QED  BY <2>1 DEF ParesInv
  <1>2. CASE ProcesarPar
    <2> DEFINE id == enCurso.id
               i  == enCurso.i
               pares == enCurso.pares
    <2>1. /\ i \in 1..Len(pares) /\ Len(pares) \in Nat /\ enCurso.fase = "bucle"
          /\ enCurso'.id = id /\ enCurso'.i = i + 1 /\ enCurso'.pares = pares
          /\ Turno(vars_[id], vars_'[id], pares[i])
      BY <1>2, VueltaTabla
    <2> SUFFICES ASSUME NEW k \in 1..i
                 PROVE  Atendida(vars_'[id], pares, i, pares[k].var)
      <3>1. i + 1 - 1 = i
        BY <2>1
      <3> QED  BY <2>1, <3>1 DEF ParesInv
    <2>2. k # i => k \in 1..(i - 1)
      BY <2>1
    <2>3. pares[k].var # pares[i].var => Atendida(vars_[id], pares, i - 1, pares[k].var)
      BY <2>1, <2>2 DEF ParesInv
    <2>4. i \in Nat /\ i >= 1
      BY <2>1
    <2> QED  BY <2>1, <2>3, <2>4, AtendidaQueda
  <1>3. CASE /\ \A id \in NodeId, pares \in Datagramas : ~RecordTelemetry(id, pares)
             /\ ~ProcesarPar
    BY <1>3, OtrosPasos DEF ParesInv
  <1> QED  BY <1>1, <1>2, <1>3

LEMMA CuentaPaso ==
    ASSUME TablasInv, CursoInv, IInv, ParesInv, CuentaInv, [Next]_vars
    PROVE  CuentaInv'
  <1>0. MaxAlertsPerMsg \in Nat /\ MaxAlertsPerMsg >= 1
    BY DetectionAssumption
  <1>1. ASSUME NEW nodo \in NodeId, NEW pares \in Datagramas, RecordTelemetry(nodo, pares)
        PROVE  CuentaInv'
    <2>1. enCurso' = [fase |-> "bucle", id |-> nodo, pares |-> pares, i |-> 1,
                      volvio |-> ~online[nodo],
                      avisos |-> IF online[nodo] THEN <<>> ELSE <<Vuelta>>]
      BY <1>1 DEF RecordTelemetry
    <2>2. AnomalosHasta(enCurso.i - 1)' = {}
      <3>1. 1..(1 - 1) = {} /\ enCurso'.i = 1
        BY <2>1
      <3> QED  BY <3>1 DEF AnomalosHasta
    <2>3. Cardinality(AnomalosHasta(enCurso.i - 1)') = 0
      BY <2>2, FS_EmptySet
    <2>4. Len(enCurso'.avisos) = IF enCurso'.volvio THEN 1 ELSE 0
      BY <2>1
    <2>5. Debidos(0)' = IF enCurso'.volvio THEN 1 ELSE 0
      BY DEF Debidos
    <2> QED  BY <1>0, <2>3, <2>4, <2>5 DEF CuentaInv, Debidos
  <1>2. CASE ProcesarPar
    <2> DEFINE id == enCurso.id
               i  == enCurso.i
               pares == enCurso.pares
               p == pares[i]
               t == vars_[id]
               t2 == vars_'[id]
               EsAnomalo(q) == \E u \in Vigente(id, q.var) : Fuera(u, q.valor)
               A == {k \in 1..(i - 1) : Tiene(t, pares[k].var) /\ EsAnomalo(pares[k])}
               A2 == {k \in 1..i : Tiene(t2, pares[k].var) /\ EsAnomalo(pares[k])}
    <2>1. /\ i \in 1..Len(pares) /\ Len(pares) \in Nat /\ enCurso.fase = "bucle"
          /\ enCurso'.id = id /\ enCurso'.i = i + 1 /\ enCurso'.pares = pares
          /\ enCurso'.volvio = enCurso.volvio /\ enCurso.avisos \in Seq(Avisos)
          /\ Turno(t, t2, p)
      BY <1>2, VueltaTabla
    <2>2. i \in Nat /\ i >= 1 /\ i + 1 - 1 = i
      BY <2>1
    <2>3. A = AnomalosHasta(i - 1)
      BY DEF AnomalosHasta, Anomalo, Guardada, Tiene
    <2>4. A2 = AnomalosHasta(enCurso.i - 1)'
      <3>1. UNCHANGED dicho
        BY <1>2 DEF ProcesarPar
      <3>2. ASSUME NEW k \in 1..i
            PROVE  Anomalo(k)' <=> Tiene(t2, pares[k].var) /\ EsAnomalo(pares[k])
        <4>1. enCurso'.pares[k] = pares[k] /\ enCurso'.id = id
          BY <2>1
        <4>2. Vigente(enCurso.id, enCurso.pares[k].var)' = Vigente(id, pares[k].var)
          BY <3>1, <4>1 DEF Vigente
        <4>3. Guardada(enCurso.id, enCurso.pares[k].var)' <=> Tiene(t2, pares[k].var)
          BY <4>1 DEF Guardada, Tiene
        <4> QED  BY <4>1, <4>2, <4>3 DEF Anomalo
      <3>3. enCurso'.i - 1 = i
        BY <2>1, <2>2
      <3>4. AnomalosHasta(enCurso.i - 1)' = {k \in 1..i : Anomalo(k)'}
        BY <3>3 DEF AnomalosHasta
      <3> QED  BY <3>2, <3>4
    <2>5. \A k \in 1..(i - 1) : Tiene(t2, pares[k].var) <=> Tiene(t, pares[k].var)
      <3> TAKE k \in 1..(i - 1)
      <3> DEFINE v == pares[k].var
      <3>1. Atendida(t, pares, i - 1, v)
        BY <2>1 DEF ParesInv
      <3>2. Tiene(t, v) \/ Len(t) = MaxVars
        <4>1. \A j \in DOMAIN t : Ultimo(t, pares, i - 1, v, j) => t[j].var = v
          BY DEF Ultimo
        <4> QED  BY <3>1, <4>1 DEF Atendida, Tiene
      <3>3. Tiene(t, v) => Tiene(t2, v)
        BY <2>1, TieneQueda
      <3>4. v = p.var /\ ~Tiene(t, v) /\ Len(t) = MaxVars => ~Tiene(t2, v)
        BY <2>1 DEF Turno, Escrita
      <3>5. v # p.var /\ ~Tiene(t, v) /\ Len(t) = MaxVars => ~Tiene(t2, v)
        BY <2>1, TieneQueda
      <3> QED  BY <3>2, <3>3, <3>4, <3>5
    <2>6. A2 = IF Tiene(t2, p.var) /\ EsAnomalo(p) THEN A \cup {i} ELSE A
      <3>1. \A k : k \in 1..i <=> k \in 1..(i - 1) \/ k = i
        BY <2>2
      <3>2. \A k \in 1..(i - 1) : k \in A2 <=> k \in A
        BY <2>5, <3>1
      <3> QED  BY <3>1, <3>2
    <2>7. IsFiniteSet(A) /\ Cardinality(A) \in Nat /\ i \notin A
      <3>1. IsFiniteSet(1..(i - 1)) /\ A \in SUBSET (1..(i - 1)) /\ i \notin 1..(i - 1)
        BY <2>2, FS_Interval
      <3> QED  BY <3>1, FS_Subset, FS_CardinalityType
    <2>8. Cardinality(A2) = IF Tiene(t2, p.var) /\ EsAnomalo(p) THEN Cardinality(A) + 1
                                                               ELSE Cardinality(A)
      BY <2>6, <2>7, FS_AddElement
    <2>9. \/ ~(Tiene(t2, p.var) /\ EsAnomalo(p)) /\ enCurso'.avisos = enCurso.avisos
          \/ /\ Tiene(t2, p.var) /\ EsAnomalo(p) /\ ~(Len(enCurso.avisos) < MaxAlertsPerMsg)
             /\ enCurso'.avisos = enCurso.avisos
          \/ /\ Tiene(t2, p.var) /\ EsAnomalo(p) /\ Len(enCurso.avisos) < MaxAlertsPerMsg
             /\ Len(enCurso'.avisos) = Len(enCurso.avisos) + 1
      BY <1>2, VueltaTabla
    <2> DEFINE c == Cardinality(A)
               c2 == Cardinality(A2)
               g == Tiene(t2, p.var) /\ EsAnomalo(p)
               b == IF enCurso.volvio THEN 1 ELSE 0
               n == Len(enCurso.avisos)
               n2 == Len(enCurso'.avisos)
    <2>10. n = IF c + b <= MaxAlertsPerMsg THEN c + b ELSE MaxAlertsPerMsg
      BY <2>1, <2>3 DEF CuentaInv, Debidos
    <2>11. /\ c \in Nat /\ b \in 0..1 /\ n \in Nat
           /\ c2 = IF g THEN c + 1 ELSE c
           /\ \/ ~g /\ n2 = n
              \/ g /\ ~(n < MaxAlertsPerMsg) /\ n2 = n
              \/ g /\ n < MaxAlertsPerMsg /\ n2 = n + 1
      <3>1. c \in Nat /\ b \in 0..1 /\ n \in Nat
        BY <2>1, <2>7
      <3>2. c2 = IF g THEN c + 1 ELSE c
        BY <2>8
      <3>3. \/ ~g /\ n2 = n
            \/ g /\ ~(n < MaxAlertsPerMsg) /\ n2 = n
            \/ g /\ n < MaxAlertsPerMsg /\ n2 = n + 1
        BY <2>9
      <3> QED  BY <3>1, <3>2, <3>3
    <2> HIDE DEF c, c2, g, b, n, n2
    <2>12. n2 = IF c2 + b <= MaxAlertsPerMsg THEN c2 + b ELSE MaxAlertsPerMsg
      BY <1>0, <2>10, <2>11
    <2>13. /\ Len(enCurso'.avisos) = n2
           /\ Debidos(Cardinality(AnomalosHasta(enCurso.i - 1)))' = c2 + b
      <3>1. c2 = Cardinality(AnomalosHasta(enCurso.i - 1)')
        BY <2>4 DEF c2
      <3> QED  BY <2>1, <3>1 DEF Debidos, b, n2
    <2> QED  BY <2>12, <2>13 DEF CuentaInv
  <1>3. CASE /\ \A id \in NodeId, pares \in Datagramas : ~RecordTelemetry(id, pares)
             /\ ~ProcesarPar
    <2>1. CASE enCurso'.fase # "bucle"
      BY <2>1 DEF CuentaInv
    <2>2. CASE UNCHANGED <<thresholds, vars_, enCurso, dicho>>
      <3>1. AnomalosHasta(enCurso.i - 1)' = AnomalosHasta(enCurso.i - 1)
        BY <2>2 DEF AnomalosHasta, Anomalo, Guardada, Vigente
      <3> QED  BY <2>2, <3>1 DEF CuentaInv, Debidos
    <2> QED  BY <1>3, <2>1, <2>2, OtrosPasos
  <1> QED  BY <1>1, <1>2, <1>3

LEMMA BucleInicio == Init => BucleInv
  <1> SUFFICES ASSUME Init PROVE BucleInv
    OBVIOUS
  <1>1. enCurso.fase # "bucle"
    BY DEF Init, SinDatagrama
  <1>2. <<>> \in Seq(Variables) /\ Len(<<>>) = 0 /\ MaxVars \in Nat
    BY DetectionAssumption
  <1>3. TablasInv
    BY <1>2 DEF Init, TablasInv
  <1> QED  BY <1>1, <1>3 DEF BucleInv, CursoInv, ParesInv, CuentaInv

(* The invariant of the loop, of every reachable state. *)
LEMMA BucleSiempre == Spec => [](IInv /\ BucleInv)
  <1>1. Init => IInv /\ BucleInv
    BY Inicio, BucleInicio
  <1>2. (IInv /\ BucleInv) /\ [Next]_vars => (IInv /\ BucleInv)'
    BY Paso, TablasPaso, ParesPaso, CuentaPaso DEF BucleInv
  <1> QED  BY <1>1, <1>2, PTL DEF Spec

(* The tables keep within their arrays. *)
LEMMA EsTipo ==
    ASSUME IInv, BucleInv
    PROVE  TypeOK
  <1>1. ASSUME NEW id \in NodeId
        PROVE  /\ Len(vars_[id]) <= MaxVars
               /\ \A k \in DOMAIN vars_[id] : vars_[id][k] \in Variables
    BY DEF BucleInv, TablasInv
  <1>2. ASSUME enCurso.fase = "bucle"
        PROVE  enCurso.i \in 1..Len(enCurso.pares) + 1 /\ Len(enCurso.avisos) <= MaxAlertsPerMsg
    <2>1. enCurso \in Tarea /\ enCurso.i \in 1..(Len(enCurso.pares) + 1)
      BY <1>2 DEF BucleInv, CursoInv
    <2>2. \E todos : Len(enCurso.avisos) = IF todos <= MaxAlertsPerMsg THEN todos ELSE MaxAlertsPerMsg
      BY <1>2 DEF BucleInv, CuentaInv
    <2>3. MaxAlertsPerMsg \in Nat
      BY DetectionAssumption
    <2> QED  BY <2>1, <2>2, <2>3
  <1>3. ASSUME NEW q \in DOMAIN dicho
        PROVE  Cardinality(dicho[q]) <= 1
    <2>1. PICK d \in Destinos, v \in Var : q = <<d, v>>
      BY <1>3 DEF IInv
    <2>2. dicho[q] = {Limites(thresholds[i]) : i \in De(d, v)} /\ \A i, j \in De(d, v) : i = j
      BY <2>1 DEF IInv, DiceLoAceptado, UnaEntrada
    <2>3. CASE De(d, v) = {}
      <3>1. dicho[q] = {}
        BY <2>2, <2>3
      <3> QED  BY <3>1, FS_EmptySet
    <2>4. CASE De(d, v) # {}
      <3>1. PICK i \in De(d, v) : TRUE
        BY <2>4
      <3>2. dicho[q] = {Limites(thresholds[i])}
        BY <2>2, <3>1
      <3>3. Cardinality(dicho[q]) = 1
        BY <3>2, FS_Singleton
      <3> QED  BY <3>3
    <2> QED  BY <2>3, <2>4
  <1>4. DOMAIN vars_ = NodeId /\ online \in [NodeId -> BOOLEAN]
    BY DEF BucleInv, TablasInv
  <1> QED  BY <1>1, <1>2, <1>3, <1>4 DEF TypeOK, IInv

(* The loop ends behind the last pair. *)
LEMMA FinDelBucle ==
    ASSUME CursoInv, Terminado
    PROVE  LET n == Len(enCurso.pares)
           IN  n \in Nat /\ DOMAIN enCurso.pares = 1..n /\ enCurso.i = n + 1 /\ n + 1 - 1 = n
  <1>1. enCurso \in Tarea /\ enCurso.i \in 1..(Len(enCurso.pares) + 1)
        /\ enCurso.i \notin DOMAIN enCurso.pares
    BY DEF CursoInv, Terminado
  <1>2. enCurso.pares \in Seq([var : Var, valor : Int \cup {NaN}])
    BY <1>1, DetectionAssumption DEF Tarea
  <1> QED  BY <1>1, <1>2

(* For every datagram, however many pairs it has and however full the node's *)
(* table is: when the loop of registry_record_telemetry ends, each variable *)
(* it names holds the value of its last pair, or found no room.             *)
THEOREM SiempreTodoParSeGuarda == Spec => []TodoParSeGuarda
  <1>1. ASSUME IInv, BucleInv, Terminado, NEW k \in DOMAIN enCurso.pares
        PROVE  LET v == enCurso.pares[k].var IN
               \/ ~Guardada(enCurso.id, v) /\ Len(vars_[enCurso.id]) = MaxVars
               \/ \E j \in DOMAIN vars_[enCurso.id], ultimo \in DOMAIN enCurso.pares :
                     /\ enCurso.pares[ultimo].var = v
                     /\ \A m \in ultimo + 1..Len(enCurso.pares) : enCurso.pares[m].var # v
                     /\ vars_[enCurso.id][j] =
                          [var |-> v, tiene_valor |-> TRUE, valor |-> enCurso.pares[ultimo].valor]
    <2> DEFINE n == Len(enCurso.pares)
               v == enCurso.pares[k].var
    <2>1. n \in Nat /\ DOMAIN enCurso.pares = 1..n /\ enCurso.i = n + 1 /\ k \in 1..n
          /\ n + 1 - 1 = n
      BY <1>1, FinDelBucle DEF BucleInv
    <2>2. Atendida(vars_[enCurso.id], enCurso.pares, n, v)
      BY <1>1, <2>1 DEF BucleInv, ParesInv, Terminado
    <2> QED  BY <2>1, <2>2 DEF Atendida, Ultimo, Tiene, Guardada
  <1>2. IInv /\ BucleInv => TodoParSeGuarda
    BY <1>1, EsTipo DEF TodoParSeGuarda
  <1> QED  BY <1>2, BucleSiempre, PTL

(* ... and its alerts are one for each stored value that is outside the      *)
(* limits in force, and one if the node was back, cut at the array's size.  *)
THEOREM SiempreAvisosJustos == Spec => []AvisosJustos
  <1>1. ASSUME IInv, BucleInv, Terminado
        PROVE  LET todos == Cardinality(Anomalos) + (IF enCurso.volvio THEN 1 ELSE 0)
               IN  Len(enCurso.avisos) = (IF todos <= MaxAlertsPerMsg THEN todos ELSE MaxAlertsPerMsg)
    <2> DEFINE n == Len(enCurso.pares)
    <2>1. n \in Nat /\ DOMAIN enCurso.pares = 1..n /\ enCurso.i = n + 1 /\ n + 1 - 1 = n
      BY <1>1, FinDelBucle DEF BucleInv
    <2>2. AnomalosHasta(enCurso.i - 1) = Anomalos
      BY <2>1 DEF AnomalosHasta, Anomalo, Anomalos
    <2> QED  BY <1>1, <2>2 DEF BucleInv, CuentaInv, Debidos, Terminado
  <1>2. IInv /\ BucleInv => AvisosJustos
    BY <1>1 DEF AvisosJustos
  <1> QED  BY <1>2, BucleSiempre, PTL
=============================================================================
