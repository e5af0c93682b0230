-------------------------- MODULE NodeAvailability --------------------------
(***************************************************************************)
(* What server/registry.c promises about the availability of the nodes,     *)
(* without slots, SEQs, threads or a mutex: a node is up from the moment it *)
(* is heard of until a silence longer than the limit, each change is in the *)
(* log of alerts when it happens, and each alert of the log is pushed to    *)
(* the operators once.                                                      *)
(***************************************************************************)
EXTENDS Integers, Sequences

CONSTANTS
    NodeId,    \* the nodes
    Limite,    \* a silence longer than this is a fall
    MaxAvisos  \* alerts one contact of a node may leave

VARIABLES
    ahora,      \* the clock
    estado,     \* per node: "desconocido", "arriba" or "abajo"
    contacto,   \* per node: when it was last heard of
    avisos,     \* the log of alerts, oldest first
    publicados  \* the positions of the log pushed to the operators

disponibilidadVars == <<ahora, estado, contacto, avisos, publicados>>

Aviso(tipo, id) == [tipo |-> tipo, node_id |-> id]

Init ==
    /\ ahora = 0
    /\ estado = [id \in NodeId |-> "desconocido"]
    /\ contacto = [id \in NodeId |-> 0]
    /\ avisos = <<>>
    /\ publicados = {}

Pasa ==
    /\ ahora' = ahora + 1
    /\ UNCHANGED <<estado, contacto, avisos, publicados>>

(* NODE_ONLINE if the contact ends a fall. *)
Vuelta(id) == IF estado[id] = "abajo" THEN <<Aviso("NODE_ONLINE", id)>> ELSE <<>>

(* The node registers, or sends values of which `anomalias` are worth an     *)
(* alert; a node not registered yet has no values.                          *)
Contacta(id, anomalias) ==
    /\ UNCHANGED <<ahora, publicados>>
    /\ estado[id] = "desconocido" => anomalias = 0
    /\ Len(Vuelta(id)) + anomalias <= MaxAvisos
    /\ avisos' = avisos \o (Vuelta(id) \o [k \in 1..anomalias |-> Aviso("ANOMALIA", id)])
    /\ estado' = [estado EXCEPT ![id] = "arriba"]
    /\ contacto' = [contacto EXCEPT ![id] = ahora]

(* Only a node that is up falls, and only after its silence. *)
CaeNodo(id) ==
    /\ estado[id] = "arriba" /\ ahora - contacto[id] > Limite
    /\ estado' = [estado EXCEPT ![id] = "abajo"]
    /\ avisos' = Append(avisos, Aviso("NODE_OFFLINE", id))
    /\ UNCHANGED <<ahora, contacto, publicados>>

Publica ==
    /\ \E a \in DOMAIN avisos \ publicados : publicados' = publicados \cup {a}
    /\ UNCHANGED <<ahora, estado, contacto, avisos>>

Next ==
    \/ Pasa \/ Publica
    \/ \E id \in NodeId : CaeNodo(id) \/ \E n \in 0..MaxAvisos : Contacta(id, n)

Spec == Init /\ [][Next]_disponibilidadVars
=============================================================================
