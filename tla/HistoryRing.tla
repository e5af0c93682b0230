---------------------------- MODULE HistoryRing -----------------------------
(***************************************************************************)
(* The circular histories of server/registry.c.  g_alerts and g_meas are    *)
(* the same structure: an array, the index of the next entry to write and   *)
(* a count that stops at the capacity.  guardar_alerta and guardar_medicion *)
(* write it, registry_build_alerts and registry_build_last read it, all     *)
(* with g_mutex held: each is one action.  The count a client asks for goes *)
(* through cantidad_solicitada (handlers.c), which narrows a long to int.   *)
(***************************************************************************)
EXTENDS Integers, Sequences

CONSTANTS
    Entradas,     \* the entries that may be stored
    Vacia,        \* an array element never written
    MaxEntradas,  \* MAX_ALERTS, MAX_MEASUREMENTS
    PorDefecto,   \* the 10 entries of a query without a count
    IntMax,       \* INT_MAX: an int has 2 * (IntMax + 1) values
    Peticiones    \* the counts clients ask for, as the long strtol() gives

ASSUME RingAssumption ==
    /\ MaxEntradas \in Nat \ {0}
    /\ IntMax \in Nat
    /\ PorDefecto \in 1..IntMax
    /\ Peticiones \subseteq Nat \ {0}
    /\ Vacia \notin Entradas

VARIABLES
    ring,       \* g_alerts, g_meas
    head,       \* g_alert_head, g_meas_head
    count,      \* g_alert_count, g_meas_count
    respuesta   \* the last answer built

ringVars == <<ring, head, count, respuesta>>

Indices == 0..(MaxEntradas - 1)
Respuesta(n, error, entradas) == [n |-> n, error |-> error, entradas |-> entradas]

(* registry_init *)
RingInit ==
    /\ ring = [i \in Indices |-> Vacia]
    /\ head = 0 /\ count = 0
    /\ respuesta = Respuesta(0, FALSE, <<>>)

-----------------------------------------------------------------------------
(* Mutant: the index runs off the array. *)
SiguienteSinVuelta(i) == i + 1

Siguiente(i) == (i + 1) % MaxEntradas

Guardar(e) ==
    /\ ring' = [ring EXCEPT ![head] = e]
    /\ head' = Siguiente(head)
    /\ count' = IF count < MaxEntradas THEN count + 1 ELSE count
    /\ UNCHANGED respuesta

(* Mutant: starts at the element about to be written. *)
IndiceDesdeHead(k) == (head - k + MaxEntradas * 2) % MaxEntradas

(* The index of the entry k places before the newest. *)
Indice(k) == (head - 1 - k + MaxEntradas * 2) % MaxEntradas

(* registry_build_last, registry_build_alerts *)
Construir(n) ==
    LET pedidas == IF n <= 0 THEN PorDefecto ELSE n
        dadas   == IF pedidas > count THEN count ELSE pedidas
    IN  [k \in 1..dadas |-> ring[Indice(k - 1)]]

(* The conversion of a long to int: its low bits, with their sign. *)
AInt(n) ==
    LET valores == 2 * (IntMax + 1)
        m == n % valores
    IN  IF m > IntMax THEN m - valores ELSE m

(* cmd_get_last, cmd_get_alerts: a negative count is an error. *)
Consultar(n) ==
    /\ respuesta' = IF AInt(n) < 0 THEN Respuesta(n, TRUE, <<>>)
                    ELSE Respuesta(n, FALSE, Construir(AInt(n)))
    /\ UNCHANGED <<ring, head, count>>

ConsultarSinCantidad ==
    /\ respuesta' = Respuesta(PorDefecto, FALSE, Construir(PorDefecto))
    /\ UNCHANGED <<ring, head, count>>

RingNext ==
    \/ \E e \in Entradas : Guardar(e)
    \/ \E n \in Peticiones : Consultar(n)
    \/ ConsultarSinCantidad

RingSpec == RingInit /\ [][RingNext]_ringVars

-----------------------------------------------------------------------------
(* The entries kept, oldest first. *)
ultimas == [k \in 1..count |-> ring[Indice(count - k)]]

Log == INSTANCE HistoryLog WITH Caben <- IntMax

(* The index and the count stay in their ranges; that the elements within    *)
(* the count have been written follows from ImplementaElLog.                *)
RingTypeOK ==
    /\ ring \in [Indices -> Entradas \cup {Vacia}]
    /\ head \in Indices
    /\ count \in 0..MaxEntradas
    /\ ultimas \in Seq(Entradas \cup {Vacia})
    /\ respuesta.entradas \in Seq(Entradas \cup {Vacia})

(* The array, its index and its count implement the history of HistoryLog:   *)
(* a query answers with the newest entries, newest first, however often the *)
(* index has gone round and whatever int its count was narrowed to.         *)
ImplementaElLog == Log!Spec /\ []RingTypeOK

=============================================================================
