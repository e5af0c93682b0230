----------------------------- MODULE HistoryLog -----------------------------
(***************************************************************************)
(* What the circular histories of the registry (alerts, measurements)       *)
(* promise their readers: the newest entries, newest first, at most as many *)
(* as the history keeps.                                                    *)
(***************************************************************************)
EXTENDS Integers, Sequences

CONSTANTS
    Entradas,     \* the entries that may be stored
    MaxEntradas,  \* entries the history keeps
    Caben         \* the largest count that is understood as it was asked

VARIABLES
    ultimas,    \* the entries kept, oldest first
    respuesta   \* the last answer: what was asked for and what was given

logVars == <<ultimas, respuesta>>

Respuesta(n, error, entradas) == [n |-> n, error |-> error, entradas |-> entradas]

Init == ultimas = <<>> /\ respuesta = Respuesta(0, FALSE, <<>>)

Guardar(e) ==
    /\ ultimas' = Append(IF Len(ultimas) = MaxEntradas THEN Tail(ultimas) ELSE ultimas, e)
    /\ UNCHANGED respuesta

(* The newest n entries, or all there are, newest first. *)
Recientes(n) ==
    [k \in 1..(IF n < Len(ultimas) THEN n ELSE Len(ultimas)) |->
        ultimas[Len(ultimas) + 1 - k]]

(* A count above Caben is refused or taken for another: even then what is    *)
(* given is the newest entries.                                             *)
Consultar(n) ==
    /\ \/ n <= Caben /\ respuesta' = Respuesta(n, FALSE, Recientes(n))
       \/ /\ n > Caben
          /\ \/ respuesta' = Respuesta(n, TRUE, <<>>)
             \/ \E m \in 1..Caben : respuesta' = Respuesta(n, FALSE, Recientes(m))
    /\ UNCHANGED ultimas

(* A query step is named by the count its answer tells. *)
Next == \/ \E e \in Entradas : Guardar(e)
        \/ respuesta'.n \in Nat \ {0} /\ Consultar(respuesta'.n)

Spec == Init /\ [][Next]_logVars
=============================================================================
