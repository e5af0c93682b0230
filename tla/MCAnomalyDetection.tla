------------------------- MODULE MCAnomalyDetection -------------------------
(***************************************************************************)
(* Instances of AnomalyDetection for TLC.                                   *)
(***************************************************************************)
EXTENDS AnomalyDetection

MCDefectos == <<[var |-> "TEMP", minimo |-> 1, maximo |-> 2]>>
MCDeclaradas == {<<"TEMP">>}

Lectura(v, x) == [var |-> v, valor |-> x]

(* Normal, high and repeated readings, variables without limits, one of them *)
(* more than a node has room for, and a value that is not a number.         *)
MCDatagramas ==
    {<<Lectura("TEMP", 1)>>,
     <<Lectura("TEMP", 3), Lectura("TEMP", 2)>>,
     <<Lectura("TEMP", 3), Lectura("HUM", 3)>>,
     <<Lectura("HUM", NaN), Lectura("VIB", 3)>>}

(* The limits of SET_THRESHOLD: MIN > MAX and not-a-number included. *)
MCLimites == {1, 3, NaN}
=============================================================================
