----------------------------- MODULE MCWebPanel -----------------------------
EXTENDS WebPanel

Numero(n) == [tipo |-> "numero", n |-> n]

MCVisitas == {[metodo |-> "GET", raiz |-> TRUE], [metodo |-> "HEAD", raiz |-> FALSE],
              [metodo |-> "no permitido", raiz |-> TRUE], [metodo |-> "otro", raiz |-> TRUE]}

(* The defaults; port 0; a port where no server listens; and not a port. *)
MCEntornos == {[tsp |-> Ausente, web |-> Ausente], [tsp |-> Ausente, web |-> Numero(0)],
               [tsp |-> Numero(7000), web |-> Numero(65535)],
               [tsp |-> Ausente, web |-> Numero(65536)],
               [tsp |-> [tipo |-> "texto", n |-> 0], web |-> Ausente]}

(* Tables of three versions: nodes come and change, and a record is too      *)
(* short and another longer than this panel knows.                          *)
Stat(clave, n) == <<"STAT", clave, n>>
Nodo(id, estado) == <<"NODE", id, estado, "SENSOR", "PLANTA_A", 1, 2, 0>>
Meas(v) == <<"MEAS", "N1", "TEMP", v, "C", 5>>
Event(v) == <<"EVENT", "N1", "TEMP_ALTA", v, 5, "ALTA">>
Tabla(registrados, activos, nodos, medidas, alertas) ==
    << <<Stat("UPTIME_SEG", 5), Stat("NODOS_REGISTRADOS", registrados), <<"STAT", "X">>,
         Stat("NODOS_ACTIVOS", activos)>>, nodos, medidas, alertas >>

MCTablas == [m \in 0..MaxMomentos |->
    CASE m = 0 -> Tabla(0, 0, <<>>, <<>>, <<>>)
      [] m = 1 -> Tabla(2, 1, <<Nodo("N1", "ONLINE"), <<"NODE", "N3">>, Nodo("N2", "OFFLINE")>>,
                        <<Meas(1), <<"MEAS">>, Append(Meas(2), "extra")>>, <<Event(3)>>)
      [] OTHER -> Tabla(2, 2, <<Nodo("N1", "online"), Append(Nodo("N2", "ONLINE"), "extra")>>,
                        <<Meas(4)>>, <<Event(3), Event(4)>>)]
=============================================================================
