------------------------------ MODULE WebPanel ------------------------------
(***************************************************************************)
(* web/servicio_web.py over clients/tsp.py: a ThreadingHTTPServer whose     *)
(* handler threads open one TSP session per page, ask five commands in      *)
(* order and close it, whatever fails on the way.                           *)
(*                                                                          *)
(* The server is the environment: it accepts, gives a session a slot of its *)
(* operator table or 503 (OperatorSessions), answers the requests of a      *)
(* connection in order and each answer whole, changes its tables, stops and *)
(* starts again with empty ones.  What a table holds is its version.  An    *)
(* ALERT never arrives: the panel does not subscribe.  A send() that fails  *)
(* is one whose answer never comes: both end in the same handler.           *)
(***************************************************************************)
EXTENDS PanelRecords

CONSTANTS
    Hilos,           \* handler threads
    Visitas,         \* requests browsers make: [metodo, raiz]
    Entornos,        \* values of TSP_TCP_PORT and WEB_PORT: [tsp, web]
    PuertoServidor,  \* where the server listens
    MaxRanuras,      \* slots of the operator table
    MaxMomentos,     \* bound: changes of the tables, restarts included
    Tablas           \* Tablas[m][k]: the records of section k at version m

Ausente == [tipo |-> "ausente", n |-> 0]
Metodos == {"GET", "HEAD", "no permitido", "otro"}

ASSUME PanelAssumption ==
    /\ Visitas \subseteq [metodo : Metodos, raiz : BOOLEAN]
    /\ \A e \in Entornos : \A v \in {e.tsp, e.web} :
          v = Ausente \/ v.tipo = "texto" \/ (v.tipo = "numero" /\ v.n \in Int)
    /\ MaxRanuras \in Nat /\ MaxMomentos \in Nat
    /\ \A m \in 0..MaxMomentos : DOMAIN Tablas[m] = Secciones

EsSucesion(s) == Len(s) \in Nat /\ s = [i \in 1..Len(s) |-> s[i]]

(* The complete records of an answer, and what the server counts of its      *)
(* nodes.                                                                   *)
Buenos(k, registros) == {i \in DOMAIN registros : Len(registros[i]) >= Minimo[k]}
Cuentas(nodos) ==
    <<Cardinality(Buenos(Nodos, nodos)),
      Cardinality({i \in Buenos(Nodos, nodos) : nodos[i][3] \in Activos})>>

(* Answers are sequences of records, records of fields; and at each version  *)
(* of its tables the server counts the nodes it lists                       *)
(* (registry_build_system and registry_build_list_nodes).            *)
ASSUME TablasAssumption ==
    \A m \in 0..MaxMomentos :
        /\ \A k \in Secciones : /\ EsSucesion(Tablas[m][k])
                                 /\ \A i \in DOMAIN Tablas[m][k] : EsSucesion(Tablas[m][k][i])
        /\ \A c \in DOMAIN ClavesStat :
              LET stat == Tablas[m][Sistema]
                  De == {i \in Buenos(Sistema, stat) : stat[i][2] = ClavesStat[c]}
              IN  De # {} /\ \A i \in De : stat[i][3] = Cuentas(Tablas[m][Nodos])[c]

VARIABLES
    main,        \* main(): "arranque", "abortado", "escucha", "parado"
    config,      \* Config: the two ports
    hilo,        \* per thread: where it stands
    visita,      \* per thread: its request
    paso,        \* per thread: the command whose answer it waits for, 0 HELLO
    panel,       \* per thread: PanelDatos
    respuesta,   \* per thread: the HTTP response
    desde,       \* history: version of the tables when the request arrived
    conexion,    \* per thread: its socket is open
    sesion,      \* per thread: the server's thread for it
    pedidos,     \* per thread: requests the server has not answered
    lineas,      \* per thread: answers on their way
    cortada,     \* per thread: the connection is broken
    vivo,        \* the server runs
    momento,     \* version of its tables
    arranque     \* how many times it has restarted

atencion == <<hilo, visita, paso, panel, respuesta, desde>>
canal == <<conexion, sesion, pedidos, lineas, cortada>>
servidor == <<vivo, momento, arranque>>
vars == <<main, config, hilo, visita, paso, panel, respuesta, desde, conexion, sesion,
          pedidos, lineas, cortada, vivo, momento, arranque>>

Bye == 5
SinVisita == [metodo |-> "ninguno", raiz |-> FALSE]
Nada == [codigo |-> 0]

(* A section of PanelDatos: its data, its SeccionError, or neither yet. *)
NoPedida == [tipo |-> "nada"]
ErrorTsp == [tipo |-> "error"]
Corte == [tipo |-> "corte"]
Dato(k, m, a) == [tipo |-> "dato", de |-> k, momento |-> m, arranque |-> a]

SinSecciones == [k \in Secciones |-> NoPedida]
PanelVacio == Crear("disponible", SinSecciones)

Init ==
    /\ main = "arranque" /\ config = [tsp |-> 0, web |-> 0]
    /\ hilo = [h \in Hilos |-> "libre"]
    /\ visita = [h \in Hilos |-> SinVisita]
    /\ paso = [h \in Hilos |-> 0]
    /\ panel = [h \in Hilos |-> PanelVacio]
    /\ respuesta = [h \in Hilos |-> Nada]
    /\ desde = [h \in Hilos |-> 0]
    /\ conexion = [h \in Hilos |-> FALSE]
    /\ sesion = [h \in Hilos |-> "no"]
    /\ pedidos = [h \in Hilos |-> <<>>]
    /\ lineas = [h \in Hilos |-> <<>>]
    /\ cortada = [h \in Hilos |-> FALSE]
    /\ vivo = TRUE /\ momento = 0 /\ arranque = 0

-----------------------------------------------------------------------------
(* main                                                                     *)

EsPuerto(n) == 1 <= n /\ n <= 65535

(* Mutant: port 0 passes, and the kernel would choose one. *)
PuertoValidoDesdeCero(v) == v = Ausente \/ (v.tipo = "numero" /\ (v.n = 0 \/ EsPuerto(v.n)))

(* parsear_puerto: no value, or an integer in the range. *)
PuertoValido(v) == v = Ausente \/ (v.tipo = "numero" /\ EsPuerto(v.n))
Puerto(v, defecto) == IF v = Ausente THEN defecto ELSE v.n

(* cargar_config and the constructor of the HTTP server, which may find the *)
(* port taken.                                                              *)
Arrancar ==
    /\ main = "arranque"
    /\ \E e \in Entornos :
        \/ /\ PuertoValido(e.tsp) /\ PuertoValido(e.web)
           /\ main' = "escucha"
           /\ config' = [tsp |-> Puerto(e.tsp, 6000), web |-> Puerto(e.web, 8080)]
        \/ main' = "abortado" /\ UNCHANGED config
    /\ UNCHANGED <<atencion, canal, servidor>>

Ocupados == {h \in Hilos : hilo[h] \notin {"libre", "fin"}}

(* Ctrl-C: the process ends, and its threads, daemons, with it. *)
Parar ==
    /\ main = "escucha"
    /\ main' = "parado"
    /\ hilo' = [h \in Hilos |-> IF h \in Ocupados THEN "muerto" ELSE hilo[h]]
    /\ conexion' = [h \in Hilos |-> FALSE]
    /\ pedidos' = [h \in Hilos |-> <<>>]
    /\ lineas' = [h \in Hilos |-> <<>>]
    /\ UNCHANGED <<config, visita, paso, panel, respuesta, desde, sesion, cortada, servidor>>

-----------------------------------------------------------------------------
(* A handler thread.                                                        *)

Pasa(h, a, b) == hilo[h] = a /\ hilo' = [hilo EXCEPT ![h] = b]

(* ThreadingHTTPServer gives the request a thread. *)
Recibe(h, v) ==
    /\ main = "escucha"
    /\ Pasa(h, "libre", "ruta")
    /\ visita' = [visita EXCEPT ![h] = v]
    /\ desde' = [desde EXCEPT ![h] = momento]
    /\ UNCHANGED <<main, config, paso, panel, respuesta, canal, servidor>>

Pagina(p) == [tipo |-> p.estado, secciones |-> p.secciones]
Aviso == [tipo |-> "aviso"]

(* render_pagina: what the page shows of each section. *)
RegistrosDe(s) == IF s.tipo = "dato" THEN Tablas[s.momento][s.de] ELSE <<>>
Vista(pagina) == [k \in Secciones |-> Muestra(k, RegistrosDe(pagina.secciones[k]))]

Responde(h, codigo, pagina) ==
    respuesta' = [respuesta EXCEPT ![h] = [codigo |-> codigo, pagina |-> pagina]]

(* BaseHTTPRequestHandler looks the method up, _despachar_get the path. *)
Rechaza(h) ==
    /\ Pasa(h, "ruta", "fin")
    /\ LET v == visita[h] IN
       \/ v.metodo = "otro" /\ Responde(h, 501, Aviso)
       \/ v.metodo = "no permitido" /\ Responde(h, 405, Aviso)
       \/ v.metodo \in {"GET", "HEAD"} /\ ~v.raiz /\ Responde(h, 404, Aviso)
    /\ UNCHANGED <<main, config, visita, paso, panel, desde, canal, servidor>>

QuierePagina(h) == visita[h].metodo \in {"GET", "HEAD"} /\ visita[h].raiz

(* comando() and cerrar(), up to the wait. *)
Enviar(h, k) ==
    pedidos' = [pedidos EXCEPT ![h] = IF cortada[h] THEN @ ELSE Append(@, k)]

(* conectar(), and HELLO. *)
Conecta(h) ==
    /\ QuierePagina(h)
    /\ vivo /\ config.tsp = PuertoServidor
    /\ Pasa(h, "ruta", "espera")
    /\ conexion' = [conexion EXCEPT ![h] = TRUE]
    /\ sesion' = [sesion EXCEPT ![h] = "pendiente"]
    /\ cortada' = [cortada EXCEPT ![h] = FALSE]
    /\ pedidos' = [pedidos EXCEPT ![h] = <<0>>]
    /\ UNCHANGED <<main, config, visita, paso, panel, respuesta, desde, lineas, servidor>>

(* Refused, no such name, or 5 seconds without an answer: PanelDatos.degradado. *)
NoConecta(h) ==
    /\ QuierePagina(h)
    /\ Pasa(h, "ruta", "fin")
    /\ Responde(h, 200, Pagina(Crear("degradado", SinSecciones)))
    /\ UNCHANGED <<main, config, visita, paso, panel, desde, canal, servidor>>

Anotar(h, s) == panel' = [panel EXCEPT ![h].secciones[paso[h]] = s]

(* The finally: cerrar() says BYE. *)
Despedir(h) ==
    /\ hilo' = [hilo EXCEPT ![h] = "bye"]
    /\ Enviar(h, Bye)
    /\ UNCHANGED paso

(* The next of the five commands, or the finally. *)
Seguir(h) ==
    \/ /\ paso[h] < 4
       /\ paso' = [paso EXCEPT ![h] = @ + 1]
       /\ Enviar(h, paso[h] + 1)
       /\ UNCHANGED hilo
    \/ paso[h] = 4 /\ Despedir(h)

(* leer_respuesta: an answer, or an ERR.  That to HELLO has no section.     *)
Lee(h) ==
    /\ hilo[h] = "espera" /\ lineas[h] # <<>>
    /\ LET l == Head(lineas[h]) IN
       \/ paso[h] = 0 /\ UNCHANGED panel
       \/ paso[h] # 0 /\ l.tipo = "OK" /\ Anotar(h, Dato(l.de, l.momento, l.arranque))
       \/ paso[h] # 0 /\ l.tipo = "ERR" /\ Anotar(h, ErrorTsp)
    /\ lineas' = [lineas EXCEPT ![h] = Tail(@)]
    /\ Seguir(h)
    /\ UNCHANGED <<main, config, visita, respuesta, desde, conexion, sesion, cortada, servidor>>

(* Mutants: nothing limits the wait; a time out is one more error of the     *)
(* section; the early return forgets the finally.                           *)
SinRespuestaNunca(h) == hilo[h] = "espera" /\ lineas[h] = <<>> /\ cortada[h]

(* The connection is lost, or 5 seconds pass without a byte. *)
SinRespuesta(h) == hilo[h] = "espera" /\ lineas[h] = <<>>

(* This section and every one not asked for yet, after a failure. *)
Cortadas(h) == [k \in Secciones |-> IF k >= paso[h] THEN Corte ELSE panel[h].secciones[k]]

TrasFalloSigue(h) ==
    /\ IF paso[h] = 0 THEN UNCHANGED panel ELSE Anotar(h, Corte)
    /\ Seguir(h)
TrasFalloSinCerrar(h) ==
    /\ panel' = [panel EXCEPT ![h].secciones = Cortadas(h)]
    /\ hilo' = [hilo EXCEPT ![h] = "fin"]
    /\ UNCHANGED <<paso, pedidos>>

(* _ERRORES_SESION: no command is sent any more. *)
TrasFallo(h) ==
    /\ panel' = [panel EXCEPT ![h].secciones = Cortadas(h)]
    /\ Despedir(h)

Falla(h) ==
    /\ SinRespuesta(h)
    /\ TrasFallo(h)
    /\ UNCHANGED <<main, config, visita, respuesta, desde, conexion, sesion, lineas, cortada,
                   servidor>>

(* Any other exception passes through the finally, up to _responder_panel.  *)
Revienta(h) ==
    /\ hilo[h] = "espera"
    /\ panel' = [panel EXCEPT ![h] = Crear("excepcion", SinSecciones)]
    /\ Despedir(h)
    /\ UNCHANGED <<main, config, visita, respuesta, desde, conexion, sesion, lineas, cortada,
                   servidor>>

(* After BYE a line is read, the connection lost or 5 seconds over: close(), *)
(* render_pagina, and 200 always (_responder_panel).                        *)
Cierra(h) ==
    /\ Pasa(h, "bye", "fin")
    /\ conexion' = [conexion EXCEPT ![h] = FALSE]
    /\ pedidos' = [pedidos EXCEPT ![h] = <<>>]
    /\ lineas' = [lineas EXCEPT ![h] = <<>>]
    /\ paso' = [paso EXCEPT ![h] = 0]
    /\ panel' = [panel EXCEPT ![h] = PanelVacio]
    /\ Responde(h, 200, Pagina(panel[h]))
    /\ UNCHANGED <<main, config, visita, desde, sesion, cortada, servidor>>

(* The thread is over; its name serves again when the server has noticed. *)
Acaba(h) ==
    /\ Pasa(h, "fin", "libre") /\ sesion[h] = "no"
    /\ visita' = [visita EXCEPT ![h] = SinVisita]
    /\ respuesta' = [respuesta EXCEPT ![h] = Nada]
    /\ desde' = [desde EXCEPT ![h] = 0]
    /\ cortada' = [cortada EXCEPT ![h] = FALSE]
    /\ UNCHANGED <<main, config, paso, panel, conexion, sesion, pedidos, lineas, servidor>>

-----------------------------------------------------------------------------
(* The server.                                                              *)

EnUso == {h \in Hilos : sesion[h] = "dentro"}

(* A slot for the session, or 503 and the connection closed, since other     *)
(* operators take slots too: the line may be lost with it.                  *)
Admite(h) ==
    /\ sesion[h] = "pendiente"
    /\ \/ /\ Cardinality(EnUso) < MaxRanuras
          /\ sesion' = [sesion EXCEPT ![h] = "dentro"]
          /\ UNCHANGED <<lineas, cortada, pedidos>>
       \/ /\ sesion' = [sesion EXCEPT ![h] = "no"]
          /\ cortada' = [cortada EXCEPT ![h] = TRUE]
          /\ pedidos' = [pedidos EXCEPT ![h] = <<>>]
          /\ \/ UNCHANGED lineas
             \/ /\ conexion[h]
                /\ lineas' = [lineas EXCEPT ![h] = Append(@, [tipo |-> "ERR"])]
    /\ UNCHANGED <<main, config, atencion, conexion, servidor>>

Linea(k) == [tipo |-> "OK", de |-> k, momento |-> momento, arranque |-> arranque]

Atiende(h) ==
    /\ sesion[h] = "dentro" /\ pedidos[h] # <<>>
    /\ LET k == Head(pedidos[h]) IN
       \/ /\ k # Bye
          /\ \E l \in {Linea(k), [tipo |-> "ERR"]} :
                lineas' = [lineas EXCEPT ![h] = Append(@, l)]
          /\ pedidos' = [pedidos EXCEPT ![h] = Tail(@)]
          /\ UNCHANGED <<sesion, cortada>>
       \/ /\ k = Bye
          /\ lineas' = [lineas EXCEPT ![h] = Append(@, Linea(Bye))]
          /\ sesion' = [sesion EXCEPT ![h] = "no"]
          /\ cortada' = [cortada EXCEPT ![h] = TRUE]
          /\ pedidos' = [pedidos EXCEPT ![h] = <<>>]
    /\ UNCHANGED <<main, config, atencion, conexion, servidor>>

(* recv() finds the connection closed or broken. *)
Suelta(h) ==
    /\ sesion[h] = "dentro" /\ (~conexion[h] \/ cortada[h])
    /\ sesion' = [sesion EXCEPT ![h] = "no"]
    /\ UNCHANGED <<main, config, atencion, conexion, pedidos, lineas, cortada, servidor>>

(* The network breaks a connection; what was on its way may be lost. *)
Corta(h) ==
    /\ conexion[h] /\ ~cortada[h]
    /\ cortada' = [cortada EXCEPT ![h] = TRUE]
    /\ pedidos' = [pedidos EXCEPT ![h] = <<>>]
    /\ lineas' \in {lineas, [lineas EXCEPT ![h] = <<>>]}
    /\ UNCHANGED <<main, config, atencion, conexion, sesion, servidor>>

Cambia ==
    /\ vivo /\ momento < MaxMomentos
    /\ momento' = momento + 1
    /\ UNCHANGED <<main, config, atencion, canal, vivo, arranque>>

Cae ==
    /\ vivo /\ momento < MaxMomentos
    /\ vivo' = FALSE
    /\ sesion' = [h \in Hilos |-> "no"]
    /\ cortada' = [h \in Hilos |-> TRUE]
    /\ pedidos' = [h \in Hilos |-> <<>>]
    /\ UNCHANGED <<main, config, atencion, conexion, lineas, momento, arranque>>

Vuelve ==
    /\ ~vivo
    /\ vivo' = TRUE
    /\ momento' = momento + 1 /\ arranque' = arranque + 1
    /\ UNCHANGED <<main, config, atencion, canal>>

-----------------------------------------------------------------------------
(* What the thread does by itself once it has a request. *)
Hilo(h) ==
    Rechaza(h) \/ Conecta(h) \/ NoConecta(h) \/ Lee(h) \/ Falla(h) \/ Cierra(h)

Servidor(h) == Admite(h) \/ Atiende(h) \/ Suelta(h)

Next ==
    \/ Arrancar \/ Parar \/ Cambia \/ Cae \/ Vuelve
    \/ \E h \in Hilos :
        \/ \E v \in Visitas : Recibe(h, v)
        \/ Hilo(h) \/ Revienta(h) \/ Acaba(h) \/ Servidor(h) \/ Corta(h)

Spec == Init /\ [][Next]_vars

(* The panel's threads run and their waits end after 5 seconds; nothing is  *)
(* asked of the server but that it accepts and notices closed connections,  *)
(* as its threads run.                                                      *)
FairSpec ==
    /\ Spec
    /\ \A h \in Hilos : WF_vars(Hilo(h)) /\ WF_vars(Admite(h)) /\ WF_vars(Suelta(h))

-----------------------------------------------------------------------------
Promesa == INSTANCE PanelPromise WITH
    momento <- momento, arranque <- arranque, visita <- visita, desde <- desde,
    respuesta <- respuesta

Etapas == {"libre", "ruta", "espera", "bye", "fin", "muerto"}

TypeOK ==
    /\ main \in {"arranque", "abortado", "escucha", "parado"}
    /\ hilo \in [Hilos -> Etapas]
    /\ visita \in [Hilos -> Visitas \cup {SinVisita}]
    /\ paso \in [Hilos -> 0..4]
    /\ panel = [h \in Hilos |-> [estado |-> panel[h].estado,
                                 secciones |-> [k \in Secciones |-> panel[h].secciones[k]]]]
    /\ respuesta = [h \in Hilos |-> respuesta[h]]
    /\ desde \in [Hilos -> Nat]
    /\ conexion \in [Hilos -> BOOLEAN] /\ cortada \in [Hilos -> BOOLEAN]
    /\ sesion \in [Hilos -> {"no", "pendiente", "dentro"}]
    /\ pedidos = [h \in Hilos |-> pedidos[h]] /\ lineas = [h \in Hilos |-> lineas[h]]
    /\ vivo \in BOOLEAN /\ momento \in Nat /\ arranque \in Nat

(* A thread that waits for no answer holds no connection, and one without a  *)
(* request keeps nothing of the last one.                                   *)
EnReposo(h) ==
    /\ hilo[h] \notin {"espera", "bye"} => /\ ~conexion[h]
                                           /\ pedidos[h] = <<>> /\ lineas[h] = <<>>
    /\ hilo[h] \in {"libre", "ruta", "fin"} => paso[h] = 0 /\ panel[h] = PanelVacio
    /\ hilo[h] \in {"libre", "ruta", "espera", "bye"} => respuesta[h] = Nada
    /\ hilo[h] = "libre" => visita[h] = SinVisita
    /\ hilo[h] \in {"ruta", "espera", "bye"} => visita[h] \in Visitas /\ desde[h] <= momento
    /\ hilo[h] \in {"espera", "bye"} => QuierePagina(h)
    /\ hilo[h] = "fin" => respuesta[h] # Nada

(* What a thread has read by the step it is at, of one life of the server    *)
(* and never older than before; a whole connection is with the present one. *)
Leido(h) ==
    LET s == panel[h].secciones IN
    /\ panel[h].estado = "disponible"
    /\ \A k \in Secciones :
        /\ k < paso[h] => s[k].tipo \in {"dato", "error"}
        /\ k >= paso[h] => s[k] = NoPedida
        /\ s[k].tipo = "dato" =>
              /\ s[k].de = k
              /\ s[k].momento \in desde[h]..momento
              /\ ~cortada[h] => s[k].arranque = arranque
    /\ \A j, k \in Secciones : j < k /\ s[j].tipo = "dato" /\ s[k].tipo = "dato" =>
        s[j].momento <= s[k].momento /\ s[j].arranque = s[k].arranque

(* At most one request is pending, or its answer on the way: the one of the  *)
(* step, and newer than what has been read.                                 *)
Respuesta(h, l) ==
    \/ l = [tipo |-> "ERR"]
    \/ /\ l = [tipo |-> "OK", de |-> paso[h], momento |-> l.momento, arranque |-> l.arranque]
       /\ l.momento \in desde[h]..momento
       /\ ~cortada[h] => l.arranque = arranque
       /\ \A k \in Secciones : panel[h].secciones[k].tipo = "dato" =>
             /\ panel[h].secciones[k].momento <= l.momento
             /\ panel[h].secciones[k].arranque = l.arranque

UnaPendiente(h) ==
    /\ \/ pedidos[h] = <<>> /\ lineas[h] = <<>>
       \/ pedidos[h] = <<paso[h]>> /\ lineas[h] = <<>> /\ ~cortada[h]
       \/ pedidos[h] = <<>> /\ sesion[h] # "pendiente"
          /\ \E l \in {lineas[h][1]} : lineas[h] = <<l>> /\ Respuesta(h, l)
    /\ ~vivo => cortada[h]

Bien(h) ==
    /\ EnReposo(h)
    /\ hilo[h] = "espera" => Leido(h) /\ UnaPendiente(h)
    /\ hilo[h] = "bye" => panel[h].estado = "excepcion"
                          \/ Promesa!EsPanel(desde[h], panel[h].secciones)

(* A page under way is good at every step, so that it is good whenever it    *)
(* breaks off: no answer of an earlier command, of a command given up or of  *)
(* another life of the server is taken for the one awaited (comando,         *)
(* _ejecutar_comandos); and the panel listens on legal ports only           *)
(* (parsear_puerto).                                                        *)
EnCurso ==
    /\ TypeOK
    /\ main = "escucha" => EsPuerto(config.tsp) /\ EsPuerto(config.web)
    /\ \A h \in Hilos : Bien(h)

(* The panel keeps PanelPromise: whatever fails, is late or restarts while a *)
(* page is being put together, each table on it is the answer to its own    *)
(* command, no older than the request, in order, from one life of the       *)
(* server, and nothing follows a cut (obtener_panel, _ejecutar_comandos).   *)
CumpleLaPromesa == Promesa!Spec

(* The records a section shows are the complete ones of one version of its   *)
(* table, all and in order, and a table of nodes and a state of the system  *)
(* of the same version agree on how many nodes there are and how many are   *)
(* active, although one is counted by the server and the other by the panel *)
(* (PanelDatos.crear, _contar_activos: Req. 4.3 and 4.4).                   *)
EnOrden(registros, k, filas) ==
    LET buenos == Buenos(k, registros)
        Puesto(i) == Cardinality({j \in buenos : j <= i})
    IN  /\ Len(filas) = Cardinality(buenos)
        /\ \A i \in buenos : \A c \in 2..Minimo[k] : filas[Puesto(i)][c - 1] = registros[i][c]

PaginaCuadra ==
    \A h \in Hilos : respuesta[h] # Nada /\ respuesta[h].codigo = 200 =>
        LET s == respuesta[h].pagina.secciones
            v == Vista(respuesta[h].pagina)
        IN  /\ EnOrden(RegistrosDe(s[Nodos]), Nodos, v[Nodos].tabla)
            /\ \A k \in 3..4 : EnOrden(RegistrosDe(s[k]), k, v[k])
            /\ s[Sistema].tipo = "dato" /\ s[Nodos].tipo = "dato"
               /\ s[Sistema].momento = s[Nodos].momento =>
                  v[Sistema] = <<v[Nodos].registrados, v[Nodos].activos>>

(* Every request is answered even if the server never answers (Req. 7.3),   *)
(* unless the process is stopped.                                           *)
TodaVisitaSeResponde == \A h \in Hilos : hilo[h] = "ruta" ~> hilo[h] \in {"fin", "muerto"}

(* No slot of the operator table stays with a page that is over, whatever   *)
(* ended it: each page gives back the session it took (Req. 8.2), Ctrl-C    *)
(* included.                                                                *)
RanuraDevuelta == \A h \in Hilos : sesion[h] = "dentro" ~> sesion[h] # "dentro"
=============================================================================
