---------------------------- MODULE PanelPromise ----------------------------
(***************************************************************************)
(* What the web panel (web/servicio_web.py) promises a browser, without TSP *)
(* sessions, threads of the server or failures: the status code is that of  *)
(* the request, and a page is either an apology or four sections that tell  *)
(* what the server's tables held while the request was being served.        *)
(*                                                                          *)
(* The contents of the tables are their version, `momento`.                 *)
(***************************************************************************)
EXTENDS Integers

CONSTANTS
    Hilos,    \* handler threads, one HTTP request at a time each
    Visitas   \* the requests browsers make: [metodo, raiz]

VARIABLES
    momento,    \* version of the server's tables
    arranque,   \* how many times the server has restarted
    visita,     \* per thread: the request, or SinVisita
    desde,      \* per thread: the version when its request arrived
    respuesta   \* per thread: the HTTP response, or Nada

promiseVars == <<momento, arranque, visita, desde, respuesta>>

SinVisita == [metodo |-> "ninguno", raiz |-> FALSE]
Nada == [codigo |-> 0]
Secciones == 1..4

Init ==
    /\ momento = 0 /\ arranque = 0
    /\ visita = [h \in Hilos |-> SinVisita]
    /\ desde = [h \in Hilos |-> 0]
    /\ respuesta = [h \in Hilos |-> Nada]

(* Only GET and HEAD of "/" are worth a page. *)
Codigo(v) ==
    CASE v.metodo = "otro" -> 501
      [] v.metodo = "no permitido" -> 405
      [] v.metodo \in {"GET", "HEAD"} -> IF v.raiz THEN 200 ELSE 404

(* Each table comes from its own command and is no older than the request;  *)
(* they go forward in time and belong to one life of the server; and where  *)
(* the session was cut there is nothing after the cut.                      *)
EsPanel(d, s) ==
    /\ \A k \in Secciones :
        /\ s[k].tipo \in {"dato", "error", "corte"}
        /\ s[k].tipo = "dato" => s[k].de = k /\ s[k].momento \in d..momento
    /\ \A j, k \in Secciones : j < k =>
        /\ s[j].tipo = "corte" => s[k].tipo = "corte"
        /\ s[j].tipo = "dato" /\ s[k].tipo = "dato" =>
              s[j].momento <= s[k].momento /\ s[j].arranque = s[k].arranque

EsPagina(d, p) == p.tipo \in {"degradado", "excepcion"} \/ EsPanel(d, p.secciones)

Cambia ==
    /\ momento' > momento
    /\ arranque' \in {arranque, arranque + 1}
    /\ UNCHANGED <<visita, desde, respuesta>>

Pide(h) ==
    /\ visita[h] = SinVisita
    /\ \E v \in Visitas : visita' = [visita EXCEPT ![h] = v]
    /\ desde' = [desde EXCEPT ![h] = momento]
    /\ UNCHANGED <<momento, arranque, respuesta>>

Sirve(h) ==
    /\ visita[h] # SinVisita /\ respuesta[h] = Nada
    /\ respuesta' = [respuesta EXCEPT ![h] = respuesta'[h]]
    /\ respuesta'[h].codigo = Codigo(visita[h])
    /\ respuesta'[h].codigo = 200 => EsPagina(desde[h], respuesta'[h].pagina)
    /\ UNCHANGED <<momento, arranque, visita, desde>>

(* The thread ends; its name is free for another request. *)
Acaba(h) ==
    /\ respuesta[h] # Nada
    /\ visita' = [visita EXCEPT ![h] = SinVisita]
    /\ desde' = [desde EXCEPT ![h] = 0]
    /\ respuesta' = [respuesta EXCEPT ![h] = Nada]
    /\ UNCHANGED <<momento, arranque>>

Next == Cambia \/ \E h \in Hilos : Pide(h) \/ Sirve(h) \/ Acaba(h)

Spec == Init /\ [][Next]_promiseVars
=============================================================================
