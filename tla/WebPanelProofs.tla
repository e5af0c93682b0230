--------------------------- MODULE WebPanelProofs ---------------------------
(***************************************************************************)
(* For every number of handler threads, any requests, any port and any      *)
(* bound on the changes of the server's tables: a page under way is good at *)
(* every step, WebPanel implements PanelPromise, and what a page shows is   *)
(* what the answers it was made of hold.                                    *)
(***************************************************************************)
EXTENDS WebPanel, TLAPS, WellFoundedInduction, FiniteSetTheorems

(* A thread none of whose variables change stays good while the server's     *)
(* tables do.                                                               *)
LEMMA Ajeno ==
    ASSUME NEW g \in Hilos, Bien(g), UNCHANGED servidor,
           hilo'[g] = hilo[g], visita'[g] = visita[g], paso'[g] = paso[g],
           panel'[g] = panel[g], respuesta'[g] = respuesta[g], desde'[g] = desde[g],
           conexion'[g] = conexion[g], sesion'[g] = sesion[g], pedidos'[g] = pedidos[g],
           lineas'[g] = lineas[g], cortada'[g] = cortada[g]
    PROVE  Bien(g)'
  <1>1. EnReposo(g)'
    BY DEF Bien, EnReposo, QuierePagina, servidor
  <1>2. hilo'[g] = "espera" => Leido(g)'
    BY DEF Bien, Leido, servidor
  <1>3. hilo'[g] = "espera" => UnaPendiente(g)'
    BY DEF Bien, UnaPendiente, Respuesta, servidor
  <1>4. hilo'[g] = "bye" => (panel[g].estado = "excepcion"
                              \/ Promesa!EsPanel(desde[g], panel[g].secciones))'
    <2>1. hilo[g] = "bye" => \/ panel[g].estado = "excepcion"
                             \/ Promesa!EsPanel(desde[g], panel[g].secciones)
      BY DEF Bien
    <2>2. Promesa!EsPanel(desde[g], panel[g].secciones)
          => Promesa!EsPanel(desde[g], panel[g].secciones)'
      BY DEF Promesa!EsPanel, servidor
    <2> QED  BY <2>1, <2>2
  <1> QED  BY <1>1, <1>2, <1>3, <1>4 DEF Bien

(* The initial state. *)
LEMMA InicioEnCurso == ASSUME Init PROVE EnCurso
  <1>0. main # "escucha"
    BY DEF Init
  <1>1. TypeOK
    <2>1. hilo \in [Hilos -> Etapas] /\ visita \in [Hilos -> Visitas \cup {SinVisita}]
          /\ paso \in [Hilos -> 0..4] /\ main \in {"arranque", "abortado", "escucha", "parado"}
      BY DEF Init, Etapas
    <2>2. panel = [h \in Hilos |-> [estado |-> panel[h].estado,
                                 secciones |-> [k \in Secciones |-> panel[h].secciones[k]]]]
      BY DEF Init, PanelVacio, Crear, SinSecciones
    <2>3. /\ respuesta = [h \in Hilos |-> respuesta[h]]
          /\ desde \in [Hilos -> Nat]
          /\ conexion \in [Hilos -> BOOLEAN] /\ cortada \in [Hilos -> BOOLEAN]
          /\ sesion \in [Hilos -> {"no", "pendiente", "dentro"}]
      BY DEF Init
    <2>4. /\ pedidos = [h \in Hilos |-> pedidos[h]] /\ lineas = [h \in Hilos |-> lineas[h]]
          /\ vivo \in BOOLEAN /\ momento \in Nat /\ arranque \in Nat
      BY DEF Init
    <2> QED  BY <2>1, <2>2, <2>3, <2>4 DEF TypeOK
  <1>2. ASSUME NEW h \in Hilos PROVE Bien(h)
    <2>1. hilo[h] = "libre" /\ conexion[h] = FALSE /\ pedidos[h] = <<>> /\ lineas[h] = <<>>
          /\ paso[h] = 0 /\ panel[h] = PanelVacio /\ respuesta[h] = Nada /\ visita[h] = SinVisita
      BY DEF Init
    <2> QED  BY <2>1 DEF Bien, EnReposo
  <1>3. \A h \in Hilos : Bien(h)
    BY <1>2
  <1> QED  BY <1>0, <1>1, <1>3 DEF EnCurso

-----------------------------------------------------------------------------
(* What an action of thread h leaves alone. *)
SoloDe(h) ==
    /\ UNCHANGED <<main, config>> /\ UNCHANGED servidor
    /\ \A g \in Hilos \ {h} :
        /\ hilo'[g] = hilo[g] /\ visita'[g] = visita[g] /\ paso'[g] = paso[g]
        /\ panel'[g] = panel[g] /\ respuesta'[g] = respuesta[g] /\ desde'[g] = desde[g]
        /\ conexion'[g] = conexion[g] /\ sesion'[g] = sesion[g] /\ pedidos'[g] = pedidos[g]
        /\ lineas'[g] = lineas[g] /\ cortada'[g] = cortada[g]

(* An action of one thread has to keep that thread good only. *)
LEMMA UnHilo ==
    ASSUME NEW h \in Hilos, EnCurso, SoloDe(h), TypeOK', Bien(h)'
    PROVE  EnCurso'
  <1>1. ASSUME NEW g \in Hilos, g # h PROVE Bien(g)'
    BY <1>1, Ajeno DEF EnCurso, SoloDe
  <1>2. \A g \in Hilos : Bien(g)'
    BY <1>1
  <1> QED  BY <1>2 DEF EnCurso, SoloDe

(* The function of the type invariant whose range is not said. *)
LEMMA Cambiada ==
    ASSUME NEW f, f = [g \in Hilos |-> f[g]], NEW h \in Hilos, NEW x, NEW f2,
           f2 = [f EXCEPT ![h] = x]
    PROVE  f2 = [g \in Hilos |-> f2[g]] /\ f2[h] = x /\ \A g \in Hilos \ {h} : f2[g] = f[g]
  OBVIOUS

LEMMA RecibeEnCurso ==
    ASSUME EnCurso, NEW h \in Hilos, NEW v \in Visitas, Recibe(h, v) PROVE EnCurso'
  <1> USE DEF Recibe, Pasa, canal, servidor
  <1>1. TypeOK'
    BY DEF EnCurso, TypeOK, Etapas
  <1>2. SoloDe(h)
    BY DEF EnCurso, TypeOK, SoloDe
  <1>3. /\ hilo[h] = "libre" /\ hilo'[h] = "ruta" /\ visita'[h] = v /\ desde'[h] = momento
        /\ desde'[h] <= momento'
    BY DEF EnCurso, TypeOK
  <1>4. Bien(h)
    BY DEF EnCurso
  <1>5. Bien(h)'
    <2> HIDE DEF Recibe, Pasa
    <2> UNCHANGED <<paso, panel, respuesta, canal>>
      BY DEF Recibe
    <2> QED  BY <1>3, <1>4 DEF Bien, EnReposo
  <1> QED  BY <1>1, <1>2, <1>5, UnHilo

(* A thread answers without asking the server. *)
LEMMA ContestaYa ==
    ASSUME EnCurso, NEW h \in Hilos, NEW c \in Nat \ {0}, NEW p,
           Pasa(h, "ruta", "fin"), Responde(h, c, p),
           UNCHANGED <<main, config, visita, paso, panel, desde, canal, servidor>>
    PROVE  EnCurso'
  <1> USE DEF Responde, Pasa, canal, servidor
  <1>0. /\ respuesta' = [g \in Hilos |-> respuesta'[g]]
        /\ respuesta'[h] = [codigo |-> c, pagina |-> p]
        /\ \A g \in Hilos \ {h} : respuesta'[g] = respuesta[g]
    BY Cambiada DEF EnCurso, TypeOK
  <1>1. TypeOK'
    BY <1>0 DEF EnCurso, TypeOK, Etapas
  <1>2. SoloDe(h)
    BY <1>0 DEF EnCurso, TypeOK, SoloDe
  <1>3. hilo[h] = "ruta" /\ hilo'[h] = "fin" /\ respuesta'[h] # Nada
    <2>1. respuesta'[h].codigo # Nada.codigo
      BY <1>0 DEF Nada
    <2> QED  BY <2>1 DEF EnCurso, TypeOK
  <1>4. Bien(h)'
    <2>1. Bien(h)
      BY DEF EnCurso
    <2> QED  BY <1>3, <2>1 DEF Bien, EnReposo
  <1> QED  BY <1>1, <1>2, <1>4, UnHilo

LEMMA RechazaEnCurso == ASSUME EnCurso, NEW h \in Hilos, Rechaza(h) PROVE EnCurso'
  <1>1. PICK c \in Nat \ {0} : Responde(h, c, Aviso)
    <2>1. Responde(h, 501, Aviso) \/ Responde(h, 405, Aviso) \/ Responde(h, 404, Aviso)
      BY Zenon DEF Rechaza
    <2> QED  BY <2>1
  <1>2. /\ Pasa(h, "ruta", "fin")
        /\ UNCHANGED <<main, config, visita, paso, panel, desde, canal, servidor>>
    BY Zenon DEF Rechaza
  <1> QED  BY <1>1, <1>2, ContestaYa, Zenon

LEMMA NoConectaEnCurso == ASSUME EnCurso, NEW h \in Hilos, NoConecta(h) PROVE EnCurso'
  BY ContestaYa DEF NoConecta

LEMMA ConectaEnCurso == ASSUME EnCurso, NEW h \in Hilos, Conecta(h) PROVE EnCurso'
  <1>0. Bien(h)
    BY DEF EnCurso
  <1>1. TypeOK'
    <2>1. pedidos' = [g \in Hilos |-> pedidos'[g]]
      BY DEF EnCurso, TypeOK, Conecta
    <2> QED  BY <2>1 DEF EnCurso, TypeOK, Etapas, Conecta, Pasa, servidor
  <1>2. SoloDe(h)
    BY DEF EnCurso, TypeOK, SoloDe, Conecta, Pasa, servidor
  <1>3. /\ hilo[h] = "ruta" /\ hilo'[h] = "espera" /\ cortada'[h] = FALSE /\ pedidos'[h] = <<0>>
        /\ sesion'[h] = "pendiente" /\ vivo'
    BY DEF EnCurso, TypeOK, Conecta, Pasa, servidor
  <1>4. EnReposo(h)'
    BY <1>0, <1>3 DEF Conecta, Bien, EnReposo, QuierePagina, servidor
  <1>5. paso'[h] = 0 /\ panel'[h] = PanelVacio /\ lineas'[h] = <<>>
    BY <1>0, <1>3 DEF Conecta, Bien, EnReposo
  <1>6. Leido(h)'
    BY <1>5 DEF Leido, PanelVacio, Crear, SinSecciones, NoPedida, Secciones
  <1>7. UnaPendiente(h)'
    BY <1>3, <1>5 DEF UnaPendiente
  <1>8. Bien(h)'
    BY <1>3, <1>4, <1>6, <1>7 DEF Bien
  <1> QED  BY <1>1, <1>2, <1>8, UnHilo

(* A thread that stops asking says BYE with a good page, or an exception. *)
LEMMA AlBye ==
    ASSUME EnCurso, NEW h \in Hilos, hilo[h] = "espera", Despedir(h),
           panel' = [g \in Hilos |-> [estado |-> panel'[g].estado,
                        secciones |-> [k \in Secciones |-> panel'[g].secciones[k]]]],
           \A g \in Hilos \ {h} : panel'[g] = panel[g] /\ lineas'[g] = lineas[g],
           lineas' = [g \in Hilos |-> lineas'[g]],
           panel'[h].estado = "excepcion" \/ Promesa!EsPanel(desde[h], panel'[h].secciones),
           UNCHANGED <<main, config, visita, respuesta, desde, conexion, sesion, cortada,
                       servidor>>
    PROVE  EnCurso'
  <1>0. Bien(h)
    BY DEF EnCurso
  <1>1. TypeOK'
    <2>1. pedidos' = [g \in Hilos |-> pedidos'[g]]
      BY DEF EnCurso, TypeOK, Despedir, Enviar
    <2> QED  BY <2>1 DEF EnCurso, TypeOK, Etapas, Despedir, servidor
  <1>2. SoloDe(h)
    BY DEF EnCurso, TypeOK, SoloDe, Despedir, Enviar, servidor
  <1>3. hilo'[h] = "bye"
    BY DEF EnCurso, TypeOK, Despedir
  <1>4. EnReposo(h)'
    BY <1>0, <1>3 DEF Bien, EnReposo, QuierePagina, servidor
  <1>5. Bien(h)'
    BY <1>3, <1>4 DEF Bien, Promesa!EsPanel, servidor
  <1> QED  BY <1>1, <1>2, <1>5, UnHilo

(* panel with another section, or with another panel, at h. *)
LEMMA PanelCambiado ==
    ASSUME EnCurso, NEW h \in Hilos, NEW e, NEW s, s = [k \in Secciones |-> s[k]],
           \A g \in Hilos \ {h} : panel'[g] = panel[g],
           panel'[h] = [estado |-> e, secciones |-> s],
           panel' = [g \in Hilos |-> panel'[g]]
    PROVE  panel' = [g \in Hilos |-> [estado |-> panel'[g].estado,
                        secciones |-> [k \in Secciones |-> panel'[g].secciones[k]]]]
  <1>1. \A g \in Hilos : panel[g] = [estado |-> panel[g].estado,
                        secciones |-> [k \in Secciones |-> panel[g].secciones[k]]]
    BY DEF EnCurso, TypeOK
  <1>2. panel'[h] = [estado |-> panel'[h].estado,
                     secciones |-> [k \in Secciones |-> panel'[h].secciones[k]]]
    <2>1. panel'[h].estado = e /\ panel'[h].secciones = s
      OBVIOUS
    <2> QED  BY <2>1
  <1>3. \A g \in Hilos : panel'[g] = [estado |-> panel'[g].estado,
                        secciones |-> [k \in Secciones |-> panel'[g].secciones[k]]]
    BY <1>1, <1>2
  <1> QED  BY <1>3

LEMMA RevientaEnCurso == ASSUME EnCurso, NEW h \in Hilos, Revienta(h) PROVE EnCurso'
  <1>1. panel = [g \in Hilos |-> panel[g]] /\ lineas = [g \in Hilos |-> lineas[g]]
    BY DEF EnCurso, TypeOK
  <1>2. /\ \A g \in Hilos \ {h} : panel'[g] = panel[g]
        /\ panel'[h] = [estado |-> "excepcion", secciones |-> SinSecciones]
        /\ panel' = [g \in Hilos |-> panel'[g]]
    BY <1>1 DEF Revienta, Crear
  <1>3. SinSecciones = [k \in Secciones |-> SinSecciones[k]]
    BY DEF SinSecciones
  <1>4. panel' = [g \in Hilos |-> [estado |-> panel'[g].estado,
                        secciones |-> [k \in Secciones |-> panel'[g].secciones[k]]]]
    BY <1>2, <1>3, PanelCambiado
  <1>5. panel'[h].estado = "excepcion" /\ lineas' = lineas /\ hilo[h] = "espera"
        /\ Despedir(h)
        /\ UNCHANGED <<main, config, visita, respuesta, desde, conexion, sesion, cortada, servidor>>
    BY <1>2 DEF Revienta
  <1> QED  BY <1>1, <1>2, <1>4, <1>5, AlBye

LEMMA FallaEnCurso == ASSUME EnCurso, NEW h \in Hilos, Falla(h) PROVE EnCurso'
  <1>0. hilo[h] = "espera" /\ Leido(h) /\ paso[h] \in 0..4
    BY DEF EnCurso, TypeOK, Bien, Falla, SinRespuesta
  <1>1. panel = [g \in Hilos |-> panel[g]] /\ lineas = [g \in Hilos |-> lineas[g]]
    BY DEF EnCurso, TypeOK
  <1>2. /\ \A g \in Hilos \ {h} : panel'[g] = panel[g]
        /\ panel'[h] = [estado |-> panel[h].estado, secciones |-> Cortadas(h)]
        /\ panel' = [g \in Hilos |-> panel'[g]]
    <2>1. panel[h] = [estado |-> panel[h].estado,
                      secciones |-> [k \in Secciones |-> panel[h].secciones[k]]]
      BY DEF EnCurso, TypeOK
    <2>2. panel' = [panel EXCEPT ![h].secciones = Cortadas(h)]
      BY DEF Falla, TrasFallo
    <2> QED  BY <1>1, <2>1, <2>2
  <1>3. Cortadas(h) = [k \in Secciones |-> Cortadas(h)[k]]
    BY DEF Cortadas
  <1>4. panel' = [g \in Hilos |-> [estado |-> panel'[g].estado,
                        secciones |-> [k \in Secciones |-> panel'[g].secciones[k]]]]
    BY <1>2, <1>3, PanelCambiado
  <1>5. Promesa!EsPanel(desde[h], Cortadas(h))
    <2> DEFINE s == panel[h].secciones
               t == Cortadas(h)
    <2>1. /\ \A k \in Secciones : k >= paso[h] => t[k] = Corte
          /\ \A k \in Secciones : k < paso[h] => t[k] = s[k] /\ s[k].tipo \in {"dato", "error"}
      BY <1>0 DEF Cortadas, Leido, Secciones
    <2>2. \A k \in Secciones : t[k].tipo = "dato" =>
             /\ k < paso[h] /\ t[k] = s[k] /\ t[k].de = k
             /\ t[k].momento \in desde[h]..momento
      BY <1>0, <2>1 DEF Leido, Secciones, Corte
    <2>3. \A k \in Secciones : t[k].tipo \in {"dato", "error", "corte"}
      BY <1>0, <2>1 DEF Secciones, Corte
    <2>4. \A j, k \in Secciones : j < k /\ t[j].tipo = "corte" => t[k].tipo = "corte"
      BY <1>0, <2>1 DEF Secciones, Corte
    <2>5. \A j, k \in Secciones : j < k /\ t[j].tipo = "dato" /\ t[k].tipo = "dato" =>
             t[j].momento <= t[k].momento /\ t[j].arranque = t[k].arranque
      BY <1>0, <2>2 DEF Leido
    <2> HIDE DEF t
    <2>6. Promesa!EsPanel(desde[h], t)
      BY <2>2, <2>3, <2>4, <2>5 DEF Promesa!EsPanel, Promesa!Secciones, Secciones
    <2> QED  BY <2>6 DEF t
  <1> QED  BY <1>0, <1>1, <1>2, <1>4, <1>5, AlBye DEF Falla, TrasFallo

-----------------------------------------------------------------------------
(* The sections t of thread h once step p is read. *)
LeidoHasta(h, t, p) ==
    /\ \A k \in Secciones :
        /\ k <= p => t[k].tipo \in {"dato", "error"}
        /\ k > p => t[k] = NoPedida
        /\ t[k].tipo = "dato" =>
              /\ t[k].de = k
              /\ t[k].momento \in desde[h]..momento
              /\ ~cortada[h] => t[k].arranque = arranque
    /\ \A j, k \in Secciones : j < k /\ t[j].tipo = "dato" /\ t[k].tipo = "dato" =>
        t[j].momento <= t[k].momento /\ t[j].arranque = t[k].arranque

(* An answer is the one awaited and newer than what has been read. *)
LEMMA LeeSeccion ==
    ASSUME EnCurso, NEW h \in Hilos, Leido(h), paso[h] \in Secciones, NEW l, Respuesta(h, l),
           NEW x, x = IF l.tipo = "OK" THEN Dato(l.de, l.momento, l.arranque) ELSE ErrorTsp
    PROVE  LeidoHasta(h, [panel[h].secciones EXCEPT ![paso[h]] = x], paso[h])
  <1> DEFINE s == panel[h].secciones
             p == paso[h]
             t == [s EXCEPT ![p] = x]
  <1>0. s = [k \in Secciones |-> s[k]] /\ desde[h] \in Nat /\ momento \in Nat
    <2>1. panel[h] = [estado |-> panel[h].estado,
                      secciones |-> [k \in Secciones |-> panel[h].secciones[k]]]
      BY DEF EnCurso, TypeOK
    <2>2. panel[h].secciones = [k \in Secciones |-> panel[h].secciones[k]]
      BY <2>1
    <2> QED  BY <2>2 DEF EnCurso, TypeOK
  <1>1. t[p] = x /\ \A k \in Secciones \ {p} : t[k] = s[k]
    BY <1>0
  <1>2. x.tipo \in {"dato", "error"}
    BY DEF Dato, ErrorTsp
  <1>3. x.tipo = "dato" =>
          /\ x.de = p
          /\ x.momento \in desde[h]..momento
          /\ ~cortada[h] => x.arranque = arranque
          /\ \A k \in Secciones : s[k].tipo = "dato" =>
                s[k].momento <= x.momento /\ s[k].arranque = x.arranque
    <2>1. CASE l = [tipo |-> "ERR"]
      BY <2>1 DEF ErrorTsp
    <2>2. CASE l # [tipo |-> "ERR"]
      <3>1. /\ l = [tipo |-> "OK", de |-> p, momento |-> l.momento, arranque |-> l.arranque]
            /\ l.momento \in desde[h]..momento
            /\ ~cortada[h] => l.arranque = arranque
            /\ \A k \in Secciones : s[k].tipo = "dato" =>
                  s[k].momento <= l.momento /\ s[k].arranque = l.arranque
        BY <2>2 DEF Respuesta
      <3>2. l.tipo = "OK" /\ l.de = p
        BY <3>1
      <3>3. x.de = p /\ x.momento = l.momento /\ x.arranque = l.arranque
        BY <3>2 DEF Dato
      <3> QED  BY <3>1, <3>3
    <2> QED  BY <2>1, <2>2
  <1>4. \A k \in Secciones :
          /\ k < p => t[k] = s[k] /\ s[k].tipo \in {"dato", "error"}
          /\ k > p => t[k] = NoPedida
          /\ s[k].tipo = "dato" =>
                /\ s[k].de = k /\ s[k].momento \in desde[h]..momento
                /\ ~cortada[h] => s[k].arranque = arranque
    BY <1>1 DEF Leido, Secciones
  <1>5. \A k \in Secciones : k > p => t[k].tipo # "dato"
    BY <1>4 DEF NoPedida
  <1>6. \A j, k \in Secciones : j < k /\ t[j].tipo = "dato" /\ t[k].tipo = "dato" =>
          t[j].momento <= t[k].momento /\ t[j].arranque = t[k].arranque
    <2> SUFFICES ASSUME NEW j \in Secciones, NEW k \in Secciones, j < k,
                        t[j].tipo = "dato", t[k].tipo = "dato"
                 PROVE  t[j].momento <= t[k].momento /\ t[j].arranque = t[k].arranque
      OBVIOUS
    <2>1. k <= p /\ j < p
      BY <1>5 DEF Secciones
    <2>2. t[j] = s[j]
      BY <1>4, <2>1
    <2>3. CASE k = p
      BY <1>1, <1>3, <2>2, <2>3
    <2>4. CASE k < p
      <3>1. t[k] = s[k]
        BY <1>4, <2>4
      <3> QED  BY <2>2, <3>1 DEF Leido
    <2> QED  BY <2>1, <2>3, <2>4 DEF Secciones
  <1>7. ASSUME NEW k \in Secciones
        PROVE  /\ k <= p => t[k].tipo \in {"dato", "error"}
               /\ k > p => t[k] = NoPedida
               /\ t[k].tipo = "dato" =>
                    /\ t[k].de = k
                    /\ t[k].momento \in desde[h]..momento
                    /\ ~cortada[h] => t[k].arranque = arranque
    <2> HIDE DEF s, t
    <2>1. CASE k = p
      <3>1. t[k] = x /\ ~(k > p)
        BY <1>1, <2>1 DEF Secciones
      <3> QED  BY <1>2, <1>3, <2>1, <3>1
    <2>2. CASE k < p
      <3>1. t[k] = s[k] /\ s[k].tipo \in {"dato", "error"} /\ k \in Int /\ p \in Int
        BY <1>4, <2>2 DEF Secciones
      <3>2. s[k].tipo = "dato" =>
                /\ s[k].de = k /\ s[k].momento \in desde[h]..momento
                /\ ~cortada[h] => s[k].arranque = arranque
        BY <1>4
      <3>3. t[k].tipo \in {"dato", "error"}
        BY <3>1
      <3>4. ~(k > p)
        BY <2>2, <3>1
      <3>5. t[k].tipo = "dato" => t[k].de = k /\ t[k].momento \in desde[h]..momento
        BY <3>1, <3>2
      <3>6. t[k].tipo = "dato" => (~cortada[h] => t[k].arranque = arranque)
        BY <3>1, <3>2
      <3> QED  BY <3>3, <3>4, <3>5, <3>6, Zenon
    <2>3. CASE k > p
      BY <1>4, <1>5, <2>3 DEF Secciones
    <2> QED  BY <2>1, <2>2, <2>3 DEF Secciones
  <1> HIDE DEF s, t
  <1>8. LeidoHasta(h, t, p)
    BY <1>6, <1>7, Zenon DEF LeidoHasta
  <1> QED  BY <1>8 DEF t, s

LEMMA LeeEnCurso == ASSUME EnCurso, NEW h \in Hilos, Lee(h) PROVE EnCurso'
  <1> DEFINE s == panel[h].secciones
             p == paso[h]
             t == panel'[h].secciones
  <1>0. /\ hilo[h] = "espera" /\ Bien(h) /\ Leido(h) /\ UnaPendiente(h)
        /\ p \in 0..4 /\ lineas[h] # <<>>
    BY DEF EnCurso, TypeOK, Bien, Lee
  <1>1. PICK l : /\ lineas[h] = <<l>> /\ Respuesta(h, l) /\ pedidos[h] = <<>>
                 /\ sesion[h] # "pendiente"
    BY <1>0 DEF UnaPendiente
  <1>2. Head(lineas[h]) = l /\ Tail(lineas[h]) = <<>>
    BY <1>1
  <1>3. /\ panel = [g \in Hilos |-> panel[g]] /\ lineas = [g \in Hilos |-> lineas[g]]
        /\ pedidos = [g \in Hilos |-> pedidos[g]]
        /\ panel[h] = [estado |-> panel[h].estado, secciones |-> [k \in Secciones |-> s[k]]]
        /\ s = [k \in Secciones |-> s[k]]
    <2>1. panel[h] = [estado |-> panel[h].estado, secciones |-> [k \in Secciones |-> s[k]]]
      BY DEF EnCurso, TypeOK
    <2>2. s = [k \in Secciones |-> s[k]]
      BY <2>1
    <2> QED  BY <2>1, <2>2 DEF EnCurso, TypeOK
  <1>4. /\ \A g \in Hilos \ {h} : panel'[g] = panel[g]
        /\ panel' = [g \in Hilos |-> panel'[g]]
        /\ panel'[h] = [estado |-> "disponible", secciones |-> t]
        /\ t = [k \in Secciones |-> t[k]]
        /\ LeidoHasta(h, t, p)
    <2>0. panel[h].estado = "disponible"
      BY <1>0 DEF Leido
    <2>1. CASE p = 0
      <3>1. UNCHANGED panel
        BY <2>1 DEF Lee
      <3>2. t = s
        BY <3>1
      <3>3. LeidoHasta(h, s, p)
        BY <1>0, <2>1 DEF Leido, LeidoHasta, Secciones
      <3> QED  BY <1>3, <2>0, <3>1, <3>2, <3>3
    <2>2. CASE p # 0
      <3> DEFINE x == IF l.tipo = "OK" THEN Dato(l.de, l.momento, l.arranque) ELSE ErrorTsp
      <3>1. p \in Secciones
        BY <1>0, <2>2 DEF Secciones
      <3>2. LeidoHasta(h, [s EXCEPT ![p] = x], p)
        BY <1>0, <1>1, <3>1, LeeSeccion
      <3>3. Anotar(h, x)
        BY <1>1, <1>2, <2>2 DEF Lee, Respuesta
      <3>4. panel' = [panel EXCEPT ![h].secciones[p] = x]
        BY <3>3 DEF Anotar
      <3> HIDE DEF x
      <3>5. panel'[h] = [panel[h] EXCEPT !.secciones[p] = x]
            /\ panel' = [g \in Hilos |-> panel'[g]]
            /\ \A g \in Hilos \ {h} : panel'[g] = panel[g]
        BY <1>3, <3>4
      <3>6. panel'[h] = [estado |-> panel[h].estado, secciones |-> [s EXCEPT ![p] = x]]
        BY <1>3, <3>5
      <3>7. t = [s EXCEPT ![p] = x]
        BY <3>6
      <3>8. t = [k \in Secciones |-> t[k]]
        BY <1>3, <3>7
      <3> QED  BY <2>0, <3>2, <3>5, <3>6, <3>7, <3>8
    <2> QED  BY <2>1, <2>2
  <1>5. panel' = [g \in Hilos |-> [estado |-> panel'[g].estado,
                        secciones |-> [k \in Secciones |-> panel'[g].secciones[k]]]]
    BY <1>4, PanelCambiado
  <1>6. /\ lineas' = [g \in Hilos |-> lineas'[g]] /\ lineas'[h] = <<>>
        /\ \A g \in Hilos \ {h} : lineas'[g] = lineas[g]
    BY <1>2, <1>3 DEF Lee
  <1>7. UNCHANGED <<main, config, visita, respuesta, desde, conexion, sesion, cortada, servidor>>
    BY Zenon DEF Lee
  <1>8. Seguir(h)
    BY Zenon DEF Lee
  <1>9. CASE p < 4
    <2>1. /\ paso' = [paso EXCEPT ![h] = p + 1] /\ UNCHANGED hilo
          /\ pedidos' = [pedidos EXCEPT ![h] = IF cortada[h] THEN pedidos[h]
                                               ELSE Append(pedidos[h], p + 1)]
      BY <1>8, <1>9 DEF Seguir, Enviar
    <2>2. paso'[h] = p + 1 /\ paso' \in [Hilos -> 0..4]
      BY <1>0, <1>9, <2>1 DEF EnCurso, TypeOK
    <2>3. pedidos'[h] = (IF cortada[h] THEN <<>> ELSE <<p + 1>>)
          /\ pedidos' = [g \in Hilos |-> pedidos'[g]]
      <3>1. Append(<<>>, p + 1) = <<p + 1>>
        OBVIOUS
      <3> QED  BY <1>1, <1>3, <2>1, <3>1
    <2>4. TypeOK'
      BY <1>5, <1>6, <1>7, <2>1, <2>2, <2>3 DEF EnCurso, TypeOK, servidor
    <2>5. SoloDe(h)
      BY <1>3, <1>4, <1>6, <1>7, <2>1 DEF EnCurso, TypeOK, SoloDe, servidor
    <2>6. EnReposo(h)'
      BY <1>0, <1>7, <2>1 DEF Bien, EnReposo, QuierePagina, servidor
    <2>7. Leido(h)'
      <3>1. panel'[h].estado = "disponible" /\ panel'[h].secciones = t
        BY <1>4
      <3>2. \A k \in Secciones : (k < p + 1 => k <= p) /\ (k >= p + 1 => k > p)
        BY <1>0 DEF Secciones
      <3> HIDE DEF t, p
      <3> QED  BY <1>4, <1>7, <2>2, <3>1, <3>2 DEF Leido, LeidoHasta, servidor
    <2>8. UnaPendiente(h)'
      BY <1>0, <1>6, <1>7, <2>2, <2>3 DEF UnaPendiente, servidor
    <2>9. Bien(h)'
      BY <1>0, <2>1, <2>6, <2>7, <2>8 DEF Bien
    <2> QED  BY <2>4, <2>5, <2>9, UnHilo
  <1>10. CASE p = 4
    <2>1. Despedir(h)
      BY <1>8, <1>10 DEF Seguir
    <2>2. Promesa!EsPanel(desde[h], t)
      <3>1. desde[h] \in Nat /\ momento \in Nat
        BY DEF EnCurso, TypeOK
      <3>2. \A k \in Secciones : k <= p
        BY <1>10 DEF Secciones
      <3> HIDE DEF t, p
      <3>3. \A k \in Secciones : /\ t[k].tipo \in {"dato", "error"}
                                 /\ t[k].tipo = "dato" =>
                                      t[k].de = k /\ t[k].momento \in desde[h]..momento
        BY <1>4, <3>2 DEF LeidoHasta
      <3>4. \A j, k \in Secciones : j < k /\ t[j].tipo = "dato" /\ t[k].tipo = "dato" =>
              t[j].momento <= t[k].momento /\ t[j].arranque = t[k].arranque
        BY <1>4 DEF LeidoHasta
      <3> QED  BY <3>1, <3>3, <3>4 DEF Promesa!EsPanel, Promesa!Secciones, Secciones
    <2> HIDE DEF t
    <2>3. panel'[h].secciones = t
      BY DEF t
    <2> QED  BY <1>0, <1>3, <1>4, <1>5, <1>6, <1>7, <2>1, <2>2, <2>3, AlBye
  <1> QED  BY <1>0, <1>9, <1>10

-----------------------------------------------------------------------------
LEMMA CierraEnCurso == ASSUME EnCurso, NEW h \in Hilos, Cierra(h) PROVE EnCurso'
  <1> DEFINE pagina == [codigo |-> 200, pagina |-> Pagina(panel[h])]
  <1>0. hilo[h] = "bye" /\ Bien(h)
    BY DEF EnCurso, Cierra, Pasa
  <1>1. /\ respuesta' = [g \in Hilos |-> respuesta'[g]]
        /\ respuesta'[h] = pagina
        /\ \A g \in Hilos \ {h} : respuesta'[g] = respuesta[g]
    BY Cambiada DEF EnCurso, TypeOK, Cierra, Responde
  <1>2. /\ panel' = [g \in Hilos |-> panel'[g]] /\ panel'[h] = PanelVacio
        /\ \A g \in Hilos \ {h} : panel'[g] = panel[g]
    BY Cambiada DEF EnCurso, TypeOK, Cierra
  <1>3. panel' = [g \in Hilos |-> [estado |-> panel'[g].estado,
                        secciones |-> [k \in Secciones |-> panel'[g].secciones[k]]]]
    <2>1. SinSecciones = [k \in Secciones |-> SinSecciones[k]]
      BY DEF SinSecciones
    <2>2. panel'[h] = [estado |-> "disponible", secciones |-> SinSecciones]
      BY <1>2 DEF PanelVacio, Crear
    <2> QED  BY <1>2, <2>1, <2>2, PanelCambiado
  <1>4. /\ pedidos' = [g \in Hilos |-> pedidos'[g]] /\ pedidos'[h] = <<>>
        /\ lineas' = [g \in Hilos |-> lineas'[g]] /\ lineas'[h] = <<>>
        /\ \A g \in Hilos \ {h} : pedidos'[g] = pedidos[g] /\ lineas'[g] = lineas[g]
    BY DEF EnCurso, TypeOK, Cierra
  <1>5. TypeOK'
    <2>1. /\ hilo' \in [Hilos -> Etapas] /\ conexion' \in [Hilos -> BOOLEAN]
          /\ paso' \in [Hilos -> 0..4]
      BY DEF EnCurso, TypeOK, Etapas, Cierra, Pasa
    <2>2. UNCHANGED <<main, config, visita, desde, sesion, cortada, servidor>>
      BY Zenon DEF Cierra
    <2> QED  BY <1>1, <1>3, <1>4, <2>1, <2>2 DEF EnCurso, TypeOK, servidor
  <1>6. SoloDe(h)
    BY <1>1, <1>2, <1>4 DEF EnCurso, TypeOK, SoloDe, Cierra, Pasa, servidor
  <1>7. hilo'[h] = "fin" /\ conexion'[h] = FALSE /\ paso'[h] = 0
    BY DEF EnCurso, TypeOK, Cierra, Pasa
  <1>8. respuesta'[h] # Nada
    <2>1. respuesta'[h].codigo # Nada.codigo
      BY <1>1 DEF Nada
    <2> QED  BY <2>1
  <1>9. Bien(h)'
    BY <1>2, <1>4, <1>7, <1>8 DEF Bien, EnReposo
  <1> QED  BY <1>5, <1>6, <1>9, UnHilo

LEMMA AcabaEnCurso == ASSUME EnCurso, NEW h \in Hilos, Acaba(h) PROVE EnCurso'
  <1>0. hilo[h] = "fin" /\ Bien(h)
    BY DEF EnCurso, Acaba, Pasa
  <1>1. /\ respuesta' = [g \in Hilos |-> respuesta'[g]] /\ respuesta'[h] = Nada
        /\ \A g \in Hilos \ {h} : respuesta'[g] = respuesta[g]
    BY Cambiada DEF EnCurso, TypeOK, Acaba
  <1>2. TypeOK'
    BY <1>1 DEF EnCurso, TypeOK, Etapas, Acaba, Pasa, servidor
  <1>3. SoloDe(h)
    BY <1>1 DEF EnCurso, TypeOK, SoloDe, Acaba, Pasa, servidor
  <1>4. hilo'[h] = "libre" /\ visita'[h] = SinVisita
    BY DEF EnCurso, TypeOK, Acaba, Pasa
  <1>5. Bien(h)'
    <2> UNCHANGED <<paso, panel, conexion, pedidos, lineas>>
      BY DEF Acaba
    <2> QED  BY <1>0, <1>1, <1>4 DEF Bien, EnReposo
  <1> QED  BY <1>2, <1>3, <1>5, UnHilo

-----------------------------------------------------------------------------
(* An action of the server for thread h, or of the network: it keeps the     *)
(* thread good if it does so while the thread waits.                        *)
LEMMA DelServidor ==
    ASSUME EnCurso, NEW h \in Hilos, UNCHANGED <<main, config, atencion, conexion, servidor>>,
           sesion' \in [Hilos -> {"no", "pendiente", "dentro"}], cortada' \in [Hilos -> BOOLEAN],
           pedidos' = [g \in Hilos |-> pedidos'[g]], lineas' = [g \in Hilos |-> lineas'[g]],
           \A g \in Hilos \ {h} : /\ sesion'[g] = sesion[g] /\ cortada'[g] = cortada[g]
                                  /\ pedidos'[g] = pedidos[g] /\ lineas'[g] = lineas[g],
           cortada[h] => cortada'[h],
           hilo[h] = "espera" => UnaPendiente(h)',
           hilo[h] \notin {"espera", "bye"} => pedidos'[h] = <<>> /\ lineas'[h] = <<>>
    PROVE  EnCurso'
  <1>0. Bien(h)
    BY DEF EnCurso
  <1>1. TypeOK'
    BY DEF EnCurso, TypeOK, atencion, servidor
  <1>2. SoloDe(h)
    BY DEF SoloDe, atencion, servidor
  <1>3. EnReposo(h)'
    BY <1>0 DEF Bien, EnReposo, QuierePagina, atencion, servidor
  <1>4. hilo[h] = "espera" => Leido(h)'
    BY <1>0 DEF Bien, Leido, atencion, servidor
  <1>5. Bien(h)'
    BY <1>0, <1>3, <1>4 DEF Bien, Promesa!EsPanel, atencion, servidor
  <1> QED  BY <1>1, <1>2, <1>5, UnHilo

LEMMA SueltaEnCurso == ASSUME EnCurso, NEW h \in Hilos, Suelta(h) PROVE EnCurso'
  <1>0. Bien(h)
    BY DEF EnCurso
  <1>1. /\ sesion' \in [Hilos -> {"no", "pendiente", "dentro"}] /\ sesion'[h] = "no"
        /\ \A g \in Hilos \ {h} : sesion'[g] = sesion[g]
        /\ UNCHANGED <<main, config, atencion, conexion, pedidos, lineas, cortada, servidor>>
    BY DEF EnCurso, TypeOK, Suelta
  <1>2. hilo[h] = "espera" => UnaPendiente(h)'
    BY <1>0, <1>1 DEF Bien, UnaPendiente, Respuesta, atencion, servidor
  <1>3. hilo[h] \notin {"espera", "bye"} => pedidos'[h] = <<>> /\ lineas'[h] = <<>>
    BY <1>0, <1>1 DEF Bien, EnReposo
  <1>4. /\ cortada' \in [Hilos -> BOOLEAN]
        /\ pedidos' = [g \in Hilos |-> pedidos'[g]] /\ lineas' = [g \in Hilos |-> lineas'[g]]
    BY <1>1 DEF EnCurso, TypeOK
  <1> QED  BY <1>1, <1>2, <1>3, <1>4, DelServidor

LEMMA CortaEnCurso == ASSUME EnCurso, NEW h \in Hilos, Corta(h) PROVE EnCurso'
  <1>0. Bien(h)
    BY DEF EnCurso
  <1>1. /\ cortada' \in [Hilos -> BOOLEAN] /\ cortada'[h] = TRUE
        /\ pedidos' = [g \in Hilos |-> pedidos'[g]] /\ pedidos'[h] = <<>>
        /\ lineas' = [g \in Hilos |-> lineas'[g]] /\ lineas'[h] \in {lineas[h], <<>>}
        /\ \A g \in Hilos \ {h} : /\ cortada'[g] = cortada[g] /\ pedidos'[g] = pedidos[g]
                               /\ lineas'[g] = lineas[g]
        /\ UNCHANGED <<main, config, atencion, conexion, sesion, servidor>>
    BY DEF EnCurso, TypeOK, Corta
  <1>2. hilo[h] = "espera" => UnaPendiente(h)'
    BY <1>0, <1>1 DEF Bien, UnaPendiente, Respuesta, atencion, servidor
  <1>3. hilo[h] \notin {"espera", "bye"} => pedidos'[h] = <<>> /\ lineas'[h] = <<>>
    BY <1>0, <1>1 DEF Bien, EnReposo
  <1>4. sesion' \in [Hilos -> {"no", "pendiente", "dentro"}]
    BY <1>1 DEF EnCurso, TypeOK
  <1> QED  BY <1>1, <1>2, <1>3, <1>4, DelServidor

LEMMA AdmiteEnCurso == ASSUME EnCurso, NEW h \in Hilos, Admite(h) PROVE EnCurso'
  <1>0. Bien(h) /\ sesion[h] = "pendiente"
    BY DEF EnCurso, Admite
  <1>1. UNCHANGED <<main, config, atencion, conexion, servidor>>
    BY DEF Admite
  <1>2. CASE sesion' = [sesion EXCEPT ![h] = "dentro"] /\ UNCHANGED <<lineas, cortada, pedidos>>
    <2>1. /\ sesion' \in [Hilos -> {"no", "pendiente", "dentro"}]
          /\ cortada' \in [Hilos -> BOOLEAN]
          /\ pedidos' = [g \in Hilos |-> pedidos'[g]] /\ lineas' = [g \in Hilos |-> lineas'[g]]
          /\ \A g \in Hilos \ {h} : sesion'[g] = sesion[g]
      BY <1>2 DEF EnCurso, TypeOK
    <2>2. hilo[h] = "espera" => UnaPendiente(h)'
      BY <1>0, <1>1, <1>2 DEF Bien, UnaPendiente, atencion, servidor
    <2>3. hilo[h] \notin {"espera", "bye"} => pedidos'[h] = <<>> /\ lineas'[h] = <<>>
      BY <1>0, <1>2 DEF Bien, EnReposo
    <2> QED  BY <1>1, <1>2, <2>1, <2>2, <2>3, DelServidor
  <1>3. CASE /\ sesion' = [sesion EXCEPT ![h] = "no"]
             /\ cortada' = [cortada EXCEPT ![h] = TRUE]
             /\ pedidos' = [pedidos EXCEPT ![h] = <<>>]
             /\ \/ UNCHANGED lineas
                \/ /\ conexion[h]
                   /\ lineas' = [lineas EXCEPT ![h] = Append(@, [tipo |-> "ERR"])]
    <2>1. /\ sesion' \in [Hilos -> {"no", "pendiente", "dentro"}] /\ sesion'[h] = "no"
          /\ cortada' \in [Hilos -> BOOLEAN] /\ cortada'[h] = TRUE
          /\ pedidos' = [g \in Hilos |-> pedidos'[g]] /\ pedidos'[h] = <<>>
          /\ \A g \in Hilos \ {h} : /\ sesion'[g] = sesion[g] /\ cortada'[g] = cortada[g]
                                 /\ pedidos'[g] = pedidos[g]
      BY <1>3 DEF EnCurso, TypeOK
    <2>2. /\ lineas' = [g \in Hilos |-> lineas'[g]]
          /\ \A g \in Hilos \ {h} : lineas'[g] = lineas[g]
          /\ \/ lineas'[h] = lineas[h]
             \/ conexion[h] /\ lineas'[h] = Append(lineas[h], [tipo |-> "ERR"])
      BY <1>3 DEF EnCurso, TypeOK
    <2>3. hilo[h] = "espera" => UnaPendiente(h)'
      <3> SUFFICES ASSUME hilo[h] = "espera" PROVE UnaPendiente(h)'
        OBVIOUS
      <3>1. lineas[h] = <<>>
        BY <1>0 DEF Bien, UnaPendiente
      <3>2. Append(<<>>, [tipo |-> "ERR"]) = <<[tipo |-> "ERR"]>>
        OBVIOUS
      <3>3. lineas'[h] = <<>> \/ lineas'[h] = <<[tipo |-> "ERR"]>>
        BY <2>2, <3>1, <3>2
      <3> QED  BY <2>1, <3>3 DEF UnaPendiente, Respuesta
    <2>4. hilo[h] \notin {"espera", "bye"} => pedidos'[h] = <<>> /\ lineas'[h] = <<>>
      BY <1>0, <2>1, <2>2 DEF Bien, EnReposo
    <2> QED  BY <1>1, <2>1, <2>2, <2>3, <2>4, DelServidor
  <1> QED  BY <1>2, <1>3, Zenon DEF Admite

(* The server answers the first request of h with the line l. *)
LEMMA Contesta ==
    ASSUME EnCurso, NEW h \in Hilos, sesion[h] = "dentro", pedidos[h] # <<>>,
           UNCHANGED <<main, config, atencion, conexion, servidor>>,
           NEW l \in {Linea(Head(pedidos[h])), [tipo |-> "ERR"]}, NEW q,
           lineas' = [lineas EXCEPT ![h] = Append(@, l)],
           pedidos' = [pedidos EXCEPT ![h] = q],
           Head(pedidos[h]) # Bye => UNCHANGED <<sesion, cortada>> /\ q = Tail(pedidos[h]),
           Head(pedidos[h]) = Bye => /\ sesion' = [sesion EXCEPT ![h] = "no"]
                                     /\ cortada' = [cortada EXCEPT ![h] = TRUE]
    PROVE  EnCurso'
  <1>0. Bien(h)
    BY DEF EnCurso
  <1>1. UNCHANGED <<main, config, atencion, conexion, servidor>>
    OBVIOUS
  <1>3. /\ lineas' = [g \in Hilos |-> lineas'[g]] /\ lineas'[h] = Append(lineas[h], l)
        /\ pedidos' = [g \in Hilos |-> pedidos'[g]] /\ pedidos'[h] = q
        /\ \A g \in Hilos \ {h} : lineas'[g] = lineas[g] /\ pedidos'[g] = pedidos[g]
    BY DEF EnCurso, TypeOK
  <1>4. /\ sesion' \in [Hilos -> {"no", "pendiente", "dentro"}]
        /\ cortada' \in [Hilos -> BOOLEAN]
        /\ \A g \in Hilos \ {h} : sesion'[g] = sesion[g] /\ cortada'[g] = cortada[g]
        /\ cortada[h] => cortada'[h]
    BY DEF EnCurso, TypeOK
  <1>5. hilo[h] \in {"espera", "bye"}
    BY <1>0 DEF Bien, EnReposo
  <1>6. hilo[h] = "espera" => UnaPendiente(h)'
    <2> SUFFICES ASSUME hilo[h] = "espera" PROVE UnaPendiente(h)'
      OBVIOUS
    <2>1. /\ pedidos[h] = <<paso[h]>> /\ lineas[h] = <<>> /\ ~cortada[h] /\ Leido(h)
          /\ (~vivo => cortada[h])
      BY <1>0 DEF Bien, UnaPendiente
    <2>2. /\ Head(pedidos[h]) = paso[h] /\ Tail(pedidos[h]) = <<>>
          /\ Append(lineas[h], l) = <<l>>
      BY <2>1
    <2>3. paso[h] # Bye /\ desde[h] <= momento /\ desde[h] \in Nat /\ momento \in Nat
      <3>1. paso[h] \in 0..4 /\ desde[h] \in Nat /\ momento \in Nat
        BY DEF EnCurso, TypeOK
      <3> QED  BY <1>0, <3>1 DEF Bien, EnReposo, Bye
    <2>4. Respuesta(h, l)
      <3>1. CASE l = [tipo |-> "ERR"]
        BY <3>1 DEF Respuesta
      <3>2. CASE l = Linea(paso[h])
        <4>1. /\ l = [tipo |-> "OK", de |-> paso[h], momento |-> momento, arranque |-> arranque]
              /\ l.momento = momento /\ l.arranque = arranque
          BY <3>2 DEF Linea
        <4>2. \A k \in Secciones : panel[h].secciones[k].tipo = "dato" =>
                /\ panel[h].secciones[k].momento <= momento
                /\ panel[h].secciones[k].arranque = arranque
          BY <2>1, <2>3 DEF Leido
        <4> QED  BY <2>3, <4>1, <4>2 DEF Respuesta
      <3> QED  BY <2>2, <3>1, <3>2
    <2>5. lineas'[h] = <<l>> /\ pedidos'[h] = <<>> /\ UNCHANGED <<sesion, cortada>>
      BY <1>3, <2>2, <2>3
    <2>6. Respuesta(h, l)'
      BY <1>1, <2>4, <2>5 DEF Respuesta, atencion, servidor
    <2> HIDE DEF UnaPendiente
    <2>7. lineas'[h][1] = l
      BY <2>5
    <2> QED  BY <1>0, <1>1, <2>1, <2>5, <2>6, <2>7 DEF UnaPendiente, atencion, servidor
  <1> QED  BY <1>1, <1>3, <1>4, <1>5, <1>6, DelServidor

LEMMA AtiendeEnCurso == ASSUME EnCurso, NEW h \in Hilos, Atiende(h) PROVE EnCurso'
  <1>1. /\ sesion[h] = "dentro" /\ pedidos[h] # <<>>
        /\ UNCHANGED <<main, config, atencion, conexion, servidor>>
    BY Zenon DEF Atiende
  <1>2. CASE Head(pedidos[h]) # Bye
    <2>1. /\ pedidos' = [pedidos EXCEPT ![h] = Tail(pedidos[h])]
          /\ UNCHANGED <<sesion, cortada>>
      BY <1>2, Zenon DEF Atiende
    <2>2. PICK l \in {Linea(Head(pedidos[h])), [tipo |-> "ERR"]} :
                lineas' = [lineas EXCEPT ![h] = Append(@, l)]
      BY <1>2, Zenon DEF Atiende
    <2> QED  BY <1>1, <1>2, <2>1, <2>2, Contesta, Zenon
  <1>3. CASE Head(pedidos[h]) = Bye
    <2>1. /\ lineas' = [lineas EXCEPT ![h] = Append(@, Linea(Head(pedidos[h])))]
          /\ sesion' = [sesion EXCEPT ![h] = "no"]
          /\ cortada' = [cortada EXCEPT ![h] = TRUE]
          /\ pedidos' = [pedidos EXCEPT ![h] = <<>>]
      BY <1>3, Zenon DEF Atiende
    <2> DEFINE l == Linea(Head(pedidos[h]))
    <2>2. l \in {Linea(Head(pedidos[h])), [tipo |-> "ERR"]}
      OBVIOUS
    <2> QED  BY <1>1, <1>3, <2>1, <2>2, Contesta, Zenon
  <1> QED  BY <1>2, <1>3


-----------------------------------------------------------------------------
(* A good page stays good while the tables change. *)
LEMMA PanelDeAntes ==
    ASSUME NEW CONSTANT d \in Nat, NEW CONSTANT s, Promesa!EsPanel(d, s),
           momento \in Nat, momento' = momento + 1
    PROVE  Promesa!EsPanel(d, s)'
  BY DEF Promesa!EsPanel

(* The tables change under the pages under way. *)
LEMMA CambiaEnCurso == ASSUME EnCurso, Cambia PROVE EnCurso'
  <1> USE DEF Cambia, atencion, canal
  <1>1. TypeOK' /\ momento \in Nat /\ momento' = momento + 1 /\ arranque' = arranque
    BY DEF EnCurso, TypeOK
  <1>2. ASSUME NEW h \in Hilos PROVE Bien(h)'
    <2>0. Bien(h) /\ desde[h] \in Nat
      BY DEF EnCurso, TypeOK
    <2>1. EnReposo(h)'
      BY <1>1, <2>0 DEF Bien, EnReposo, QuierePagina
    <2>2. hilo[h] = "espera" => Leido(h)'
      BY <1>1, <2>0 DEF Bien, Leido
    <2>3. hilo[h] = "espera" => UnaPendiente(h)'
      BY <1>1, <2>0 DEF Bien, UnaPendiente, Respuesta
    <2>4. hilo[h] = "bye" => panel[h].estado = "excepcion"
                             \/ Promesa!EsPanel(desde[h], panel[h].secciones)'
      BY <1>1, <2>0, PanelDeAntes DEF Bien
    <2> QED  BY <2>1, <2>2, <2>3, <2>4 DEF Bien
  <1> QED  BY <1>1, <1>2 DEF EnCurso

(* The server stops: whole connections no longer. *)
LEMMA CaeEnCurso == ASSUME EnCurso, Cae PROVE EnCurso'
  <1> USE DEF Cae, atencion
  <1>1. TypeOK'
    BY DEF EnCurso, TypeOK
  <1>2. ASSUME NEW h \in Hilos PROVE Bien(h)'
    <2>0. Bien(h) /\ cortada'[h] = TRUE /\ pedidos'[h] = <<>> /\ sesion'[h] = "no"
      BY DEF EnCurso
    <2>1. EnReposo(h)'
      BY <2>0 DEF Bien, EnReposo, QuierePagina
    <2>2. hilo[h] = "espera" => Leido(h)'
      BY <2>0 DEF Bien, Leido
    <2>3. ASSUME hilo[h] = "espera" PROVE UnaPendiente(h)'
      <3>1. UnaPendiente(h)
        BY <2>0, <2>3 DEF Bien
      <3>2. \A l : Respuesta(h, l) => Respuesta(h, l)'
        BY <2>0 DEF Respuesta
      <3>3. lineas[h] = <<>> \/ \E l \in {lineas[h][1]} : lineas[h] = <<l>> /\ Respuesta(h, l)
        BY <3>1 DEF UnaPendiente
      <3> QED  BY <2>0, <3>2, <3>3 DEF UnaPendiente
    <2>4. hilo'[h] = "bye" => (panel[h].estado = "excepcion"
                                \/ Promesa!EsPanel(desde[h], panel[h].secciones))'
      BY <2>0 DEF Bien, Promesa!EsPanel
    <2> QED  BY <2>1, <2>2, <2>3, <2>4 DEF Bien
  <1> QED  BY <1>1, <1>2 DEF EnCurso

(* ... and starts again, with no connection of before. *)
LEMMA VuelveEnCurso == ASSUME EnCurso, Vuelve PROVE EnCurso'
  <1> USE DEF Vuelve, atencion, canal
  <1>1. /\ TypeOK' /\ momento \in Nat /\ momento' = momento + 1
        /\ ~vivo
    BY DEF EnCurso, TypeOK
  <1>2. ASSUME NEW h \in Hilos PROVE Bien(h)'
    <2>0. Bien(h) /\ desde[h] \in Nat
      BY DEF EnCurso, TypeOK
    <2>1. EnReposo(h)'
      BY <1>1, <2>0 DEF Bien, EnReposo, QuierePagina
    <2>2. hilo[h] = "espera" => cortada[h]
      BY <1>1, <2>0 DEF Bien, UnaPendiente
    <2>3. hilo[h] = "espera" => Leido(h)'
      BY <1>1, <2>0, <2>2 DEF Bien, Leido
    <2>4. hilo[h] = "espera" => UnaPendiente(h)'
      BY <1>1, <2>0, <2>2 DEF Bien, UnaPendiente, Respuesta
    <2>5. hilo[h] = "bye" => panel[h].estado = "excepcion"
                             \/ Promesa!EsPanel(desde[h], panel[h].secciones)'
      BY <1>1, <2>0, PanelDeAntes DEF Bien
    <2> QED  BY <2>1, <2>3, <2>4, <2>5 DEF Bien
  <1> QED  BY <1>1, <1>2 DEF EnCurso

LEMMA PararEnCurso == ASSUME EnCurso, Parar PROVE EnCurso'
  <1>1. TypeOK'
    BY DEF EnCurso, TypeOK, Parar, Etapas, servidor
  <1>2. ASSUME NEW h \in Hilos PROVE Bien(h)'
    <2>0. /\ Bien(h) /\ conexion'[h] = FALSE /\ pedidos'[h] = <<>> /\ lineas'[h] = <<>>
          /\ hilo'[h] = IF h \in Ocupados THEN "muerto" ELSE hilo[h]
          /\ UNCHANGED <<config, visita, paso, panel, respuesta, desde, sesion, cortada, servidor>>
      BY DEF EnCurso, Parar
    <2>1. hilo'[h] = "muerto" \/ (hilo'[h] = hilo[h] /\ hilo[h] \in {"libre", "fin"})
      BY <2>0 DEF Ocupados
    <2> QED  BY <2>0, <2>1 DEF Bien, EnReposo, servidor
  <1>3. main' = "parado"
    BY DEF Parar
  <1> QED  BY <1>1, <1>2, <1>3 DEF EnCurso

LEMMA ArrancarEnCurso == ASSUME EnCurso, Arrancar PROVE EnCurso'
  <1>1. UNCHANGED <<atencion, canal, servidor>>
    BY DEF Arrancar
  <1>2. TypeOK'
    BY DEF EnCurso, TypeOK, Arrancar, atencion, canal, servidor
  <1>3. ASSUME NEW h \in Hilos PROVE Bien(h)'
    <2>1. Bien(h)
      BY DEF EnCurso
    <2>2. hilo' = hilo /\ visita' = visita /\ paso' = paso /\ panel' = panel
          /\ respuesta' = respuesta /\ desde' = desde /\ conexion' = conexion
          /\ sesion' = sesion /\ pedidos' = pedidos /\ lineas' = lineas /\ cortada' = cortada
          /\ UNCHANGED servidor
      BY <1>1 DEF atencion, canal
    <2> QED  BY <2>1, <2>2, Ajeno
  <1>4. main' = "escucha" => EsPuerto(config'.tsp) /\ EsPuerto(config'.web)
    <2> SUFFICES ASSUME main' = "escucha" PROVE EsPuerto(config'.tsp) /\ EsPuerto(config'.web)
      OBVIOUS
    <2>1. PICK e \in Entornos :
            /\ PuertoValido(e.tsp) /\ PuertoValido(e.web)
            /\ config' = [tsp |-> Puerto(e.tsp, 6000), web |-> Puerto(e.web, 8080)]
      BY DEF Arrancar
    <2>2. EsPuerto(6000) /\ EsPuerto(8080)
      BY DEF EsPuerto
    <2>3. EsPuerto(Puerto(e.tsp, 6000)) /\ EsPuerto(Puerto(e.web, 8080))
      <3> HIDE DEF EsPuerto
      <3> QED  BY <2>1, <2>2 DEF PuertoValido, Puerto
    <2> QED  BY <2>1, <2>3
  <1> QED  BY <1>2, <1>3, <1>4 DEF EnCurso

-----------------------------------------------------------------------------
LEMMA PasoEnCurso == ASSUME EnCurso, [Next]_vars PROVE EnCurso'
  <1>1. CASE UNCHANGED vars
    <2>1. TypeOK'
      BY <1>1 DEF EnCurso, TypeOK, vars
    <2>2. ASSUME NEW h \in Hilos PROVE Bien(h)'
      <3>1. Bien(h)
        BY DEF EnCurso
      <3> QED  BY <1>1, <3>1, Ajeno DEF vars, servidor
    <2> QED  BY <1>1, <2>1, <2>2 DEF EnCurso, vars
  <1>2. ASSUME NEW h \in Hilos, NEW v \in Visitas, Recibe(h, v) PROVE EnCurso'
    BY <1>2, RecibeEnCurso
  <1>3. ASSUME NEW h \in Hilos, Hilo(h) \/ Revienta(h) \/ Acaba(h) PROVE EnCurso'
    BY <1>3, RechazaEnCurso, ConectaEnCurso, NoConectaEnCurso, LeeEnCurso, FallaEnCurso,
       CierraEnCurso, RevientaEnCurso, AcabaEnCurso DEF Hilo
  <1>4. ASSUME NEW h \in Hilos, Servidor(h) \/ Corta(h) PROVE EnCurso'
    BY <1>4, AdmiteEnCurso, AtiendeEnCurso, SueltaEnCurso, CortaEnCurso DEF Servidor
  <1>5. CASE Arrancar \/ Parar \/ Cambia \/ Cae \/ Vuelve
    BY <1>5, ArrancarEnCurso, PararEnCurso, CambiaEnCurso, CaeEnCurso, VuelveEnCurso
  <1> QED  BY <1>1, <1>2, <1>3, <1>4, <1>5 DEF Next

(* A page under way is good at every step of every run (obtener_panel,       *)
(* _ejecutar_comandos), and the ports are legal (parsear_puerto).           *)
THEOREM SiempreEnCurso == Spec => []EnCurso
  <1>1. Init => EnCurso
    BY InicioEnCurso
  <1>2. EnCurso /\ [Next]_vars => EnCurso'
    BY PasoEnCurso
  <1> QED  BY <1>1, <1>2, PTL DEF Spec

-----------------------------------------------------------------------------
(* A response with the code of the request, and with a good page if that is  *)
(* 200, is a step of the promise.                                           *)
LEMMA UnaRespuesta ==
    ASSUME EnCurso, NEW h \in Hilos, NEW c, NEW p, Responde(h, c, p),
           hilo[h] \in {"ruta", "bye"},
           c = Promesa!Codigo(visita[h]), c = 200 => Promesa!EsPagina(desde[h], p),
           UNCHANGED <<momento, arranque, visita, desde>>
    PROVE  Promesa!Sirve(h)
  <1>0. Bien(h)
    BY DEF EnCurso
  <1>1. respuesta'[h] = [codigo |-> c, pagina |-> p]
        /\ respuesta' = [respuesta EXCEPT ![h] = respuesta'[h]]
    BY DEF EnCurso, TypeOK, Responde
  <1>2. respuesta'[h].codigo = c /\ respuesta'[h].pagina = p
    BY <1>1
  <1>3. respuesta[h] = Promesa!Nada
    BY <1>0 DEF Bien, EnReposo, Nada, Promesa!Nada
  <1>4. visita[h] # Promesa!SinVisita
    <2>1. visita[h].metodo \in Metodos
      BY <1>0, PanelAssumption DEF Bien, EnReposo
    <2>2. Promesa!SinVisita.metodo \notin Metodos
      BY DEF Promesa!SinVisita, Metodos
    <2> QED  BY <2>1, <2>2
  <1> HIDE DEF Responde
  <1> QED  BY <1>1, <1>2, <1>3, <1>4 DEF Promesa!Sirve

LEMMA UnaNegativa ==
    ASSUME EnCurso, NEW h \in Hilos, hilo[h] = "ruta", NEW c, Responde(h, c, Aviso), c # 200,
           Promesa!Codigo(visita[h]) = c, UNCHANGED <<momento, arranque, visita, desde>>
    PROVE  Promesa!Sirve(h)
  BY UnaRespuesta

LEMMA RechazaPromesa == ASSUME EnCurso, NEW h \in Hilos, Rechaza(h) PROVE Promesa!Sirve(h)
  <1>1. hilo[h] = "ruta" /\ UNCHANGED <<momento, arranque, visita, desde>>
    BY DEF Rechaza, Pasa, servidor
  <1>2. CASE visita[h].metodo = "otro" /\ Responde(h, 501, Aviso)
    <2>1. Promesa!Codigo(visita[h]) = 501 /\ 501 # 200
      BY <1>2 DEF Promesa!Codigo
    <2> QED  BY <1>1, <1>2, <2>1, UnaNegativa
  <1>3. CASE visita[h].metodo = "no permitido" /\ Responde(h, 405, Aviso)
    <2>1. visita[h].metodo # "otro" /\ visita[h].metodo \notin {"GET", "HEAD"}
      BY <1>3
    <2>2. Promesa!Codigo(visita[h]) = 405
      BY <1>3, <2>1, Zenon DEF Promesa!Codigo
    <2>3. Promesa!Codigo(visita[h]) = 405 /\ 405 # 200
      BY <2>2
    <2>4. Responde(h, 405, Aviso)
      BY <1>3
    <2> QED  BY <1>1, <2>3, <2>4, UnaNegativa
  <1>4. CASE visita[h].metodo \in {"GET", "HEAD"} /\ ~visita[h].raiz /\ Responde(h, 404, Aviso)
    <2>1. Promesa!Codigo(visita[h]) = 404 /\ 404 # 200
      BY <1>4 DEF Promesa!Codigo
    <2> QED  BY <1>1, <1>4, <2>1, UnaNegativa
  <1> QED  BY <1>2, <1>3, <1>4, Zenon DEF Rechaza

LEMMA NoConectaPromesa == ASSUME EnCurso, NEW h \in Hilos, NoConecta(h) PROVE Promesa!Sirve(h)
  <1>1. hilo[h] = "ruta" /\ UNCHANGED <<momento, arranque, visita, desde>>
    BY DEF NoConecta, Pasa, servidor
  <1>2. Promesa!Codigo(visita[h]) = 200
    BY DEF NoConecta, QuierePagina, Promesa!Codigo
  <1>3. Promesa!EsPagina(desde[h], Pagina(Crear("degradado", SinSecciones)))
    BY DEF Promesa!EsPagina, Pagina, Crear
  <1>4. Responde(h, 200, Pagina(Crear("degradado", SinSecciones)))
    BY DEF NoConecta
  <1> QED  BY <1>1, <1>2, <1>3, <1>4, UnaRespuesta

LEMMA CierraPromesa == ASSUME EnCurso, NEW h \in Hilos, Cierra(h) PROVE Promesa!Sirve(h)
  <1>1. hilo[h] = "bye" /\ UNCHANGED <<momento, arranque, visita, desde>>
    BY DEF Cierra, Pasa, servidor
  <1>2. Promesa!Codigo(visita[h]) = 200
    <2>1. QuierePagina(h)
      BY <1>1 DEF EnCurso, Bien, EnReposo
    <2> QED  BY <2>1 DEF QuierePagina, Promesa!Codigo
  <1>3. Promesa!EsPagina(desde[h], Pagina(panel[h]))
    <2>1. Pagina(panel[h]).tipo = panel[h].estado /\ Pagina(panel[h]).secciones = panel[h].secciones
      BY DEF Pagina
    <2>2. panel[h].estado = "excepcion" \/ Promesa!EsPanel(desde[h], panel[h].secciones)
      BY <1>1 DEF EnCurso, Bien
    <2> QED  BY <2>1, <2>2 DEF Promesa!EsPagina
  <1>4. Responde(h, 200, Pagina(panel[h]))
    BY DEF Cierra
  <1> QED  BY <1>1, <1>2, <1>3, <1>4, UnaRespuesta

LEMMA PasoPromesa == ASSUME EnCurso, [Next]_vars PROVE [Promesa!Next]_(Promesa!promiseVars)
  <1> USE DEF Promesa!promiseVars
  <1>1. CASE UNCHANGED vars
    BY <1>1 DEF vars
  <1>2. ASSUME NEW h \in Hilos, NEW v \in Visitas, Recibe(h, v) PROVE Promesa!Next
    <2>1. visita[h] = Promesa!SinVisita
      BY <1>2 DEF EnCurso, Bien, EnReposo, Recibe, Pasa, SinVisita, Promesa!SinVisita
    <2>2. Promesa!Pide(h)
      BY <1>2, <2>1 DEF Promesa!Pide, Recibe, servidor
    <2> QED  BY <2>2 DEF Promesa!Next
  <1>3. ASSUME NEW h \in Hilos, Rechaza(h) \/ NoConecta(h) \/ Cierra(h) PROVE Promesa!Next
    BY <1>3, RechazaPromesa, NoConectaPromesa, CierraPromesa DEF Promesa!Next
  <1>4. ASSUME NEW h \in Hilos, Acaba(h) PROVE Promesa!Next
    <2>1. respuesta[h] # Promesa!Nada
      BY <1>4 DEF EnCurso, Bien, EnReposo, Acaba, Pasa, Nada, Promesa!Nada
    <2>2. Promesa!Acaba(h)
      BY <1>4, <2>1 DEF Promesa!Acaba, Acaba, servidor, SinVisita, Promesa!SinVisita, Nada,
                        Promesa!Nada
    <2> QED  BY <2>2 DEF Promesa!Next
  <1>5. ASSUME NEW h \in Hilos, Conecta(h) \/ Lee(h) \/ Falla(h) \/ Revienta(h)
        PROVE  UNCHANGED Promesa!promiseVars
    BY <1>5, Zenon DEF Conecta, Lee, Falla, Revienta, servidor
  <1>6. ASSUME NEW h \in Hilos, Servidor(h) \/ Corta(h) PROVE UNCHANGED Promesa!promiseVars
    BY <1>6, Zenon DEF Servidor, Admite, Atiende, Suelta, Corta, atencion, servidor
  <1>7. CASE Cambia \/ Vuelve
    <2>1. momento' = momento + 1 /\ arranque' \in {arranque, arranque + 1}
          /\ UNCHANGED <<visita, desde, respuesta>>
      BY <1>7 DEF Cambia, Vuelve, atencion
    <2>2. momento' > momento
      BY <2>1 DEF EnCurso, TypeOK
    <2> QED  BY <2>1, <2>2 DEF Promesa!Next, Promesa!Cambia
  <1>8. CASE Arrancar \/ Parar \/ Cae
    BY <1>8 DEF Arrancar, Parar, Cae, atencion, servidor
  <1> QED  BY <1>1, <1>2, <1>3, <1>4, <1>5, <1>6, <1>7, <1>8, Zenon DEF Next, Hilo

(* The panel implements what it promises a browser, whatever fails, is late  *)
(* or restarts while a page is put together (obtener_panel).                *)
THEOREM PanelCumple == Spec => CumpleLaPromesa
  <1>1. Init => Promesa!Init
    BY DEF Init, Promesa!Init, SinVisita, Promesa!SinVisita, Nada, Promesa!Nada
  <1>2. EnCurso /\ [Next]_vars => [Promesa!Next]_(Promesa!promiseVars)
    BY PasoPromesa
  <1> QED  BY <1>1, <1>2, SiempreEnCurso, PTL DEF Spec, CumpleLaPromesa, Promesa!Spec

-----------------------------------------------------------------------------
(* A set of naturals has a least element. *)
LEMMA MenorDeTodos ==
    ASSUME NEW T, T \subseteq Nat, T # {}
    PROVE  \E x \in T : \A y \in T : x <= y
  <1>1. IsWellFoundedOn(OpToRel(<, Nat), Nat)
    BY NatLessThanWellFounded
  <1>2. PICK x \in T : \A y \in T : ~ (<<y, x>> \in OpToRel(<, Nat))
    BY <1>1, WFMin
  <1>3. \A y \in T : ~ (y < x)
    BY <1>2 DEF OpToRel
  <1> QED  BY <1>3

(* What holds of 0 and passes on holds up to N: induction with a set for the  *)
(* predicate.                                                               *)
LEMMA HastaElFinal ==
    ASSUME NEW N \in Nat, NEW S, 0 \in S, \A n \in 0..N : n < N /\ n \in S => n + 1 \in S
    PROVE  \A n \in 0..N : n \in S
  <1> DEFINE T == {n \in 0..N : n \notin S}
  <1> SUFFICES ASSUME T # {} PROVE FALSE
    OBVIOUS
  <1>1. T \subseteq Nat
    OBVIOUS
  <1> HIDE DEF T
  <1>2. PICK n \in T : \A m \in T : n <= m
    BY <1>1, MenorDeTodos
  <1> USE DEF T
  <1>3. n # 0 /\ n \in 0..N
    OBVIOUS
  <1>4. n - 1 \in 0..N /\ n - 1 < N /\ ~(n - 1 \in T)
    BY <1>2, <1>3
  <1> QED  BY <1>3, <1>4

(* The list of parsear_nodos after the first i records. *)
EsRecorrido(k, s, n, g) ==
    g = [i \in 0..n |-> IF i = 0 THEN <<>>
                        ELSE IF EstaCompleto(k, s[i]) THEN Append(g[i - 1], s[i])
                        ELSE g[i - 1]]

LEMMA Recorriendo ==
    ASSUME NEW k, NEW s, NEW n, NEW g, EsRecorrido(k, s, n, g), NEW i \in 0..n
    PROVE  g[i] = IF i = 0 THEN <<>>
                  ELSE IF EstaCompleto(k, s[i]) THEN Append(g[i - 1], s[i]) ELSE g[i - 1]
  BY DEF EsRecorrido

(* There is one for any records, so LET defines it. *)
LEMMA HayRecorrido ==
    ASSUME NEW k, NEW s, NEW N \in Nat PROVE \E g : EsRecorrido(k, s, N, g)
  <1> DEFINE S == {n \in 0..N : \E g : EsRecorrido(k, s, n, g)}
  <1>1. 0 \in S
    <2>1. EsRecorrido(k, s, 0, [i \in 0..0 |-> <<>>])
      BY DEF EsRecorrido
    <2> QED  BY <2>1
  <1>2. ASSUME NEW n \in 0..N, n < N, n \in S PROVE n + 1 \in S
    <2>1. PICK g : EsRecorrido(k, s, n, g)
      BY <1>2
    <2> DEFINE x == IF EstaCompleto(k, s[n + 1]) THEN Append(g[n], s[n + 1]) ELSE g[n]
               f == [i \in 0..(n + 1) |-> IF i = n + 1 THEN x ELSE g[i]]
    <2>2. \A i \in 0..(n + 1) :
             f[i] = IF i = 0 THEN <<>>
                    ELSE IF EstaCompleto(k, s[i]) THEN Append(f[i - 1], s[i]) ELSE f[i - 1]
      <3> HIDE DEF x
      <3>1. ASSUME NEW i \in 0..n
            PROVE  f[i] = IF i = 0 THEN <<>>
                    ELSE IF EstaCompleto(k, s[i]) THEN Append(f[i - 1], s[i]) ELSE f[i - 1]
        <4>1. g[i] = IF i = 0 THEN <<>>
                     ELSE IF EstaCompleto(k, s[i]) THEN Append(g[i - 1], s[i]) ELSE g[i - 1]
          BY <2>1, Recorriendo
        <4>2. f[i] = g[i] /\ (i # 0 => f[i - 1] = g[i - 1])
          OBVIOUS
        <4> QED  BY <4>1, <4>2
      <3>2. f[n + 1] = x /\ f[n] = g[n] /\ n + 1 # 0 /\ n + 1 - 1 = n
        OBVIOUS
      <3>3. f[n + 1] = IF n + 1 = 0 THEN <<>>
                    ELSE IF EstaCompleto(k, s[n + 1]) THEN Append(f[n + 1 - 1], s[n + 1])
                    ELSE f[n + 1 - 1]
        BY <3>2 DEF x
      <3> QED  BY <3>1, <3>3
    <2>3. EsRecorrido(k, s, n + 1, f)
      <3>1. f = [i \in 0..(n + 1) |-> f[i]]
        OBVIOUS
      <3> HIDE DEF f
      <3> QED  BY <2>2, <3>1 DEF EsRecorrido
    <2> QED  BY <2>3
  <1> HIDE DEF S
  <1>3. N \in S
    BY <1>1, <1>2, HastaElFinal
  <1> QED  BY <1>3 DEF S

LEMMA CompletosRecorre ==
    ASSUME NEW k, NEW s, Len(s) \in Nat
    PROVE  \E g : EsRecorrido(k, s, Len(s), g) /\ Completos(k, s) = g[Len(s)]
  <1> DEFINE F == CHOOSE tras : tras = [i \in 0..Len(s) |->
                      IF i = 0 THEN <<>>
                      ELSE IF EstaCompleto(k, s[i]) THEN Append(tras[i - 1], s[i])
                      ELSE tras[i - 1]]
  <1>1. Completos(k, s) = F[Len(s)]
    BY DEF Completos
  <1>2. \E g : EsRecorrido(k, s, Len(s), g)
    BY HayRecorrido
  <1>3. EsRecorrido(k, s, Len(s), F)
    BY <1>2 DEF EsRecorrido
  <1> QED  BY <1>1, <1>3

(* The complete ones of the first n records, and what the list holds then. *)
Hasta(k, s, n) == {j \in 1..n : EstaCompleto(k, s[j])}
EsListado(k, s, n, A, R, t) ==
    /\ t \in Seq(R)
    /\ Len(t) = Cardinality(Hasta(k, s, n))
    /\ \A i \in Hasta(k, s, n) : t[Cardinality(Hasta(k, s, i))] = s[i]
    /\ \A p \in DOMAIN t : \E i \in Hasta(k, s, n) : p = Cardinality(Hasta(k, s, i))
    /\ Cardinality({p \in DOMAIN t : t[p] \in A}) = Cardinality({i \in Hasta(k, s, n) : s[i] \in A})

LEMMA HastaFinito ==
    ASSUME NEW k, NEW s, NEW n \in Nat
    PROVE  /\ IsFiniteSet(Hasta(k, s, n)) /\ Cardinality(Hasta(k, s, n)) \in Nat
           /\ \A U \in SUBSET Hasta(k, s, n) : IsFiniteSet(U) /\ Cardinality(U) \in Nat
  <1>1. IsFiniteSet(1..n) /\ Hasta(k, s, n) \in SUBSET (1..n)
    BY FS_Interval DEF Hasta
  <1>2. IsFiniteSet(Hasta(k, s, n))
    BY <1>1, FS_Subset
  <1>3. \A U \in SUBSET Hasta(k, s, n) : IsFiniteSet(U)
    BY <1>2, FS_Subset
  <1> QED  BY <1>2, <1>3, FS_CardinalityType

LEMMA HastaElSiguiente ==
    ASSUME NEW k, NEW s, NEW n \in Nat
    PROVE  Hasta(k, s, n + 1) =
              IF EstaCompleto(k, s[n + 1]) THEN Hasta(k, s, n) \cup {n + 1} ELSE Hasta(k, s, n)
  <1>1. 1..(n + 1) = (1..n) \cup {n + 1}
    OBVIOUS
  <1> QED  BY <1>1 DEF Hasta

LEMMA HastaCrece ==
    ASSUME NEW k, NEW s, NEW n \in Nat, NEW i \in Hasta(k, s, n)
    PROVE  /\ i \in 1..n /\ EstaCompleto(k, s[i])
           /\ Cardinality(Hasta(k, s, i)) \in 1..Cardinality(Hasta(k, s, n))
  <1>1. i \in 1..n /\ EstaCompleto(k, s[i])
    BY DEF Hasta
  <1>2. Hasta(k, s, i) \in SUBSET Hasta(k, s, n) /\ Hasta(k, s, i) # {}
    BY <1>1 DEF Hasta
  <1>3. Cardinality(Hasta(k, s, i)) <= Cardinality(Hasta(k, s, n))
    BY <1>2, HastaFinito, FS_Subset
  <1>4. Cardinality(Hasta(k, s, i)) # 0 /\ Cardinality(Hasta(k, s, i)) \in Nat
    BY <1>1, <1>2, HastaFinito, FS_EmptySet
  <1> QED  BY <1>1, <1>3, <1>4, HastaFinito

(* One more record: a short one changes nothing. *)
LEMMA ListadoSaltado ==
    ASSUME NEW k, NEW s, NEW n \in Nat, NEW A, NEW R, NEW t, EsListado(k, s, n, A, R, t),
           ~EstaCompleto(k, s[n + 1])
    PROVE  EsListado(k, s, n + 1, A, R, t)
  <1>1. Hasta(k, s, n + 1) = Hasta(k, s, n)
    BY HastaElSiguiente
  <1> QED  BY <1>1 DEF EsListado

(* And a complete one is the last of the list. *)
LEMMA ListadoAlargado ==
    ASSUME NEW k, NEW s, NEW n \in Nat, NEW A, NEW R, NEW t, EsListado(k, s, n, A, R, t),
           EstaCompleto(k, s[n + 1]), s[n + 1] \in R
    PROVE  EsListado(k, s, n + 1, A, R, Append(t, s[n + 1]))
  <1> DEFINE H == Hasta(k, s, n)
             G == Hasta(k, s, n + 1)
             x == s[n + 1]
             u == Append(t, x)
  <1>1. G = H \cup {n + 1} /\ n + 1 \notin H
    BY HastaElSiguiente DEF Hasta
  <1>2. IsFiniteSet(H) /\ Cardinality(H) \in Nat
    BY HastaFinito
  <1>3. Cardinality(G) = Cardinality(H) + 1
    BY <1>1, <1>2, FS_AddElement
  <1>4. t \in Seq(R) /\ Len(t) = Cardinality(H)
    BY DEF EsListado
  <1>5. /\ u \in Seq(R) /\ Len(u) = Len(t) + 1 /\ u[Len(t) + 1] = x
        /\ \A p \in 1..Len(t) : u[p] = t[p]
        /\ DOMAIN t = 1..Len(t) /\ DOMAIN u = 1..(Len(t) + 1) /\ Len(t) \in Nat
    BY <1>4
  <1> HIDE DEF H, G, u, x
  <1>6. ASSUME NEW i \in G PROVE u[Cardinality(Hasta(k, s, i))] = s[i]
    <2>1. CASE i \in H
      <3>1. Cardinality(Hasta(k, s, i)) \in 1..Len(t)
        BY <1>4, <2>1, HastaCrece DEF H
      <3>2. t[Cardinality(Hasta(k, s, i))] = s[i]
        BY <2>1 DEF H, EsListado
      <3> QED  BY <1>5, <3>1, <3>2
    <2>2. CASE i = n + 1
      BY <1>3, <1>4, <1>5, <2>2 DEF G, x
    <2> QED  BY <1>1, <2>1, <2>2
  <1>7. ASSUME NEW p \in DOMAIN u PROVE \E i \in G : p = Cardinality(Hasta(k, s, i))
    <2>1. CASE p \in 1..Len(t)
      <3>1. \E i \in H : p = Cardinality(Hasta(k, s, i))
        BY <1>5, <2>1 DEF EsListado, H
      <3> QED  BY <1>1, <3>1
    <2>2. CASE p = Len(t) + 1
      <3>1. n + 1 \in G /\ p = Cardinality(Hasta(k, s, n + 1))
        BY <1>1, <1>3, <1>4, <2>2 DEF G
      <3> QED  BY <3>1
    <2> QED  BY <1>5, <2>1, <2>2
  <1>8. Cardinality({p \in DOMAIN u : u[p] \in A}) = Cardinality({i \in G : s[i] \in A})
    <2> DEFINE P == {p \in DOMAIN t : t[p] \in A}
               Q == {i \in H : s[i] \in A}
    <2>1. Cardinality(P) = Cardinality(Q)
      BY DEF EsListado, H
    <2>2. IsFiniteSet(Q) /\ n + 1 \notin Q
      BY <1>1, HastaFinito DEF H
    <2>3. IsFiniteSet(P) /\ Len(t) + 1 \notin P
      <3>1. P \in SUBSET (1..Len(t)) /\ IsFiniteSet(1..Len(t))
        BY <1>5, FS_Interval
      <3> QED  BY <1>5, <3>1, FS_Subset
    <2>4. {p \in DOMAIN u : u[p] \in A} = IF x \in A THEN P \cup {Len(t) + 1} ELSE P
      BY <1>5
    <2>5. {i \in G : s[i] \in A} = IF x \in A THEN Q \cup {n + 1} ELSE Q
      BY <1>1 DEF x
    <2> HIDE DEF P, Q
    <2>6. CASE x \in A
      <3>1. Cardinality(P \cup {Len(t) + 1}) = Cardinality(P) + 1
        BY <2>3, FS_AddElement
      <3>2. Cardinality(Q \cup {n + 1}) = Cardinality(Q) + 1
        BY <2>2, FS_AddElement
      <3> QED  BY <2>1, <2>4, <2>5, <2>6, <3>1, <3>2
    <2>7. CASE x \notin A
      BY <2>1, <2>4, <2>5, <2>7
    <2> QED  BY <2>6, <2>7
  <1>9. Len(u) = Cardinality(G)
    BY <1>3, <1>4, <1>5
  <1>10. EsListado(k, s, n + 1, A, R, u)
    BY <1>5, <1>6, <1>7, <1>8, <1>9, Zenon DEF EsListado, G
  <1> QED  BY <1>10 DEF u, x

(* The list of the complete records of a sequence of records. *)
LEMMA CompletosListado ==
    ASSUME NEW k, NEW s, Len(s) \in Nat, NEW R, \A i \in 1..Len(s) : s[i] \in R, NEW A
    PROVE  EsListado(k, s, Len(s), A, R, Completos(k, s))
  <1> DEFINE N == Len(s)
  <1>1. PICK g : EsRecorrido(k, s, N, g) /\ Completos(k, s) = g[N]
    BY CompletosRecorre
  <1> HIDE DEF N
  <1> DEFINE S == {n \in 0..N : EsListado(k, s, n, A, R, g[n])}
  <1>2. N \in Nat
    BY DEF N
  <1>3. 0 \in S
    <2>1. g[0] = <<>>
      BY <1>1, <1>2 DEF EsRecorrido
    <2>2. Hasta(k, s, 0) = {} /\ DOMAIN <<>> = {} /\ <<>> \in Seq(R) /\ Len(<<>>) = 0
      BY DEF Hasta
    <2>3. {p \in DOMAIN <<>> : <<>>[p] \in A} = {} /\ {i \in {} : s[i] \in A} = {}
      BY <2>2
    <2>4. Cardinality({}) = 0
      BY FS_EmptySet
    <2>5. EsListado(k, s, 0, A, R, <<>>)
      BY <2>2, <2>3, <2>4 DEF EsListado
    <2> QED  BY <1>2, <2>1, <2>5
  <1>4. ASSUME NEW n \in 0..N, n < N, n \in S PROVE n + 1 \in S
    <2>1. EsListado(k, s, n, A, R, g[n]) /\ n + 1 \in 1..N /\ n \in Nat
      BY <1>2, <1>4
    <2>2. s[n + 1] \in R
      BY <2>1 DEF N
    <2>3. g[n + 1] = IF EstaCompleto(k, s[n + 1]) THEN Append(g[n], s[n + 1]) ELSE g[n]
      <3>1. n + 1 \in 0..N /\ n + 1 # 0 /\ n + 1 - 1 = n
        BY <1>2, <2>1
      <3> QED  BY <1>1, <3>1, Recorriendo
    <2>4. EsListado(k, s, n + 1, A, R, g[n + 1])
      BY <2>1, <2>2, <2>3, ListadoSaltado, ListadoAlargado
    <2> QED  BY <1>2, <2>1, <2>4
  <1> HIDE DEF S
  <1>5. N \in S
    <2>1. \A n \in 0..N : n < N /\ n \in S => n + 1 \in S
      BY <1>4
    <2>2. \A n \in 0..N : n \in S
      BY <1>2, <1>3, <2>1, HastaElFinal
    <2> QED  BY <1>2, <2>2
  <1> QED  BY <1>1, <1>5 DEF S, N

-----------------------------------------------------------------------------
LEMMA MinimoAcotado == \A k \in Secciones : Minimo[k] \in 3..8
  BY DEF Secciones, Minimo

LEMMA SucesionEnSeq ==
    ASSUME NEW r, EsSucesion(r)
    PROVE  DOMAIN r = 1..Len(r) /\ Len(r) \in Nat /\ r \in Seq({r[c] : c \in 1..Len(r)})
  <1> DEFINE V == {r[c] : c \in 1..Len(r)}
  <1>1. Len(r) \in Nat /\ r = [c \in 1..Len(r) |-> r[c]]
    BY DEF EsSucesion
  <1>2. \A c \in 1..Len(r) : r[c] \in V
    OBVIOUS
  <1> HIDE DEF V
  <1>3. r \in [1..Len(r) -> V]
    BY <1>1, <1>2
  <1>4. r \in Seq(V)
    BY <1>1, <1>3
  <1> QED  BY <1>1, <1>4 DEF V

(* Of a record long enough, the fields from the second on. *)
LEMMA CamposDe ==
    ASSUME NEW r, EsSucesion(r), NEW M \in Nat, 2 <= M, M <= Len(r)
    PROVE  \A c \in 2..M : SubSeq(r, 2, M)[c - 1] = r[c]
  <1> DEFINE V == {r[c] : c \in 1..Len(r)}
  <1>1. r \in Seq(V)
    BY SucesionEnSeq
  <1> HIDE DEF V
  <1> QED  BY <1>1

(* An answer of the server. *)
EsTabla(s) == EsSucesion(s) /\ \A i \in DOMAIN s : EsSucesion(s[i])

LEMMA TablasBuenas ==
    /\ EsTabla(<<>>)
    /\ \A m \in 0..MaxMomentos, k \in Secciones : EsTabla(Tablas[m][k])
  <1>1. EsSucesion(<<>>) /\ DOMAIN <<>> = {}
    BY DEF EsSucesion
  <1>2. EsTabla(<<>>)
    BY <1>1 DEF EsTabla
  <1> QED  BY <1>2, TablasAssumption DEF EsTabla

(* The complete records of an answer, counted as EnOrden does. *)
LEMMA BuenosHasta ==
    ASSUME NEW k, NEW s, EsSucesion(s)
    PROVE  /\ Buenos(k, s) = Hasta(k, s, Len(s))
           /\ \A i \in Buenos(k, s) : {j \in Buenos(k, s) : j <= i} = Hasta(k, s, i)
  <1>1. DOMAIN s = 1..Len(s) /\ Len(s) \in Nat
    BY SucesionEnSeq
  <1>2. Buenos(k, s) = Hasta(k, s, Len(s))
    BY <1>1 DEF Buenos, Hasta, EstaCompleto
  <1>3. ASSUME NEW i \in Buenos(k, s) PROVE {j \in Buenos(k, s) : j <= i} = Hasta(k, s, i)
    BY <1>1, <1>2 DEF Hasta
  <1> QED  BY <1>2, <1>3

(* What the rows of a section are: one per complete record, in order, with   *)
(* its fields.                                                              *)
LEMMA FilasDe ==
    ASSUME NEW k \in Secciones, NEW s, EsTabla(s)
    PROVE  LET f == Filas(k, s)
               H == Hasta(k, s, Len(s))
           IN  /\ DOMAIN f = 1..Cardinality(H) /\ Len(f) = Cardinality(H)
               /\ \A i \in H : \A c \in 2..Minimo[k] :
                     f[Cardinality(Hasta(k, s, i))][c - 1] = s[i][c]
               /\ \A p \in DOMAIN f : \E i \in H : p = Cardinality(Hasta(k, s, i))
  <1> DEFINE f == Filas(k, s)
             H == Hasta(k, s, Len(s))
             t == Completos(k, s)
             R == {s[i] : i \in 1..Len(s)}
  <1>1. DOMAIN s = 1..Len(s) /\ Len(s) \in Nat
    BY SucesionEnSeq DEF EsTabla
  <1>2. EsListado(k, s, Len(s), {}, R, t)
    BY <1>1, CompletosListado
  <1>3. Cardinality(H) \in Nat
    BY <1>1, HastaFinito
  <1>4. t \in Seq(R) /\ Len(t) = Cardinality(H) /\ DOMAIN t = 1..Cardinality(H)
    BY <1>2 DEF EsListado
  <1>5. f = [p \in DOMAIN t |-> SubSeq(t[p], 2, Minimo[k])]
    BY DEF Filas
  <1> HIDE DEF f, H, t, R
  <1>6. DOMAIN f = 1..Cardinality(H) /\ Len(f) = Cardinality(H)
    BY <1>3, <1>4, <1>5
  <1>7. ASSUME NEW i \in H, NEW c \in 2..Minimo[k]
        PROVE  f[Cardinality(Hasta(k, s, i))][c - 1] = s[i][c]
    <2>1. /\ i \in 1..Len(s) /\ Len(s[i]) >= Minimo[k] /\ EsSucesion(s[i])
          /\ Cardinality(Hasta(k, s, i)) \in 1..Cardinality(H)
      BY <1>1, HastaCrece DEF H, EstaCompleto, EsTabla
    <2>2. t[Cardinality(Hasta(k, s, i))] = s[i]
      BY <1>2 DEF EsListado, H
    <2>3. f[Cardinality(Hasta(k, s, i))] = SubSeq(s[i], 2, Minimo[k])
      BY <1>4, <1>5, <2>1, <2>2
    <2>4. \A d \in 2..Minimo[k] : SubSeq(s[i], 2, Minimo[k])[d - 1] = s[i][d]
      <3>1. PICK M : M = Minimo[k]
        OBVIOUS
      <3>2. M \in Nat /\ 2 <= M /\ Len(s[i]) \in Nat
        BY <2>1, <3>1, MinimoAcotado, SucesionEnSeq
      <3>3. M <= Len(s[i])
        BY <2>1, <3>1, <3>2
      <3>4. \A d \in 2..M : SubSeq(s[i], 2, M)[d - 1] = s[i][d]
        BY <2>1, <3>2, <3>3, CamposDe
      <3> QED  BY <3>1, <3>4
    <2> QED  BY <2>3, <2>4
  <1>8. \A p \in DOMAIN f : \E i \in H : p = Cardinality(Hasta(k, s, i))
    BY <1>2, <1>4, <1>6 DEF EsListado, H
  <1> QED  BY <1>6, <1>7, <1>8 DEF f, H

LEMMA FilasEnOrden ==
    ASSUME NEW k \in Secciones, NEW s, EsTabla(s) PROVE EnOrden(s, k, Filas(k, s))
  <1>1. /\ Buenos(k, s) = Hasta(k, s, Len(s))
        /\ \A i \in Buenos(k, s) : {j \in Buenos(k, s) : j <= i} = Hasta(k, s, i)
    BY BuenosHasta DEF EsTabla
  <1>2. Len(Filas(k, s)) = Cardinality(Buenos(k, s))
    BY <1>1, FilasDe
  <1>3. \A i \in Buenos(k, s) : \A c \in 2..Minimo[k] :
           Filas(k, s)[Cardinality({j \in Buenos(k, s) : j <= i})][c - 1] = s[i][c]
    <2> TAKE i \in Buenos(k, s)
    <2>1. {j \in Buenos(k, s) : j <= i} = Hasta(k, s, i) /\ i \in Hasta(k, s, Len(s))
      BY <1>1
    <2>2. \A c \in 2..Minimo[k] : Filas(k, s)[Cardinality(Hasta(k, s, i))][c - 1] = s[i][c]
      BY <2>1, FilasDe
    <2> QED  BY <2>1, <2>2
  <1> QED  BY <1>2, <1>3 DEF EnOrden

(* The panel counts the active nodes as the server does. *)
LEMMA ActivosContados ==
    ASSUME NEW s, EsTabla(s)
    PROVE  ContarActivos(Filas(Nodos, s)) =
              Cardinality({i \in Buenos(Nodos, s) : s[i][3] \in Activos})
  <1> DEFINE f == Filas(Nodos, s)
             H == Hasta(Nodos, s, Len(s))
             t == Completos(Nodos, s)
             R == {s[i] : i \in 1..Len(s)}
             A == {r \in R : r[3] \in Activos}
  <1>0. Nodos \in Secciones /\ 3 \in 2..Minimo[Nodos]
    BY DEF Nodos, Secciones, Minimo
  <1>1. DOMAIN s = 1..Len(s) /\ Len(s) \in Nat /\ Buenos(Nodos, s) = H
    BY SucesionEnSeq, BuenosHasta DEF EsTabla
  <1>2. EsListado(Nodos, s, Len(s), A, R, t)
    BY <1>1, CompletosListado
  <1>3. t \in Seq(R) /\ DOMAIN t = DOMAIN f
    <2>1. t \in Seq(R) /\ Len(t) = Cardinality(H)
      BY <1>2 DEF EsListado
    <2>2. DOMAIN f = 1..Cardinality(H)
      BY <1>0, FilasDe
    <2> QED  BY <2>1, <2>2
  <1>4. ASSUME NEW p \in DOMAIN f PROVE f[p][2] \in Activos <=> t[p] \in A
    <2>1. PICK i \in H : p = Cardinality(Hasta(Nodos, s, i))
      BY <1>0, FilasDe
    <2>2. f[p][3 - 1] = s[i][3]
      BY <1>0, <2>1, FilasDe
    <2>3. t[p] = s[i]
      BY <1>2, <2>1 DEF EsListado
    <2>4. s[i] \in R
      BY <1>1 DEF Hasta
    <2> QED  BY <2>2, <2>3, <2>4
  <1>5. \A i \in H : s[i][3] \in Activos <=> s[i] \in A
    BY <1>1 DEF Hasta
  <1>6. Cardinality({p \in DOMAIN t : t[p] \in A}) = Cardinality({i \in H : s[i] \in A})
    BY <1>2 DEF EsListado
  <1> HIDE DEF f, H, t, R, A
  <1>7. {p \in DOMAIN t : t[p] \in A} = {p \in DOMAIN f : f[p][2] \in Activos}
    BY <1>3, <1>4
  <1>8. {i \in H : s[i] \in A} = {i \in H : s[i][3] \in Activos}
    BY <1>5
  <1> QED  BY <1>1, <1>6, <1>7, <1>8 DEF ContarActivos, f

-----------------------------------------------------------------------------
(* A bounded set of naturals has a greatest element. *)
LEMMA MayorDeTodos ==
    ASSUME NEW n \in Nat, NEW T, T \subseteq 1..n, T # {}
    PROVE  \E i \in T : \A j \in T : j <= i
  <1> DEFINE D == {n - i : i \in T}
  <1>1. D \subseteq Nat /\ D # {}
    <2>1. \A i \in T : n - i \in Nat
      OBVIOUS
    <2> QED  BY <2>1
  <1>2. \A i \in T : n - i \in D
    OBVIOUS
  <1>3. \A d \in D : \E i \in T : d = n - i
    OBVIOUS
  <1> HIDE DEF D
  <1>4. PICK d \in D : \A e \in D : d <= e
    BY <1>1, MenorDeTodos
  <1>5. PICK i \in T : d = n - i
    BY <1>3
  <1>6. \A j \in T : n - i <= n - j
    BY <1>2, <1>4, <1>5
  <1>7. \A j \in T : j <= i
    BY <1>6
  <1> QED  BY <1>7

(* What the page shows of a state of the system is what the server counts of *)
(* its nodes at that version.                                               *)
LEMMA SistemaMostrado ==
    ASSUME NEW m \in 0..MaxMomentos
    PROVE  MuestraSistema(Tablas[m][Sistema]) = Cuentas(Tablas[m][Nodos])
  <1> DEFINE s == Tablas[m][Sistema]
             f == Filas(Sistema, s)
             H == Hasta(Sistema, s, Len(s))
             v == ParsearSistema(s)
             C == Cuentas(Tablas[m][Nodos])
             De(clave) == {p \in DOMAIN f : f[p][1] = clave}
  <1>0. Sistema \in Secciones /\ Nodos \in Secciones /\ 2 \in 2..Minimo[Sistema]
        /\ 3 \in 2..Minimo[Sistema]
    BY DEF Sistema, Nodos, Secciones, Minimo
  <1>1. EsTabla(s) /\ Buenos(Sistema, s) = H
    BY <1>0, TablasBuenas, BuenosHasta DEF EsTabla
  <1>2. Cardinality(H) \in Nat /\ DOMAIN f = 1..Cardinality(H)
    <2>1. Len(s) \in Nat
      BY <1>1 DEF EsTabla, EsSucesion
    <2> QED  BY <1>0, <1>1, <2>1, FilasDe, HastaFinito
  <1>3. ASSUME NEW i \in H
        PROVE  /\ Cardinality(Hasta(Sistema, s, i)) \in DOMAIN f
               /\ f[Cardinality(Hasta(Sistema, s, i))][1] = s[i][2]
               /\ f[Cardinality(Hasta(Sistema, s, i))][2] = s[i][3]
    <2>1. Cardinality(Hasta(Sistema, s, i)) \in 1..Cardinality(H)
      BY <1>1, HastaCrece DEF EsTabla, EsSucesion
    <2>2. \A c \in 2..Minimo[Sistema] :
             f[Cardinality(Hasta(Sistema, s, i))][c - 1] = s[i][c]
      BY <1>0, <1>1, FilasDe
    <2>3. f[Cardinality(Hasta(Sistema, s, i))][2 - 1] = s[i][2]
          /\ f[Cardinality(Hasta(Sistema, s, i))][3 - 1] = s[i][3]
      BY <1>0, <2>2
    <2> QED  BY <1>2, <2>1, <2>3
  <1>4. \A p \in DOMAIN f : \E i \in H : p = Cardinality(Hasta(Sistema, s, i))
    BY <1>0, <1>1, FilasDe
  <1>5. ASSUME NEW c \in DOMAIN ClavesStat
        PROVE  ClavesStat[c] \in DOMAIN v /\ v[ClavesStat[c]] = C[c]
    <2> DEFINE clave == ClavesStat[c]
    <2>1. PICK i \in H : s[i][2] = clave
      BY <1>1, TablasAssumption
    <2>2. \A j \in H : s[j][2] = clave => s[j][3] = C[c]
      BY <1>1, TablasAssumption
    <2>3. De(clave) # {} /\ De(clave) \subseteq 1..Cardinality(H)
      BY <1>2, <1>3, <2>1
    <2>4. \A p \in De(clave) : f[p][2] = C[c] /\ clave = f[p][1] /\ p \in DOMAIN f
      BY <1>3, <1>4, <2>2
    <2>5. clave \in {f[p][1] : p \in DOMAIN f}
      BY <2>3, <2>4
    <2>6. v = [k \in {f[p][1] : p \in DOMAIN f} |->
                  f[CHOOSE p \in De(k) : \A j \in De(k) : j <= p][2]]
      BY DEF ParsearSistema
    <2>7. clave \in DOMAIN v
          /\ v[clave] = f[CHOOSE p \in De(clave) : \A j \in De(clave) : j <= p][2]
      BY <2>5, <2>6
    <2> HIDE DEF clave, f, H, v, C, De
    <2>8. \E p \in De(clave) : \A j \in De(clave) : j <= p
      BY <1>2, <2>3, MayorDeTodos
    <2>9. (CHOOSE p \in De(clave) : \A j \in De(clave) : j <= p) \in De(clave)
      BY <2>8
    <2>10. v[clave] = C[c]
      BY <2>4, <2>7, <2>9
    <2> QED  BY <2>7, <2>10 DEF clave
  <1>6. MuestraSistema(s) = [c \in DOMAIN ClavesStat |-> C[c]]
    <2> HIDE DEF f, H, C, s
    <2> QED  BY <1>5 DEF MuestraSistema
  <1>7. C = [c \in 1..2 |-> C[c]] /\ DOMAIN ClavesStat = 1..2
    BY DEF Cuentas, ClavesStat
  <1> QED  BY <1>6, <1>7

-----------------------------------------------------------------------------
(* Sections that hold the answer to their own command at a version there was. *)
SeccionesBuenas(s) ==
    \A k \in Secciones : s[k].tipo = "dato" => s[k].de = k /\ s[k].momento \in 0..MaxMomentos

LEMMA SeccionesCuadran ==
    ASSUME NEW p, SeccionesBuenas(p.secciones)
    PROVE  LET s == p.secciones
               v == Vista(p)
           IN  /\ EnOrden(RegistrosDe(s[Nodos]), Nodos, v[Nodos].tabla)
               /\ \A k \in 3..4 : EnOrden(RegistrosDe(s[k]), k, v[k])
               /\ s[Sistema].tipo = "dato" /\ s[Nodos].tipo = "dato"
                  /\ s[Sistema].momento = s[Nodos].momento =>
                     v[Sistema] = <<v[Nodos].registrados, v[Nodos].activos>>
  <1> DEFINE s == p.secciones
             v == Vista(p)
             R(k) == RegistrosDe(s[k])
  <1>1. \A k \in Secciones : EsTabla(R(k))
    BY TablasBuenas DEF RegistrosDe, SeccionesBuenas
  <1>2. Secciones = {1, 2, 3, 4} /\ Sistema = 1 /\ Nodos = 2 /\ 3..4 \subseteq Secciones
    BY DEF Secciones, Sistema, Nodos
  <1>3. /\ v[Nodos] = MuestraNodos(R(Nodos)) /\ v[Sistema] = MuestraSistema(R(Sistema))
        /\ \A k \in 3..4 : v[k] = Filas(k, R(k))
    BY <1>2 DEF Vista, Muestra
  <1>4. /\ v[Nodos].tabla = Filas(Nodos, R(Nodos))
        /\ v[Nodos].registrados = Len(Filas(Nodos, R(Nodos)))
        /\ v[Nodos].activos = ContarActivos(Filas(Nodos, R(Nodos)))
    BY <1>3 DEF MuestraNodos
  <1>5. \A k \in Secciones : EnOrden(R(k), k, Filas(k, R(k)))
    BY <1>1, FilasEnOrden
  <1>6. ASSUME s[Sistema].tipo = "dato", s[Nodos].tipo = "dato",
               s[Sistema].momento = s[Nodos].momento
        PROVE  v[Sistema] = <<v[Nodos].registrados, v[Nodos].activos>>
    <2> DEFINE m == s[Nodos].momento
               T == Tablas[m][Nodos]
    <2>1. m \in 0..MaxMomentos /\ R(Nodos) = T /\ R(Sistema) = Tablas[m][Sistema]
      BY <1>2, <1>6 DEF SeccionesBuenas, RegistrosDe
    <2>2. v[Sistema] = Cuentas(T)
      BY <1>3, <2>1, SistemaMostrado
    <2>3. EsTabla(T)
      BY <1>1, <1>2, <2>1
    <2>4. Len(Filas(Nodos, T)) = Cardinality(Buenos(Nodos, T))
      BY <1>2, <2>3, FilasEnOrden DEF EnOrden
    <2>5. ContarActivos(Filas(Nodos, T)) =
             Cardinality({i \in Buenos(Nodos, T) : T[i][3] \in Activos})
      BY <2>3, ActivosContados
    <2> HIDE DEF m, T, s, v
    <2> QED  BY <1>4, <2>1, <2>2, <2>4, <2>5 DEF Cuentas
  <1> HIDE DEF s, v
  <1>7. EnOrden(R(Nodos), Nodos, v[Nodos].tabla)
    BY <1>2, <1>4, <1>5
  <1>8. \A k \in 3..4 : EnOrden(R(k), k, v[k])
    BY <1>2, <1>3, <1>5
  <1> QED  BY <1>6, <1>7, <1>8 DEF s, v

-----------------------------------------------------------------------------
(* A page, and the panel it will be made of, hold good sections; and there   *)
(* are no more versions than the bound.                                     *)
Buena(h) ==
    /\ hilo[h] = "bye" => SeccionesBuenas(panel[h].secciones)
    /\ respuesta[h].codigo = 200 => SeccionesBuenas(respuesta[h].pagina.secciones)
PaginaInv ==
    /\ momento \in 0..MaxMomentos /\ (~vivo => momento < MaxMomentos)
    /\ \A h \in Hilos : Buena(h)

(* A page without data is good. *)
LEMMA SinDatosBuena == SeccionesBuenas(SinSecciones)
  BY DEF SeccionesBuenas, SinSecciones, NoPedida

(* An action that leaves the server alone, and the pages of the other threads. *)
LEMMA UnaPagina ==
    ASSUME PaginaInv, NEW h \in Hilos, UNCHANGED servidor, Buena(h)',
           \A g \in Hilos \ {h} : /\ hilo'[g] = hilo[g] /\ panel'[g] = panel[g]
                                  /\ respuesta'[g] = respuesta[g]
    PROVE  PaginaInv'
  <1>1. ASSUME NEW g \in Hilos, g # h PROVE Buena(g)'
    BY <1>1 DEF PaginaInv, Buena, SeccionesBuenas
  <1>2. \A g \in Hilos : Buena(g)'
    BY <1>1
  <1> QED  BY <1>2 DEF PaginaInv, servidor

(* One that leaves the pages alone, and one that has nothing to do with them. *)
LEMMA MismaPagina ==
    ASSUME PaginaInv, UNCHANGED <<panel, respuesta>>,
           \A h \in Hilos : hilo'[h] = "bye" => hilo[h] = "bye",
           momento' \in 0..MaxMomentos, ~vivo' => momento' < MaxMomentos
    PROVE  PaginaInv'
  <1>1. \A h \in Hilos : Buena(h)'
    BY DEF PaginaInv, Buena, SeccionesBuenas
  <1> QED  BY <1>1 DEF PaginaInv

LEMMA CierraPagina == ASSUME EnCurso, PaginaInv, NEW h \in Hilos, Cierra(h) PROVE PaginaInv'
  <1>1. hilo[h] = "bye" /\ hilo'[h] = "fin" /\ SeccionesBuenas(panel[h].secciones)
    BY DEF EnCurso, TypeOK, Cierra, Pasa, PaginaInv, Buena
  <1>2. /\ respuesta'[h] = [codigo |-> 200, pagina |-> Pagina(panel[h])]
        /\ \A g \in Hilos \ {h} : respuesta'[g] = respuesta[g]
    BY DEF EnCurso, TypeOK, Cierra, Responde
  <1>3. respuesta'[h].pagina.secciones = panel[h].secciones
    BY <1>2 DEF Pagina
  <1>4. Buena(h)'
    BY <1>1, <1>3 DEF Buena, SeccionesBuenas
  <1>5. \A g \in Hilos \ {h} : hilo'[g] = hilo[g] /\ panel'[g] = panel[g]
    BY DEF EnCurso, TypeOK, Cierra, Pasa
  <1>6. UNCHANGED servidor
    BY DEF Cierra
  <1> QED  BY <1>2, <1>4, <1>5, <1>6, UnaPagina

(* An answer without data: an error of the request, or an apology. *)
LEMMA ContestaPagina ==
    ASSUME EnCurso, PaginaInv, NEW h \in Hilos, NEW c \in Nat, NEW p,
           Pasa(h, "ruta", "fin"), Responde(h, c, p),
           c = 200 => SeccionesBuenas(p.secciones), UNCHANGED <<panel, servidor>>
    PROVE  PaginaInv'
  <1>1. hilo'[h] = "fin" /\ \A g \in Hilos \ {h} : hilo'[g] = hilo[g]
    BY DEF EnCurso, TypeOK, Pasa
  <1>2. /\ respuesta'[h] = [codigo |-> c, pagina |-> p]
        /\ \A g \in Hilos \ {h} : respuesta'[g] = respuesta[g]
    BY DEF EnCurso, TypeOK, Responde
  <1>3. respuesta'[h].codigo = c /\ respuesta'[h].pagina = p
    BY <1>2
  <1>4. Buena(h)'
    BY <1>1, <1>3 DEF Buena, SeccionesBuenas
  <1> QED  BY <1>1, <1>2, <1>4, UnaPagina DEF servidor

LEMMA RechazaPagina == ASSUME EnCurso, PaginaInv, NEW h \in Hilos, Rechaza(h) PROVE PaginaInv'
  <1>1. PICK c \in {501, 405, 404} : Responde(h, c, Aviso)
    <2>1. Responde(h, 501, Aviso) \/ Responde(h, 405, Aviso) \/ Responde(h, 404, Aviso)
      BY Zenon DEF Rechaza
    <2> QED  BY <2>1
  <1>2. Pasa(h, "ruta", "fin") /\ UNCHANGED <<panel, servidor>>
    BY Zenon DEF Rechaza
  <1>3. c \in Nat /\ c # 200
    OBVIOUS
  <1> QED  BY <1>1, <1>2, <1>3, ContestaPagina

LEMMA NoConectaPagina ==
    ASSUME EnCurso, PaginaInv, NEW h \in Hilos, NoConecta(h) PROVE PaginaInv'
  <1> DEFINE p == Pagina(Crear("degradado", SinSecciones))
  <1>1. p.secciones = SinSecciones
    BY DEF Pagina, Crear
  <1>2. Pasa(h, "ruta", "fin") /\ Responde(h, 200, p) /\ UNCHANGED <<panel, servidor>>
    BY Zenon DEF NoConecta
  <1> HIDE DEF p
  <1> QED  BY <1>1, <1>2, SinDatosBuena, ContestaPagina

(* A thread that gives its wait up: what it has read is an EsPanel. *)
LEMMA EsPanelBuena ==
    ASSUME EnCurso, PaginaInv, NEW h \in Hilos, NEW s, Promesa!EsPanel(desde[h], s)
    PROVE  SeccionesBuenas(s)
  <1>1. momento \in 0..MaxMomentos /\ MaxMomentos \in Nat /\ desde[h] \in Nat
    BY PanelAssumption DEF PaginaInv, EnCurso, TypeOK
  <1> QED  BY <1>1 DEF SeccionesBuenas, Promesa!EsPanel, Promesa!Secciones, Secciones

LEMMA EsperaPagina ==
    ASSUME EnCurso, EnCurso', PaginaInv, NEW h \in Hilos, hilo[h] = "espera",
           panel'[h].estado # "excepcion", UNCHANGED <<respuesta, desde, servidor>>,
           \A g \in Hilos \ {h} : hilo'[g] = hilo[g] /\ panel'[g] = panel[g]
    PROVE  PaginaInv'
  <1>1. ASSUME hilo'[h] = "bye" PROVE SeccionesBuenas(panel'[h].secciones)
    <2>1. Promesa!EsPanel(desde[h], panel'[h].secciones)
      <3>1. Promesa!EsPanel(desde[h], panel[h].secciones)'
        BY <1>1 DEF EnCurso, Bien
      <3> QED  BY <3>1 DEF Promesa!EsPanel, servidor
    <2> QED  BY <2>1, EsPanelBuena
  <1>2. respuesta[h].codigo = 200 => SeccionesBuenas(respuesta[h].pagina.secciones)
    BY DEF PaginaInv, Buena
  <1>3. Buena(h)'
    BY <1>1, <1>2 DEF Buena, SeccionesBuenas
  <1> QED  BY <1>3, UnaPagina

LEMMA LeePagina ==
    ASSUME EnCurso, EnCurso', PaginaInv, NEW h \in Hilos, Lee(h) \/ Falla(h) PROVE PaginaInv'
  <1>0. hilo[h] = "espera" /\ UNCHANGED <<respuesta, desde, servidor>>
    BY Zenon DEF Lee, Falla, SinRespuesta
  <1>1. panel[h].estado = "disponible"
    BY <1>0 DEF EnCurso, Bien, Leido
  <1>2. \E s : panel' = [panel EXCEPT ![h].secciones = s] \/ panel' = panel
    <2>1. CASE Lee(h)
      <3>1. UNCHANGED panel \/ \E x : Anotar(h, x)
        BY <2>1, Zenon DEF Lee
      <3>2. ASSUME NEW x, Anotar(h, x) PROVE \E s : panel' = [panel EXCEPT ![h].secciones = s]
        <4>1. panel' = [panel EXCEPT ![h].secciones = [panel[h].secciones EXCEPT ![paso[h]] = x]]
          BY <3>2 DEF Anotar
        <4> QED  BY <4>1
      <3> QED  BY <3>1, <3>2
    <2>2. CASE Falla(h)
      BY <2>2 DEF Falla, TrasFallo
    <2> QED  BY <2>1, <2>2
  <1>3. panel'[h].estado = "disponible" /\ \A g \in Hilos \ {h} : panel'[g] = panel[g]
    <2>1. panel = [g \in Hilos |-> panel[g]]
          /\ panel[h] = [estado |-> panel[h].estado,
                         secciones |-> [k \in Secciones |-> panel[h].secciones[k]]]
      BY DEF EnCurso, TypeOK
    <2> QED  BY <1>1, <1>2, <2>1
  <1>4. \A g \in Hilos \ {h} : hilo'[g] = hilo[g]
    <2>1. Despedir(h) \/ UNCHANGED hilo
      BY Zenon DEF Lee, Falla, TrasFallo, Seguir
    <2> QED  BY <2>1 DEF Despedir, EnCurso, TypeOK
  <1> QED  BY <1>0, <1>3, <1>4, EsperaPagina

LEMMA RevientaPagina ==
    ASSUME EnCurso, PaginaInv, NEW h \in Hilos, Revienta(h) PROVE PaginaInv'
  <1>1. /\ panel'[h].secciones = SinSecciones
        /\ \A g \in Hilos \ {h} : panel'[g] = panel[g] /\ hilo'[g] = hilo[g]
    <2>1. panel = [g \in Hilos |-> panel[g]] /\ hilo \in [Hilos -> Etapas]
      BY DEF EnCurso, TypeOK
    <2>2. panel' = [panel EXCEPT ![h] = [estado |-> "excepcion", secciones |-> SinSecciones]]
          /\ hilo' = [hilo EXCEPT ![h] = "bye"]
      BY DEF Revienta, Crear, Despedir
    <2> QED  BY <2>1, <2>2
  <1>2. UNCHANGED <<respuesta, servidor>>
    BY DEF Revienta
  <1>3. respuesta[h].codigo = 200 => SeccionesBuenas(respuesta[h].pagina.secciones)
    BY DEF PaginaInv, Buena
  <1>4. Buena(h)'
    BY <1>1, <1>2, <1>3, SinDatosBuena DEF Buena, SeccionesBuenas
  <1> QED  BY <1>1, <1>2, <1>4, UnaPagina

LEMMA AcabaPagina ==
    ASSUME EnCurso, PaginaInv, NEW h \in Hilos, Acaba(h) PROVE PaginaInv'
  <1>1. hilo'[h] = "libre" /\ \A g \in Hilos \ {h} : hilo'[g] = hilo[g]
    BY DEF EnCurso, TypeOK, Acaba, Pasa
  <1>2. respuesta'[h].codigo = 0 /\ \A g \in Hilos \ {h} : respuesta'[g] = respuesta[g]
    BY DEF EnCurso, TypeOK, Acaba, Nada
  <1>3. UNCHANGED <<panel, servidor>>
    BY DEF Acaba
  <1>4. Buena(h)'
    BY <1>1, <1>2 DEF Buena
  <1> QED  BY <1>1, <1>2, <1>3, <1>4, UnaPagina

LEMMA PasoPagina == ASSUME EnCurso, EnCurso', PaginaInv, [Next]_vars PROVE PaginaInv'
  <1>0. momento \in 0..MaxMomentos /\ (~vivo => momento < MaxMomentos) /\ MaxMomentos \in Nat
    BY PanelAssumption DEF PaginaInv
  <1>1. CASE UNCHANGED vars
    BY <1>0, <1>1, MismaPagina DEF vars
  <1>2. CASE Arrancar
    BY <1>0, <1>2, MismaPagina DEF Arrancar, atencion, servidor
  <1>3. CASE Parar
    <2>1. \A h \in Hilos : hilo'[h] = "bye" => hilo[h] = "bye"
      BY <1>3 DEF Parar, Ocupados
    <2> QED  BY <1>0, <1>3, <2>1, MismaPagina DEF Parar, servidor
  <1>4. CASE Cambia \/ Cae \/ Vuelve
    BY <1>0, <1>4, MismaPagina DEF Cambia, Cae, Vuelve, atencion
  <1>5. ASSUME NEW h \in Hilos, Servidor(h) \/ Corta(h) PROVE PaginaInv'
    <2>1. UNCHANGED <<atencion, servidor>>
      BY <1>5, Zenon DEF Servidor, Admite, Atiende, Suelta, Corta
    <2> QED  BY <1>0, <2>1, MismaPagina DEF atencion, servidor
  <1>6. ASSUME NEW h \in Hilos, Conecta(h) \/ \E v \in Visitas : Recibe(h, v) PROVE PaginaInv'
    <2>1. \E e \in {"ruta", "espera"} : hilo' = [hilo EXCEPT ![h] = e]
      BY <1>6 DEF Conecta, Recibe, Pasa
    <2>2. \A g \in Hilos : hilo'[g] = "bye" => hilo[g] = "bye"
      BY <2>1 DEF EnCurso, TypeOK
    <2>3. UNCHANGED <<panel, respuesta, servidor>>
      BY <1>6, Zenon DEF Conecta, Recibe
    <2> QED  BY <1>0, <2>2, <2>3, MismaPagina DEF servidor
  <1>7. ASSUME NEW h \in Hilos, Hilo(h) \/ Revienta(h) \/ Acaba(h) PROVE PaginaInv'
    BY <1>6, <1>7, RechazaPagina, NoConectaPagina, LeePagina, CierraPagina, RevientaPagina,
       AcabaPagina DEF Hilo
  <1> QED  BY <1>1, <1>2, <1>3, <1>4, <1>5, <1>6, <1>7 DEF Next

(* A page under way is good, so is what it shows. *)
LEMMA InvCuadra == ASSUME PaginaInv PROVE PaginaCuadra
  <1> SUFFICES ASSUME NEW h \in Hilos, respuesta[h] # Nada /\ respuesta[h].codigo = 200
               PROVE  LET s == respuesta[h].pagina.secciones
                          v == Vista(respuesta[h].pagina)
                      IN  /\ EnOrden(RegistrosDe(s[Nodos]), Nodos, v[Nodos].tabla)
                          /\ \A k \in 3..4 : EnOrden(RegistrosDe(s[k]), k, v[k])
                          /\ s[Sistema].tipo = "dato" /\ s[Nodos].tipo = "dato"
                             /\ s[Sistema].momento = s[Nodos].momento =>
                                v[Sistema] = <<v[Nodos].registrados, v[Nodos].activos>>
    BY DEF PaginaCuadra
  <1>1. SeccionesBuenas(respuesta[h].pagina.secciones)
    BY DEF PaginaInv, Buena
  <1> QED  BY <1>1, SeccionesCuadran

(* At every step of every run each section shown lists the complete records  *)
(* of one version of its table, all and in order, and the counters that the *)
(* server sends and those the panel derives agree when they are of the same *)
(* version (parsear_nodos and its siblings, _contar_activos), for any       *)
(* tables whose own counts are right.                                       *)
THEOREM SiempreLaPaginaCuadra == Spec => []PaginaCuadra
  <1>1. Init => PaginaInv
    <2> SUFFICES ASSUME Init PROVE PaginaInv
      OBVIOUS
    <2>1. momento = 0 /\ vivo = TRUE /\ MaxMomentos \in Nat
      BY PanelAssumption DEF Init
    <2>2. \A h \in Hilos : hilo[h] = "libre" /\ respuesta[h] = Nada
      BY DEF Init
    <2>3. \A h \in Hilos : Buena(h)
      BY <2>2 DEF Buena, Nada
    <2> QED  BY <2>1, <2>3 DEF PaginaInv
  <1>2. EnCurso /\ EnCurso' /\ PaginaInv /\ [Next]_vars => PaginaInv'
    BY PasoPagina
  <1>3. PaginaInv => PaginaCuadra
    BY InvCuadra
  <1> QED  BY <1>1, <1>2, <1>3, SiempreEnCurso, PTL DEF Spec
=============================================================================
