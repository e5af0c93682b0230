-------------------------- MODULE OperatorGuiProofs --------------------------
(***************************************************************************)
(* Theorems about OperatorGui, for any number of petitions, alerts and      *)
(* failures.                                                                *)
(***************************************************************************)
EXTENDS OperatorGui, FiniteSetTheorems, SequenceTheorems, TLAPS

Peticiones == [comando : Comandos \cup {""}, k : 0..MaxPeticiones]
Lineas == [tipo : {"OK", "ERR", "ALERT"}, de : Peticiones, alertas : SUBSET Nat]

(* The types, the sequences included, and what bounds the numbers they hold. *)
TipoInv ==
    /\ hilo \in Comandos \cup {"conectar", "ciclo", "peticiones", "espera", "fin", "muerto"}
    /\ activo \in BOOLEAN /\ seleccion \in BOOLEAN /\ cortada \in BOOLEAN /\ suscrita \in BOOLEAN
    /\ fallos \in 0..MaxFallos
    /\ conexion \in 0..(MaxFallos + 1) /\ abiertas \subseteq 1..(MaxFallos + 1)
    /\ estado \in {"conectando", "conectado", "sin conexion"}
TipoCanal ==
    /\ pendientes \in Seq(Peticiones) /\ red \in Seq(Lineas)

AlertasInv ==
    /\ generadas \in 0..MaxAlertas /\ difundidas \in 0..generadas
    /\ tabla \subseteq 1..generadas /\ vivas \subseteq 1..difundidas
    /\ \A i \in DOMAIN red :
         /\ red[i].alertas \subseteq 1..generadas
         /\ red[i].tipo = "ALERT" => red[i].alertas \subseteq 1..difundidas

(* The petitions still in the queue are the last ones, in order. *)
ColaInv ==
    /\ pedidas \in 0..MaxPeticiones /\ enCurso \in 0..pedidas
    /\ enCurso # 0 <=> hilo = "SET_THRESHOLD"
    /\ avisadas \subseteq 1..pedidas
    /\ peticiones \in Seq([k : Nat, clase : Clases]) /\ Len(peticiones) <= pedidas
    /\ \A i \in DOMAIN peticiones : peticiones[i].k = pedidas - Len(peticiones) + i

(* One connection at most, and none between two attempts. *)
Conectado == hilo \in Comandos \cup {"ciclo", "peticiones", "muerto"}
ConexionInv ==
    /\ abiertas = IF Conectado THEN {conexion} ELSE {}
    /\ Conectado <=> conexion # 0
    /\ ~Conectado => ~cortada /\ ~suscrita
    /\ activo /\ estado = "conectado" =>
           Conectado /\ hilo \notin Apertura /\ (suscrita \/ cortada)

(* One request at a time: the one the worker waits for, on its way to the   *)
(* server or, answered, on its way back.                                    *)
EsRespuesta(l) == l.tipo # "ALERT"
CanalInv ==
    /\ pendientes # <<>> => Esperando /\ pendientes = <<Pedida>>
    /\ \A i \in DOMAIN red : EsRespuesta(red[i]) =>
         /\ Esperando /\ pendientes = <<>> /\ red[i].de = Pedida
         /\ \A j \in DOMAIN red : j # i => ~EsRespuesta(red[j])
         /\ hilo = "SUBSCRIBE" /\ red[i].tipo = "OK" => suscrita \/ cortada

(* The petitions that left the queue and are neither shown nor in service. *)
Perdidas == {k \in 1..(pedidas - Len(peticiones)) : k \notin avisadas \cup {enCurso}}
Uno(b) == IF b THEN 1 ELSE 0

(* A cut is a failure already counted whose loss is still to come. *)
PerdidasInv == Cardinality(Perdidas) + Uno(cortada) <= fallos + Uno(hilo = "muerto")

IInv ==
    /\ TipoInv /\ TipoCanal /\ AlertasInv /\ ColaInv /\ ConexionInv /\ CanalInv
    /\ RespuestaCorresponde /\ PerdidasInv

-----------------------------------------------------------------------------
LEMMA Primero ==
    ASSUME NEW S, NEW s \in Seq(S), s # <<>>
    PROVE  /\ Len(s) \in Nat /\ Len(s) >= 1 /\ DOMAIN s = 1..Len(s)
           /\ Head(s) = s[1] /\ Head(s) \in S
           /\ Tail(s) \in Seq(S) /\ Len(Tail(s)) = Len(s) - 1
           /\ DOMAIN Tail(s) = 1..(Len(s) - 1)
           /\ \A i \in DOMAIN Tail(s) : Tail(s)[i] = s[i + 1] /\ i + 1 \in DOMAIN s
  OBVIOUS

LEMMA Agregar ==
    ASSUME NEW S, NEW s \in Seq(S), NEW e \in S
    PROVE  /\ Len(s) \in Nat /\ DOMAIN s = 1..Len(s)
           /\ Append(s, e) \in Seq(S) /\ Len(Append(s, e)) = Len(s) + 1
           /\ DOMAIN Append(s, e) = 1..(Len(s) + 1)
           /\ \A i \in DOMAIN s : Append(s, e)[i] = s[i]
           /\ Append(s, e)[Len(s) + 1] = e
  OBVIOUS

LEMMA SiguienteDe ==
    ASSUME NEW c \in Comandos
    PROVE  /\ Siguiente[c] \in (Comandos \ {"SET_THRESHOLD", "HELLO"}) \cup {"ciclo", "peticiones"}
           /\ c = "HELLO" <=> Siguiente[c] = "SUBSCRIBE"
           /\ c = "SUBSCRIBE" => Siguiente[c] = "ciclo"
           /\ c = "SET_THRESHOLD" => Siguiente[c] = "peticiones"
  BY DEF Siguiente, Comandos, Apertura, Ronda

(* What the worker's actions do, one fact per variable.                      *)
Otras == <<activo, seleccion, pedidas, generadas, difundidas>>
Enviado(c, k) == IF cortada THEN pendientes ELSE Append(pendientes, Peticion(c, k))

(* The session ends: by a failure, or because the window was closed. *)
Cierra ==
    NoConecta \/ LeeFallo \/ LeeTarda \/ (Ciclo /\ ~activo) \/ (Reintentar /\ ~activo)

LEMMA CierraEfecto ==
    ASSUME Cierra
    PROVE  /\ UNCHANGED Otras /\ UNCHANGED <<peticiones, avisadas, vivas, tabla, cruzada>>
           /\ hilo' = IF activo THEN "espera" ELSE "fin"
           /\ estado' = IF activo THEN "sin conexion" ELSE estado
           /\ conexion' = 0 /\ abiertas' = abiertas \ {conexion}
           /\ pendientes' = <<>> /\ red' = <<>> /\ cortada' = FALSE /\ suscrita' = FALSE
           /\ hilo # "muerto"
           /\ \/ Esperando /\ enCurso' = 0 /\ fallos' = fallos /\ (cortada \/ ~Rechazable(hilo))
              \/ enCurso' = 0 /\ fallos < MaxFallos /\ fallos' = fallos + 1 /\ ~cortada
              \/ /\ hilo \notin Comandos /\ enCurso' = enCurso
                 /\ fallos' = fallos \/ (hilo = "conectar" /\ fallos < MaxFallos /\ fallos' = fallos + 1)
  <1> USE DEF Otras, ventana, alertas, canal
  <1>1. Desconectar =>
           /\ hilo' = IF activo THEN "espera" ELSE "fin"
           /\ estado' = IF activo THEN "sin conexion" ELSE estado
           /\ conexion' = 0 /\ abiertas' = abiertas \ {conexion}
           /\ pendientes' = <<>> /\ red' = <<>> /\ cortada' = FALSE /\ suscrita' = FALSE
    BY DEF Desconectar, Terminar, TrasCerrar
  <1>2. CASE NoConecta
    BY <1>1, <1>2 DEF NoConecta, Comandos, Apertura, Ronda
  <1>3. CASE LeeFallo
    BY <1>1, <1>3 DEF LeeFallo, Esperando, Comandos, Apertura, Ronda
  <1>4. CASE LeeTarda
    BY <1>1, <1>4 DEF LeeTarda, Tardar, Esperando, Comandos, Apertura, Ronda
  <1>5. CASE Ciclo /\ ~activo
    BY <1>5 DEF Ciclo, Terminar, TrasCerrar, Comandos, Apertura, Ronda
  <1>6. CASE Reintentar /\ ~activo
    BY <1>6 DEF Reintentar, Terminar, TrasCerrar, Comandos, Apertura, Ronda
  <1> QED  BY <1>2, <1>3, <1>4, <1>5, <1>6 DEF Cierra

(* The thread goes on to another place of _bucle. *)
LEMMA SigueEfecto ==
    ASSUME Ciclo \/ Reintentar, activo
    PROVE  /\ UNCHANGED Otras
           /\ UNCHANGED <<peticiones, avisadas, vivas, tabla, cruzada, estado, conexion, abiertas,
                          pendientes, red, cortada, suscrita, enCurso, fallos>>
           /\ \/ hilo = "ciclo" /\ hilo' = "peticiones"
              \/ hilo = "espera" /\ hilo' = "conectar"
  BY DEF Ciclo, Reintentar, TrasEspera, Otras, ventana, alertas, canal

LEMMA ConectarEfecto ==
    ASSUME Conectar
    PROVE  /\ UNCHANGED Otras
           /\ UNCHANGED <<peticiones, avisadas, vivas, tabla, cruzada, estado, cortada, suscrita,
                          fallos>>
           /\ hilo = "conectar" /\ hilo' = "HELLO" /\ enCurso' = 0
           /\ conexion' = fallos + 1 /\ abiertas' = abiertas \cup {conexion'}
           /\ pendientes' = Enviado("HELLO", 0) /\ red' = <<>>
  BY DEF Conectar, Pedir, Enviado, Otras, ventana, pantalla, alertas

LEMMA LeeRespuestaEfecto ==
    ASSUME LeeRespuesta
    PROVE  /\ UNCHANGED Otras
           /\ UNCHANGED <<peticiones, vivas, conexion, abiertas, cortada, suscrita, fallos>>
           /\ Esperando /\ hilo \in Comandos /\ red # <<>>
           /\ Head(red).tipo = "OK" \/ (Head(red).tipo = "ERR" /\ Rechazable(hilo))
           /\ hilo' = Siguiente[hilo] /\ enCurso' = 0 /\ red' = Tail(red)
           /\ pendientes' = IF hilo' \in Comandos THEN Enviado(hilo', 0) ELSE pendientes
           /\ estado' = IF hilo = "SUBSCRIBE" THEN "conectado" ELSE estado
           /\ avisadas' = IF hilo = "SET_THRESHOLD" THEN avisadas \cup {enCurso} ELSE avisadas
           /\ tabla' = IF hilo = "GET_ALERTS" THEN Head(red).alertas ELSE tabla
           /\ cruzada' = (cruzada \/ Head(red).de # Pedida)
  <1>1. hilo \in Comandos
    BY DEF LeeRespuesta, Esperando
  <1>2. (hilo \in Apertura /\ Siguiente[hilo] = "ciclo") <=> hilo = "SUBSCRIBE"
    BY <1>1, SiguienteDe DEF Apertura
  <1> QED  BY <1>1, <1>2 DEF LeeRespuesta, Pedir, Enviado, Otras, ventana, alertas

LEMMA LeeAlertaEfecto ==
    ASSUME LeeAlerta
    PROVE  /\ UNCHANGED Otras
           /\ UNCHANGED <<hilo, peticiones, enCurso, avisadas, tabla, cruzada, estado, conexion,
                          abiertas, pendientes, cortada, suscrita, fallos>>
           /\ red # <<>> /\ Head(red).tipo = "ALERT" /\ red' = Tail(red)
           /\ vivas' = IF hilo \in Apertura THEN vivas ELSE vivas \cup Head(red).alertas
  BY DEF LeeAlerta, Otras, ventana, alertas

LEMMA AtenderEfecto ==
    ASSUME AtenderPeticiones
    PROVE  /\ UNCHANGED Otras
           /\ UNCHANGED <<avisadas, vivas, tabla, cruzada, estado, conexion, abiertas, red, cortada,
                          suscrita, fallos>>
           /\ hilo = "peticiones"
           /\ \/ /\ peticiones = <<>> /\ peticiones' = peticiones
                 /\ hilo' = "LIST_NODES" /\ enCurso' = 0 /\ pendientes' = Enviado("LIST_NODES", 0)
              \/ /\ peticiones # <<>> /\ peticiones' = Tail(peticiones)
                 /\ hilo' = "SET_THRESHOLD" /\ enCurso' = Head(peticiones).k
                 /\ pendientes' = Enviado("SET_THRESHOLD", enCurso')
              \/ /\ peticiones # <<>> /\ peticiones' = Tail(peticiones)
                 /\ hilo' = "muerto" /\ UNCHANGED <<enCurso, pendientes>>
  BY DEF AtenderPeticiones, Pedir, Quedan, Enviado, Otras, ventana, pantalla, alertas

(* The actions of the window and of the server, likewise. *)
Trabajando == <<hilo, conexion, abiertas, enCurso, estado, avisadas, vivas, tabla, cruzada>>
LEMMA VentanaEfecto ==
    ASSUME PedirUmbral \/ Seleccionar \/ Detener
    PROVE  /\ UNCHANGED Trabajando
           /\ UNCHANGED <<pendientes, red, cortada, suscrita, generadas, difundidas, fallos>>
           /\ \/ UNCHANGED <<peticiones, pedidas>> /\ activo' \in {activo, FALSE}
                 /\ seleccion' \in {seleccion, TRUE}
              \/ /\ pedidas < MaxPeticiones /\ pedidas' = pedidas + 1
                 /\ UNCHANGED <<activo, seleccion>>
                 /\ \E c \in Clases : peticiones' = Append(peticiones, [k |-> pedidas + 1, clase |-> c])
  BY DEF PedirUmbral, Seleccionar, Detener, Trabajando, ventana, pantalla, canal, alertas

LEMMA ServidorEfecto ==
    ASSUME Genera \/ Difunde \/ Suscribe \/ Responde \/ Corta
    PROVE  /\ UNCHANGED Trabajando /\ UNCHANGED <<activo, seleccion, pedidas, peticiones>>
           /\ fallos' = fallos \/ (fallos < MaxFallos /\ fallos' = fallos + 1)
  BY DEF Genera, Difunde, Suscribe, Responde, Corta, EntornoIgual, Trabajando, ventana, pantalla

Servidor == Genera \/ Difunde \/ Suscribe \/ Responde \/ Corta
Ventana == PedirUmbral \/ Seleccionar \/ Detener

LEMMA Pasos ==
    ASSUME [Next]_vars
    PROVE  \/ Ventana \/ Servidor \/ Cierra \/ ((Ciclo \/ Reintentar) /\ activo)
           \/ Conectar \/ LeeAlerta \/ LeeRespuesta \/ AtenderPeticiones \/ UNCHANGED vars
  BY DEF Next, Trabajador, Ventana, Servidor, Cierra

(* The oldest petition in the queue. *)
LEMMA CabezaDeCola ==
    ASSUME ColaInv, peticiones # <<>>
    PROVE  /\ Len(peticiones) \in Nat /\ Len(peticiones) >= 1 /\ Len(peticiones) <= pedidas
           /\ pedidas \in 0..MaxPeticiones /\ MaxPeticiones \in Nat
           /\ Head(peticiones).k = pedidas - Len(peticiones) + 1
           /\ Head(peticiones).k \in 1..pedidas /\ Head(peticiones).k \in 0..MaxPeticiones
  <1>1. peticiones \in Seq([k : Nat, clase : Clases]) /\ pedidas \in 0..MaxPeticiones
        /\ Len(peticiones) <= pedidas /\ MaxPeticiones \in Nat
    BY GuiAssumption DEF ColaInv
  <1>2. Len(peticiones) \in Nat /\ Len(peticiones) >= 1 /\ 1 \in DOMAIN peticiones
        /\ Head(peticiones) = peticiones[1]
    BY <1>1, Primero
  <1>3. Head(peticiones).k = pedidas - Len(peticiones) + 1
    BY <1>2 DEF ColaInv
  <1> QED  BY <1>1, <1>2, <1>3

-----------------------------------------------------------------------------
LEMMA TipoPaso ==
    ASSUME TipoInv, ConexionInv, [Next]_vars
    PROVE  TipoInv'
  <1> DEFINE Lugares == Comandos \cup {"conectar", "ciclo", "peticiones", "espera", "fin", "muerto"}
             Numeros(f, c, a) == /\ f \in 0..MaxFallos /\ c \in 0..(MaxFallos + 1)
                                 /\ a \subseteq 1..(MaxFallos + 1)
  <1>0. MaxFallos \in Nat
    BY GuiAssumption
  <1>0a. /\ hilo \in Lugares
         /\ activo \in BOOLEAN /\ seleccion \in BOOLEAN /\ cortada \in BOOLEAN
         /\ suscrita \in BOOLEAN /\ estado \in {"conectando", "conectado", "sin conexion"}
    BY DEF TipoInv
  <1>0b. Numeros(fallos, conexion, abiertas)
    BY DEF TipoInv
  <1>0c. /\ "espera" \in Lugares /\ "fin" \in Lugares /\ "peticiones" \in Lugares
         /\ "conectar" \in Lugares /\ "HELLO" \in Lugares /\ "LIST_NODES" \in Lugares
         /\ "SET_THRESHOLD" \in Lugares /\ "muerto" \in Lugares
         /\ \A c \in Comandos \cup {"ciclo", "peticiones"} : c \in Lugares
    BY DEF Comandos, Apertura, Ronda
  <1>0d. /\ hilo' \in Lugares
         /\ activo' \in BOOLEAN /\ seleccion' \in BOOLEAN /\ cortada' \in BOOLEAN
         /\ suscrita' \in BOOLEAN /\ estado' \in {"conectando", "conectado", "sin conexion"}
         /\ Numeros(fallos', conexion', abiertas')
         => TipoInv'
    BY DEF TipoInv, Comandos, Apertura, Ronda
  <1>0e. \A n \in {fallos, fallos + 1} : \A a, c :
           /\ n = fallos \/ fallos < MaxFallos
           /\ \/ c = conexion /\ a = abiertas
              \/ c = 0 /\ a = abiertas \ {conexion}
              \/ c = fallos + 1 /\ a = abiertas \cup {fallos + 1}
           => Numeros(n, c, a)
    <2>1. fallos \in 0..MaxFallos /\ conexion \in 0..(MaxFallos + 1)
          /\ abiertas \subseteq 1..(MaxFallos + 1)
      BY <1>0b
    <2>2. fallos + 1 \in 1..(MaxFallos + 1) /\ 0 \in 0..(MaxFallos + 1)
          /\ (fallos < MaxFallos => fallos + 1 \in 0..MaxFallos)
          /\ fallos + 1 \in 0..(MaxFallos + 1)
      BY <1>0, <2>1
    <2>3. abiertas \ {conexion} \subseteq 1..(MaxFallos + 1)
          /\ abiertas \cup {fallos + 1} \subseteq 1..(MaxFallos + 1)
      BY <2>1, <2>2
    <2> QED  BY <2>1, <2>2, <2>3
  <1> HIDE DEF Lugares, Numeros
  <1>1. CASE Ventana
    BY <1>1, <1>0a, <1>0b, <1>0d, VentanaEfecto DEF Ventana, Trabajando
  <1>2. CASE Servidor
    <2>1. cortada' \in BOOLEAN /\ suscrita' \in BOOLEAN
      BY <1>2, <1>0a DEF Servidor, Genera, Difunde, Suscribe, Responde, Corta, canal
    <2>2. Numeros(fallos', conexion', abiertas')
      BY <1>0b, <1>0e, <1>2, ServidorEfecto DEF Servidor, Trabajando
    <2>3. UNCHANGED <<hilo, activo, seleccion, estado>>
      BY <1>2, ServidorEfecto DEF Servidor, Trabajando
    <2> QED  BY <1>0a, <1>0d, <2>1, <2>2, <2>3
  <1>3. CASE Cierra
    <2>1. Numeros(fallos', conexion', abiertas')
      BY <1>0e, <1>3, CierraEfecto
    <2>2. /\ hilo' \in {"espera", "fin"} /\ estado' \in {estado, "sin conexion"}
          /\ UNCHANGED <<activo, seleccion>> /\ cortada' = FALSE /\ suscrita' = FALSE
      BY <1>3, CierraEfecto DEF Otras
    <2> QED  BY <1>0a, <1>0c, <1>0d, <2>1, <2>2
  <1>4. CASE (Ciclo \/ Reintentar) /\ activo
    BY <1>4, <1>0a, <1>0b, <1>0c, <1>0d, SigueEfecto DEF Otras
  <1>5. CASE Conectar
    <2>1. Numeros(fallos', conexion', abiertas')
      BY <1>0e, <1>5, ConectarEfecto
    <2>2. hilo' = "HELLO" /\ UNCHANGED <<activo, seleccion, cortada, suscrita, estado>>
      BY <1>5, ConectarEfecto DEF Otras
    <2> QED  BY <1>0a, <1>0c, <1>0d, <2>1, <2>2
  <1>6. CASE LeeAlerta
    BY <1>6, <1>0a, <1>0b, <1>0d, LeeAlertaEfecto DEF Otras
  <1>7. CASE LeeRespuesta
    <2>1. hilo' \in Comandos \cup {"ciclo", "peticiones"}
      BY <1>7, LeeRespuestaEfecto, SiguienteDe
    <2> QED  BY <1>7, <2>1, <1>0a, <1>0b, <1>0c, <1>0d, LeeRespuestaEfecto DEF Otras
  <1>8. CASE AtenderPeticiones
    BY <1>8, <1>0a, <1>0b, <1>0c, <1>0d, AtenderEfecto DEF Otras
  <1>9. CASE UNCHANGED vars
    BY <1>9 DEF vars, TipoInv, Comandos, Apertura, Ronda
  <1> QED  BY <1>1, <1>2, <1>3, <1>4, <1>5, <1>6, <1>7, <1>8, <1>9, Pasos

(* Every request is one of the worker's. *)
LEMMA EnviadoTipo ==
    ASSUME TipoCanal, NEW c \in Comandos, NEW k \in 0..MaxPeticiones
    PROVE  Enviado(c, k) \in Seq(Peticiones)
  <1>1. Peticion(c, k) \in Peticiones
    BY DEF Peticion, Peticiones
  <1> QED  BY <1>1, Agregar DEF Enviado, TipoCanal

LEMMA TipoCanalPaso ==
    ASSUME TipoInv, TipoCanal, AlertasInv, ColaInv, [Next]_vars
    PROVE  TipoCanal'
  <1>0. MaxPeticiones \in Nat /\ 0 \in 0..MaxPeticiones /\ <<>> \in Seq(Peticiones) /\ <<>> \in Seq(Lineas)
    BY GuiAssumption
  <1>0b. pendientes \in Seq(Peticiones) /\ red \in Seq(Lineas)
    BY DEF TipoCanal
  <1>0c. \A q \in Peticiones, a \in SUBSET Nat, t \in {"OK", "ERR", "ALERT"} :
            Linea(t, q, a) \in Lineas
    BY DEF Linea, Lineas
  <1>0d. generadas \in Nat /\ difundidas \in Nat
    BY GuiAssumption DEF AlertasInv
  <1>1. CASE Ventana
    BY <1>1, <1>0b, VentanaEfecto DEF Ventana, Trabajando, TipoCanal
  <1>2. CASE Servidor
    <2>1. cruzada' = cruzada
      BY <1>2, ServidorEfecto DEF Servidor, Trabajando
    <2>2. CASE Genera \/ Suscribe
      BY <1>0b, <2>1, <2>2 DEF Genera, Suscribe, canal, TipoCanal
    <2>3. CASE Difunde
      <3>1. Ninguna \in Peticiones
        BY <1>0 DEF Ninguna, Peticion, Peticiones
      <3>2. difundidas' \in Nat
        BY <1>0d, <2>3 DEF Difunde
      <3>3. Linea("ALERT", Ninguna, {difundidas'}) \in Lineas
        BY <1>0c, <3>1, <3>2
      <3>4. red' \in Seq(Lineas)
        BY <1>0b, <2>3, <3>3, Agregar DEF Difunde
      <3> QED  BY <1>0b, <2>1, <2>3, <3>4 DEF Difunde, TipoCanal
    <2>4. CASE Responde
      <3>1. pendientes # <<>> /\ pendientes' = Tail(pendientes)
        BY <2>4 DEF Responde
      <3>2. Head(pendientes) \in Peticiones /\ pendientes' \in Seq(Peticiones)
        BY <1>0b, <3>1, Primero
      <3>3. \/ red' = Append(red, Linea("OK", Head(pendientes), Contenido(Head(pendientes))))
            \/ red' = Append(red, Linea("ERR", Head(pendientes), {}))
        BY <2>4 DEF Responde
      <3>4. /\ Linea("OK", Head(pendientes), Contenido(Head(pendientes))) \in Lineas
            /\ Linea("ERR", Head(pendientes), {}) \in Lineas
        <4>1. Contenido(Head(pendientes)) \in SUBSET Nat /\ {} \in SUBSET Nat
          BY <1>0d DEF Contenido, Recientes
        <4> QED  BY <1>0c, <3>2, <4>1
      <3>5. red' \in Seq(Lineas)
        BY <1>0b, <3>3, <3>4, Agregar
      <3> QED  BY <1>0b, <2>1, <3>2, <3>5 DEF TipoCanal
    <2>5. CASE Corta
      BY <1>0, <1>0b, <2>1, <2>5 DEF Corta, TipoCanal
    <2> QED  BY <1>2, <2>2, <2>3, <2>4, <2>5 DEF Servidor
  <1>3. CASE Cierra
    BY <1>0, <1>0b, <1>3, CierraEfecto DEF TipoCanal
  <1>4. CASE (Ciclo \/ Reintentar) /\ activo
    BY <1>0b, <1>4, SigueEfecto DEF TipoCanal
  <1>5. CASE Conectar
    <2>1. pendientes' \in Seq(Peticiones)
      BY <1>0, <1>5, ConectarEfecto, EnviadoTipo DEF Comandos, Apertura
    <2> QED  BY <1>0, <1>0b, <1>5, <2>1, ConectarEfecto DEF TipoCanal
  <1>6. CASE LeeAlerta
    BY <1>0b, <1>6, LeeAlertaEfecto, Primero DEF TipoCanal
  <1>7. CASE LeeRespuesta
    <2>1. pendientes' \in Seq(Peticiones)
      BY <1>0, <1>0b, <1>7, LeeRespuestaEfecto, EnviadoTipo
    <2>2. red' \in Seq(Lineas)
      BY <1>0b, <1>7, LeeRespuestaEfecto, Primero
    <2> QED  BY <1>7, <2>1, <2>2, LeeRespuestaEfecto DEF TipoCanal
  <1>8. CASE AtenderPeticiones
    <2>1. CASE pendientes' = pendientes
      BY <1>0b, <1>8, <2>1, AtenderEfecto DEF TipoCanal
    <2>2. CASE pendientes' = Enviado("LIST_NODES", 0)
      BY <1>0, <1>0b, <1>8, <2>2, AtenderEfecto, EnviadoTipo DEF TipoCanal, Comandos, Ronda
    <2>3. CASE peticiones # <<>> /\ pendientes' = Enviado("SET_THRESHOLD", Head(peticiones).k)
      <3>1. Head(peticiones).k \in 0..MaxPeticiones
        BY <2>3, CabezaDeCola DEF ColaInv
      <3> QED  BY <1>0b, <1>8, <2>3, <3>1, AtenderEfecto, EnviadoTipo DEF TipoCanal, Comandos
    <2> QED  BY <1>8, <2>1, <2>2, <2>3, AtenderEfecto
  <1>9. CASE UNCHANGED vars
    BY <1>0b, <1>9 DEF vars, TipoCanal
  <1> QED  BY <1>1, <1>2, <1>3, <1>4, <1>5, <1>6, <1>7, <1>8, <1>9, Pasos

-----------------------------------------------------------------------------
LEMMA AlertasPaso ==
    ASSUME TipoInv, TipoCanal, AlertasInv, [Next]_vars
    PROVE  AlertasInv'
  <1>0. /\ generadas \in 0..MaxAlertas /\ difundidas \in 0..generadas
        /\ tabla \subseteq 1..generadas /\ vivas \subseteq 1..difundidas
        /\ \A i \in DOMAIN red :
             /\ red[i].alertas \subseteq 1..generadas
             /\ red[i].tipo = "ALERT" => red[i].alertas \subseteq 1..difundidas
        /\ MaxAlertas \in Nat
    BY GuiAssumption DEF AlertasInv
  <1>0b. red \in Seq(Lineas)
    BY DEF TipoCanal
  <1>1. CASE Ventana
    BY <1>0, <1>1, VentanaEfecto DEF Ventana, Trabajando, AlertasInv
  <1>2. CASE Servidor
    <2>1. UNCHANGED <<tabla, vivas>>
      BY <1>2, ServidorEfecto DEF Servidor, Trabajando
    <2>2. CASE Genera
      <3>1. generadas' = generadas + 1 /\ generadas < MaxAlertas /\ UNCHANGED <<red, difundidas>>
        BY <2>2 DEF Genera, canal
      <3>2. 1..generadas \subseteq 1..generadas'
        BY <1>0, <3>1
      <3> QED  BY <1>0, <2>1, <3>1, <3>2 DEF AlertasInv
    <2>3. CASE Difunde
      <3>1. difundidas' = difundidas + 1 /\ difundidas < generadas /\ UNCHANGED generadas
            /\ red' \in {red, Append(red, Linea("ALERT", Ninguna, {difundidas'}))}
        BY <2>3 DEF Difunde
      <3>2. ASSUME NEW i \in DOMAIN red'
            PROVE  /\ red'[i].alertas \subseteq 1..generadas
                   /\ red'[i].tipo = "ALERT" => red'[i].alertas \subseteq 1..difundidas'
        <4> DEFINE e == Linea("ALERT", Ninguna, {difundidas'})
        <4>0. e.alertas = {difundidas'} /\ e.tipo = "ALERT"
          BY DEF Linea
        <4>0b. /\ difundidas' \in 1..generadas /\ difundidas' \in 1..difundidas'
               /\ 1..difundidas \subseteq 1..difundidas'
          BY <1>0, <3>1
        <4>1. (i \in DOMAIN red /\ red'[i] = red[i]) \/ red'[i] = e
          BY <1>0b, <3>1
        <4> QED  BY <1>0, <4>0, <4>0b, <4>1
      <3>3. difundidas' \in 0..generadas /\ 1..difundidas \subseteq 1..difundidas'
        BY <1>0, <3>1
      <3> QED  BY <1>0, <2>1, <3>1, <3>2, <3>3 DEF AlertasInv
    <2>4. CASE Suscribe
      BY <1>0, <2>1, <2>4 DEF Suscribe, alertas, AlertasInv
    <2>5. CASE Responde
      <3>1. UNCHANGED <<generadas, difundidas>>
            /\ \/ red' = Append(red, Linea("OK", Head(pendientes), Contenido(Head(pendientes))))
               \/ red' = Append(red, Linea("ERR", Head(pendientes), {}))
        BY <2>5 DEF Responde, alertas
      <3>2. ASSUME NEW i \in DOMAIN red'
            PROVE  /\ red'[i].alertas \subseteq 1..generadas
                   /\ red'[i].tipo = "ALERT" => red'[i].alertas \subseteq 1..difundidas
        <4>1. \A q, a : /\ Linea("OK", q, a).alertas = a /\ Linea("ERR", q, a).alertas = a
                        /\ Linea("OK", q, a).tipo = "OK" /\ Linea("ERR", q, a).tipo = "ERR"
          BY DEF Linea
        <4>1b. Contenido(Head(pendientes)) \subseteq 1..generadas
          BY DEF Contenido, Recientes
        <4>2. \/ i \in DOMAIN red /\ red'[i] = red[i]
              \/ red'[i] = Linea("OK", Head(pendientes), Contenido(Head(pendientes)))
              \/ red'[i] = Linea("ERR", Head(pendientes), {})
          BY <1>0b, <3>1
        <4> QED  BY <1>0, <4>1, <4>1b, <4>2
      <3> QED  BY <1>0, <2>1, <3>1, <3>2 DEF AlertasInv
    <2>6. CASE Corta
      BY <1>0, <2>1, <2>6 DEF Corta, alertas, AlertasInv
    <2> QED  BY <1>2, <2>2, <2>3, <2>4, <2>5, <2>6 DEF Servidor
  <1>3. CASE Cierra
    <2>1. red' = <<>> /\ UNCHANGED <<generadas, difundidas, tabla, vivas>>
      BY <1>3, CierraEfecto DEF Otras
    <2>2. DOMAIN red' = {}
      BY <2>1
    <2> QED  BY <1>0, <2>1, <2>2 DEF AlertasInv
  <1>4. CASE (Ciclo \/ Reintentar) /\ activo
    BY <1>0, <1>4, SigueEfecto DEF Otras, AlertasInv
  <1>5. CASE Conectar
    <2>1. DOMAIN red' = {} /\ UNCHANGED <<generadas, difundidas, tabla, vivas>>
      BY <1>5, ConectarEfecto DEF Otras
    <2> QED  BY <1>0, <2>1 DEF AlertasInv
  <1>6. ASSUME red # <<>>, red' = Tail(red), UNCHANGED <<generadas, difundidas>>,
               tabla' \in {tabla, Head(red).alertas},
               vivas' \in {vivas, IF Head(red).tipo = "ALERT" THEN vivas \cup Head(red).alertas
                                  ELSE vivas}
        PROVE  AlertasInv'
    <2>1. /\ Head(red) = red[1] /\ 1 \in DOMAIN red
          /\ \A i \in DOMAIN red' : red'[i] = red[i + 1] /\ i + 1 \in DOMAIN red
      BY <1>0b, <1>6, Primero
    <2>2. Head(red).alertas \subseteq 1..generadas
      BY <1>0, <2>1
    <2>3. vivas' \subseteq 1..difundidas
      BY <1>0, <1>6, <2>1
    <2> QED  BY <1>0, <1>6, <2>1, <2>2, <2>3 DEF AlertasInv
  <1>7. CASE LeeAlerta
    BY <1>6, <1>7, LeeAlertaEfecto DEF Otras
  <1>8. CASE LeeRespuesta
    BY <1>6, <1>8, LeeRespuestaEfecto DEF Otras
  <1>9. CASE AtenderPeticiones
    BY <1>0, <1>9, AtenderEfecto DEF Otras, AlertasInv
  <1>10. CASE UNCHANGED vars
    BY <1>0, <1>10 DEF vars, AlertasInv
  <1> QED  BY <1>1, <1>2, <1>3, <1>4, <1>5, <1>7, <1>8, <1>9, <1>10, Pasos

-----------------------------------------------------------------------------
LEMMA ColaPaso ==
    ASSUME TipoInv, ColaInv, [Next]_vars
    PROVE  ColaInv'
  <1> DEFINE Peticiones1 == [k : Nat, clase : Clases]
             EnOrden(s, n) == /\ s \in Seq(Peticiones1) /\ Len(s) <= n
                              /\ \A i \in DOMAIN s : s[i].k = n - Len(s) + i
             Curso(n, p, h, a) == /\ n \in 0..p /\ (n # 0 <=> h = "SET_THRESHOLD")
                                  /\ a \subseteq 1..p
  <1>0. /\ MaxPeticiones \in Nat /\ pedidas \in 0..MaxPeticiones
        /\ EnOrden(peticiones, pedidas) /\ Curso(enCurso, pedidas, hilo, avisadas)
    BY GuiAssumption DEF ColaInv
  <1>0a. /\ pedidas' \in 0..MaxPeticiones
         /\ EnOrden(peticiones', pedidas') /\ Curso(enCurso', pedidas', hilo', avisadas')
         => ColaInv'
    BY DEF ColaInv
  <1>0b. /\ Curso(enCurso, pedidas + 1, hilo, avisadas)
         /\ hilo' # "SET_THRESHOLD" => Curso(0, pedidas, hilo', avisadas)
    <2>1. /\ pedidas \in Nat /\ enCurso \in 0..pedidas /\ (enCurso # 0 <=> hilo = "SET_THRESHOLD")
          /\ avisadas \subseteq 1..pedidas
      BY <1>0
    <2>2. enCurso \in 0..(pedidas + 1) /\ avisadas \subseteq 1..(pedidas + 1) /\ 0 \in 0..pedidas
      BY <2>1
    <2> QED  BY <2>1, <2>2
  <1>0c. peticiones # <<>> => EnOrden(Tail(peticiones), pedidas)
    <2>1. SUFFICES ASSUME peticiones # <<>> PROVE EnOrden(Tail(peticiones), pedidas)
      OBVIOUS
    <2>2. peticiones \in Seq(Peticiones1) /\ Len(peticiones) <= pedidas /\ pedidas \in Nat
          /\ \A i \in DOMAIN peticiones : peticiones[i].k = pedidas - Len(peticiones) + i
      BY <1>0
    <2> HIDE DEF Peticiones1
    <2>3. /\ Len(peticiones) \in Nat /\ Len(peticiones) >= 1
          /\ Tail(peticiones) \in Seq(Peticiones1) /\ Len(Tail(peticiones)) = Len(peticiones) - 1
          /\ DOMAIN Tail(peticiones) = 1..(Len(peticiones) - 1)
          /\ \A i \in DOMAIN Tail(peticiones) :
               Tail(peticiones)[i] = peticiones[i + 1] /\ i + 1 \in DOMAIN peticiones
      BY <2>1, <2>2, Primero
    <2>4. ASSUME NEW i \in DOMAIN Tail(peticiones)
          PROVE  Tail(peticiones)[i].k = pedidas - Len(Tail(peticiones)) + i
      <3>1. Tail(peticiones)[i].k = pedidas - Len(peticiones) + (i + 1) /\ i \in Nat
        BY <2>2, <2>3
      <3> QED  BY <2>2, <2>3, <3>1
    <2> QED  BY <2>2, <2>3, <2>4
  <1>0d. ASSUME NEW c \in Clases
         PROVE  EnOrden(Append(peticiones, [k |-> pedidas + 1, clase |-> c]), pedidas + 1)
    <2> DEFINE e == [k |-> pedidas + 1, clase |-> c]
               s == Append(peticiones, e)
    <2>1. e \in Peticiones1 /\ e.k = pedidas + 1
      BY <1>0
    <2>2. peticiones \in Seq(Peticiones1) /\ Len(peticiones) <= pedidas /\ pedidas \in Nat
          /\ \A i \in DOMAIN peticiones : peticiones[i].k = pedidas - Len(peticiones) + i
      BY <1>0
    <2> HIDE DEF Peticiones1, e
    <2>3. /\ Len(peticiones) \in Nat /\ DOMAIN peticiones = 1..Len(peticiones)
          /\ s \in Seq(Peticiones1) /\ Len(s) = Len(peticiones) + 1
          /\ DOMAIN s = 1..(Len(peticiones) + 1)
          /\ \A i \in DOMAIN peticiones : s[i] = peticiones[i]
          /\ s[Len(peticiones) + 1] = e
      BY <2>1, <2>2, Agregar
    <2> HIDE DEF s
    <2>4. ASSUME NEW i \in DOMAIN s
          PROVE  s[i].k = (pedidas + 1) - Len(s) + i
      <3>1. CASE i \in DOMAIN peticiones
        <4>1. s[i].k = pedidas - Len(peticiones) + i
          BY <2>2, <2>3, <3>1
        <4> QED  BY <2>2, <2>3, <3>1, <4>1
      <3>2. CASE i = Len(peticiones) + 1
        BY <2>1, <2>2, <2>3, <3>2
      <3> QED  BY <2>3, <3>1, <3>2
    <2>5. EnOrden(s, pedidas + 1)
      BY <2>2, <2>3, <2>4
    <2> QED  BY <2>5 DEF s, e
  <1> HIDE DEF Peticiones1, EnOrden, Curso
  <1>1. CASE Ventana
    <2>1. UNCHANGED <<hilo, enCurso, avisadas>>
      BY <1>1, VentanaEfecto DEF Ventana, Trabajando
    <2>2. CASE UNCHANGED <<peticiones, pedidas>>
      BY <1>0, <1>0a, <2>1, <2>2
    <2>3. CASE /\ pedidas < MaxPeticiones /\ pedidas' = pedidas + 1
               /\ \E c \in Clases : peticiones' = Append(peticiones, [k |-> pedidas + 1, clase |-> c])
      <3>1. EnOrden(peticiones', pedidas')
        BY <1>0d, <2>3
      <3>2. Curso(enCurso', pedidas', hilo', avisadas')
        BY <1>0b, <2>1, <2>3
      <3>3. pedidas' \in 0..MaxPeticiones
        BY <1>0, <2>3
      <3> QED  BY <1>0a, <3>1, <3>2, <3>3
    <2> QED  BY <1>1, <2>2, <2>3, VentanaEfecto DEF Ventana
  <1>2. CASE Servidor
    BY <1>0, <1>0a, <1>2, ServidorEfecto DEF Servidor, Trabajando
  <1>3. ASSUME UNCHANGED <<pedidas, peticiones, avisadas>>, enCurso' = 0, hilo' # "SET_THRESHOLD"
        PROVE  ColaInv'
    <2>1. Curso(enCurso', pedidas', hilo', avisadas')
      BY <1>0b, <1>3
    <2> QED  BY <1>0, <1>0a, <1>3, <2>1
  <1>4. \A c \in {"conectar", "ciclo", "espera", "peticiones"} : hilo = c => enCurso = 0
    BY <1>0 DEF Curso
  <1>5. CASE Cierra
    <2>1. enCurso = 0 \/ hilo = "SET_THRESHOLD"
      BY <1>0 DEF Curso
    <2>2. enCurso' = 0
      BY <1>5, <2>1, CierraEfecto DEF Comandos
    <2>3. hilo' # "SET_THRESHOLD" /\ UNCHANGED <<pedidas, peticiones, avisadas>>
      BY <1>5, CierraEfecto DEF Otras
    <2> QED  BY <1>3, <2>2, <2>3
  <1>6. CASE (Ciclo \/ Reintentar) /\ activo
    BY <1>3, <1>4, <1>6, SigueEfecto DEF Otras
  <1>7. CASE Conectar
    BY <1>3, <1>7, ConectarEfecto DEF Otras
  <1>8. CASE LeeAlerta
    BY <1>0, <1>0a, <1>8, LeeAlertaEfecto DEF Otras
  <1>9. CASE LeeRespuesta
    <2>1. /\ UNCHANGED <<pedidas, peticiones>> /\ enCurso' = 0 /\ hilo' # "SET_THRESHOLD"
          /\ avisadas' = IF hilo = "SET_THRESHOLD" THEN avisadas \cup {enCurso} ELSE avisadas
      BY <1>9, LeeRespuestaEfecto, SiguienteDe DEF Otras
    <2>2. avisadas' \subseteq 1..pedidas
      BY <1>0, <2>1 DEF Curso
    <2> QED  BY <1>0, <1>0a, <2>1, <2>2 DEF Curso
  <1>10. CASE AtenderPeticiones
    <2>1. UNCHANGED <<pedidas, avisadas>> /\ hilo = "peticiones"
      BY <1>10, AtenderEfecto DEF Otras
    <2>2. CASE /\ peticiones = <<>> /\ peticiones' = peticiones
               /\ hilo' = "LIST_NODES" /\ enCurso' = 0
      BY <1>3, <2>1, <2>2
    <2>3. CASE /\ peticiones # <<>> /\ peticiones' = Tail(peticiones)
               /\ hilo' = "SET_THRESHOLD" /\ enCurso' = Head(peticiones).k
      <3>1. Head(peticiones).k \in 1..pedidas
        BY <2>3, CabezaDeCola
      <3>2. Curso(enCurso', pedidas', hilo', avisadas')
        BY <1>0, <2>1, <2>3, <3>1 DEF Curso
      <3> QED  BY <1>0, <1>0a, <1>0c, <2>1, <2>3, <3>2
    <2>4. CASE /\ peticiones # <<>> /\ peticiones' = Tail(peticiones)
               /\ hilo' = "muerto" /\ UNCHANGED enCurso
      <3>1. enCurso' = 0 /\ hilo' # "SET_THRESHOLD"
        BY <1>4, <2>1, <2>4
      <3>2. Curso(enCurso', pedidas', hilo', avisadas')
        BY <1>0b, <2>1, <3>1
      <3> QED  BY <1>0, <1>0a, <1>0c, <2>1, <2>4, <3>2
    <2> QED  BY <1>10, <2>2, <2>3, <2>4, AtenderEfecto
  <1>11. CASE UNCHANGED vars
    BY <1>0, <1>0a, <1>11 DEF vars
  <1> QED
    BY <1>1, <1>2, <1>5, <1>6, <1>7, <1>8, <1>9, <1>10, <1>11, Pasos

-----------------------------------------------------------------------------
(* What the worker finds first in the channel answers what it waits for.    *)
LEMMA PrimeraRespuesta ==
    ASSUME TipoCanal, CanalInv, red # <<>>, EsRespuesta(Head(red))
    PROVE  /\ Esperando /\ pendientes = <<>> /\ Head(red).de = Pedida
           /\ hilo = "SUBSCRIBE" /\ Head(red).tipo = "OK" => suscrita \/ cortada
           /\ \A i \in DOMAIN Tail(red) : ~EsRespuesta(Tail(red)[i])
  <1>1. red \in Seq(Lineas)
    BY DEF TipoCanal
  <1>2. /\ Len(red) \in Nat /\ Len(red) >= 1 /\ DOMAIN red = 1..Len(red) /\ Head(red) = red[1]
        /\ DOMAIN Tail(red) = 1..(Len(red) - 1)
        /\ \A i \in DOMAIN Tail(red) : Tail(red)[i] = red[i + 1] /\ i + 1 \in DOMAIN red
    BY <1>1, Primero
  <1>3. 1 \in DOMAIN red /\ EsRespuesta(red[1])
    BY <1>2
  <1>4. /\ Esperando /\ pendientes = <<>> /\ red[1].de = Pedida
        /\ hilo = "SUBSCRIBE" /\ red[1].tipo = "OK" => suscrita \/ cortada
        /\ \A j \in DOMAIN red : j # 1 => ~EsRespuesta(red[j])
    BY <1>3 DEF CanalInv
  <1>5. ASSUME NEW i \in DOMAIN Tail(red)
        PROVE  ~EsRespuesta(Tail(red)[i])
    <2>1. i + 1 \in DOMAIN red /\ i + 1 # 1 /\ Tail(red)[i] = red[i + 1]
      BY <1>2
    <2> QED  BY <1>4, <2>1
  <1> QED  BY <1>2, <1>4, <1>5

LEMMA ConexionPaso ==
    ASSUME TipoInv, TipoCanal, ConexionInv, CanalInv, [Next]_vars
    PROVE  ConexionInv'
  <1> DEFINE En(h) == h \in Comandos \cup {"ciclo", "peticiones", "muerto"}
             Sesion(h, c, a) == /\ a = IF En(h) THEN {c} ELSE {}
                                /\ En(h) <=> c # 0
             AlDia(h, e, act, cor, sus) ==
                 /\ ~En(h) => ~cor /\ ~sus
                 /\ act /\ e = "conectado" => En(h) /\ h \notin Apertura /\ (sus \/ cor)
  <1>0. Sesion(hilo, conexion, abiertas) /\ AlDia(hilo, estado, activo, cortada, suscrita)
    BY DEF ConexionInv, Conectado
  <1>0a. /\ Sesion(hilo', conexion', abiertas')
         /\ AlDia(hilo', estado', activo', cortada', suscrita')
         => ConexionInv'
    BY DEF ConexionInv, Conectado
  <1>0b. /\ activo \in BOOLEAN /\ cortada \in BOOLEAN /\ suscrita \in BOOLEAN
         /\ fallos \in Nat
    <2>1. MaxFallos \in Nat /\ fallos \in 0..MaxFallos
      BY GuiAssumption DEF TipoInv
    <2>2. fallos \in Nat
      BY <2>1
    <2>3. activo \in BOOLEAN /\ cortada \in BOOLEAN /\ suscrita \in BOOLEAN
      BY DEF TipoInv
    <2> QED  BY <2>2, <2>3
  <1>0c. /\ \A h \in Comandos : En(h)
         /\ En("ciclo") /\ En("peticiones") /\ En("muerto")
         /\ ~En("conectar") /\ ~En("espera") /\ ~En("fin")
         /\ {"HELLO", "LIST_NODES", "SET_THRESHOLD"} \subseteq Comandos
         /\ {"ciclo", "peticiones", "muerto", "LIST_NODES", "SET_THRESHOLD"} \cap Apertura = {}
    BY DEF Comandos, Apertura, Ronda
  <1> HIDE DEF En
  <1>1. CASE Ventana
    BY <1>0, <1>0a, <1>0b, <1>1, VentanaEfecto DEF Ventana, Trabajando
  <1>2. CASE Servidor
    <2>1. UNCHANGED <<hilo, estado, conexion, abiertas, activo>>
      BY <1>2, ServidorEfecto DEF Servidor, Trabajando
    <2>2. CASE UNCHANGED <<cortada, suscrita>>
      BY <1>0, <1>0a, <2>1, <2>2
    <2>3. CASE Suscribe
      <3>1. pendientes # <<>> /\ suscrita' = TRUE /\ cortada' = cortada
        BY <2>3 DEF Suscribe
      <3>2. En(hilo)
        BY <1>0c, <3>1 DEF CanalInv, Esperando
      <3> QED  BY <1>0, <1>0a, <2>1, <3>1, <3>2
    <2>4. CASE Corta
      <3>1. conexion # 0 /\ cortada' = TRUE
        BY <2>4 DEF Corta
      <3> QED  BY <1>0, <1>0a, <2>1, <3>1
    <2> QED  BY <1>2, <2>2, <2>3, <2>4 DEF Servidor, Genera, Difunde, Responde, canal
  <1>3. CASE Cierra
    <2>1. /\ ~En(hilo') /\ conexion' = 0 /\ abiertas' = abiertas \ {conexion}
          /\ cortada' = FALSE /\ suscrita' = FALSE
          /\ ~activo' \/ estado' = "sin conexion"
      <3>0. /\ activo' = activo
            /\ hilo' = IF activo THEN "espera" ELSE "fin"
            /\ estado' = IF activo THEN "sin conexion" ELSE estado
        BY <1>3, CierraEfecto DEF Otras
      <3>1. hilo' \in {"espera", "fin"} /\ (~activo' \/ estado' = "sin conexion")
        <4>1. CASE activo
          BY <3>0, <4>1
        <4>2. CASE ~activo
          BY <3>0, <4>2
        <4> QED  BY <4>1, <4>2
      <3>2. ~En(hilo')
        BY <1>0c, <3>1
      <3> QED  BY <1>3, <3>1, <3>2, CierraEfecto
    <2> QED  BY <1>0, <1>0a, <2>1
  <1>4. CASE (Ciclo \/ Reintentar) /\ activo
    <2>1. /\ UNCHANGED <<conexion, abiertas, cortada, suscrita, activo, estado>>
          /\ \/ hilo = "ciclo" /\ hilo' = "peticiones"
             \/ hilo = "espera" /\ hilo' = "conectar"
      BY <1>4, SigueEfecto DEF Otras
    <2> QED  BY <1>0, <1>0a, <1>0c, <2>1
  <1>5. CASE Conectar
    <2>1. /\ hilo = "conectar" /\ En(hilo') /\ conexion' = fallos + 1
          /\ abiertas' = abiertas \cup {conexion'}
          /\ UNCHANGED <<cortada, suscrita, activo, estado>>
      BY <1>0c, <1>5, ConectarEfecto DEF Otras
    <2>2. conexion' # 0
      BY <1>0b, <2>1
    <2> QED  BY <1>0, <1>0a, <1>0c, <2>1, <2>2
  <1>6. CASE LeeAlerta
    BY <1>0, <1>0a, <1>6, LeeAlertaEfecto DEF Otras
  <1>7. CASE LeeRespuesta
    <2>1. /\ UNCHANGED <<conexion, abiertas, cortada, suscrita, activo>>
          /\ hilo \in Comandos /\ hilo' = Siguiente[hilo]
          /\ estado' = IF hilo = "SUBSCRIBE" THEN "conectado" ELSE estado
          /\ red # <<>>
          /\ Head(red).tipo = "OK" \/ (Head(red).tipo = "ERR" /\ Rechazable(hilo))
      BY <1>7, LeeRespuestaEfecto DEF Otras
    <2>2. En(hilo) /\ En(hilo')
      BY <1>0c, <2>1, SiguienteDe
    <2>3. Sesion(hilo', conexion', abiertas')
      BY <1>0, <2>1, <2>2
    <2>4. CASE hilo = "SUBSCRIBE"
      <3>1. Head(red).tipo = "OK" /\ EsRespuesta(Head(red))
        BY <2>1, <2>4 DEF Rechazable, EsRespuesta
      <3>2. suscrita \/ cortada
        BY <2>1, <2>4, <3>1, PrimeraRespuesta
      <3>3. hilo' = "ciclo"
        BY <2>1, <2>4, SiguienteDe
      <3> QED  BY <1>0a, <1>0c, <2>1, <2>2, <2>3, <3>2, <3>3
    <2>5. CASE hilo # "SUBSCRIBE"
      <3>1. hilo' \in Apertura => hilo \in Apertura
        BY <2>1, SiguienteDe DEF Apertura
      <3> QED  BY <1>0, <1>0a, <2>1, <2>2, <2>3, <2>5, <3>1
    <2> QED  BY <2>4, <2>5
  <1>8. CASE AtenderPeticiones
    <2>1. /\ UNCHANGED <<conexion, abiertas, cortada, suscrita, activo, estado>>
          /\ hilo = "peticiones" /\ hilo' \in {"LIST_NODES", "SET_THRESHOLD", "muerto"}
      BY <1>8, AtenderEfecto DEF Otras
    <2>2. En(hilo) /\ En(hilo') /\ hilo' \notin Apertura
      BY <1>0c, <2>1
    <2> QED  BY <1>0, <1>0a, <2>1, <2>2
  <1>9. CASE UNCHANGED vars
    BY <1>0, <1>0a, <1>9 DEF vars
  <1> QED  BY <1>1, <1>2, <1>3, <1>4, <1>5, <1>6, <1>7, <1>8, <1>9, Pasos

-----------------------------------------------------------------------------
(* A channel with at most the request in it. *)
LEMMA SoloLaPedida ==
    ASSUME pendientes' = <<>> \/ (Esperando' /\ pendientes' = <<Pedida'>>),
           \A i \in DOMAIN red' : ~EsRespuesta(red'[i])
    PROVE  CanalInv'
  BY DEF CanalInv, EsRespuesta

LEMMA EnviadoEs ==
    ASSUME NEW c, NEW k, pendientes = <<>>
    PROVE  Enviado(c, k) = <<>> \/ Enviado(c, k) = <<Peticion(c, k)>>
  <1>1. \A e : Append(<<>>, e) = <<e>>
    OBVIOUS
  <1> QED  BY <1>1 DEF Enviado

LEMMA CanalPaso ==
    ASSUME TipoInv, TipoCanal, CanalInv, RespuestaCorresponde, [Next]_vars
    PROVE  CanalInv' /\ RespuestaCorresponde'
  <1>0. pendientes \in Seq(Peticiones) /\ red \in Seq(Lineas)
    BY DEF TipoCanal
  <1>0a. ASSUME hilo \notin Comandos
         PROVE  pendientes = <<>> /\ \A i \in DOMAIN red : ~EsRespuesta(red[i])
    BY <1>0a DEF CanalInv, Esperando
  <1>0b. \A i \in DOMAIN <<>> : FALSE
    OBVIOUS
  <1>0c. {"conectar", "espera", "ciclo", "peticiones"} \cap Comandos = {}
         /\ {"HELLO", "LIST_NODES", "SET_THRESHOLD"} \subseteq Comandos
    BY DEF Comandos, Apertura, Ronda
  <1>0d. UNCHANGED cruzada => RespuestaCorresponde'
    BY DEF RespuestaCorresponde
  <1>1. CASE UNCHANGED <<hilo, enCurso, pendientes, red, suscrita, cortada, cruzada>>
    BY <1>0d, <1>1 DEF CanalInv, Esperando, Pedida
  <1>2. CASE Servidor
    <2>1. UNCHANGED <<hilo, enCurso, cruzada>>
      BY <1>2, ServidorEfecto DEF Servidor, Trabajando
    <2>2. Pedida' = Pedida /\ Esperando' = Esperando
      BY <2>1 DEF Pedida, Esperando
    <2>3. CASE Genera
      BY <1>1, <2>1, <2>3 DEF Genera, canal
    <2>4. CASE Suscribe
      <3>1. UNCHANGED <<pendientes, red>> /\ suscrita' = TRUE
        BY <2>4 DEF Suscribe
      <3> QED  BY <1>0d, <2>1, <2>2, <3>1 DEF CanalInv
    <2>5. CASE Difunde
      <3> DEFINE e == Linea("ALERT", Ninguna, {difundidas'})
      <3>1. UNCHANGED <<pendientes, cortada, suscrita>> /\ red' \in {red, Append(red, e)}
        BY <2>5 DEF Difunde
      <3>2. ~EsRespuesta(e)
        BY DEF EsRespuesta, Linea
      <3> HIDE DEF e
      <3>3. \A i \in DOMAIN red' : EsRespuesta(red'[i]) => i \in DOMAIN red /\ red'[i] = red[i]
        BY <1>0, <3>1, <3>2
      <3> QED  BY <1>0d, <2>1, <2>2, <3>1, <3>3 DEF CanalInv
    <2>6. CASE Responde
      <3>1. pendientes # <<>> /\ pendientes' = Tail(pendientes) /\ UNCHANGED <<cortada, suscrita>>
        BY <2>6 DEF Responde
      <3>2. pendientes = <<Pedida>> /\ Esperando
        BY <3>1 DEF CanalInv
      <3>3. Head(pendientes) = Pedida /\ pendientes' = <<>>
        BY <3>1, <3>2
      <3>4. \A i \in DOMAIN red : ~EsRespuesta(red[i])
        BY <3>1 DEF CanalInv
      <3>5. PICK e : /\ red' = Append(red, e) /\ e.de = Pedida
                     /\ hilo = "SUBSCRIBE" /\ e.tipo = "OK" => suscrita
        <4>1. \/ /\ Head(pendientes).comando = "SUBSCRIBE" => suscrita
                 /\ red' = Append(red, Linea("OK", Head(pendientes), Contenido(Head(pendientes))))
              \/ red' = Append(red, Linea("ERR", Head(pendientes), {}))
          BY <2>6 DEF Responde
        <4>2. Pedida.comando = hilo
          BY DEF Pedida, Peticion
        <4> QED  BY <3>3, <4>1, <4>2 DEF Linea
      <3>6. \A i \in DOMAIN red' : i = Len(red) + 1 \/ (i \in DOMAIN red /\ red'[i] = red[i])
        BY <1>0, <3>5
      <3>7. red'[Len(red) + 1] = e
        BY <1>0, <3>5
      <3>8. \A i \in DOMAIN red' : EsRespuesta(red'[i]) => i = Len(red) + 1
        BY <3>4, <3>6
      <3> QED  BY <1>0d, <2>1, <2>2, <3>1, <3>2, <3>3, <3>5, <3>7, <3>8 DEF CanalInv
    <2>7. CASE Corta
      <3>1. pendientes' = <<>> /\ red' \in {red, <<>>} /\ cortada' = TRUE
        BY <2>7 DEF Corta
      <3> QED  BY <1>0d, <2>1, <2>2, <3>1 DEF CanalInv
    <2> QED  BY <1>2, <2>3, <2>4, <2>5, <2>6, <2>7 DEF Servidor
  <1>3. CASE Ventana
    BY <1>1, <1>3, VentanaEfecto DEF Ventana, Trabajando
  <1>4. CASE Cierra
    <2>1. pendientes' = <<>> /\ red' = <<>> /\ cruzada' = cruzada
      BY <1>4, CierraEfecto
    <2> QED  BY <1>0b, <1>0d, <2>1, SoloLaPedida
  <1>5. CASE (Ciclo \/ Reintentar) /\ activo
    <2>1. hilo \notin Comandos /\ UNCHANGED <<pendientes, red, cruzada>>
      BY <1>0c, <1>5, SigueEfecto
    <2> QED  BY <1>0a, <1>0d, <2>1, SoloLaPedida
  <1>6. CASE Conectar
    <2>1. /\ hilo \notin Comandos /\ hilo' = "HELLO" /\ enCurso' = 0 /\ cruzada' = cruzada
          /\ pendientes' = Enviado("HELLO", 0) /\ red' = <<>>
      BY <1>0c, <1>6, ConectarEfecto
    <2>2. Esperando' /\ Pedida' = Peticion("HELLO", 0)
      BY <1>0c, <2>1 DEF Esperando, Pedida
    <2> QED  BY <1>0a, <1>0b, <1>0d, <2>1, <2>2, EnviadoEs, SoloLaPedida
  <1>7. CASE LeeAlerta
    <2>1. /\ UNCHANGED <<hilo, enCurso, pendientes, suscrita, cortada, cruzada>>
          /\ red # <<>> /\ red' = Tail(red)
      BY <1>7, LeeAlertaEfecto
    <2>2. \A i \in DOMAIN red' : i \in Nat /\ red'[i] = red[i + 1] /\ i + 1 \in DOMAIN red
      BY <1>0, <2>1, Primero
    <2>3. Pedida' = Pedida /\ Esperando' = Esperando
      BY <2>1 DEF Pedida, Esperando
    <2>4. ASSUME NEW i \in DOMAIN red', EsRespuesta(red'[i])
          PROVE  /\ Esperando' /\ pendientes' = <<>> /\ red'[i].de = Pedida'
                 /\ \A j \in DOMAIN red' : j # i => ~EsRespuesta(red'[j])
                 /\ hilo' = "SUBSCRIBE" /\ red'[i].tipo = "OK" => suscrita' \/ cortada'
      <3>1. i + 1 \in DOMAIN red /\ EsRespuesta(red[i + 1]) /\ red'[i] = red[i + 1] /\ i \in Nat
        BY <2>2, <2>4
      <3>2. /\ Esperando /\ pendientes = <<>> /\ red[i + 1].de = Pedida
            /\ \A j \in DOMAIN red : j # i + 1 => ~EsRespuesta(red[j])
            /\ hilo = "SUBSCRIBE" /\ red[i + 1].tipo = "OK" => suscrita \/ cortada
        BY <3>1 DEF CanalInv
      <3>3. ASSUME NEW j \in DOMAIN red', j # i
            PROVE  ~EsRespuesta(red'[j])
        <4>1. j + 1 # i + 1 /\ j + 1 \in DOMAIN red /\ red'[j] = red[j + 1]
          BY <2>2, <3>1, <3>3
        <4> QED  BY <3>2, <4>1
      <3> QED  BY <2>1, <2>3, <3>1, <3>2, <3>3
    <2> QED  BY <1>0d, <2>1, <2>3, <2>4 DEF CanalInv
  <1>8. CASE LeeRespuesta
    <2>1. /\ red # <<>> /\ Head(red).tipo \in {"OK", "ERR"} /\ enCurso' = 0 /\ red' = Tail(red)
          /\ hilo' = Siguiente[hilo]
          /\ pendientes' = IF hilo' \in Comandos THEN Enviado(hilo', 0) ELSE pendientes
          /\ cruzada' = (cruzada \/ Head(red).de # Pedida)
      BY <1>8, LeeRespuestaEfecto
    <2>2. EsRespuesta(Head(red))
      BY <2>1 DEF EsRespuesta
    <2>3. /\ pendientes = <<>> /\ Head(red).de = Pedida
          /\ \A i \in DOMAIN red' : ~EsRespuesta(red'[i])
      BY <2>1, <2>2, PrimeraRespuesta
    <2>4. Pedida' = Peticion(hilo', 0) /\ (hilo' \in Comandos => Esperando')
      BY <2>1 DEF Pedida, Esperando
    <2>5. RespuestaCorresponde'
      BY <2>1, <2>3 DEF RespuestaCorresponde
    <2> QED  BY <2>1, <2>3, <2>4, <2>5, EnviadoEs, SoloLaPedida
  <1>9. CASE AtenderPeticiones
    <2>1. hilo \notin Comandos /\ UNCHANGED <<red, cruzada>>
      BY <1>0c, <1>9, AtenderEfecto
    <2>2. \/ pendientes' = pendientes
          \/ hilo' = "LIST_NODES" /\ enCurso' = 0 /\ pendientes' = Enviado("LIST_NODES", 0)
          \/ hilo' = "SET_THRESHOLD" /\ pendientes' = Enviado("SET_THRESHOLD", enCurso')
      BY <1>9, AtenderEfecto
    <2>3. pendientes = <<>> /\ \A i \in DOMAIN red' : ~EsRespuesta(red'[i])
      BY <1>0a, <2>1
    <2>4. pendientes' = <<>> \/ (Esperando' /\ pendientes' = <<Pedida'>>)
      BY <1>0c, <2>2, <2>3, EnviadoEs DEF Esperando, Pedida
    <2> QED  BY <1>0d, <2>1, <2>3, <2>4, SoloLaPedida
  <1>10. CASE UNCHANGED vars
    BY <1>1, <1>10 DEF vars
  <1> QED  BY <1>2, <1>3, <1>4, <1>5, <1>6, <1>7, <1>8, <1>9, <1>10, Pasos

-----------------------------------------------------------------------------
LEMMA UnaMas ==
    ASSUME NEW n \in Nat, NEW S, S \subseteq 1..n, NEW x, NEW T, T \subseteq S \cup {x}
    PROVE  /\ Cardinality(S) \in Nat /\ Cardinality(T) \in Nat
           /\ Cardinality(T) <= Cardinality(S) + 1
           /\ T \subseteq S => Cardinality(T) <= Cardinality(S)
  <1>1. IsFiniteSet(S)
    <2>1. IsFiniteSet(1..n)
      BY FS_Interval
    <2> QED  BY <2>1, FS_Subset
  <1>2. IsFiniteSet(S \cup {x}) /\ Cardinality(S \cup {x}) \in {Cardinality(S), Cardinality(S) + 1}
    BY <1>1, FS_AddElement, FS_CardinalityType
  <1>3. IsFiniteSet(T) /\ Cardinality(T) <= Cardinality(S \cup {x})
    BY <1>2, FS_Subset
  <1>4. Cardinality(S) \in Nat /\ Cardinality(T) \in Nat
    BY <1>1, <1>3, FS_CardinalityType
  <1>5. T \subseteq S => Cardinality(T) <= Cardinality(S)
    BY <1>1, FS_Subset
  <1> QED  BY <1>2, <1>3, <1>4, <1>5

LEMMA PerdidasPaso ==
    ASSUME TipoInv, ColaInv, PerdidasInv, [Next]_vars
    PROVE  PerdidasInv'
  <1> DEFINE P(n, a, e) == {k \in 1..n : k \notin a \cup {e}}
             N == pedidas - Len(peticiones)
             Antes == Perdidas
             Luego == Perdidas'
  <1>0. /\ pedidas \in Nat /\ Len(peticiones) \in Nat /\ Len(peticiones) <= pedidas
        /\ (enCurso # 0 <=> hilo = "SET_THRESHOLD") /\ enCurso \in Nat
        /\ peticiones \in Seq([k : Nat, clase : Clases])
    <2>1. MaxPeticiones \in Nat /\ pedidas \in 0..MaxPeticiones /\ enCurso \in 0..pedidas
      BY GuiAssumption DEF ColaInv
    <2>2. peticiones \in Seq([k : Nat, clase : Clases])
      BY DEF ColaInv
    <2>3. Len(peticiones) \in Nat
      BY <2>2
    <2> QED  BY <2>1, <2>2, <2>3 DEF ColaInv
  <1>0a. /\ Antes = P(N, avisadas, enCurso)
         /\ Luego = P(pedidas' - Len(peticiones'), avisadas', enCurso')
    BY DEF Perdidas
  <1>0b. N \in Nat /\ Antes \subseteq 1..N
    BY <1>0, <1>0a
  <1>0c. fallos \in Nat
    <2>1. MaxFallos \in Nat /\ fallos \in 0..MaxFallos
      BY GuiAssumption DEF TipoInv
    <2> QED  BY <2>1
  <1>0d. cortada \in BOOLEAN
    BY DEF TipoInv
  <1>0e. Cardinality(Antes) + Uno(cortada) <= fallos + Uno(hilo = "muerto")
    BY DEF PerdidasInv
  <1>0f. Cardinality(Luego) + Uno(cortada') <= fallos' + Uno(hilo' = "muerto") => PerdidasInv'
    BY DEF PerdidasInv, Uno
  <1>0g. Uno(TRUE) = 1 /\ Uno(FALSE) = 0
    BY DEF Uno
  <1>0h. /\ Cardinality(Antes) \in Nat
         /\ \A x : Luego \subseteq Antes \cup {x} =>
              Cardinality(Luego) \in Nat /\ Cardinality(Luego) <= Cardinality(Antes) + 1
         /\ Luego \subseteq Antes =>
              Cardinality(Luego) \in Nat /\ Cardinality(Luego) <= Cardinality(Antes)
    BY <1>0b, UnaMas
  <1>0i. hilo # "SET_THRESHOLD" => enCurso = 0
    BY <1>0
  <1> HIDE DEF N, Antes, Luego
  (* Nothing is lost, and the counters do not go back. *)
  <1>1. ASSUME Luego \subseteq Antes, fallos' \in Nat,
               \/ /\ fallos' >= fallos /\ hilo' = hilo
                  /\ cortada' = cortada \/ fallos' = fallos + 1
               \/ hilo # "muerto" /\ hilo' # "muerto" /\ fallos' >= fallos /\ cortada' \in {cortada, FALSE},
               cortada' \in BOOLEAN
        PROVE  PerdidasInv'
    <2>1. Cardinality(Luego) \in Nat /\ Cardinality(Luego) <= Cardinality(Antes)
      BY <1>0h, <1>1
    <2>2. \A b \in BOOLEAN : Uno(b) \in {0, 1}
      BY <1>0g
    <2>3. Uno(cortada) \in {0, 1} /\ Uno(cortada') \in {0, 1}
      BY <1>0d, <1>1, <2>2
    <2>4. CASE fallos' >= fallos /\ hilo' = hilo /\ cortada' = cortada
      <3>1. Uno(hilo = "muerto") \in {0, 1}
        BY <1>0g
      <3> QED  BY <1>0c, <1>0e, <1>0f, <1>0h, <1>1, <2>1, <2>3, <2>4, <3>1
    <2>5. CASE hilo' = hilo /\ fallos' = fallos + 1
      <3>1. Uno(hilo = "muerto") \in {0, 1}
        BY <1>0g
      <3> QED  BY <1>0c, <1>0e, <1>0f, <1>0h, <1>1, <2>1, <2>3, <2>5, <3>1
    <2>6. CASE hilo # "muerto" /\ hilo' # "muerto" /\ fallos' >= fallos /\ cortada' \in {cortada, FALSE}
      <3>1. Uno(hilo = "muerto") = 0 /\ Uno(hilo' = "muerto") = 0
        BY <1>0g, <2>6
      <3>2. Uno(cortada') <= Uno(cortada)
        <4>1. CASE cortada' = FALSE
          <5>1. Uno(cortada') = 0
            BY <1>0g, <4>1
          <5> QED  BY <2>3, <5>1
        <4>2. CASE cortada' = cortada
          <5>1. Uno(cortada') = Uno(cortada)
            BY <4>2
          <5> QED  BY <2>3, <5>1
        <4> QED  BY <2>6, <4>1, <4>2
      <3> QED  BY <1>0c, <1>0e, <1>0f, <1>0h, <1>1, <2>1, <2>3, <2>6, <3>1, <3>2
    <2> QED  BY <1>1, <2>4, <2>5, <2>6
  <1>2. pedidas' - Len(peticiones') = N /\ UNCHANGED <<avisadas, enCurso>> => Luego \subseteq Antes
    BY <1>0a
  <1>3. CASE Ventana
    <2>1. UNCHANGED <<avisadas, enCurso, hilo, fallos, cortada>>
      BY <1>3, VentanaEfecto DEF Ventana, Trabajando
    <2>2. CASE UNCHANGED <<peticiones, pedidas>>
      BY <1>0c, <1>0d, <1>1, <1>2, <2>1, <2>2 DEF N
    <2>3. CASE /\ pedidas < MaxPeticiones /\ pedidas' = pedidas + 1
               /\ \E c \in Clases : peticiones' = Append(peticiones, [k |-> pedidas + 1, clase |-> c])
      <3>1. PICK c \in Clases : peticiones' = Append(peticiones, [k |-> pedidas + 1, clase |-> c])
        BY <2>3
      <3>2. [k |-> pedidas + 1, clase |-> c] \in [k : Nat, clase : Clases]
        BY <1>0
      <3>3. Len(peticiones') = Len(peticiones) + 1
        BY <1>0, <3>1, <3>2, Agregar
      <3>4. pedidas' - Len(peticiones') = N
        BY <1>0, <2>3, <3>3 DEF N
      <3> QED  BY <1>0c, <1>0d, <1>1, <1>2, <2>1, <3>4
    <2> QED  BY <1>3, <2>2, <2>3, VentanaEfecto DEF Ventana
  <1>4. CASE Servidor
    <2>1. UNCHANGED <<pedidas, peticiones, avisadas, enCurso, hilo>>
          /\ fallos' \in {fallos, fallos + 1}
      BY <1>4, ServidorEfecto DEF Servidor, Trabajando
    <2>2. cortada' = cortada \/ (cortada' = TRUE /\ fallos' = fallos + 1)
      BY <1>4 DEF Servidor, Genera, Difunde, Suscribe, Responde, Corta, canal
    <2>3. Luego \subseteq Antes
      BY <1>2, <2>1 DEF N
    <2>4. cortada' \in BOOLEAN /\ fallos' \in Nat /\ fallos' >= fallos
      <3>1. fallos' \in Nat /\ fallos' >= fallos
        BY <1>0c, <2>1
      <3>2. cortada' \in BOOLEAN
        BY <1>0d, <2>2
      <3> QED  BY <3>1, <3>2
    <2> QED  BY <1>1, <2>1, <2>2, <2>3, <2>4
  <1>5. CASE Cierra
    <2>1. /\ UNCHANGED <<pedidas, peticiones, avisadas>> /\ cortada' = FALSE /\ hilo # "muerto"
          /\ hilo' \in {"espera", "fin"}
          /\ \/ enCurso' = 0 /\ fallos' = fallos /\ (cortada \/ ~Rechazable(hilo))
             \/ enCurso' = 0 /\ fallos' = fallos + 1
             \/ hilo \notin Comandos /\ enCurso' = enCurso /\ fallos' \in {fallos, fallos + 1}
      BY <1>5, CierraEfecto DEF Otras
    <2>2. fallos' \in Nat /\ fallos' >= fallos
      BY <1>0c, <2>1
    <2>3. CASE Luego \subseteq Antes
      BY <1>1, <2>1, <2>2, <2>3
    <2>4. CASE enCurso' = enCurso
      <3>1. Luego \subseteq Antes
        BY <1>2, <2>1, <2>4 DEF N
      <3> QED  BY <2>3, <3>1
    <2>5. CASE enCurso' = 0 /\ (fallos' = fallos + 1 \/ cortada)
      <3>1. Luego \subseteq Antes \cup {enCurso}
        BY <1>0a, <2>1, <2>5 DEF N
      <3>2. Cardinality(Luego) \in Nat /\ Cardinality(Luego) <= Cardinality(Antes) + 1
        BY <1>0h, <3>1
      <3>3. Uno(cortada') = 0 /\ Uno(hilo = "muerto") = 0 /\ Uno(hilo' = "muerto") = 0
        BY <1>0g, <2>1
      <3>4. Uno(cortada) \in {0, 1} /\ (cortada => Uno(cortada) = 1)
        BY <1>0d, <1>0g
      <3>5. Cardinality(Luego) <= fallos'
        BY <1>0c, <1>0e, <1>0h, <2>1, <2>5, <3>2, <3>3, <3>4
      <3> QED  BY <1>0f, <2>2, <3>2, <3>3, <3>5
    <2>6. CASE enCurso' = 0 /\ ~Rechazable(hilo)
      <3>1. enCurso = 0
        BY <1>0i, <2>6 DEF Rechazable
      <3> QED  BY <2>4, <2>6, <3>1
    <2> QED  BY <2>1, <2>4, <2>5, <2>6
  <1>6. ASSUME UNCHANGED <<pedidas, peticiones, avisadas, fallos, cortada>>, enCurso = 0,
               enCurso' = 0, hilo # "muerto", hilo' # "muerto"
        PROVE  PerdidasInv'
    <2>1. Luego \subseteq Antes
      BY <1>2, <1>6 DEF N
    <2> QED  BY <1>0c, <1>0d, <1>1, <1>6, <2>1
  <1>7. CASE (Ciclo \/ Reintentar) /\ activo
    BY <1>0i, <1>6, <1>7, SigueEfecto DEF Otras
  <1>8. CASE Conectar
    BY <1>0i, <1>6, <1>8, ConectarEfecto DEF Otras
  <1>9. CASE LeeAlerta
    <2>1. UNCHANGED <<pedidas, peticiones, avisadas, fallos, cortada, enCurso, hilo>>
      BY <1>9, LeeAlertaEfecto DEF Otras
    <2> QED  BY <1>0c, <1>0d, <1>1, <1>2, <2>1 DEF N
  <1>10. CASE LeeRespuesta
    <2>1. /\ UNCHANGED <<pedidas, peticiones, fallos, cortada>> /\ enCurso' = 0
          /\ hilo \in Comandos /\ hilo' = Siguiente[hilo]
          /\ avisadas' = IF hilo = "SET_THRESHOLD" THEN avisadas \cup {enCurso} ELSE avisadas
      BY <1>10, LeeRespuestaEfecto DEF Otras
    <2>2. hilo # "muerto" /\ hilo' # "muerto"
      BY <2>1, SiguienteDe DEF Comandos, Apertura, Ronda
    <2>3. CASE hilo = "SET_THRESHOLD"
      <3>1. Luego \subseteq Antes
        BY <1>0a, <2>1, <2>3 DEF N
      <3> QED  BY <1>0c, <1>0d, <1>1, <2>1, <2>2, <3>1
    <2>4. CASE hilo # "SET_THRESHOLD"
      BY <1>0i, <1>6, <2>1, <2>2, <2>4
    <2> QED  BY <2>3, <2>4
  <1>11. CASE AtenderPeticiones
    <2>1. UNCHANGED <<pedidas, avisadas, fallos, cortada>> /\ hilo = "peticiones" /\ enCurso = 0
      BY <1>0i, <1>11, AtenderEfecto DEF Otras
    <2>2. CASE peticiones' = peticiones /\ hilo' = "LIST_NODES" /\ enCurso' = 0
      BY <1>6, <2>1, <2>2
    <2>3. CASE peticiones # <<>> /\ peticiones' = Tail(peticiones)
               /\ \/ hilo' = "SET_THRESHOLD" /\ enCurso' = Head(peticiones).k
                  \/ hilo' = "muerto" /\ UNCHANGED enCurso
      <3>1. /\ pedidas' - Len(peticiones') = N + 1
            /\ Head(peticiones).k = N + 1
        <4>1. Len(Tail(peticiones)) = Len(peticiones) - 1
          BY <1>0, <2>3, Primero
        <4> QED  BY <1>0, <2>1, <2>3, <4>1, CabezaDeCola DEF N
      <3>2. 1..(N + 1) = (1..N) \cup {N + 1}
        BY <1>0b
      <3>3. Luego = P(N + 1, avisadas, enCurso')
        BY <1>0a, <2>1, <3>1
      <3>4. CASE hilo' = "SET_THRESHOLD" /\ enCurso' = Head(peticiones).k
        <4>1. \A k \in 1..N : k # 0
          OBVIOUS
        <4>2. Luego \subseteq Antes
          BY <1>0a, <2>1, <3>1, <3>2, <3>3, <3>4, <4>1
        <4> QED  BY <1>0c, <1>0d, <1>1, <2>1, <3>4, <4>2
      <3>5. CASE hilo' = "muerto" /\ UNCHANGED enCurso
        <4>1. Luego \subseteq Antes \cup {N + 1}
          BY <1>0a, <3>2, <3>3, <3>5
        <4>2. Cardinality(Luego) \in Nat /\ Cardinality(Luego) <= Cardinality(Antes) + 1
          BY <1>0h, <4>1
        <4>3. Uno(hilo = "muerto") = 0 /\ Uno(hilo' = "muerto") = 1 /\ Uno(cortada') = Uno(cortada)
              /\ Uno(cortada) \in {0, 1}
          BY <1>0d, <1>0g, <2>1, <3>5
        <4> QED  BY <1>0c, <1>0e, <1>0f, <1>0h, <2>1, <4>2, <4>3
      <3> QED  BY <2>3, <3>4, <3>5
    <2> QED  BY <1>11, <2>2, <2>3, AtenderEfecto
  <1>12. CASE UNCHANGED vars
    <2>1. UNCHANGED <<pedidas, peticiones, avisadas, fallos, cortada, enCurso, hilo>>
      BY <1>12 DEF vars
    <2> QED  BY <1>0c, <1>0d, <1>1, <1>2, <2>1 DEF N
  <1> QED
    BY <1>3, <1>4, <1>5, <1>7, <1>8, <1>9, <1>10, <1>11, <1>12, Pasos

-----------------------------------------------------------------------------
LEMMA Inicio ==
    ASSUME Init
    PROVE  IInv
  <1> USE DEF Init
  <1>0. MaxFallos \in Nat /\ MaxPeticiones \in Nat /\ MaxAlertas \in Nat
    BY GuiAssumption
  <1>1. DOMAIN red = {} /\ DOMAIN peticiones = {} /\ Len(peticiones) = 0 /\ 1..0 = {}
    OBVIOUS
  <1>2. TipoInv
    <2>1. 0 \in 0..MaxFallos /\ 0 \in 0..(MaxFallos + 1)
      BY <1>0
    <2> QED  BY <2>1 DEF TipoInv
  <1>3. TipoCanal
    BY DEF TipoCanal
  <1>4. AlertasInv
    BY <1>0, <1>1 DEF AlertasInv
  <1>5. ColaInv
    BY <1>0, <1>1 DEF ColaInv
  <1>6. ConexionInv
    BY DEF ConexionInv, Conectado, Comandos, Apertura, Ronda
  <1>7. CanalInv
    BY <1>1 DEF CanalInv
  <1>8. RespuestaCorresponde
    BY DEF RespuestaCorresponde
  <1>9. PerdidasInv
    <2>1. Perdidas = {}
      BY <1>1 DEF Perdidas
    <2>2. Cardinality(Perdidas) = 0
      BY <2>1, FS_EmptySet
    <2>3. Uno(cortada) = 0 /\ Uno(hilo = "muerto") = 0
      BY DEF Uno
    <2> QED  BY <2>2, <2>3 DEF PerdidasInv
  <1> QED  BY <1>2, <1>3, <1>4, <1>5, <1>6, <1>7, <1>8, <1>9 DEF IInv

LEMMA InvarianteSiempre == Spec => []IInv
  <1>1. Init => IInv
    BY Inicio
  <1>2. IInv /\ [Next]_vars => IInv'
    BY TipoPaso, TipoCanalPaso, AlertasPaso, ColaPaso, ConexionPaso, CanalPaso, PerdidasPaso
    DEF IInv
  <1> QED  BY <1>1, <1>2, PTL DEF Spec

(* A petition of the queue is one of those the user made that are left to serve. *)
LEMMA PerdidasSon ==
    ASSUME ColaInv
    PROVE  Perdidas = {k \in 1..pedidas :
                       /\ k \notin avisadas \cup {enCurso}
                       /\ \A i \in DOMAIN peticiones : peticiones[i].k # k}
  <1> DEFINE n == Len(peticiones)
  <1>1. /\ pedidas \in Nat /\ n \in Nat /\ n <= pedidas /\ DOMAIN peticiones = 1..n
        /\ \A i \in 1..n : peticiones[i].k = pedidas - n + i
    <2>1. MaxPeticiones \in Nat /\ pedidas \in 0..MaxPeticiones
      BY GuiAssumption DEF ColaInv
    <2>2. peticiones \in Seq([k : Nat, clase : Clases])
      BY DEF ColaInv
    <2>3. n \in Nat /\ DOMAIN peticiones = 1..n
      BY <2>2
    <2> QED  BY <2>1, <2>3 DEF ColaInv
  <1> HIDE DEF n
  <1>2. ASSUME NEW k \in 1..pedidas
        PROVE  k \in 1..(pedidas - n) <=> \A i \in 1..n : peticiones[i].k # k
    <2>1. CASE k \in 1..(pedidas - n)
      <3>1. \A i \in 1..n : pedidas - n + i # k
        BY <1>1, <2>1
      <3> QED  BY <1>1, <2>1, <3>1
    <2>2. CASE k \notin 1..(pedidas - n)
      <3>1. k + n - pedidas \in 1..n /\ pedidas - n + (k + n - pedidas) = k
        BY <1>1, <2>2
      <3>2. peticiones[k + n - pedidas].k = k
        BY <1>1, <3>1
      <3> QED  BY <2>2, <3>1, <3>2
    <2> QED  BY <2>1, <2>2
  <1>3. 1..(pedidas - n) \subseteq 1..pedidas
    BY <1>1
  <1>4. Perdidas = {k \in 1..(pedidas - n) : k \notin avisadas \cup {enCurso}}
    BY DEF Perdidas, n
  <1> QED  BY <1>1, <1>2, <1>3, <1>4

LEMMA EsTipo ==
    ASSUME IInv
    PROVE  TypeOK
  <1>1. /\ MaxPeticiones \in Nat /\ MaxAlertas \in Nat
        /\ pedidas \in 0..MaxPeticiones /\ enCurso \in 0..pedidas /\ avisadas \subseteq 1..pedidas
    BY GuiAssumption DEF IInv, ColaInv
  <1>2. \A i \in DOMAIN peticiones :
          peticiones[i] \in [k : {pedidas - Len(peticiones) + i}, clase : Clases]
    <2>1. /\ peticiones \in Seq([k : Nat, clase : Clases])
          /\ \A i \in DOMAIN peticiones : peticiones[i].k = pedidas - Len(peticiones) + i
      BY DEF IInv, ColaInv
    <2> DEFINE R == [k : Nat, clase : Clases]
    <2>2. \A i \in DOMAIN peticiones : peticiones[i] \in R
      <3>1. peticiones \in Seq(R)
        BY <2>1
      <3> HIDE DEF R
      <3> QED  BY <3>1
    <2> QED  BY <2>1, <2>2
  <1>3. /\ \A i \in DOMAIN pendientes : pendientes[i] \in Peticiones
        /\ \A i \in DOMAIN red : red[i] \in Lineas
    <2>1. pendientes \in Seq(Peticiones) /\ red \in Seq(Lineas)
      BY DEF IInv, TipoCanal
    <2>2. \A i \in DOMAIN pendientes : pendientes[i] \in Peticiones
      BY <2>1
    <2>3. \A i \in DOMAIN red : red[i] \in Lineas
      BY <2>1
    <2> QED  BY <2>2, <2>3 DEF IInv, TipoCanal
  <1>4. \A p \in Peticiones : EsPeticion(p)
    BY DEF Peticiones, EsPeticion
  <1>5. /\ \A i \in DOMAIN pendientes : EsPeticion(pendientes[i])
        /\ \A i \in DOMAIN red : red[i].tipo \in {"OK", "ERR", "ALERT"} /\ EsPeticion(red[i].de)
    <2>1. \A l \in Lineas : l.tipo \in {"OK", "ERR", "ALERT"} /\ l.de \in Peticiones
      BY DEF Lineas
    <2> QED  BY <1>3, <1>4, <2>1
  <1>6. /\ vivas \subseteq 1..difundidas /\ tabla \subseteq 1..generadas
        /\ difundidas \in 0..generadas /\ generadas \in 0..MaxAlertas
        /\ \A i \in DOMAIN red : red[i].alertas \subseteq 1..generadas
        /\ cruzada = FALSE
    BY DEF IInv, AlertasInv, RespuestaCorresponde
  <1>7. TipoInv
    BY DEF IInv
  <1>8. /\ hilo \in Comandos \cup {"conectar", "ciclo", "peticiones", "espera", "fin", "muerto"}
        /\ activo \in BOOLEAN /\ seleccion \in BOOLEAN
        /\ conexion \in 0..MaxFallos + 1 /\ abiertas \subseteq 1..MaxFallos + 1
        /\ estado \in {"conectando", "conectado", "sin conexion"}
        /\ cortada \in BOOLEAN /\ suscrita \in BOOLEAN /\ fallos \in 0..MaxFallos
    BY <1>7 DEF TipoInv
  <1> QED  BY <1>1, <1>2, <1>5, <1>6, <1>8 DEF TypeOK

-----------------------------------------------------------------------------
(* Every answer the worker takes is the one to the request it waits for,    *)
(* whatever time outs, errors and cuts came before: leer_respuesta, comando *)
(* and the handler of _bucle.                                               *)
THEOREM SiempreRespuestaCorresponde == Spec => []RespuestaCorresponde
  <1>1. IInv => RespuestaCorresponde
    BY DEF IInv
  <1> QED  BY <1>1, InvarianteSiempre, PTL

(* However many attempts failed, the only open connection is the one in use: *)
(* _cerrar comes before the next _conectar on every path.                   *)
THEOREM SiempreSinConexionesOlvidadas == Spec => []SinConexionesOlvidadas
  <1>1. IInv => SinConexionesOlvidadas
    BY DEF IInv, ConexionInv, SinConexionesOlvidadas
  <1> QED  BY <1>1, InvarianteSiempre, PTL

(* The window that says "conectado" has a connection with alerts, or one    *)
(* whose loss the worker is about to notice.                                *)
THEOREM SiempreVentanaAlDia == Spec => []VentanaAlDia
  <1>1. IInv => VentanaAlDia
    BY DEF IInv, ConexionInv, VentanaAlDia
  <1> QED  BY <1>1, InvarianteSiempre, PTL

(* The petitions neither shown, nor in service, nor in the queue are no more *)
(* than the failures, plus the one that killed the worker: codificar in     *)
(* _atender_peticiones, after get_nowait.                                   *)
THEOREM SiempreUnaPeticionPorFallo == Spec => []UnaPeticionPorFallo
  <1>1. IInv => UnaPeticionPorFallo
    <2> SUFFICES ASSUME IInv PROVE UnaPeticionPorFallo
      OBVIOUS
    <2>1. TypeOK
      BY EsTipo
    <2>2. ColaInv /\ PerdidasInv /\ TipoInv
      BY DEF IInv
    <2>3. cortada \in BOOLEAN
      BY <2>2 DEF TipoInv
    <2>4. fallos \in Nat
      <3>1. MaxFallos \in Nat /\ fallos \in 0..MaxFallos
        BY <2>2, GuiAssumption DEF TipoInv
      <3> QED  BY <3>1
    <2>5. Cardinality(Perdidas) \in Nat
      <3>1. pedidas - Len(peticiones) \in Nat
        <4>1. MaxPeticiones \in Nat /\ pedidas \in 0..MaxPeticiones /\ Len(peticiones) <= pedidas
          BY <2>2, GuiAssumption DEF ColaInv
        <4>2. peticiones \in Seq([k : Nat, clase : Clases])
          BY <2>2 DEF ColaInv
        <4>3. Len(peticiones) \in Nat
          BY <4>2
        <4> QED  BY <4>1, <4>3
      <3>2. Perdidas \subseteq 1..(pedidas - Len(peticiones))
        BY DEF Perdidas
      <3> QED  BY <3>1, <3>2, UnaMas
    <2>6. Uno(cortada) \in {0, 1} /\ Uno(hilo = "muerto") \in {0, 1}
      BY <2>3 DEF Uno
    <2>7. Cardinality(Perdidas) <= fallos + Uno(hilo = "muerto")
      BY <2>2, <2>4, <2>5, <2>6 DEF PerdidasInv
    <2> QED  BY <2>1, <2>2, <2>7, PerdidasSon DEF UnaPeticionPorFallo, Uno
  <1> QED  BY <1>1, InvarianteSiempre, PTL
=============================================================================
