----------------------- MODULE ClientProgramsProofs ------------------------
(***************************************************************************)
(* Theorems about two programs of clients/: the session of operator_cli.py  *)
(* (OperatorClient), for any number of commands, rows and alerts, and the   *)
(* stop of run_nodes.py (NodeLauncher), for any number of nodes and of      *)
(* signals.                                                                 *)
(***************************************************************************)
EXTENDS OperatorClient, NodeLauncher, TLAPS

-----------------------------------------------------------------------------
(* operator_cli.py: the sequences of a session.                             *)

Comandos == Simples \cup Multiples
Lineas == [tipo : Tipos, de : Nat, n : 0..MaxFilas]
Peticiones == [k : 1..MaxPedidos + 1, comando : Comandos \cup {"BYE"}]

(* Besides ClienteTypeOK: the sequences are of their types, and no line of   *)
(* the network is the mark of the reader.                                   *)
SecuenciasInv ==
    /\ cola \in Seq(Lineas) /\ leidas \in Seq(Lineas) /\ red \in Seq(Lineas)
    /\ \A i \in DOMAIN red : red[i].tipo # "None"
    /\ pendientes \in Seq(Peticiones)
    /\ mostrados \in Seq(Nat)

EnServicio == principal \in {"inicio", "prompt", "cabecera", "filas"}

(* Until the session ends, the reader stops only when the connection is      *)
(* closed and every line of it was taken.                                   *)
CierreInv ==
    /\ EnServicio => activo
    /\ EnServicio /\ lector = "fin" => cerrado /\ red = <<>>
    /\ principal = "inicio" => pedidos = 0

(* The ALERTs on their way are newer than those shown, oldest first; while   *)
(* the connection is open those shown and those on their way are all.       *)
AvisosInv ==
    /\ Len(mostrados) <= empujados
    /\ \A i \in AvisosEnRed : red[i].de \in Len(mostrados) + 1..empujados
    /\ \A i, j \in AvisosEnRed : i < j => red[i].de < red[j].de
    /\ ~cerrado /\ principal \notin {"bye", "fin"} =>
        /\ \A i \in DOMAIN mostrados : mostrados[i] = i
        /\ \A k \in Len(mostrados) + 1..empujados : \E i \in AvisosEnRed : red[i].de = k

(* What a whole answer to request k is. *)
EsRespuesta(r, k) ==
    /\ r \in Seq(Lineas) /\ Len(r) >= 1
    /\ \A i \in DOMAIN r : r[i].de = k /\ r[i].tipo \notin {"ALERT", "None"}
    /\ \/ Len(r) = 1 /\ r[1].tipo \in {"OK", "ERR"} /\ r[1].n = 0
       \/ /\ r[1].tipo = "OK*" /\ Len(r) = r[1].n + 2
          /\ r[Len(r)].tipo = "END"
          /\ \A i \in 2..Len(r) - 1 : r[i].tipo = "FILA"

(* Nothing but ALERTs is on its way, and no line waits in the queue. *)
SinLineas ==
    /\ \A i \in DOMAIN cola : cola[i] = Perdida
    /\ \A i \in DOMAIN red : EsAviso(red[i])

(* What is left of answer r: its first lines were taken by leer_respuesta,   *)
(* the next are in the queue and the rest, in one piece, on their way, after *)
(* a ALERTs; before the rest of r is taken a can only be 0.                 *)
EnCamino(r, a) ==
    LET dadas == Len(leidas) + Len(cola) IN
    /\ a <= Len(red)
    /\ Len(leidas) < Len(r) /\ \A i \in DOMAIN leidas : leidas[i] = r[i]
    /\ principal = "cabecera" => leidas = <<>>
    /\ principal = "filas" => leidas # <<>> /\ r[1].tipo = "OK*"
    /\ \A i \in DOMAIN cola :
          \/ cola[i] = Perdida
          \/ Len(leidas) + i <= Len(r) /\ cola[i] = r[Len(leidas) + i]
    /\ \A i \in DOMAIN red : i <= a => EsAviso(red[i])
    /\ \A i \in DOMAIN red : i > a =>
          IF dadas + (i - a) <= Len(r) THEN red[i] = r[dadas + (i - a)] ELSE EsAviso(red[i])
    /\ dadas > 0 => a = 0
    /\ ~cerrado => dadas + (Len(red) - a) >= Len(r)

(* While no wait was given up there is at most one request in the air: it is *)
(* the server's, or its answer is on its way.                               *)
FlujoInv ==
    tardanzas = 0 =>
        /\ principal \in {"inicio", "prompt"} => pendientes = <<>> /\ SinLineas
        /\ Esperando =>
            \/ /\ \E c \in Comandos : pendientes = <<[k |-> pedidos, comando |-> c]>>
               /\ principal = "cabecera" /\ leidas = <<>> /\ SinLineas
            \/ /\ pendientes = <<>>
               /\ \E r \in Seq(Lineas), a \in Nat : EsRespuesta(r, pedidos) /\ EnCamino(r, a)

ClienteInv ==
    /\ ClienteTypeOK /\ SecuenciasInv /\ CierreInv /\ AvisosInv /\ FlujoInv
    /\ RespuestaCorresponde

-----------------------------------------------------------------------------
(* Sequences. *)

LEMMA Quita ==
    ASSUME NEW S, NEW s \in Seq(S), s # <<>>
    PROVE  /\ Len(s) \in Nat \ {0} /\ Head(s) = s[1] /\ Head(s) \in S
           /\ Tail(s) \in Seq(S) /\ Len(Tail(s)) = Len(s) - 1
           /\ DOMAIN s = 1..Len(s) /\ DOMAIN Tail(s) = 1..Len(s) - 1
           /\ \A i \in DOMAIN Tail(s) : /\ i \in Nat /\ i >= 1 /\ i + 1 \in DOMAIN s
                                        /\ Tail(s)[i] = s[i + 1]
  OBVIOUS

LEMMA Pone ==
    ASSUME NEW S, NEW s \in Seq(S), NEW e \in S
    PROVE  /\ Append(s, e) \in Seq(S) /\ Len(Append(s, e)) = Len(s) + 1 /\ Len(s) \in Nat
           /\ DOMAIN s = 1..Len(s) /\ DOMAIN Append(s, e) = 1..Len(s) + 1
           /\ \A i \in DOMAIN s : Append(s, e)[i] = s[i] /\ i \in DOMAIN Append(s, e)
           /\ Append(s, e)[Len(s) + 1] = e
  OBVIOUS

LEMMA Une ==
    ASSUME NEW S, NEW s \in Seq(S), NEW t \in Seq(S)
    PROVE  /\ s \o t \in Seq(S) /\ Len(s \o t) = Len(s) + Len(t)
           /\ Len(s) \in Nat /\ Len(t) \in Nat
           /\ DOMAIN s = 1..Len(s) /\ DOMAIN t = 1..Len(t)
           /\ DOMAIN (s \o t) = 1..Len(s) + Len(t)
           /\ \A i \in DOMAIN s : (s \o t)[i] = s[i]
           /\ \A i \in DOMAIN (s \o t) : i > Len(s) => (s \o t)[i] = t[i - Len(s)]
                                                      /\ i - Len(s) \in DOMAIN t
  OBVIOUS

(* The answers the server gives. *)
LEMMA LineaTipo ==
    ASSUME NEW t \in Tipos, NEW k \in Nat, NEW n \in 0..MaxFilas
    PROVE  Linea(t, k, n) \in Lineas
  BY DEF Linea, Lineas

LEMMA MultipleTipo ==
    ASSUME NEW k \in Nat, NEW n \in 0..MaxFilas
    PROVE  EsRespuesta(Multiple(k, n), k)
  <1>0. MaxFilas \in Nat /\ n \in Nat /\ 0 \in 0..MaxFilas
    BY ClientAssumption
  <1>1. Linea("OK*", k, n) \in Lineas /\ Linea("FILA", k, 0) \in Lineas /\ Linea("END", k, 0) \in Lineas
    BY <1>0, LineaTipo DEF Tipos
  <1> DEFINE r == Multiple(k, n)
  <1>2. r \in [1..n + 2 -> Lineas]
    BY <1>1 DEF Multiple
  <1>3. r[1] = Linea("OK*", k, n) /\ r[n + 2] = Linea("END", k, 0)
    BY <1>0 DEF Multiple
  <1>4. \A i \in 2..n + 1 : r[i] = Linea("FILA", k, 0)
    BY <1>0 DEF Multiple
  <1> HIDE DEF r
  <1>5. r \in Seq(Lineas) /\ Len(r) = n + 2 /\ DOMAIN r = 1..n + 2
    BY <1>0, <1>2
  <1>6. \A i \in DOMAIN r : r[i].de = k /\ r[i].tipo \notin {"ALERT", "None"}
    <2>1. TAKE i \in DOMAIN r
    <2>2. i = 1 \/ i \in 2..n + 1 \/ i = n + 2
      BY <1>0, <1>5
    <2> QED  BY <1>3, <1>4, <2>2 DEF Linea
  <1>7. /\ r[1].tipo = "OK*" /\ r[1].n = n /\ r[n + 2].tipo = "END"
        /\ \A i \in 2..n + 1 : r[i].tipo = "FILA"
    BY <1>3, <1>4 DEF Linea
  <1> QED  BY <1>0, <1>5, <1>6, <1>7 DEF EsRespuesta, r

LEMMA RespuestasSon ==
    ASSUME NEW p \in Peticiones, NEW r \in Respuestas(p)
    PROVE  EsRespuesta(r, p.k)
  <1>0. p.k \in Nat /\ 0 \in 0..MaxFilas
    BY ClientAssumption DEF Peticiones
  <1>1. ASSUME NEW t \in {"OK", "ERR"}, r = <<Linea(t, p.k, 0)>>
        PROVE  EsRespuesta(r, p.k)
    <2>1. Linea(t, p.k, 0) \in Lineas
      BY <1>0, LineaTipo DEF Tipos
    <2>2. r \in Seq(Lineas) /\ Len(r) = 1 /\ DOMAIN r = {1} /\ r[1] = Linea(t, p.k, 0)
      BY <1>1, <2>1
    <2> QED  BY <1>1, <2>2 DEF EsRespuesta, Linea
  <1>2. ASSUME NEW n \in 0..MaxFilas,
               r = Multiple(p.k, n)
        PROVE  EsRespuesta(r, p.k)
    BY <1>0, <1>2, MultipleTipo
  <1> QED  BY <1>1, <1>2 DEF Respuestas

-----------------------------------------------------------------------------
LEMMA Basico ==
    ASSUME ClienteTypeOK, SecuenciasInv
    PROVE  /\ pedidos \in Nat /\ empujados \in Nat /\ tardanzas \in Nat
           /\ Len(cola) \in Nat /\ DOMAIN cola = 1..Len(cola)
           /\ Len(red) \in Nat /\ DOMAIN red = 1..Len(red)
           /\ Len(leidas) \in Nat /\ DOMAIN leidas = 1..Len(leidas)
           /\ Len(mostrados) \in Nat /\ DOMAIN mostrados = 1..Len(mostrados)
           /\ 0 \in 0..MaxFilas /\ Perdida \in Lineas
  <1>1. 0 \in 0..MaxFilas
    BY ClientAssumption
  <1>2. Perdida \in Lineas
    BY <1>1, LineaTipo DEF Perdida, Tipos
  <1>3. pedidos \in Nat /\ empujados \in Nat /\ tardanzas \in Nat
    BY ClientAssumption DEF ClienteTypeOK
  <1> QED  BY <1>1, <1>2, <1>3 DEF SecuenciasInv

(* While the session is in service the mark is in the queue only if the      *)
(* connection is closed and empty.                                          *)
LEMMA MarcaCierra ==
    ASSUME ClienteTypeOK, CierreInv, EnServicio, NEW i \in DOMAIN cola, cola[i] = Perdida
    PROVE  cerrado /\ red = <<>> /\ i = Len(cola) /\ lector = "fin"
  BY DEF ClienteTypeOK, CierreInv

(* A command that is sent. *)
LEMMA ComandoEs ==
    ASSUME ClienteTypeOK, CierreInv,
           Abrir \/ \E c \in Comandos : Pedir(c)
    PROVE  /\ principal \in {"inicio", "prompt"} /\ EnServicio
           /\ pedidos' = pedidos + 1 /\ pedidos' \in 1..MaxPedidos
           /\ UNCHANGED <<lector, activo, cola, red, cerrado, suscrita, empujados, mostrados,
                          tardanzas, entregada>>
           /\ \/ \E c \in Comandos : /\ principal' = "cabecera" /\ leidas' = <<>>
                                     /\ [k |-> pedidos', comando |-> c] \in Peticiones
                                     /\ pendientes' = Append(pendientes,
                                                             [k |-> pedidos', comando |-> c])
              \/ /\ cerrado /\ principal' \in {"fin", "cerrando"}
                 /\ UNCHANGED <<leidas, pendientes>>
  <1>0. MaxPedidos \in Nat \ {0} /\ "HELLO" \in Comandos /\ pedidos \in Nat
    BY ClientAssumption DEF Comandos, ClienteTypeOK
  <1>1. PICK c \in Comandos : /\ Comando(c)
                             /\ principal \in {"inicio", "prompt"} /\ pedidos < MaxPedidos
    <2>1. CASE Abrir
      BY <1>0, <2>1 DEF Abrir, CierreInv
    <2>2. CASE \E c \in Comandos : Pedir(c)
      BY <2>2 DEF Pedir
    <2> QED  BY <2>1, <2>2
  <1>2. pedidos' = pedidos + 1 /\ pedidos' \in 1..MaxPedidos
    BY <1>0, <1>1 DEF Comando
  <1>3. [k |-> pedidos', comando |-> c] \in Peticiones
    BY <1>0, <1>2 DEF Peticiones
  <1>4. TrasPerder(pedidos') \in {"fin", "cerrando"}
    BY DEF TrasPerder
  <1> QED  BY <1>1, <1>2, <1>3, <1>4 DEF Comando, EnServicio

LEMMA SecuenciasSiguen ==
    ASSUME ClienteTypeOK, SecuenciasInv, CierreInv, [ClienteNext]_clienteVars
    PROVE  SecuenciasInv'
  <1>0. /\ cola \in Seq(Lineas) /\ leidas \in Seq(Lineas) /\ red \in Seq(Lineas)
        /\ \A i \in DOMAIN red : red[i].tipo # "None"
        /\ pendientes \in Seq(Peticiones) /\ mostrados \in Seq(Nat)
    BY DEF SecuenciasInv
  <1>b. /\ Len(red) \in Nat /\ DOMAIN red = 1..Len(red) /\ empujados \in Nat
        /\ 0 \in 0..MaxFilas /\ Perdida \in Lineas /\ pedidos \in Nat
    BY Basico
  <1>t. red # <<>> => /\ Tail(red) \in Seq(Lineas) /\ Head(red) \in Lineas /\ Head(red).de \in Nat
                      /\ \A i \in DOMAIN Tail(red) : Tail(red)[i].tipo # "None"
    <2>1. SUFFICES ASSUME red # <<>>
                   PROVE  /\ Tail(red) \in Seq(Lineas) /\ Head(red) \in Lineas
                          /\ Head(red).de \in Nat
                          /\ \A i \in DOMAIN Tail(red) : Tail(red)[i].tipo # "None"
      OBVIOUS
    <2>2. /\ Head(red) \in Lineas /\ Tail(red) \in Seq(Lineas)
          /\ \A i \in DOMAIN Tail(red) : i + 1 \in DOMAIN red /\ Tail(red)[i] = red[i + 1]
      BY <1>0, <2>1, Quita
    <2> QED  BY <1>0, <2>2 DEF Lineas
  <1>1. CASE Responde
    <2>1. PICK r \in Respuestas(Head(pendientes)) : red' = red \o r
      BY <1>1 DEF Responde
    <2>2. Head(pendientes) \in Peticiones /\ Tail(pendientes) \in Seq(Peticiones)
      BY <1>0, <1>1, Quita DEF Responde
    <2>3. r \in Seq(Lineas) /\ \A i \in DOMAIN r : r[i].tipo # "None"
      BY <2>2, RespuestasSon DEF EsRespuesta
    <2>4. /\ red \o r \in Seq(Lineas)
          /\ \A i \in DOMAIN (red \o r) : (red \o r)[i].tipo # "None"
      <3>1. /\ red \o r \in Seq(Lineas) /\ DOMAIN (red \o r) = 1..Len(red) + Len(r)
            /\ \A i \in DOMAIN red : (red \o r)[i] = red[i]
            /\ \A i \in DOMAIN (red \o r) : i > Len(red) => (red \o r)[i] = r[i - Len(red)]
                                                        /\ i - Len(red) \in DOMAIN r
        BY <1>0, <2>3, Une
      <3>2. \A i \in DOMAIN (red \o r) : i \in DOMAIN red \/ i > Len(red)
        BY <1>b, <3>1
      <3> QED  BY <1>0, <2>3, <3>1, <3>2
    <2> QED  BY <1>0, <1>1, <2>1, <2>2, <2>4 DEF Responde, SecuenciasInv, cliente
  <1>2. CASE Empuja
    <2>1. Linea("ALERT", empujados', 0) \in Lineas
      BY <1>b, <1>2, LineaTipo DEF Empuja, Tipos
    <2> DEFINE l == Linea("ALERT", empujados', 0)
    <2>2. l.tipo # "None"
      BY DEF Linea
    <2> HIDE DEF l
    <2>3. /\ Append(red, l) \in Seq(Lineas)
          /\ \A i \in DOMAIN Append(red, l) : Append(red, l)[i].tipo # "None"
      BY <1>0, <1>b, <2>1, <2>2 DEF l
    <2>4. red' = Append(red, l)
      BY <1>2 DEF Empuja, l
    <2> QED  BY <1>0, <1>2, <2>3, <2>4 DEF Empuja, SecuenciasInv, cliente
  <1>3. CASE Corta
    <2>1. <<>> \in Seq(Lineas) /\ DOMAIN <<>> = {}
      OBVIOUS
    <2>2. red' \in Seq(Lineas) /\ \A i \in DOMAIN red' : red'[i].tipo # "None"
      <3>1. CASE red' = red
        BY <1>0, <3>1
      <3>2. CASE red' = <<>>
        BY <2>1, <3>2
      <3> QED  BY <1>3, <3>1, <3>2 DEF Corta
    <2> QED  BY <1>0, <1>3, <2>2 DEF Corta, SecuenciasInv, cliente
  <1>4. CASE LectorLee
    <2>1. Append(mostrados, Head(red).de) \in Seq(Nat) /\ Append(cola, Head(red)) \in Seq(Lineas)
      BY <1>0, <1>t, <1>4 DEF LectorLee
    <2> QED  BY <1>0, <1>t, <1>4, <2>1 DEF LectorLee, SecuenciasInv
  <1>5. CASE LectorVuelta
    BY <1>0, <1>5 DEF LectorVuelta, SecuenciasInv, servidor
  <1>6. CASE LectorFalla
    <2>1. cola \o TrasError.cola \in Seq(Lineas)
      BY <1>0, <1>b DEF TrasError
    <2> QED  BY <1>0, <1>6, <2>1 DEF LectorFalla, SecuenciasInv, servidor
  <1>7. CASE Abrir \/ \E c \in Comandos : Pedir(c)
    <2>1. \A p \in Peticiones : Append(pendientes, p) \in Seq(Peticiones)
      BY <1>0
    <2>2. <<>> \in Seq(Lineas)
      OBVIOUS
    <2> QED  BY <1>0, <1>7, <2>1, <2>2, ComandoEs DEF SecuenciasInv
  <1>8. CASE Salir
    BY <1>0, <1>8 DEF Salir, SecuenciasInv, servidor
  <1>9. CASE TomaLinea
    <2>1. Head(cola) \in Lineas /\ Tail(cola) \in Seq(Lineas)
      BY <1>0, <1>9, Quita DEF TomaLinea
    <2>2. Append(leidas, Head(cola)) \in Seq(Lineas)
      BY <1>0, <2>1
    <2> QED  BY <1>0, <1>9, <2>1, <2>2 DEF TomaLinea, SecuenciasInv, servidor
  <1>10. CASE Tardanza
    BY <1>0, <1>10 DEF Tardanza, SecuenciasInv, servidor
  <1>11. CASE Despedirse
    <2>1. pedidos + 1 \in 1..MaxPedidos + 1
      BY <1>b, ClientAssumption DEF ClienteTypeOK
    <2>2. [k |-> pedidos + 1, comando |-> "BYE"] \in Peticiones
      BY <2>1 DEF Peticiones
    <2>3. Append(pendientes, [k |-> pedidos + 1, comando |-> "BYE"]) \in Seq(Peticiones)
      BY <1>0, <2>2
    <2> QED  BY <1>0, <1>11, <2>3 DEF Despedirse, SecuenciasInv
  <1>12. CASE Cerrar
    BY <1>0, <1>t, <1>12 DEF Cerrar, SecuenciasInv
  <1>13. CASE UNCHANGED clienteVars
    BY <1>0, <1>13 DEF clienteVars, SecuenciasInv
  <1> QED  BY <1>1, <1>2, <1>3, <1>4, <1>5, <1>6, <1>7, <1>8, <1>9, <1>10, <1>11, <1>12, <1>13
           DEF ClienteNext, Comandos

LEMMA CierreSigue ==
    ASSUME ClienteTypeOK, SecuenciasInv, CierreInv, [ClienteNext]_clienteVars
    PROVE  CierreInv'
  <1>0. /\ EnServicio => activo
        /\ EnServicio /\ lector = "fin" => cerrado /\ red = <<>>
        /\ principal = "inicio" => pedidos = 0
    BY DEF CierreInv
  <1>1. CASE Responde
    <2>1. ~cerrado /\ UNCHANGED <<principal, lector, activo, pedidos>>
      BY <1>1 DEF Responde, cliente
    <2> QED  BY <1>0, <2>1 DEF CierreInv, EnServicio
  <1>2. CASE Empuja
    <2>1. ~cerrado /\ UNCHANGED <<principal, lector, activo, pedidos>>
      BY <1>2 DEF Empuja, cliente
    <2> QED  BY <1>0, <2>1 DEF CierreInv, EnServicio
  <1>3. CASE Corta
    <2>1. ~cerrado /\ UNCHANGED <<principal, lector, activo, pedidos>>
      BY <1>3 DEF Corta, cliente
    <2> QED  BY <1>0, <2>1 DEF CierreInv, EnServicio
  <1>4. CASE LectorLee
    BY <1>0, <1>4 DEF LectorLee, CierreInv, EnServicio
  <1>5. CASE LectorVuelta
    BY <1>0, <1>5 DEF LectorVuelta, CierreInv, EnServicio, servidor
  <1>6. CASE LectorFalla
    BY <1>0, <1>6 DEF LectorFalla, TrasError, CierreInv, EnServicio, servidor
  <1>7. CASE Abrir \/ \E c \in Comandos : Pedir(c)
    BY <1>0, <1>7, ComandoEs DEF CierreInv, EnServicio
  <1>8. CASE Salir
    BY <1>0, <1>8 DEF Salir, CierreInv, EnServicio, servidor
  <1>9. CASE TomaLinea
    <2>1. EnServicio /\ principal' # "inicio" /\ UNCHANGED <<lector, activo, cerrado, red>>
      BY <1>9 DEF TomaLinea, Esperando, EnServicio, TrasPerder, Entregar, servidor
    <2> QED  BY <1>0, <2>1 DEF CierreInv
  <1>10. CASE Tardanza
    BY <1>0, <1>10 DEF Tardanza, Esperando, CierreInv, EnServicio, servidor
  <1>11. CASE Despedirse
    BY <1>0, <1>11 DEF Despedirse, CierreInv, EnServicio
  <1>12. CASE Cerrar
    BY <1>0, <1>12 DEF Cerrar, CierreInv, EnServicio
  <1>13. CASE UNCHANGED clienteVars
    BY <1>0, <1>13 DEF clienteVars, CierreInv, EnServicio
  <1> QED  BY <1>1, <1>2, <1>3, <1>4, <1>5, <1>6, <1>7, <1>8, <1>9, <1>10, <1>11, <1>12, <1>13
           DEF ClienteNext, Comandos

(* The mark of the lost connection is the last line of the queue. *)
MarcaAlFinal == \A i \in DOMAIN cola : cola[i] = Perdida => i = Len(cola) /\ lector = "fin"

LEMMA MarcaSigue ==
    ASSUME ClienteTypeOK, SecuenciasInv, [ClienteNext]_clienteVars
    PROVE  MarcaAlFinal'
  <1>0. /\ \A i \in DOMAIN cola : cola[i] = Perdida => i = Len(cola) /\ lector = "fin"
        /\ cola \in Seq(Lineas) /\ Len(cola) \in Nat /\ DOMAIN cola = 1..Len(cola)
        /\ Perdida \in Lineas
    BY Basico DEF ClienteTypeOK, SecuenciasInv
  <1>1. CASE UNCHANGED <<cola, lector>>
    BY <1>0, <1>1 DEF MarcaAlFinal
  <1>2. CASE LectorLee
    <2>1. \A i \in DOMAIN cola : cola[i] # Perdida
      BY <1>0, <1>2 DEF LectorLee
    <2>2. Head(red) \in Lineas /\ Head(red).tipo # "None"
      BY <1>2, Quita DEF LectorLee, SecuenciasInv
    <2>3. Head(red) # Perdida
      BY <2>2 DEF Perdida, Linea
    <2>4. \A i \in DOMAIN Append(cola, Head(red)) : Append(cola, Head(red))[i] # Perdida
      BY <1>0, <2>1, <2>2, <2>3
    <2> QED  BY <1>2, <2>1, <2>4 DEF LectorLee, MarcaAlFinal
  <1>3. CASE LectorVuelta
    <2>1. \A i \in DOMAIN cola : cola[i] # Perdida
      BY <1>0, <1>3 DEF LectorVuelta
    <2> QED  BY <1>3, <2>1 DEF LectorVuelta, MarcaAlFinal
  <1>4. CASE LectorFalla
    <2>1. \A i \in DOMAIN cola : cola[i] # Perdida
      BY <1>0, <1>4 DEF LectorFalla
    <2>2. lector' = "fin" /\ cola' \in {cola, Append(cola, Perdida)}
      <3>1. cola \o TrasError.cola = Append(cola, Perdida)
        BY <1>0 DEF TrasError
      <3> QED  BY <1>4, <3>1 DEF LectorFalla, TrasError
    <2>3. \A i \in DOMAIN Append(cola, Perdida) :
            Append(cola, Perdida)[i] = Perdida => i = Len(Append(cola, Perdida))
      BY <1>0, <2>1
    <2> QED  BY <2>1, <2>2, <2>3 DEF MarcaAlFinal
  <1>5. CASE TomaLinea
    <2>1. cola # <<>> /\ cola' = Tail(cola) /\ lector' = lector
      BY <1>5 DEF TomaLinea
    <2>2. /\ Len(Tail(cola)) = Len(cola) - 1
          /\ \A i \in DOMAIN Tail(cola) : /\ i \in Nat /\ i + 1 \in DOMAIN cola
                                           /\ Tail(cola)[i] = cola[i + 1]
      BY <1>0, <2>1, Quita
    <2>3. ASSUME NEW i \in DOMAIN Tail(cola), Tail(cola)[i] = Perdida
          PROVE  i = Len(Tail(cola)) /\ lector = "fin"
      <3>1. i \in Nat /\ i + 1 = Len(cola) /\ lector = "fin"
        BY <1>0, <2>2, <2>3
      <3> QED  BY <1>0, <2>2, <3>1
    <2> QED  BY <2>1, <2>3 DEF MarcaAlFinal
  <1>6. ASSUME Abrir \/ \E c \in Comandos : Pedir(c)
        PROVE  UNCHANGED <<cola, lector>>
    BY <1>6 DEF Abrir, Pedir, Comando
  <1>7. ASSUME \/ Responde \/ Empuja \/ Corta \/ Salir \/ Tardanza \/ Despedirse \/ Cerrar
               \/ UNCHANGED clienteVars
        PROVE  UNCHANGED <<cola, lector>>
    BY <1>7 DEF Responde, Empuja, Corta, Salir, Tardanza, Despedirse, Cerrar, clienteVars, cliente
  <1> QED  BY <1>1, <1>2, <1>3, <1>4, <1>5, <1>6, <1>7 DEF ClienteNext, Comandos

Marcas ==
    /\ principal \in {"inicio", "prompt", "cabecera", "filas", "cerrando", "bye", "fin"}
    /\ lector \in {"leyendo", "vuelta", "fin"}
    /\ activo \in BOOLEAN /\ cerrado \in BOOLEAN /\ suscrita \in BOOLEAN
    /\ pedidos \in 0..MaxPedidos /\ tardanzas \in 0..MaxTardanzas
    /\ empujados \in 0..MaxAvisos

LEMMA MarcasSiguen ==
    ASSUME ClienteTypeOK, CierreInv, [ClienteNext]_clienteVars
    PROVE  Marcas'
  <1>0. Marcas
    BY DEF ClienteTypeOK, Marcas
  <1>1. CASE Responde
    BY <1>0, <1>1 DEF Responde, Marcas, cliente
  <1>2. CASE Empuja
    <2>1. empujados' \in 0..MaxAvisos
      BY <1>0, <1>2, ClientAssumption DEF Empuja, Marcas
    <2> QED  BY <1>0, <1>2, <2>1 DEF Empuja, Marcas, cliente
  <1>3. CASE Corta
    BY <1>0, <1>3 DEF Corta, Marcas, cliente
  <1>4. CASE LectorLee
    BY <1>0, <1>4 DEF LectorLee, Marcas
  <1>5. CASE LectorVuelta
    BY <1>0, <1>5 DEF LectorVuelta, Marcas, servidor
  <1>6. CASE LectorFalla
    BY <1>0, <1>6 DEF LectorFalla, TrasError, Marcas, servidor
  <1>7. CASE Abrir \/ \E c \in Comandos : Pedir(c)
    <2>1. pedidos' \in 0..MaxPedidos
      BY <1>7, ComandoEs
    <2> QED  BY <1>0, <1>7, <2>1, ComandoEs DEF Marcas
  <1>8. CASE Salir
    BY <1>0, <1>8 DEF Salir, Marcas, servidor
  <1>9. CASE TomaLinea
    BY <1>0, <1>9 DEF TomaLinea, TrasPerder, Entregar, Marcas, servidor
  <1>10. CASE Tardanza
    <2>1. tardanzas' \in 0..MaxTardanzas
      BY <1>0, <1>10, ClientAssumption DEF Tardanza, Marcas
    <2> QED  BY <1>0, <1>10, <2>1 DEF Tardanza, Marcas, servidor
  <1>11. CASE Despedirse
    BY <1>0, <1>11 DEF Despedirse, Marcas
  <1>12. CASE Cerrar
    BY <1>0, <1>12 DEF Cerrar, Marcas
  <1>13. CASE UNCHANGED clienteVars
    BY <1>0, <1>13 DEF clienteVars, Marcas
  <1> QED  BY <1>1, <1>2, <1>3, <1>4, <1>5, <1>6, <1>7, <1>8, <1>9, <1>10, <1>11, <1>12, <1>13
           DEF ClienteNext, Comandos

LEMMA LineasSon ==
    /\ \A s \in Seq(Lineas) : \A i \in DOMAIN s : EsLinea(s[i])
    /\ \A s \in Seq(Peticiones) : \A i \in DOMAIN s : EsPeticion(s[i])
  <1>1. \A l \in Lineas : EsLinea(l)
    BY DEF EsLinea, Lineas
  <1>2. \A p \in Peticiones : EsPeticion(p)
    BY DEF EsPeticion, Peticiones, Comandos
  <1> QED  BY <1>1, <1>2

-----------------------------------------------------------------------------
(* The ALERTs.                                                              *)

(* A step that leaves the ALERTs on their way where they are. *)
LEMMA AvisosQuietos ==
    ASSUME SecuenciasInv, AvisosInv, UNCHANGED <<mostrados, empujados>>,
           AvisosEnRed' = AvisosEnRed, \A i \in AvisosEnRed : red'[i] = red[i],
           ~cerrado' /\ principal' \notin {"bye", "fin"} =>
              ~cerrado /\ principal \notin {"bye", "fin"}
    PROVE  AvisosInv'
  BY DEF AvisosInv

(* A step that takes the first line from the network. *)
LEMMA AvisosTrasLeer ==
    ASSUME SecuenciasInv, red # <<>>, red' = Tail(red)
    PROVE  /\ \A i \in AvisosEnRed' : i \in Nat /\ i + 1 \in AvisosEnRed /\ red'[i] = red[i + 1]
           /\ \A i \in AvisosEnRed : i # 1 => i - 1 \in AvisosEnRed' /\ red'[i - 1] = red[i]
           /\ \A i \in AvisosEnRed : i \in Nat /\ i >= 1
           /\ 1 \in AvisosEnRed <=> EsAviso(Head(red))
           /\ Head(red) = red[1]
  <1>1. /\ Len(red) \in Nat \ {0} /\ Head(red) = red[1]
        /\ DOMAIN red = 1..Len(red) /\ DOMAIN red' = 1..Len(red) - 1
        /\ \A i \in DOMAIN red' : /\ i \in Nat /\ i >= 1 /\ i + 1 \in DOMAIN red
                                  /\ red'[i] = red[i + 1]
    BY Quita DEF SecuenciasInv
  <1>2. \A i \in DOMAIN red : i # 1 => i - 1 \in DOMAIN red' /\ (i - 1) + 1 = i
    BY <1>1
  <1>3. \A i \in DOMAIN red : i # 1 => i - 1 \in DOMAIN red' /\ red'[i - 1] = red[i]
    <2>1. TAKE i \in DOMAIN red
    <2>2. HAVE i # 1
    <2>3. i - 1 \in DOMAIN red' /\ (i - 1) + 1 = i
      BY <1>2, <2>2
    <2>4. PICK j \in DOMAIN red' : j = i - 1 /\ j + 1 = i
      BY <2>3
    <2> QED  BY <1>1, <2>4
  <1>4. \A i \in DOMAIN red : i \in Nat /\ i >= 1
    BY <1>1
  <1>5. 1 \in DOMAIN red
    BY <1>1
  <1> QED  BY <1>1, <1>3, <1>4, <1>5 DEF AvisosEnRed

LEMMA AvisosSiguen ==
    ASSUME ClienteTypeOK, SecuenciasInv, CierreInv, AvisosInv, [ClienteNext]_clienteVars
    PROVE  AvisosInv'
  <1>0. /\ empujados \in Nat /\ Len(red) \in Nat /\ DOMAIN red = 1..Len(red)
        /\ Len(mostrados) \in Nat /\ DOMAIN mostrados = 1..Len(mostrados)
        /\ red \in Seq(Lineas) /\ mostrados \in Seq(Nat) /\ 0 \in 0..MaxFilas
    BY Basico DEF SecuenciasInv
  <1>1. CASE Responde
    <2>1. PICK r \in Respuestas(Head(pendientes)) : red' = red \o r
      BY <1>1 DEF Responde
    <2>2. Head(pendientes) \in Peticiones
      BY <1>1, Quita DEF Responde, SecuenciasInv
    <2>3. r \in Seq(Lineas) /\ \A i \in DOMAIN r : ~EsAviso(r[i])
      BY <2>2, RespuestasSon DEF EsRespuesta, EsAviso
    <2>4. /\ DOMAIN red' = 1..Len(red) + Len(r) /\ Len(r) \in Nat
          /\ \A i \in DOMAIN red : red'[i] = red[i]
          /\ \A i \in DOMAIN red' : i > Len(red) => red'[i] = r[i - Len(red)]
                                                 /\ i - Len(red) \in DOMAIN r
      BY <1>0, <2>1, <2>3, Une
    <2>5. \A i \in DOMAIN red' : i \in DOMAIN red \/ i > Len(red)
      BY <1>0, <2>4
    <2>6. DOMAIN red \subseteq DOMAIN red'
      BY <1>0, <2>4
    <2>7. AvisosEnRed' = AvisosEnRed
      BY <2>3, <2>4, <2>5, <2>6 DEF AvisosEnRed
    <2>8. \A i \in AvisosEnRed : red'[i] = red[i]
      BY <2>4 DEF AvisosEnRed
    <2>9. UNCHANGED <<mostrados, empujados, principal>> /\ ~cerrado
      BY <1>1 DEF Responde, cliente
    <2> QED  BY <2>7, <2>8, <2>9, AvisosQuietos
  <1>2. CASE Empuja
    <2> DEFINE l == Linea("ALERT", empujados', 0)
    <2>1. l.de = empujados + 1 /\ EsAviso(l)
      BY <1>2 DEF Empuja, Linea, EsAviso
    <2>2. l \in Lineas
      BY <1>0, <1>2, LineaTipo DEF Empuja, Tipos
    <2>3. red' = Append(red, l) /\ empujados' = empujados + 1
          /\ UNCHANGED <<mostrados, principal, cerrado>>
      BY <1>2 DEF Empuja, cliente
    <2> HIDE DEF l
    <2>4. /\ DOMAIN red' = 1..Len(red) + 1
          /\ \A i \in DOMAIN red : red'[i] = red[i] /\ i \in DOMAIN red'
          /\ red'[Len(red) + 1] = l
      BY <1>0, <2>2, <2>3, Pone
    <2>5. PICK u \in Nat : u = Len(red) + 1 /\ u \in DOMAIN red' /\ red'[u] = l
                          /\ (\A i \in DOMAIN red' : i = u \/ i \in DOMAIN red)
                          /\ (\A i \in DOMAIN red : i < u)
      BY <1>0, <2>4
    <2>6. /\ \A i \in AvisosEnRed' : i = u \/ (i \in AvisosEnRed /\ red'[i] = red[i] /\ i < u)
          /\ \A i \in AvisosEnRed : i \in AvisosEnRed' /\ red'[i] = red[i]
          /\ u \in AvisosEnRed' /\ red'[u].de = empujados + 1
      BY <2>1, <2>4, <2>5 DEF AvisosEnRed
    <2>7. /\ Len(mostrados) <= empujados
          /\ \A i \in AvisosEnRed : red[i].de \in Len(mostrados) + 1..empujados
          /\ \A i, j \in AvisosEnRed : i < j => red[i].de < red[j].de
      BY DEF AvisosInv
    <2>8. \A i \in AvisosEnRed' : red'[i].de \in Len(mostrados) + 1..empujados + 1
      BY <1>0, <2>6, <2>7
    <2>9. \A i, j \in AvisosEnRed' : i < j => red'[i].de < red'[j].de
      <3>1. TAKE i, j \in AvisosEnRed'
      <3>2. HAVE i < j
      <3>3. i # u /\ i \in AvisosEnRed
        BY <2>5, <2>6, <3>2 DEF AvisosEnRed
      <3>4. CASE j = u
        BY <1>0, <2>6, <2>7, <3>3, <3>4
      <3>5. CASE j # u
        BY <2>6, <2>7, <3>2, <3>3, <3>5
      <3> QED  BY <3>4, <3>5
    <2>10. ASSUME ~cerrado, principal \notin {"bye", "fin"}, NEW k \in Len(mostrados) + 1..empujados + 1
           PROVE  \E i \in AvisosEnRed' : red'[i].de = k
      <3>1. CASE k = empujados + 1
        BY <2>6, <3>1
      <3>2. CASE k # empujados + 1
        <4>1. k \in Len(mostrados) + 1..empujados
          BY <1>0, <3>2
        <4>2. PICK i \in AvisosEnRed : red[i].de = k
          BY <2>10, <4>1 DEF AvisosInv
        <4> QED  BY <2>6, <4>2
      <3> QED  BY <3>1, <3>2
    <2>11. ~cerrado /\ principal \notin {"bye", "fin"} =>
              \A i \in DOMAIN mostrados : mostrados[i] = i
      BY DEF AvisosInv
    <2>12. Len(mostrados') <= empujados'
      BY <1>0, <2>3, <2>7
    <2>13. \A i \in AvisosEnRed' : red'[i].de \in Len(mostrados') + 1..empujados'
      BY <2>3, <2>8
    <2>14. ~cerrado' /\ principal' \notin {"bye", "fin"} =>
             /\ \A i \in DOMAIN mostrados' : mostrados'[i] = i
             /\ \A k \in Len(mostrados') + 1..empujados' : \E i \in AvisosEnRed' : red'[i].de = k
      BY <2>3, <2>10, <2>11
    <2> QED  BY <2>9, <2>12, <2>13, <2>14 DEF AvisosInv
  <1>3. CASE Corta
    <2>1. UNCHANGED <<mostrados, empujados>> /\ cerrado'
      BY <1>3 DEF Corta
    <2>2. CASE red' = red
      BY <2>1, <2>2 DEF AvisosInv, AvisosEnRed
    <2>3. CASE red' = <<>>
      <3>1. AvisosEnRed' = {}
        BY <2>3 DEF AvisosEnRed
      <3> QED  BY <2>1, <3>1 DEF AvisosInv
    <2> QED  BY <1>3, <2>2, <2>3 DEF Corta
  <1>4. CASE LectorLee
    <2>1. /\ red # <<>> /\ red' = Tail(red) /\ UNCHANGED <<empujados, principal, cerrado>>
          /\ mostrados' = IF EsAviso(Head(red)) THEN Append(mostrados, Head(red).de) ELSE mostrados
      BY <1>4 DEF LectorLee, EsAsincrona
    <2>2. /\ \A i \in AvisosEnRed' : i \in Nat /\ i + 1 \in AvisosEnRed /\ red'[i] = red[i + 1]
          /\ \A i \in AvisosEnRed : i # 1 => i - 1 \in AvisosEnRed' /\ red'[i - 1] = red[i]
          /\ \A i \in AvisosEnRed : i \in Nat /\ i >= 1
          /\ 1 \in AvisosEnRed <=> EsAviso(Head(red))
          /\ Head(red) = red[1]
      BY <2>1, AvisosTrasLeer
    <2>3. /\ Len(mostrados) <= empujados
          /\ \A i \in AvisosEnRed : red[i].de \in Len(mostrados) + 1..empujados
          /\ \A i, j \in AvisosEnRed : i < j => red[i].de < red[j].de
      BY DEF AvisosInv
    <2>4. \A i, j \in AvisosEnRed' : i < j => red'[i].de < red'[j].de
      <3>1. TAKE i, j \in AvisosEnRed'
      <3>2. HAVE i < j
      <3>3. i + 1 < j + 1
        BY <2>2, <3>2
      <3> QED  BY <2>2, <2>3, <3>3
    <2>5. CASE ~EsAviso(Head(red))
      <3>1. mostrados' = mostrados
        BY <2>1, <2>5
      <3>2. \A i \in AvisosEnRed' : red'[i].de \in Len(mostrados) + 1..empujados
        BY <2>2, <2>3
      <3>3. ASSUME ~cerrado, principal \notin {"bye", "fin"}, NEW k \in Len(mostrados) + 1..empujados
            PROVE  \E i \in AvisosEnRed' : red'[i].de = k
        <4>1. PICK i \in AvisosEnRed : red[i].de = k
          BY <3>3 DEF AvisosInv
        <4>2. i # 1
          BY <2>2, <2>5
        <4> QED  BY <2>2, <4>1, <4>2
      <3> QED  BY <2>1, <2>3, <2>4, <3>1, <3>2, <3>3 DEF AvisosInv
    <2>6. CASE EsAviso(Head(red))
      <3>1. PICK d \in Nat : d = red[1].de /\ d >= Len(mostrados) + 1 /\ d <= empujados
        <4>1. red[1].de \in Len(mostrados) + 1..empujados
          BY <2>2, <2>3, <2>6
        <4> QED  BY <1>0, <4>1
      <3>2. /\ Len(mostrados') = Len(mostrados) + 1 /\ DOMAIN mostrados' = 1..Len(mostrados) + 1
            /\ \A i \in DOMAIN mostrados : mostrados'[i] = mostrados[i]
            /\ mostrados'[Len(mostrados) + 1] = d
        <4>1. mostrados' = Append(mostrados, d)
          BY <2>1, <2>2, <2>6, <3>1
        <4> QED  BY <1>0, <4>1, Pone
      <3>3. \A i \in AvisosEnRed : i # 1 => red[i].de \in d + 1..empujados
        <4>1. TAKE i \in AvisosEnRed
        <4>2. HAVE i # 1
        <4>3. 1 \in AvisosEnRed /\ 1 < i
          BY <2>2, <2>6, <4>2
        <4>4. d < red[i].de /\ red[i].de \in Len(mostrados) + 1..empujados
          BY <2>3, <3>1, <4>3
        <4> QED  BY <1>0, <3>1, <4>4
      <3>4. \A i \in AvisosEnRed' : red'[i].de \in Len(mostrados') + 1..empujados
        <4>1. TAKE i \in AvisosEnRed'
        <4>2. i + 1 # 1 /\ i + 1 \in AvisosEnRed /\ red'[i] = red[i + 1]
          <5>1. i \in Nat /\ i + 1 \in AvisosEnRed /\ red'[i] = red[i + 1] /\ i >= 1
            BY <1>0, <2>2, AvisosTrasLeer DEF AvisosEnRed
          <5> QED  BY <5>1
        <4>3. red'[i].de \in d + 1..empujados
          BY <3>3, <4>2
        <4> QED  BY <1>0, <3>1, <3>2, <4>3
      <3>5. ASSUME ~cerrado, principal \notin {"bye", "fin"}
            PROVE  /\ \A i \in DOMAIN mostrados' : mostrados'[i] = i
                   /\ \A k \in Len(mostrados') + 1..empujados :
                         \E i \in AvisosEnRed' : red'[i].de = k
        <4>1. /\ \A i \in DOMAIN mostrados : mostrados[i] = i
              /\ \A k \in Len(mostrados) + 1..empujados : \E i \in AvisosEnRed : red[i].de = k
          BY <3>5 DEF AvisosInv
        <4>2. d = Len(mostrados) + 1
          <5>1. Len(mostrados) + 1 \in Len(mostrados) + 1..empujados
            BY <1>0, <3>1
          <5>2. PICK i \in AvisosEnRed : red[i].de = Len(mostrados) + 1
            BY <4>1, <5>1
          <5>3. i # 1 => red[i].de \in d + 1..empujados
            BY <3>3
          <5>4. i = 1
            BY <1>0, <3>1, <5>2, <5>3
          <5> QED  BY <3>1, <5>2, <5>4
        <4>3. \A i \in DOMAIN mostrados' : i \in DOMAIN mostrados \/ i = Len(mostrados) + 1
          BY <1>0, <3>2
        <4>4. \A i \in DOMAIN mostrados' : mostrados'[i] = i
          BY <3>2, <4>1, <4>2, <4>3
        <4>5. ASSUME NEW k \in Len(mostrados') + 1..empujados
              PROVE  \E i \in AvisosEnRed' : red'[i].de = k
          <5>1. k \in Len(mostrados) + 1..empujados /\ k # d
            BY <1>0, <3>2, <4>2
          <5>2. PICK i \in AvisosEnRed : red[i].de = k
            BY <4>1, <5>1
          <5>3. i # 1
            BY <3>1, <5>1, <5>2
          <5> QED  BY <2>2, <5>2, <5>3
        <4> QED  BY <4>4, <4>5
      <3>6. Len(mostrados') <= empujados'
        BY <1>0, <2>1, <3>1, <3>2
      <3>7. \A i \in AvisosEnRed' : red'[i].de \in Len(mostrados') + 1..empujados'
        BY <2>1, <3>4
      <3>8. ~cerrado' /\ principal' \notin {"bye", "fin"} =>
              /\ \A i \in DOMAIN mostrados' : mostrados'[i] = i
              /\ \A k \in Len(mostrados') + 1..empujados' : \E i \in AvisosEnRed' : red'[i].de = k
        BY <2>1, <3>5
      <3> QED  BY <2>4, <3>6, <3>7, <3>8 DEF AvisosInv
    <2> QED  BY <2>5, <2>6
  <1>5. CASE Cerrar
    <2>1. UNCHANGED <<mostrados, empujados>> /\ principal' = "fin"
      BY <1>5 DEF Cerrar
    <2>2. CASE red' = red
      BY <2>1, <2>2 DEF AvisosInv, AvisosEnRed
    <2>3. CASE red # <<>> /\ red' = Tail(red)
      <3>1. \A i \in AvisosEnRed' : i \in Nat /\ i + 1 \in AvisosEnRed /\ red'[i] = red[i + 1]
        BY <2>3, AvisosTrasLeer
      <3>2. /\ \A i \in AvisosEnRed : red[i].de \in Len(mostrados) + 1..empujados
            /\ \A i, j \in AvisosEnRed : i < j => red[i].de < red[j].de
            /\ Len(mostrados) <= empujados
        BY DEF AvisosInv
      <3>3. \A i, j \in AvisosEnRed' : i < j => red'[i].de < red'[j].de
        <4>1. TAKE i, j \in AvisosEnRed'
        <4>2. HAVE i < j
        <4>3. i + 1 < j + 1
          BY <3>1, <4>2
        <4> QED  BY <3>1, <3>2, <4>3
      <3>4. \A i \in AvisosEnRed' : red'[i].de \in Len(mostrados) + 1..empujados
        BY <3>1, <3>2
      <3> QED  BY <2>1, <3>2, <3>3, <3>4 DEF AvisosInv
    <2> QED  BY <1>5, <2>2, <2>3 DEF Cerrar
  <1>6. ASSUME \/ LectorVuelta \/ LectorFalla \/ Salir \/ TomaLinea \/ Tardanza \/ Despedirse
               \/ UNCHANGED clienteVars
        PROVE  AvisosInv'
    <2>1. UNCHANGED <<mostrados, empujados, red, cerrado>>
      BY <1>6 DEF LectorVuelta, LectorFalla, Salir, TomaLinea, Tardanza, Despedirse, clienteVars,
                  servidor
    <2>2. principal' \notin {"bye", "fin"} => principal \notin {"bye", "fin"}
      BY <1>6 DEF LectorVuelta, LectorFalla, Salir, TomaLinea, Tardanza, Despedirse, clienteVars,
                  Esperando
    <2> QED  BY <2>1, <2>2, AvisosQuietos DEF AvisosEnRed
  <1>7. CASE Abrir \/ \E c \in Comandos : Pedir(c)
    <2>1. UNCHANGED <<mostrados, empujados, red, cerrado>> /\ principal \notin {"bye", "fin"}
      BY <1>7, ComandoEs
    <2> QED  BY <2>1, AvisosQuietos DEF AvisosEnRed
  <1> QED  BY <1>1, <1>2, <1>3, <1>4, <1>5, <1>6, <1>7 DEF ClienteNext, Comandos

-----------------------------------------------------------------------------
(* The order of the lines.                                                  *)

(* While the server can still speak the reader has put no mark. *)
LEMMA AbiertaSinMarca ==
    ASSUME ClienteTypeOK, SecuenciasInv, CierreInv, EnServicio, ~cerrado,
           \A i \in DOMAIN cola : cola[i] = Perdida
    PROVE  cola = <<>> /\ Len(cola) = 0
  <1>1. DOMAIN cola = {}
    BY MarcaCierra
  <1> QED  BY <1>1, Basico DEF SecuenciasInv

(* What TomaLinea does with the first line of the queue, while no wait was   *)
(* given up: it ends the session; or the line is the next of the answer     *)
(* under way, which goes on or is complete and handed over.                 *)
LEMMA TomaEs ==
    ASSUME ClienteTypeOK, SecuenciasInv, CierreInv, FlujoInv, tardanzas = 0, TomaLinea
    PROVE  \/ principal' \in {"fin", "cerrando"} /\ UNCHANGED entregada
           \/ /\ pendientes = <<>>
              /\ \E r \in Seq(Lineas) :
                   /\ EsRespuesta(r, pedidos) /\ EnCamino(r, 0)
                   /\ Len(leidas) + 1 <= Len(r) /\ cola[1] = r[Len(leidas) + 1]
                   /\ leidas' = Append(leidas, cola[1])
                   /\ \/ /\ Len(leidas) + 1 < Len(r) /\ r[1].tipo = "OK*"
                         /\ principal' = "filas" /\ UNCHANGED entregada
                      \/ /\ Len(leidas) + 1 = Len(r) /\ principal' = "prompt"
                         /\ \/ /\ Len(r) = 1
                               /\ entregada' = [pedido |-> pedidos, lineas |-> <<cola[1]>>]
                            \/ /\ Len(r) = r[1].n + 2 /\ r[1].tipo = "OK*"
                               /\ entregada' = [pedido |-> pedidos, lineas |-> leidas]
  <1>0. /\ Esperando /\ EnServicio /\ cola # <<>> /\ Head(cola) = cola[1] /\ 1 \in DOMAIN cola
        /\ Len(cola) \in Nat \ {0} /\ Len(leidas) \in Nat
        /\ DOMAIN leidas = 1..Len(leidas) /\ DOMAIN red = 1..Len(red) /\ Len(red) \in Nat
    <2>1. Esperando /\ EnServicio /\ cola # <<>>
      BY DEF TomaLinea, Esperando, EnServicio
    <2>2. Head(cola) = cola[1] /\ Len(cola) \in Nat \ {0} /\ DOMAIN cola = 1..Len(cola)
      BY <2>1, Quita DEF SecuenciasInv
    <2> QED  BY <2>1, <2>2, Basico
  <1>1. CASE cola[1].tipo = "None"
    <2>1. principal' = TrasPerder(pedidos) /\ UNCHANGED entregada
      BY <1>0, <1>1 DEF TomaLinea, EsFin
    <2> QED  BY <2>1 DEF TrasPerder
  <1>2. CASE cola[1].tipo # "None"
    <2>1. cola[1] # Perdida
      BY <1>2 DEF Perdida, Linea
    <2>2. pendientes = <<>> /\ \E r \in Seq(Lineas), a \in Nat : EsRespuesta(r, pedidos) /\ EnCamino(r, a)
      BY <1>0, <2>1 DEF FlujoInv, SinLineas
    <2>3. PICK r \in Seq(Lineas), a \in Nat : EsRespuesta(r, pedidos) /\ EnCamino(r, a)
      BY <2>2
    <2>4. a = 0
      <3>1. Len(leidas) + Len(cola) > 0
        BY <1>0
      <3> QED  BY <2>3, <3>1 DEF EnCamino
    <2>5. /\ Len(leidas) + 1 <= Len(r) /\ cola[1] = r[Len(leidas) + 1]
          /\ principal = "cabecera" => leidas = <<>>
          /\ principal = "filas" => leidas # <<>> /\ r[1].tipo = "OK*"
      BY <1>0, <2>1, <2>3 DEF EnCamino
    <2>6. /\ Len(r) \in Nat /\ DOMAIN r = 1..Len(r)
          /\ \A i \in DOMAIN r : r[i].de = pedidos /\ r[i].tipo \notin {"ALERT", "None"}
          /\ \/ Len(r) = 1 /\ r[1].tipo \in {"OK", "ERR"} /\ r[1].n = 0
             \/ /\ r[1].tipo = "OK*" /\ Len(r) = r[1].n + 2
                /\ r[Len(r)].tipo = "END"
                /\ \A i \in 2..Len(r) - 1 : r[i].tipo = "FILA"
      BY <2>3 DEF EsRespuesta
    <2>7. cola[1].tipo \notin {"ALERT", "None"}
      <3>1. Len(leidas) + 1 \in DOMAIN r
        BY <1>0, <2>5, <2>6
      <3> QED  BY <2>5, <2>6, <3>1
    <2>8. leidas' = Append(leidas, cola[1])
      BY <1>0, <2>7 DEF TomaLinea
    <2>9. SUFFICES \/ principal' \in {"fin", "cerrando"} /\ UNCHANGED entregada
                   \/ /\ Len(leidas) + 1 < Len(r) /\ r[1].tipo = "OK*"
                      /\ principal' = "filas" /\ UNCHANGED entregada
                   \/ /\ Len(leidas) + 1 = Len(r) /\ principal' = "prompt"
                      /\ \/ /\ Len(r) = 1
                            /\ entregada' = [pedido |-> pedidos, lineas |-> <<cola[1]>>]
                         \/ /\ Len(r) = r[1].n + 2 /\ r[1].tipo = "OK*"
                            /\ entregada' = [pedido |-> pedidos, lineas |-> leidas]
      BY <2>2, <2>3, <2>4, <2>5, <2>8
    <2>10. CASE Len(r) = 1 /\ r[1].tipo \in {"OK", "ERR"}
      <3>1. Len(leidas) = 0
        BY <1>0, <2>5, <2>10
      <3>2. principal = "cabecera" /\ cola[1].tipo \in {"OK", "ERR"}
        BY <1>0, <2>5, <2>10, <3>1 DEF Esperando
      <3>3. \/ principal' = "cerrando" /\ UNCHANGED entregada
            \/ Entregar(<<cola[1]>>)
        BY <1>0, <3>2 DEF TomaLinea
      <3> QED  BY <2>10, <3>1, <3>3 DEF Entregar
    <2>11. CASE /\ r[1].tipo = "OK*" /\ Len(r) = r[1].n + 2 /\ r[Len(r)].tipo = "END"
                /\ \A i \in 2..Len(r) - 1 : r[i].tipo = "FILA"
      <3>0. Len(r) >= 2
        <4>1. r[1] \in Lineas
          BY <2>3, <2>5, <2>6, <1>0
        <4>2. r[1].n \in Nat
          BY <4>1, ClientAssumption DEF Lineas
        <4> QED  BY <2>11, <4>2
      <3>1. CASE principal = "cabecera"
        <4>1. Len(leidas) = 0
          BY <2>5, <3>1
        <4>2. cola[1].tipo = "OK*"
          BY <2>5, <2>11, <4>1
        <4>3. principal' = "filas" /\ UNCHANGED entregada
          BY <1>0, <3>1, <4>2 DEF TomaLinea
        <4> QED  BY <2>11, <3>0, <4>1, <4>3
      <3>2. CASE principal = "filas"
        <4>1. Len(leidas) >= 1
          BY <1>0, <2>5, <3>2 DEF SecuenciasInv
        <4>2. CASE Len(leidas) + 1 = Len(r)
          <5>1. cola[1].tipo = "END"
            BY <2>5, <2>11, <4>2
          <5>2. Entregar(leidas)
            BY <1>0, <3>2, <5>1 DEF TomaLinea, EsFin
          <5> QED  BY <2>11, <4>2, <5>2 DEF Entregar
        <4>3. CASE Len(leidas) + 1 # Len(r)
          <5>0. Len(leidas) \in Nat /\ Len(r) \in Nat /\ Len(leidas) + 1 <= Len(r)
            BY <1>0, <2>5, <2>6
          <5>1. Len(leidas) + 1 \in 2..Len(r) - 1
            BY <4>1, <4>3, <5>0
          <5>2. cola[1].tipo = "FILA"
            BY <2>5, <2>11, <5>1
          <5>3. principal' = "filas" /\ UNCHANGED entregada
            BY <1>0, <3>2, <5>2 DEF TomaLinea, EsFin
          <5> QED  BY <2>11, <4>3, <5>0, <5>3
        <4> QED  BY <4>2, <4>3
      <3> QED  BY <1>0, <3>1, <3>2 DEF Esperando
    <2> QED  BY <2>6, <2>10, <2>11
  <1> QED  BY <1>1, <1>2

LEMMA TardanzasCrecen ==
    ASSUME ClienteTypeOK, SecuenciasInv, [ClienteNext]_clienteVars
    PROVE  tardanzas' = 0 => tardanzas = 0
  <1>1. CASE Tardanza
    <2>1. tardanzas \in Nat /\ tardanzas' = tardanzas + 1
      BY <1>1, Basico DEF Tardanza
    <2> QED  BY <2>1
  <1>2. CASE \E c \in Comandos : Pedir(c)
    BY <1>2 DEF Pedir, Comando
  <1>3. ASSUME \/ Responde \/ Empuja \/ Corta \/ LectorLee \/ LectorVuelta \/ LectorFalla \/ Abrir
               \/ Salir \/ TomaLinea \/ Despedirse \/ Cerrar \/ UNCHANGED clienteVars
        PROVE  tardanzas' = tardanzas
    BY <1>3 DEF Responde, Empuja, Corta, LectorLee, LectorVuelta, LectorFalla, Abrir, Comando,
                Salir, TomaLinea, Despedirse, Cerrar, clienteVars
  <1> QED  BY <1>1, <1>2, <1>3 DEF ClienteNext, Comandos

LEMMA CorrespondeSigue ==
    ASSUME ClienteTypeOK, SecuenciasInv, CierreInv, FlujoInv, RespuestaCorresponde,
           [ClienteNext]_clienteVars, ClienteTypeOK'
    PROVE  RespuestaCorresponde'
  <1>1. tardanzas' = 0 => tardanzas = 0
    BY TardanzasCrecen
  <1>2. CASE UNCHANGED entregada
    BY <1>1, <1>2 DEF RespuestaCorresponde
  <1>3. CASE TomaLinea /\ tardanzas = 0 /\ ~UNCHANGED entregada
    <2>1. PICK r \in Seq(Lineas) :
             /\ EsRespuesta(r, pedidos) /\ EnCamino(r, 0)
             /\ cola[1] = r[Len(leidas) + 1] /\ Len(leidas) + 1 = Len(r)
             /\ \/ /\ Len(r) = 1
                   /\ entregada' = [pedido |-> pedidos, lineas |-> <<cola[1]>>]
                \/ /\ Len(r) = r[1].n + 2 /\ r[1].tipo = "OK*"
                   /\ entregada' = [pedido |-> pedidos, lineas |-> leidas]
      BY <1>3, TomaEs
    <2>2. /\ Len(r) \in Nat /\ Len(r) >= 1 /\ DOMAIN r = 1..Len(r)
          /\ \A i \in DOMAIN r : r[i].de = pedidos
          /\ r[1].tipo \in {"OK", "OK*", "ERR"}
          /\ Len(r) = 1 => r[1].n = 0
          /\ r[1].n \in Nat
      <3>1. r[1] \in Lineas /\ Len(r) \in Nat /\ DOMAIN r = 1..Len(r)
        BY <2>1 DEF EsRespuesta
      <3>2. r[1].n \in Nat
        BY <3>1, ClientAssumption DEF Lineas
      <3> QED  BY <2>1, <3>1, <3>2 DEF EsRespuesta
    <2>3. Len(leidas) \in Nat /\ DOMAIN leidas = 1..Len(leidas)
      BY Basico
    <2> DEFINE ls == entregada'.lineas
    <2>4. /\ entregada'.pedido = pedidos /\ ls[1].tipo \in {"OK", "OK*", "ERR"}
          /\ \A i \in DOMAIN ls : ls[i].de = pedidos
          /\ Len(ls) = ls[1].n + 1
      <3>1. CASE Len(r) = 1 /\ entregada' = [pedido |-> pedidos, lineas |-> <<cola[1]>>]
        <4>1. Len(leidas) = 0 /\ ls = <<r[1]>>
          BY <2>1, <2>3, <3>1
        <4> QED  BY <2>2, <3>1, <4>1
      <3>2. CASE Len(r) = r[1].n + 2 /\ r[1].tipo = "OK*"
                 /\ entregada' = [pedido |-> pedidos, lineas |-> leidas]
        <4>1. Len(leidas) = r[1].n + 1 /\ ls = leidas
          BY <2>1, <2>2, <2>3, <3>2
        <4>2. \A i \in DOMAIN leidas : leidas[i] = r[i] /\ i \in DOMAIN r
          BY <2>1, <2>2, <2>3 DEF EnCamino
        <4>3. 1 \in DOMAIN leidas
          BY <2>2, <2>3, <4>1
        <4> QED  BY <2>2, <3>2, <4>1, <4>2, <4>3
      <3> QED  BY <2>1, <3>1, <3>2
    <2> QED  BY <2>4 DEF RespuestaCorresponde
  <1> QED  BY <1>1, <1>2, <1>3 DEF ClienteNext, Responde, Empuja, Corta, LectorLee, LectorVuelta,
        LectorFalla, Abrir, Salir, Pedir, Comando, Tardanza, Despedirse, Cerrar, clienteVars,
        RespuestaCorresponde

(* The request is the server's. *)
EnElServidor ==
    /\ \E c \in Comandos : pendientes = <<[k |-> pedidos, comando |-> c]>>
    /\ principal = "cabecera" /\ leidas = <<>> /\ SinLineas

(* Its answer is on its way. *)
EnVuelta ==
    /\ pendientes = <<>>
    /\ \E r \in Seq(Lineas), a \in Nat : EsRespuesta(r, pedidos) /\ EnCamino(r, a)

(* Each step of the server, the network and the reader leaves the answer on  *)
(* its way.                                                                 *)
LEMMA CaminoBasico ==
    ASSUME ClienteTypeOK, SecuenciasInv, NEW r \in Seq(Lineas), NEW a \in Nat, EnCamino(r, a)
    PROVE  /\ Len(cola) \in Nat /\ DOMAIN cola = 1..Len(cola)
           /\ Len(red) \in Nat /\ DOMAIN red = 1..Len(red)
           /\ Len(leidas) \in Nat /\ DOMAIN leidas = 1..Len(leidas)
           /\ Len(r) \in Nat /\ DOMAIN r = 1..Len(r)
           /\ a <= Len(red)
           /\ Len(leidas) < Len(r) /\ \A i \in DOMAIN leidas : leidas[i] = r[i]
           /\ principal = "cabecera" => leidas = <<>>
           /\ principal = "filas" => leidas # <<>> /\ r[1].tipo = "OK*"
           /\ \A i \in DOMAIN cola :
                 \/ cola[i] = Perdida
                 \/ Len(leidas) + i <= Len(r) /\ cola[i] = r[Len(leidas) + i]
           /\ \A i \in DOMAIN red : i <= a => EsAviso(red[i])
           /\ \A i \in DOMAIN red : i > a =>
                 IF Len(leidas) + Len(cola) + (i - a) <= Len(r)
                 THEN red[i] = r[Len(leidas) + Len(cola) + (i - a)] ELSE EsAviso(red[i])
           /\ Len(leidas) + Len(cola) > 0 => a = 0
           /\ ~cerrado => Len(leidas) + Len(cola) + (Len(red) - a) >= Len(r)
  BY Basico DEF EnCamino

LEMMA CaminoEmpuja ==
    ASSUME ClienteTypeOK, SecuenciasInv, NEW r \in Seq(Lineas), NEW a \in Nat, EnCamino(r, a),
           Empuja
    PROVE  EnCamino(r, a)'
  <1> DEFINE l == Linea("ALERT", empujados', 0)
  <1>1. /\ red' = Append(red, l) /\ ~cerrado /\ UNCHANGED <<cola, leidas, principal, cerrado>>
        /\ EsAviso(l) /\ l \in Lineas
    <2>1. empujados' \in Nat /\ 0 \in 0..MaxFilas
      BY Basico DEF Empuja
    <2>2. l \in Lineas
      BY <2>1, LineaTipo DEF Tipos
    <2> QED  BY <2>2 DEF Empuja, cliente, EsAviso, Linea
  <1> HIDE DEF l
  <1>2. PICK d \in Nat : d = Len(leidas) + Len(cola)
    BY Basico
  <1>3. PICK u \in Nat : u = Len(red) + 1
    BY Basico
  <1>4. /\ DOMAIN red' = 1..u /\ Len(red') = u /\ red'[u] = l
        /\ \A i \in DOMAIN red : red'[i] = red[i]
        /\ \A i \in DOMAIN red' : i \in DOMAIN red \/ i = u
    BY <1>1, <1>3, Pone, Basico DEF SecuenciasInv
  <1>5. a < u /\ d + (u - a) > Len(r)
    BY <1>1, <1>2, <1>3, CaminoBasico
  <1>6. \A i \in DOMAIN red' : i <= a => EsAviso(red'[i])
    BY <1>4, <1>5, CaminoBasico
  <1>7. ASSUME NEW i \in DOMAIN red', i > a
        PROVE  IF d + (i - a) <= Len(r) THEN red'[i] = r[d + (i - a)] ELSE EsAviso(red'[i])
    <2>1. CASE i = u
      BY <1>1, <1>4, <1>5, <2>1
    <2>2. CASE i \in DOMAIN red
      <3>1. IF d + (i - a) <= Len(r) THEN red[i] = r[d + (i - a)] ELSE EsAviso(red[i])
        BY <1>2, <1>7, <2>2, CaminoBasico
      <3> QED  BY <1>4, <2>2, <3>1
    <2> QED  BY <1>4, <2>1, <2>2
  <1>8. a <= Len(red') /\ (~cerrado' => d + (Len(red') - a) >= Len(r))
    BY <1>4, <1>5, CaminoBasico
  <1> QED  BY <1>1, <1>2, <1>6, <1>7, <1>8, CaminoBasico DEF EnCamino

LEMMA CaminoCorta ==
    ASSUME ClienteTypeOK, SecuenciasInv, NEW r \in Seq(Lineas), NEW a \in Nat, EnCamino(r, a),
           Corta
    PROVE  EnCamino(r, a)' \/ EnCamino(r, 0)'
  <1>1. cerrado' /\ UNCHANGED <<cola, leidas, principal>>
    BY DEF Corta, cliente
  <1>2. CASE red' = red
    BY <1>1, <1>2, CaminoBasico DEF EnCamino
  <1>3. CASE red' = <<>>
    <2>1. DOMAIN red' = {} /\ Len(red') = 0
      BY <1>3
    <2> QED  BY <1>1, <2>1, CaminoBasico DEF EnCamino
  <1> QED  BY <1>2, <1>3 DEF Corta

(* The reader shows an ALERT. *)
LEMMA CaminoAviso ==
    ASSUME ClienteTypeOK, SecuenciasInv, NEW r \in Seq(Lineas), NEW a \in Nat, EnCamino(r, a),
           EsRespuesta(r, pedidos), LectorLee, EsAviso(Head(red))
    PROVE  \E b \in Nat : EnCamino(r, b)'
  <1>1. red # <<>> /\ red' = Tail(red) /\ UNCHANGED <<cola, leidas, principal, cerrado>>
    BY DEF LectorLee, EsAsincrona
  <1>2. /\ Len(red) \in Nat \ {0} /\ Len(red') = Len(red) - 1 /\ DOMAIN red' = 1..Len(red) - 1
        /\ Head(red) = red[1]
        /\ \A i \in DOMAIN red' : /\ i \in Nat /\ i >= 1 /\ i + 1 \in DOMAIN red
                                  /\ red'[i] = red[i + 1]
    BY <1>1, Quita DEF SecuenciasInv
  <1>3. PICK d \in Nat : d = Len(leidas) + Len(cola)
    BY Basico
  <1>4. /\ Len(r) \in Nat /\ a <= Len(red)
        /\ \A i \in DOMAIN red : i <= a => EsAviso(red[i])
        /\ \A i \in DOMAIN red : i > a =>
              IF d + (i - a) <= Len(r) THEN red[i] = r[d + (i - a)] ELSE EsAviso(red[i])
        /\ d > 0 => a = 0
        /\ ~cerrado => d + (Len(red) - a) >= Len(r)
    BY <1>3, CaminoBasico
  <1>5. CASE a > 0
    <2>1. PICK b \in Nat : a = b + 1
      BY <1>5
    <2>2. b <= Len(red') /\ d = 0 /\ (~cerrado' => d + (Len(red') - b) >= Len(r))
      BY <1>1, <1>2, <1>4, <2>1
    <2>3. \A i \in DOMAIN red' : i <= b => EsAviso(red'[i])
      BY <1>2, <1>4, <2>1
    <2>4. ASSUME NEW i \in DOMAIN red', i > b
          PROVE  IF d + (i - b) <= Len(r) THEN red'[i] = r[d + (i - b)] ELSE EsAviso(red'[i])
      <3>0. i \in Nat
        BY <1>2
      <3>1. i + 1 > a /\ (i + 1) - a = i - b
        BY <2>1, <2>4, <3>0
      <3>2. IF d + ((i + 1) - a) <= Len(r) THEN red[i + 1] = r[d + ((i + 1) - a)]
                                           ELSE EsAviso(red[i + 1])
        BY <1>2, <1>4, <3>1
      <3> QED  BY <1>2, <3>1, <3>2
    <2>5. EnCamino(r, b)'
      BY <1>1, <1>3, <2>2, <2>3, <2>4, CaminoBasico DEF EnCamino
    <2> QED  BY <2>5
  <1>6. CASE a = 0
    <2>1. d + 1 > Len(r)
      <3>1. SUFFICES ASSUME d + 1 <= Len(r) PROVE FALSE
        BY <1>4
      <3>2. 1 \in DOMAIN red /\ 1 > a /\ d + (1 - a) = d + 1
        BY <1>2, <1>6, Basico
      <3>3. red[1] = r[d + 1] /\ d + 1 \in DOMAIN r
        BY <1>4, <3>1, <3>2, CaminoBasico
      <3> QED  BY <1>2, <3>3 DEF EsRespuesta, EsAviso
    <2>2. ASSUME NEW i \in DOMAIN red'
          PROVE  EsAviso(red'[i]) /\ i > 0 /\ d + (i - 0) > Len(r)
      <3>1. i + 1 \in DOMAIN red /\ i + 1 > a /\ d + ((i + 1) - a) > Len(r)
        BY <1>2, <1>4, <1>6, <2>1
      <3>2. EsAviso(red[i + 1])
        BY <1>4, <3>1
      <3> QED  BY <1>2, <1>4, <2>1, <3>2
    <2>3. 0 <= Len(red') /\ d + (Len(red') - 0) >= Len(r)
      BY <1>2, <1>4, <2>1
    <2>4. /\ Len(leidas) < Len(r) /\ \A i \in DOMAIN leidas : leidas[i] = r[i]
          /\ principal = "cabecera" => leidas = <<>>
          /\ principal = "filas" => leidas # <<>> /\ r[1].tipo = "OK*"
          /\ \A i \in DOMAIN cola :
                \/ cola[i] = Perdida
                \/ Len(leidas) + i <= Len(r) /\ cola[i] = r[Len(leidas) + i]
      BY CaminoBasico
    <2>5. \A i \in DOMAIN red' : i <= 0 => EsAviso(red'[i])
      BY <2>2
    <2>6. \A i \in DOMAIN red' : i > 0 =>
            IF Len(leidas) + Len(cola) + (i - 0) <= Len(r)
            THEN red'[i] = r[Len(leidas) + Len(cola) + (i - 0)] ELSE EsAviso(red'[i])
      <3>1. TAKE i \in DOMAIN red'
      <3>2. EsAviso(red'[i]) /\ ~(d + (i - 0) <= Len(r))
        BY <1>2, <1>3, <1>4, <2>2
      <3> QED  BY <1>3, <3>2
    <2>7. /\ 0 <= Len(red')
          /\ ~cerrado' => Len(leidas) + Len(cola) + (Len(red') - 0) >= Len(r)
      BY <1>3, <2>3
    <2>8. EnCamino(r, 0)'
      BY <1>1, <2>4, <2>5, <2>6, <2>7 DEF EnCamino
    <2> QED  BY <2>8
  <1> QED  BY <1>5, <1>6

(* The reader queues a line of the answer. *)
LEMMA CaminoLinea ==
    ASSUME ClienteTypeOK, SecuenciasInv, NEW r \in Seq(Lineas), NEW a \in Nat, EnCamino(r, a),
           \A i \in DOMAIN cola : cola[i] # Perdida,
           LectorLee, ~EsAviso(Head(red))
    PROVE  EnCamino(r, 0)'
  <1>1. /\ red # <<>> /\ red' = Tail(red) /\ cola' = Append(cola, Head(red))
        /\ UNCHANGED <<leidas, principal, cerrado>>
    BY DEF LectorLee, EsAsincrona
  <1>2. /\ Len(red) \in Nat \ {0} /\ Len(red') = Len(red) - 1 /\ DOMAIN red' = 1..Len(red) - 1
        /\ Head(red) = red[1] /\ Head(red) \in Lineas
        /\ \A i \in DOMAIN red' : /\ i \in Nat /\ i >= 1 /\ i + 1 \in DOMAIN red
                                  /\ red'[i] = red[i + 1]
    BY <1>1, Quita DEF SecuenciasInv
  <1>3. PICK n \in Nat : n = Len(leidas)
    BY Basico
  <1>4. PICK m \in Nat : m = Len(cola)
    BY Basico
  <1>5. /\ Len(r) \in Nat /\ a <= Len(red)
        /\ \A i \in DOMAIN red : i <= a => EsAviso(red[i])
        /\ \A i \in DOMAIN red : i > a =>
              IF n + m + (i - a) <= Len(r) THEN red[i] = r[n + m + (i - a)] ELSE EsAviso(red[i])
        /\ ~cerrado => n + m + (Len(red) - a) >= Len(r)
        /\ \A i \in DOMAIN cola : n + i <= Len(r) /\ cola[i] = r[n + i]
    BY <1>3, <1>4, CaminoBasico
  <1>6. 1 \in DOMAIN red
    BY <1>2, Basico
  <1>7. a = 0
    <2>1. ~(1 <= a)
      BY <1>2, <1>5, <1>6
    <2> QED  BY <2>1
  <1>8. n + m + 1 <= Len(r) /\ red[1] = r[n + m + 1]
    <2>1. 1 > a /\ n + m + (1 - a) = n + m + 1
      BY <1>7
    <2>2. IF n + m + (1 - a) <= Len(r) THEN red[1] = r[n + m + (1 - a)] ELSE EsAviso(red[1])
      BY <1>5, <1>6, <2>1
    <2> QED  BY <1>2, <2>1, <2>2
  <1>9. /\ Len(cola') = m + 1 /\ DOMAIN cola' = 1..m + 1
        /\ \A i \in DOMAIN cola : cola'[i] = cola[i]
        /\ cola'[m + 1] = red[1]
        /\ \A i \in DOMAIN cola' : i \in DOMAIN cola \/ i = m + 1
    <2>1. /\ Len(cola') = Len(cola) + 1 /\ DOMAIN cola' = 1..Len(cola) + 1
          /\ DOMAIN cola = 1..Len(cola) /\ \A i \in DOMAIN cola : cola'[i] = cola[i]
          /\ cola'[Len(cola) + 1] = red[1]
      BY <1>1, <1>2, Pone DEF SecuenciasInv
    <2>2. /\ Len(cola') = m + 1 /\ DOMAIN cola' = 1..m + 1 /\ DOMAIN cola = 1..m
          /\ cola'[m + 1] = red[1]
      BY <1>4, <2>1, Zenon
    <2> QED  BY <2>1, <2>2
  <1>10. \A i \in DOMAIN cola' : n + i <= Len(r) /\ cola'[i] = r[n + i]
    <2>1. TAKE i \in DOMAIN cola'
    <2>2. CASE i \in DOMAIN cola
      BY <1>5, <1>9, <2>2
    <2>3. CASE i = m + 1
      <3>1. n + (m + 1) = n + m + 1
        OBVIOUS
      <3> QED  BY <1>8, <1>9, <2>3, <3>1
    <2> QED  BY <1>9, <2>2, <2>3
  <1>11. ASSUME NEW i \in DOMAIN red'
         PROVE  /\ i > 0
                /\ IF n + (m + 1) + (i - 0) <= Len(r) THEN red'[i] = r[n + (m + 1) + (i - 0)]
                                                     ELSE EsAviso(red'[i])
    <2>1. i \in Nat /\ i + 1 > a /\ n + m + ((i + 1) - a) = n + (m + 1) + (i - 0) /\ i > 0
      BY <1>2, <1>7
    <2>2. IF n + m + ((i + 1) - a) <= Len(r) THEN red[i + 1] = r[n + m + ((i + 1) - a)]
                                            ELSE EsAviso(red[i + 1])
      BY <1>2, <1>5, <2>1
    <2> QED  BY <1>2, <2>1, <2>2
  <1>12. 0 <= Len(red') /\ (~cerrado' => n + (m + 1) + (Len(red') - 0) >= Len(r))
    BY <1>1, <1>2, <1>5, <1>7
  <1>13. /\ Len(leidas') < Len(r) /\ \A i \in DOMAIN leidas' : leidas'[i] = r[i]
         /\ principal' = "cabecera" => leidas' = <<>>
         /\ principal' = "filas" => leidas' # <<>> /\ r[1].tipo = "OK*"
    BY <1>1, CaminoBasico
  <1>14. Len(leidas') = n /\ Len(cola') = m + 1
    BY <1>1, <1>3, <1>9
  <1> QED  BY <1>10, <1>11, <1>12, <1>13, <1>14 DEF EnCamino

(* The reader leaves its mark. *)
LEMMA CaminoFalla ==
    ASSUME ClienteTypeOK, SecuenciasInv, CierreInv, EnServicio,
           NEW r \in Seq(Lineas), NEW a \in Nat, EnCamino(r, a), LectorFalla
    PROVE  EnCamino(r, 0)'
  <1>1. /\ red = <<>> /\ cerrado /\ UNCHANGED <<leidas, principal, red, cerrado>>
        /\ cola' = cola \o <<Perdida>>
    BY DEF LectorFalla, CierreInv, EnServicio, TrasError, servidor
  <1>2. cola' = Append(cola, Perdida)
    BY <1>1, Basico DEF SecuenciasInv
  <1>3. /\ DOMAIN cola' = 1..Len(cola) + 1 /\ Len(cola) \in Nat
        /\ \A i \in DOMAIN cola : cola'[i] = cola[i]
        /\ cola'[Len(cola) + 1] = Perdida
        /\ \A i \in DOMAIN cola' : i \in DOMAIN cola \/ i = Len(cola) + 1
    BY <1>2, Pone, Basico DEF SecuenciasInv
  <1>4. \A i \in DOMAIN cola' :
          \/ cola'[i] = Perdida
          \/ Len(leidas) + i <= Len(r) /\ cola'[i] = r[Len(leidas) + i]
    BY <1>3, CaminoBasico
  <1>5. DOMAIN red' = {} /\ 0 <= Len(red')
    BY <1>1
  <1> QED  BY <1>1, <1>4, <1>5, CaminoBasico DEF EnCamino

(* leer_respuesta takes a line, and the answer goes on. *)
LEMMA CaminoToma ==
    ASSUME ClienteTypeOK, SecuenciasInv, NEW r \in Seq(Lineas), EnCamino(r, 0), cola # <<>>,
           cola' = Tail(cola), leidas' = Append(leidas, cola[1]),
           cola[1] = r[Len(leidas) + 1], Len(leidas) + 1 < Len(r), r[1].tipo = "OK*",
           principal' = "filas", UNCHANGED <<red, cerrado>>
    PROVE  EnCamino(r, 0)'
  <1>1. PICK n \in Nat : n = Len(leidas)
    BY Basico
  <1>2. PICK m \in Nat : Len(cola) = m + 1
    <2>1. Len(cola) \in Nat \ {0}
      BY Quita DEF SecuenciasInv
    <2>2. Len(cola) - 1 \in Nat /\ Len(cola) = (Len(cola) - 1) + 1
      BY <2>1
    <2> QED  BY <2>2
  <1>3. /\ cola[1] \in Lineas /\ Len(cola') = m /\ DOMAIN cola' = 1..m
        /\ \A i \in DOMAIN cola' : i \in Nat /\ i + 1 \in DOMAIN cola /\ cola'[i] = cola[i + 1]
    BY <1>2, Quita DEF SecuenciasInv
  <1>4. /\ Len(leidas') = n + 1 /\ DOMAIN leidas' = 1..n + 1
        /\ \A i \in DOMAIN leidas : leidas'[i] = leidas[i]
        /\ leidas'[n + 1] = cola[1]
        /\ \A i \in DOMAIN leidas' : i \in DOMAIN leidas \/ i = n + 1
    <2>1. /\ Len(leidas') = Len(leidas) + 1 /\ DOMAIN leidas' = 1..Len(leidas) + 1
          /\ DOMAIN leidas = 1..Len(leidas) /\ \A i \in DOMAIN leidas : leidas'[i] = leidas[i]
          /\ leidas'[Len(leidas) + 1] = cola[1]
      BY <1>3, Pone DEF SecuenciasInv
    <2>2. /\ Len(leidas') = n + 1 /\ DOMAIN leidas' = 1..n + 1 /\ DOMAIN leidas = 1..n
          /\ leidas'[n + 1] = cola[1]
      BY <1>1, <2>1, Zenon
    <2> QED  BY <2>1, <2>2
  <1>5. /\ \A i \in DOMAIN leidas : leidas[i] = r[i]
        /\ \A i \in DOMAIN cola : cola[i] = Perdida \/ (n + i <= Len(r) /\ cola[i] = r[n + i])
        /\ \A i \in DOMAIN red : i > 0 =>
              IF n + (m + 1) + (i - 0) <= Len(r) THEN red[i] = r[n + (m + 1) + (i - 0)]
                                               ELSE EsAviso(red[i])
        /\ \A i \in DOMAIN red : i <= 0 => EsAviso(red[i])
        /\ ~cerrado => n + (m + 1) + (Len(red) - 0) >= Len(r)
        /\ Len(r) \in Nat /\ Len(red) \in Nat /\ DOMAIN red = 1..Len(red)
    BY <1>1, <1>2, CaminoBasico
  <1>6. \A i \in DOMAIN leidas' : leidas'[i] = r[i]
    BY <1>1, <1>4, <1>5
  <1>7. \A i \in DOMAIN cola' :
          cola'[i] = Perdida \/ ((n + 1) + i <= Len(r) /\ cola'[i] = r[(n + 1) + i])
    <2>1. TAKE i \in DOMAIN cola'
    <2>2. i \in Nat /\ i + 1 \in DOMAIN cola /\ cola'[i] = cola[i + 1] /\ n + (i + 1) = (n + 1) + i
      BY <1>3
    <2>3. cola[i + 1] = Perdida \/ (n + (i + 1) <= Len(r) /\ cola[i + 1] = r[n + (i + 1)])
      BY <1>5, <2>2
    <2> QED  BY <2>2, <2>3
  <1>8. n + (m + 1) = (n + 1) + m
    OBVIOUS
  <1>9. /\ \A i \in DOMAIN red' : i > 0 =>
              IF (n + 1) + m + (i - 0) <= Len(r) THEN red'[i] = r[(n + 1) + m + (i - 0)]
                                                ELSE EsAviso(red'[i])
        /\ ~cerrado' => (n + 1) + m + (Len(red') - 0) >= Len(r)
        /\ 0 <= Len(red') /\ \A i \in DOMAIN red' : i <= 0 => EsAviso(red'[i])
    BY <1>5, <1>8
  <1>10. Len(leidas') < Len(r) /\ leidas' # <<>>
    BY <1>1, <1>4
  <1> QED  BY <1>3, <1>4, <1>6, <1>7, <1>9, <1>10 DEF EnCamino

LEMMA FlujoSigue ==
    ASSUME ClienteTypeOK, SecuenciasInv, CierreInv, FlujoInv, [ClienteNext]_clienteVars
    PROVE  FlujoInv'
  <1>1. SUFFICES ASSUME tardanzas' = 0 PROVE FlujoInv'
    BY DEF FlujoInv
  <1>2. /\ tardanzas = 0
        /\ principal \in {"inicio", "prompt"} => pendientes = <<>> /\ SinLineas
        /\ Esperando => EnElServidor \/ EnVuelta
    BY <1>1, TardanzasCrecen DEF FlujoInv, EnElServidor, EnVuelta
  <1>3. ASSUME \/ principal' \in {"cerrando", "bye", "fin"}
               \/ principal' \in {"inicio", "prompt"} /\ pendientes' = <<>> /\ SinLineas'
               \/ principal' \in {"cabecera", "filas"} /\ (EnElServidor' \/ EnVuelta')
        PROVE  FlujoInv'
    BY <1>3 DEF FlujoInv, Esperando, EnElServidor, EnVuelta
  <1>4. principal \in {"inicio", "prompt", "cabecera", "filas", "cerrando", "bye", "fin"}
    BY DEF ClienteTypeOK
  <1>5. CASE Responde
    <2>1. /\ pendientes # <<>> /\ ~cerrado /\ pendientes' = Tail(pendientes)
          /\ UNCHANGED <<principal, cola, leidas, pedidos>>
      BY <1>5 DEF Responde, cliente
    <2>2. CASE principal \in {"cabecera", "filas"}
      <3>1. EnElServidor /\ EnServicio
        BY <1>2, <2>1, <2>2 DEF Esperando, EnVuelta, EnServicio
      <3>2. PICK c \in Comandos : pendientes = <<[k |-> pedidos, comando |-> c]>>
        BY <3>1 DEF EnElServidor
      <3>3. Head(pendientes).k = pedidos /\ Head(pendientes) \in Peticiones /\ pendientes' = <<>>
        BY <2>1, <3>2, Quita DEF SecuenciasInv
      <3>4. PICK r \in Respuestas(Head(pendientes)) : red' = red \o r
        BY <1>5 DEF Responde
      <3>5. EsRespuesta(r, pedidos) /\ r \in Seq(Lineas) /\ Len(r) >= 1
        BY <3>3, <3>4, RespuestasSon DEF EsRespuesta
      <3>6. cola = <<>> /\ Len(cola) = 0 /\ leidas = <<>> /\ Len(leidas) = 0
            /\ principal = "cabecera" /\ \A i \in DOMAIN red : EsAviso(red[i])
        BY <2>1, <3>1, AbiertaSinMarca DEF EnElServidor, SinLineas
      <3>7. PICK a \in Nat : a = Len(red)
        BY Basico
      <3>8. /\ Len(red') = Len(red) + Len(r) /\ DOMAIN red = 1..Len(red) /\ Len(r) \in Nat
            /\ DOMAIN red' = 1..Len(red) + Len(r)
            /\ \A i \in DOMAIN red : red'[i] = red[i]
            /\ \A i \in DOMAIN red' : i > Len(red) => red'[i] = r[i - Len(red)]
                                                   /\ i - Len(red) \in DOMAIN r
            /\ DOMAIN r = 1..Len(r)
        BY <3>4, <3>5, Une DEF SecuenciasInv
      <3>9. /\ a <= Len(red') /\ 0 + 0 + (Len(red') - a) >= Len(r)
            /\ \A i \in DOMAIN red' : i <= a => EsAviso(red'[i])
        <4>1. a <= Len(red') /\ 0 + 0 + (Len(red') - a) >= Len(r)
          BY <3>7, <3>8
        <4>2. \A i \in DOMAIN red' : i <= a => i \in DOMAIN red
          BY <3>7, <3>8
        <4> QED  BY <3>6, <3>8, <4>1, <4>2
      <3>10. ASSUME NEW i \in DOMAIN red', i > a
             PROVE  0 + 0 + (i - a) <= Len(r) /\ red'[i] = r[0 + 0 + (i - a)]
        <4>1. red'[i] = r[i - a] /\ i - a \in 1..Len(r)
          BY <3>7, <3>8, <3>10
        <4>2. 0 + 0 + (i - a) = i - a
          BY <4>1
        <4> QED  BY <4>1, <4>2
      <3>11. EnCamino(r, a)'
        BY <2>1, <3>5, <3>6, <3>9, <3>10 DEF EnCamino
      <3>12. EnVuelta'
        BY <2>1, <3>3, <3>5, <3>11 DEF EnVuelta, EsRespuesta
      <3> QED  BY <1>3, <2>1, <2>2, <3>12
    <2>3. CASE principal \in {"inicio", "prompt"}
      BY <1>2, <2>1, <2>3
    <2>4. CASE principal \in {"cerrando", "bye", "fin"}
      BY <1>3, <2>1, <2>4
    <2> QED  BY <1>4, <2>2, <2>3, <2>4
  <1>6. CASE Empuja
    <2>1. /\ UNCHANGED <<principal, cola, leidas, pedidos, pendientes>>
          /\ SinLineas => SinLineas'
      <3>1. PICK l \in Lineas : red' = Append(red, l) /\ EsAviso(l)
        <4>1. Linea("ALERT", empujados', 0) \in Lineas
          <5>1. empujados' \in Nat /\ 0 \in 0..MaxFilas
            BY <1>6, Basico DEF Empuja
          <5> QED  BY <5>1, LineaTipo DEF Tipos
        <4> QED  BY <1>6, <4>1 DEF Empuja, EsAviso, Linea
      <3>2. \A i \in DOMAIN red' : (i \in DOMAIN red /\ red'[i] = red[i]) \/ red'[i] = l
        BY <3>1, Pone, Basico DEF SecuenciasInv
      <3> QED  BY <1>6, <3>1, <3>2 DEF Empuja, cliente, SinLineas
    <2>2. EnVuelta => EnVuelta'
      BY <1>6, <2>1, CaminoEmpuja DEF EnVuelta, EsRespuesta
    <2>3. EnElServidor => EnElServidor'
      BY <2>1 DEF EnElServidor
    <2> QED  BY <1>2, <1>3, <1>4, <2>1, <2>2, <2>3 DEF Esperando
  <1>7. CASE Corta
    <2>1. /\ UNCHANGED <<principal, cola, leidas, pedidos, pendientes>>
          /\ SinLineas => SinLineas'
      <3>1. \A i \in DOMAIN red' : i \in DOMAIN red /\ red'[i] = red[i]
        <4>1. CASE red' = red
          BY <4>1
        <4>2. CASE red' = <<>>
          BY <4>2
        <4> QED  BY <1>7, <4>1, <4>2 DEF Corta
      <3> QED  BY <1>7, <3>1 DEF Corta, cliente, SinLineas
    <2>2. EnVuelta => EnVuelta'
      <3>1. SUFFICES ASSUME EnVuelta PROVE EnVuelta'
        OBVIOUS
      <3>2. PICK r \in Seq(Lineas), a \in Nat : EsRespuesta(r, pedidos) /\ EnCamino(r, a)
        BY <3>1 DEF EnVuelta
      <3>3. EnCamino(r, a)' \/ EnCamino(r, 0)'
        BY <1>7, <3>2, CaminoCorta
      <3> QED  BY <2>1, <3>1, <3>2, <3>3 DEF EnVuelta, EsRespuesta
    <2>3. EnElServidor => EnElServidor'
      BY <2>1 DEF EnElServidor
    <2> QED  BY <1>2, <1>3, <1>4, <2>1, <2>2, <2>3 DEF Esperando
  <1>8. CASE LectorLee
    <2>0. UNCHANGED <<principal, leidas, pedidos, pendientes, cerrado>> /\ red # <<>>
      BY <1>8 DEF LectorLee
    <2>1. SinLineas => SinLineas'
      <3>1. /\ Head(red) = red[1] /\ 1 \in DOMAIN red /\ red' = Tail(red)
            /\ \A i \in DOMAIN red' : i + 1 \in DOMAIN red /\ red'[i] = red[i + 1]
        <4>1. /\ Head(red) = red[1] /\ red' = Tail(red)
              /\ \A i \in DOMAIN red' : i + 1 \in DOMAIN red /\ red'[i] = red[i + 1]
              /\ Len(red) \in Nat \ {0} /\ DOMAIN red = 1..Len(red)
          BY <1>8, Quita DEF LectorLee, SecuenciasInv
        <4> QED  BY <4>1
      <3>2. SinLineas => cola' = cola
        BY <1>8, <3>1 DEF SinLineas, LectorLee, EsAsincrona
      <3> QED  BY <3>1, <3>2 DEF SinLineas
    <2>2. EnVuelta => EnVuelta'
      <3>1. SUFFICES ASSUME EnVuelta PROVE EnVuelta'
        OBVIOUS
      <3>2. PICK r \in Seq(Lineas), a \in Nat : EsRespuesta(r, pedidos) /\ EnCamino(r, a)
        BY <3>1 DEF EnVuelta
      <3>3. \A i \in DOMAIN cola : cola[i] # Perdida
        BY <1>8 DEF LectorLee, ClienteTypeOK
      <3>4. \E b \in Nat : EnCamino(r, b)'
        <4>1. CASE EsAviso(Head(red))
          BY <1>8, <3>2, <4>1, CaminoAviso
        <4>2. CASE ~EsAviso(Head(red))
          BY <1>8, <3>2, <3>3, <4>2, CaminoLinea
        <4> QED  BY <4>1, <4>2
      <3> QED  BY <2>0, <3>1, <3>2, <3>4 DEF EnVuelta, EsRespuesta
    <2>3. EnElServidor => EnElServidor'
      BY <2>0, <2>1 DEF EnElServidor
    <2> QED  BY <1>2, <1>3, <1>4, <2>0, <2>1, <2>2, <2>3 DEF Esperando
  <1>9. CASE LectorFalla
    <2>0. UNCHANGED <<principal, leidas, pedidos, pendientes, red, cerrado>>
      BY <1>9 DEF LectorFalla, servidor
    <2>1. SinLineas => SinLineas'
      <3>1. cola' = cola \/ cola' = Append(cola, Perdida)
        BY <1>9, Basico DEF LectorFalla, TrasError, SecuenciasInv
      <3>2. \A i \in DOMAIN cola' : (i \in DOMAIN cola /\ cola'[i] = cola[i]) \/ cola'[i] = Perdida
        BY <3>1, Pone, Basico DEF SecuenciasInv
      <3> QED  BY <2>0, <3>2 DEF SinLineas
    <2>2. EnVuelta /\ EnServicio => EnVuelta'
      BY <1>9, <2>0, CaminoFalla DEF EnVuelta, EsRespuesta
    <2>3. EnElServidor => EnElServidor'
      BY <2>0, <2>1 DEF EnElServidor
    <2> QED  BY <1>2, <1>3, <1>4, <2>0, <2>1, <2>2, <2>3 DEF Esperando, EnServicio
  <1>10. CASE Abrir \/ \E c \in Comandos : Pedir(c)
    <2>1. pendientes = <<>> /\ SinLineas /\ UNCHANGED <<cola, red>>
      BY <1>2, <1>10, ComandoEs
    <2>2. SinLineas'
      BY <2>1 DEF SinLineas
    <2>3. CASE principal' \in {"fin", "cerrando"}
      BY <1>3, <2>3
    <2>4. CASE \E c \in Comandos : /\ principal' = "cabecera" /\ leidas' = <<>>
                                  /\ pendientes' = Append(pendientes,
                                                          [k |-> pedidos', comando |-> c])
      <3>1. \A x : Append(<<>>, x) = <<x>>
        OBVIOUS
      <3>2. EnElServidor'
        BY <2>1, <2>2, <2>4, <3>1 DEF EnElServidor
      <3> QED  BY <1>3, <2>4, <3>2
    <2> QED  BY <1>10, <2>3, <2>4, ComandoEs
  <1>11. CASE TomaLinea
    <2>1. CASE principal' \in {"fin", "cerrando"}
      BY <1>3, <2>1
    <2>2. CASE principal' \notin {"fin", "cerrando"}
      <3>1. PICK r \in Seq(Lineas) :
              /\ EsRespuesta(r, pedidos) /\ EnCamino(r, 0)
              /\ Len(leidas) + 1 <= Len(r) /\ cola[1] = r[Len(leidas) + 1]
              /\ leidas' = Append(leidas, cola[1])
              /\ \/ /\ Len(leidas) + 1 < Len(r) /\ r[1].tipo = "OK*" /\ principal' = "filas"
                 \/ Len(leidas) + 1 = Len(r) /\ principal' = "prompt"
        BY <1>2, <1>11, <2>2, TomaEs
      <3>2. /\ pendientes = <<>> /\ cola # <<>> /\ cola' = Tail(cola)
            /\ UNCHANGED <<pedidos, pendientes, red, cerrado>>
        BY <1>2, <1>11, <2>2, TomaEs DEF TomaLinea, servidor
      <3>3. CASE Len(leidas) + 1 < Len(r) /\ r[1].tipo = "OK*" /\ principal' = "filas"
        <4>1. EnCamino(r, 0)'
          BY <3>1, <3>2, <3>3, CaminoToma
        <4>2. EnVuelta'
          BY <3>1, <3>2, <4>1 DEF EnVuelta, EsRespuesta
        <4> QED  BY <1>3, <3>3, <4>2
      <3>4. CASE Len(leidas) + 1 = Len(r) /\ principal' = "prompt"
        <4>1. /\ Len(cola) \in Nat \ {0} /\ DOMAIN cola' = 1..Len(cola) - 1
              /\ \A i \in DOMAIN cola' : /\ i \in Nat /\ i >= 1 /\ i + 1 \in DOMAIN cola
                                        /\ cola'[i] = cola[i + 1]
          BY <3>2, Quita DEF SecuenciasInv
        <4>2. PICK n \in Nat : n = Len(leidas)
          BY Basico
        <4>3. /\ \A i \in DOMAIN cola : cola[i] = Perdida \/ n + i <= Len(r)
              /\ \A i \in DOMAIN red : i > 0 =>
                    IF n + Len(cola) + (i - 0) <= Len(r) THEN red[i] = r[n + Len(cola) + (i - 0)]
                                                       ELSE EsAviso(red[i])
              /\ Len(r) = n + 1 /\ DOMAIN red = 1..Len(red) /\ Len(red) \in Nat
          BY <3>1, <3>4, <4>2, CaminoBasico
        <4>4. \A i \in DOMAIN cola' : cola'[i] = Perdida
          <5>1. TAKE i \in DOMAIN cola'
          <5>2. i + 1 \in DOMAIN cola /\ cola'[i] = cola[i + 1] /\ ~(n + (i + 1) <= n + 1)
            BY <4>1
          <5> QED  BY <4>3, <5>2
        <4>5. \A i \in DOMAIN red : EsAviso(red[i])
          <5>1. TAKE i \in DOMAIN red
          <5>2. i > 0 /\ ~(n + Len(cola) + (i - 0) <= n + 1)
            BY <4>1, <4>3
          <5> QED  BY <4>3, <5>2
        <4>6. SinLineas'
          BY <3>2, <4>4, <4>5 DEF SinLineas
        <4> QED  BY <1>3, <3>2, <3>4, <4>6
      <3> QED  BY <3>1, <3>3, <3>4
    <2> QED  BY <2>1, <2>2
  <1>12. CASE Tardanza
    BY <1>1, <1>12, Basico DEF Tardanza
  <1>13. CASE Salir \/ Despedirse \/ Cerrar
    BY <1>3, <1>13 DEF Salir, Despedirse, Cerrar
  <1>14. CASE LectorVuelta \/ UNCHANGED clienteVars
    <2>1. UNCHANGED <<principal, cola, leidas, pedidos, pendientes, red, cerrado>>
      BY <1>14 DEF LectorVuelta, clienteVars, servidor
    <2>2. (SinLineas => SinLineas') /\ (EnElServidor => EnElServidor')
      BY <2>1 DEF SinLineas, EnElServidor
    <2>3. EnVuelta => EnVuelta'
      <3>1. \A r \in Seq(Lineas), a \in Nat : EnCamino(r, a) => EnCamino(r, a)'
        BY <2>1 DEF EnCamino
      <3> QED  BY <2>1, <3>1 DEF EnVuelta, EsRespuesta
    <2> QED  BY <1>2, <1>3, <1>4, <2>1, <2>2, <2>3 DEF Esperando
  <1> QED  BY <1>5, <1>6, <1>7, <1>8, <1>9, <1>10, <1>11, <1>12, <1>13, <1>14
           DEF ClienteNext, Comandos

-----------------------------------------------------------------------------
LEMMA ClienteInvInicial == ClienteInit => ClienteInv
  <1> SUFFICES ASSUME ClienteInit PROVE ClienteInv
    OBVIOUS
  <1>1. /\ principal = "inicio" /\ lector = "leyendo" /\ activo = TRUE /\ cola = <<>>
        /\ leidas = <<>> /\ pedidos = 0 /\ pendientes = <<>> /\ red = <<>> /\ cerrado = FALSE
        /\ suscrita = FALSE /\ empujados = 0 /\ mostrados = <<>> /\ tardanzas = 0
        /\ entregada = NadaEntregado
    BY DEF ClienteInit
  <1>2. SecuenciasInv
    BY <1>1 DEF SecuenciasInv
  <1>3. ClienteTypeOK
    <2>1. 0 \in 0..MaxPedidos /\ 0 \in 0..MaxTardanzas /\ 0 \in 0..MaxAvisos
      BY ClientAssumption
    <2>2. DOMAIN cola = {} /\ DOMAIN leidas = {} /\ DOMAIN red = {} /\ DOMAIN pendientes = {}
          /\ Len(mostrados) = 0
      BY <1>1
    <2>3. \A s \in {cola, leidas, red} : \A i \in DOMAIN s : EsLinea(s[i])
      BY <2>2
    <2>4. \A i \in DOMAIN cola : cola[i] = Perdida => i = Len(cola) /\ lector = "fin"
      BY <2>2
    <2>5. \A i \in DOMAIN pendientes : EsPeticion(pendientes[i])
      BY <2>2
    <2>6. Len(mostrados) <= empujados
      BY <1>1, <2>2
    <2>7. /\ principal \in {"inicio", "prompt", "cabecera", "filas", "cerrando", "bye", "fin"}
          /\ lector \in {"leyendo", "vuelta", "fin"}
          /\ activo \in BOOLEAN /\ cerrado \in BOOLEAN /\ suscrita \in BOOLEAN
          /\ pedidos \in 0..MaxPedidos /\ tardanzas \in 0..MaxTardanzas
          /\ empujados \in 0..MaxAvisos
      BY <1>1, <2>1
    <2> QED  BY <2>3, <2>4, <2>5, <2>6, <2>7, Zenon DEF ClienteTypeOK
  <1>4. CierreInv
    BY <1>1 DEF CierreInv
  <1>5. AvisosInv
    <2>1. AvisosEnRed = {} /\ Len(mostrados) = 0 /\ DOMAIN mostrados = {}
      BY <1>1 DEF AvisosEnRed
    <2> QED  BY <1>1, <2>1 DEF AvisosInv
  <1>6. FlujoInv
    <2>1. SinLineas
      BY <1>1 DEF SinLineas
    <2> QED  BY <1>1, <2>1 DEF FlujoInv, Esperando
  <1>7. RespuestaCorresponde
    BY <1>1, <1>3 DEF RespuestaCorresponde
  <1> QED  BY <1>2, <1>3, <1>4, <1>5, <1>6, <1>7 DEF ClienteInv

LEMMA ClienteInvSigue == ClienteInv /\ [ClienteNext]_clienteVars => ClienteInv'
  <1> SUFFICES ASSUME ClienteInv, [ClienteNext]_clienteVars PROVE ClienteInv'
    OBVIOUS
  <1> USE DEF ClienteInv
  <1>1. SecuenciasInv'
    BY SecuenciasSiguen
  <1>2. CierreInv'
    BY CierreSigue
  <1>3. AvisosInv'
    BY AvisosSiguen
  <1>4. FlujoInv'
    BY FlujoSigue
  <1>5. ClienteTypeOK'
    <2>1. Marcas' /\ MarcaAlFinal'
      BY MarcasSiguen, MarcaSigue
    <2>2. /\ \A s \in {cola', leidas', red'} : \A i \in DOMAIN s : EsLinea(s[i])
          /\ \A i \in DOMAIN pendientes' : EsPeticion(pendientes'[i])
      BY <1>1, LineasSon DEF SecuenciasInv
    <2>3. Len(mostrados') <= empujados'
      BY <1>3 DEF AvisosInv
    <2> QED  BY <2>1, <2>2, <2>3 DEF ClienteTypeOK, Marcas, MarcaAlFinal, EsLinea, EsPeticion
  <1>6. RespuestaCorresponde'
    BY <1>5, CorrespondeSigue
  <1> QED  BY <1>1, <1>2, <1>3, <1>4, <1>5, <1>6

(* While no wait is given up, what a command of the client is given is the   *)
(* whole answer to that command, whatever alerts come between and wherever   *)
(* the connection breaks, for any number of commands, rows and alerts.      *)
THEOREM SuRespuesta == ClienteSpec => []RespuestaCorresponde
  <1>1. ClienteInv => RespuestaCorresponde
    BY DEF ClienteInv
  <1> QED  BY <1>1, ClienteInvInicial, ClienteInvSigue, PTL DEF ClienteSpec

(* While the connection is open every alert the server pushed was shown, in  *)
(* order, or is on its way, behind those and in order.                      *)
THEOREM TodoAvisoLlega == ClienteSpec => []NingunAvisoSePierde
  <1>1. ClienteInv => NingunAvisoSePierde
    <2> SUFFICES ASSUME ClienteInv, ~cerrado, principal \notin {"bye", "fin"}
                 PROVE  /\ \A i \in DOMAIN mostrados : mostrados[i] = i
                        /\ {red[i].de : i \in AvisosEnRed} = Len(mostrados) + 1..empujados
                        /\ \A i, j \in AvisosEnRed : i < j => red[i].de < red[j].de
      BY DEF NingunAvisoSePierde
    <2> QED  BY DEF ClienteInv, AvisosInv
  <1> QED  BY <1>1, ClienteInvInicial, ClienteInvSigue, PTL DEF ClienteSpec

-----------------------------------------------------------------------------
(* run_nodes.py                                                             *)

(* What is known at each stage of main(): before the first signal nothing is *)
(* in the stop; the loops have done their work below puesto; only Popen makes a   *)
(* node that was not told, and it runs before any signal.                   *)
Avance ==
    /\ TypeOK
    /\ forzados \subseteq intentados
    /\ fase \in {"inicio", "rechazado"} => Len(nodo) = 0
    /\ fase \in {"inicio", "popen", "anota", "espera"} => Len(senales) = 0
    /\ fase \in {"popen", "espera"} => Len(nodo) = Len(procesos)
    /\ fase = "anota" => Len(nodo) = Len(procesos) + 1
    /\ fase \in {"avisa", "recoge"} => Len(senales) = 1
    /\ fase = "avisa" => \A k \in 1..puesto - 1 : k \in intentados \/ nodo[k] = "ido"
    /\ fase = "recoge" => \A k \in 1..Len(procesos) : k \in intentados \/ nodo[k] = "ido"
    /\ fase \in {"espera", "recoge"} => \A k \in 1..puesto - 1 : nodo[k] = "ido"
    /\ fase = "fin" => /\ \A k \in 1..Len(procesos) : nodo[k] = "ido"
                       /\ Len(senales) = 0 => Len(nodo) = Len(procesos)
    /\ fase = "roto" /\ Huerfanos # {} => Len(senales) # 1
    /\ ConCtrlC => Huerfanos = {}

LEMMA InicioAvance == Init => Avance
  <1> SUFFICES ASSUME Init PROVE Avance
    OBVIOUS
  <1>1. /\ procesos = <<>> /\ nodo = <<>> /\ senales = <<>> /\ puesto = 1
        /\ fase = "inicio" /\ cuenta \in Cuentas /\ intentados = {} /\ forzados = {}
    BY DEF Init
  <1>2. TypeOK
    BY <1>1 DEF TypeOK
  <1>3. ~ConCtrlC
    BY <1>1 DEF ConCtrlC
  <1> QED  BY <1>1, <1>2, <1>3 DEF Avance

(* A node that changes only by ending, or by being told, makes no orphan. *)
LEMMA SinHuerfanosNuevos ==
    ASSUME nodo' \in Seq({"nace", "marcha", "avisado", "ido"}), Len(nodo') = Len(nodo),
           nodo \in Seq({"nace", "marcha", "avisado", "ido"}),
           \A n \in 1..Len(nodo) : nodo'[n] \in {"nace", "marcha"} => nodo[n] \in {"nace", "marcha"},
           Huerfanos = {}
    PROVE  Huerfanos' = {}
  BY DEF Huerfanos

Estados == {"nace", "marcha", "avisado", "ido"}

(* One element of a sequence is replaced. *)
LEMMA Reemplazo ==
    ASSUME NEW s \in Seq(Estados), NEW k \in 1..Len(s), NEW v \in Estados,
           NEW t, t = [s EXCEPT ![k] = v]
    PROVE  /\ t \in Seq(Estados) /\ Len(t) = Len(s) /\ t[k] = v
           /\ \A n \in 1..Len(s) : n # k => t[n] = s[n]
  OBVIOUS

LEMMA EmpezarAvance == ASSUME Avance, Empezar PROVE Avance'
  BY DEF Avance, TypeOK, Activas, Empezar, Huerfanos, ConCtrlC

LEMMA PopenAvance == ASSUME Avance, Popen PROVE Avance'
  <1>1. ~ConCtrlC'
    BY DEF Avance, TypeOK, Popen, ConCtrlC
  <1>2. CASE fase' = "anota" /\ nodo' = Append(nodo, "nace")
    <2>1. Len(nodo') = Len(nodo) + 1 /\ nodo' \in Seq({"nace", "marcha", "avisado", "ido"})
      BY <1>2 DEF Avance, TypeOK
    <2> QED  BY <1>1, <1>2, <2>1 DEF Avance, TypeOK, Activas, Popen
  <1>3. CASE fase' = "roto" /\ UNCHANGED nodo
    BY <1>1, <1>3 DEF Avance, TypeOK, Popen
  <1> QED  BY <1>2, <1>3 DEF Popen

LEMMA AnotarAvance == ASSUME Avance, Anotar PROVE Avance'
  <1>1. ~ConCtrlC'
    BY DEF Avance, TypeOK, Anotar, ConCtrlC
  <1>2. /\ procesos' \in Seq(Nat) /\ Len(procesos') = Len(procesos) + 1
        /\ \A k \in 1..Len(procesos') : procesos'[k] = k
    BY DEF Avance, TypeOK, Anotar
  <1> QED  BY <1>1, <1>2 DEF Avance, TypeOK, Activas, Anotar

LEMMA EnMarchaAvance == ASSUME Avance, TodosEnMarcha PROVE Avance'
  <1>1. ~ConCtrlC'
    BY DEF Avance, TypeOK, TodosEnMarcha, ConCtrlC
  <1> QED  BY <1>1 DEF Avance, TypeOK, Activas, TodosEnMarcha

LEMMA FinDeAvance ==
    ASSUME Avance, FinDe("espera", "fin") \/ FinDe("avisa", "recoge") \/ FinDe("recoge", "fin")
    PROVE  Avance'
  <1>1. ConCtrlC' = ConCtrlC /\ Huerfanos' = Huerfanos
    BY DEF FinDe, ConCtrlC, Huerfanos
  <1>2. Len(procesos) \in Nat /\ puesto = Len(procesos) + 1
    BY DEF Avance, TypeOK, FinDe
  <1>3. CASE FinDe("espera", "fin")
    BY <1>1, <1>2, <1>3 DEF Avance, TypeOK, FinDe
  <1>4. CASE FinDe("avisa", "recoge")
    BY <1>1, <1>2, <1>4 DEF Avance, TypeOK, Activas, FinDe
  <1>5. CASE FinDe("recoge", "fin")
    <2>1. /\ fase = "recoge" /\ fase' = "fin" /\ puesto' = 1
          /\ UNCHANGED <<cuenta, procesos, nodo, intentados, forzados, senales>>
      BY <1>5 DEF FinDe
    <2>2. Len(senales') = 1 /\ \A k \in 1..Len(procesos) : nodo[k] = "ido"
      BY <1>2, <2>1 DEF Avance
    <2>3. TypeOK'
      BY <1>2, <2>1 DEF Avance, TypeOK
    <2> QED  BY <1>1, <2>1, <2>2, <2>3 DEF Avance
  <1> QED  BY <1>3, <1>4, <1>5

LEMMA EsperarAvance == ASSUME Avance, Esperar PROVE Avance'
  <1>1. ~ConCtrlC'
    BY DEF Avance, TypeOK, Esperar, ConCtrlC
  <1>2. procesos[puesto] = puesto /\ nodo[puesto] = "ido" /\ puesto' \in 1..Len(procesos) + 1
    BY DEF Avance, TypeOK, Esperar
  <1> QED  BY <1>1, <1>2 DEF Avance, TypeOK, Activas, Esperar

LEMMA AvisarAvance == ASSUME Avance, Avisar PROVE Avance'
  <1>1. procesos[puesto] = puesto /\ puesto \in DOMAIN nodo /\ puesto' \in 1..Len(procesos) + 1
    BY DEF Avance, TypeOK, Avisar
  <1>2. /\ \/ UNCHANGED nodo
           \/ nodo' = [nodo EXCEPT ![puesto] = TrasAviso(nodo[puesto])]
        /\ intentados' = intentados \cup {puesto} \/ (nodo[puesto] = "ido" /\ UNCHANGED <<nodo, intentados>>)
    BY <1>1 DEF Avisar, SeAvisa
  <1>3. TrasAviso(nodo[puesto]) \in {"avisado", "ido"}
    BY <1>1 DEF TrasAviso, Avance, TypeOK
  <1>4. /\ nodo' \in Seq({"nace", "marcha", "avisado", "ido"}) /\ Len(nodo') = Len(nodo)
        /\ \A n \in 1..Len(nodo) : nodo'[n] \in {"nace", "marcha"} => nodo[n] \in {"nace", "marcha"}
        /\ \A n \in 1..Len(nodo) : nodo[n] = "ido" /\ n # puesto => nodo'[n] = "ido"
    <2>1. nodo \in Seq(Estados) /\ puesto \in 1..Len(nodo) /\ TrasAviso(nodo[puesto]) \in Estados
      BY <1>1, <1>3 DEF Avance, TypeOK, Estados
    <2>2. CASE nodo' = [nodo EXCEPT ![puesto] = TrasAviso(nodo[puesto])]
      <3>1. /\ nodo' \in Seq(Estados) /\ Len(nodo') = Len(nodo) /\ nodo'[puesto] = TrasAviso(nodo[puesto])
            /\ \A n \in 1..Len(nodo) : n # puesto => nodo'[n] = nodo[n]
        BY <2>1, <2>2, Reemplazo
      <3> QED  BY <1>3, <2>1, <3>1 DEF Estados
    <2>3. CASE UNCHANGED nodo
      BY <2>1, <2>3 DEF Estados
    <2> QED  BY <1>2, <2>2, <2>3
  <1>5. ConCtrlC' => Huerfanos' = {}
    BY <1>4, SinHuerfanosNuevos DEF Avance, TypeOK, Avisar, ConCtrlC
  <1>6. \A k \in 1..puesto' - 1 : k \in intentados' \/ nodo'[k] = "ido"
    <2>1. puesto' = puesto + 1 /\ puesto \in Nat /\ \A k \in 1..puesto - 1 : k \in intentados \/ nodo[k] = "ido"
      BY <1>1 DEF Avance, TypeOK, Avisar
    <2>2. intentados \subseteq intentados' /\ (puesto \in intentados' \/ nodo'[puesto] = "ido")
      BY <1>1, <1>2
    <2>3. \A k \in 1..puesto - 1 : nodo[k] = "ido" => nodo'[k] = "ido"
      BY <1>1, <1>4, <2>1 DEF Avance, TypeOK
    <2> QED  BY <2>1, <2>2, <2>3
  <1>7. /\ UNCHANGED <<fase, cuenta, procesos, forzados, senales>> /\ fase = "avisa"
        /\ intentados' \subseteq DOMAIN nodo' /\ intentados \subseteq intentados'
    BY <1>1, <1>2, <1>4 DEF Avance, TypeOK, Avisar
  <1> QED  BY <1>1, <1>4, <1>5, <1>6, <1>7 DEF Avance, TypeOK, Activas

LEMMA RecogerAvance == ASSUME Avance, Recoger PROVE Avance'
  <1>1. /\ procesos[puesto] = puesto /\ puesto \in 1..Len(nodo) /\ puesto' = puesto + 1 /\ puesto' \in 1..Len(procesos) + 1
        /\ fase = "recoge" /\ UNCHANGED <<fase, cuenta, procesos, intentados, senales>>
        /\ Len(procesos) \in Nat /\ puesto \in 1..Len(procesos)
    BY DEF Avance, TypeOK, Recoger
  <1>2. nodo \in Seq(Estados) /\ forzados \subseteq intentados
    BY DEF Avance, TypeOK, Estados
  <1>3. /\ nodo' \in Seq(Estados) /\ Len(nodo') = Len(nodo) /\ nodo'[puesto] = "ido"
        /\ \A n \in 1..Len(nodo) : n # puesto => nodo'[n] = nodo[n]
        /\ forzados' \subseteq forzados \cup {puesto}
        /\ nodo[puesto] = "ido" => UNCHANGED forzados
    <2>1. CASE nodo[puesto] = "ido" /\ UNCHANGED <<nodo, forzados>>
      BY <1>1, <1>2, <2>1
    <2>2. CASE /\ nodo[puesto] # "ido" /\ nodo' = [nodo EXCEPT ![puesto] = "ido"]
               /\ forzados' = forzados \cup {puesto}
      <3>1. "ido" \in Estados
        BY DEF Estados
      <3>2. nodo' \in Seq(Estados) /\ Len(nodo') = Len(nodo) /\ nodo'[puesto] = "ido"
            /\ \A n \in 1..Len(nodo) : n # puesto => nodo'[n] = nodo[n]
        BY <1>1, <1>2, <2>2, <3>1, Reemplazo
      <3> QED  BY <2>2, <3>2
    <2> QED  BY <1>1, <2>1, <2>2 DEF Recoger, PlazoVencido, TrasPlazo
  <1>4. forzados' \subseteq intentados' /\ forzados' \subseteq DOMAIN nodo'
    <2>1. puesto \in intentados \/ nodo[puesto] = "ido"
      BY <1>1 DEF Avance
    <2>2. DOMAIN nodo = 1..Len(nodo) /\ DOMAIN nodo' = 1..Len(nodo') /\ forzados \subseteq DOMAIN nodo
      BY <1>2, <1>3 DEF Avance, TypeOK
    <2> QED  BY <1>1, <1>2, <1>3, <2>1, <2>2
  <1>5. ConCtrlC' => Huerfanos' = {}
    BY <1>1, <1>2, <1>3, SinHuerfanosNuevos DEF Avance, ConCtrlC, Estados
  <1>6. /\ \A k \in 1..Len(procesos) : k \in intentados \/ nodo'[k] = "ido"
        /\ \A k \in 1..puesto' - 1 : nodo'[k] = "ido"
    <2>1. Len(nodo) \in Nat /\ \A k \in 1..Len(procesos) : k \in 1..Len(nodo)
      BY <1>2 DEF Avance, TypeOK
    <2>2. /\ \A k \in 1..Len(procesos) : k \in intentados \/ nodo[k] = "ido"
          /\ \A k \in 1..puesto - 1 : nodo[k] = "ido"
      BY <1>1 DEF Avance
    <2> QED  BY <1>1, <1>3, <2>1, <2>2
  <1>7. TypeOK'
    BY <1>1, <1>3, <1>4 DEF Avance, TypeOK, Activas, Estados
  <1> QED  BY <1>1, <1>3, <1>4, <1>5, <1>6, <1>7 DEF Avance

(* A signal takes main() to the stop, or out of it; it only makes nodes end. *)
LEMMA InterrumpirAvance ==
    ASSUME Avance, NEW s \in {"TERM", "INT"}, Interrumpir(s),
           nodo' \in Seq(Estados), Len(nodo') = Len(nodo),
           \A n \in 1..Len(nodo) : nodo'[n] \in {"nace", "marcha"} => nodo[n] \in {"nace", "marcha"},
           \A n \in 1..Len(nodo) : nodo[n] = "ido" => nodo'[n] = "ido",
           s = "INT" => Huerfanos' = {}
    PROVE  Avance'
  <1>1. /\ senales' \in Seq({"TERM", "INT"}) /\ Len(senales') = Len(senales) + 1
        /\ Len(senales) \in Nat
        /\ \A k \in 1..Len(senales') : senales'[k] = IF k <= Len(senales) THEN senales[k] ELSE s
    BY DEF Avance, TypeOK, Interrumpir
  <1>2. /\ puesto' = 1 /\ UNCHANGED <<cuenta, procesos, intentados, forzados>>
        /\ fase' = TrasSenal(fase) /\ ~Terminada
    BY DEF Interrumpir
  <1>3. (fase' = "avisa" /\ Len(senales) = 0) \/ fase' = "roto"
    BY <1>2 DEF Avance, TypeOK, TrasSenal, Activas
  <1>4. TypeOK'
    <2>1. DOMAIN nodo' = DOMAIN nodo
      BY DEF Avance, TypeOK
    <2>2. fase' \in Activas \cup {"roto"}
      BY <1>3 DEF Activas
    <2>3. Len(procesos) \in Nat /\ puesto' \in 1..Len(procesos') + 1
      BY <1>2 DEF Avance, TypeOK
    <2>4. /\ procesos' \in Seq(Nat) /\ \A k \in 1..Len(procesos') : procesos'[k] = k
          /\ cuenta' \in Cuentas /\ Len(nodo') \in {Len(procesos'), Len(procesos') + 1}
          /\ intentados' \subseteq DOMAIN nodo' /\ forzados' \subseteq DOMAIN nodo'
      BY <1>2, <2>1 DEF Avance, TypeOK
    <2>5. fase' \in Activas \cup {"inicio", "fin", "roto", "rechazado"}
      BY <2>2
    <2> HIDE DEF Interrumpir
    <2> QED  BY <1>1, <2>3, <2>4, <2>5 DEF TypeOK, Estados
  <1>5. ConCtrlC' => Huerfanos' = {}
    <2>1. CASE s = "INT"
      BY <2>1
    <2>2. CASE s = "TERM"
      <3>1. ConCtrlC' => ConCtrlC
        BY <1>1, <2>2 DEF ConCtrlC, Avance, TypeOK
      <3> QED  BY <3>1, SinHuerfanosNuevos DEF Avance, TypeOK, Estados
    <2> QED  BY <2>1, <2>2
  <1>6. fase' = "roto" /\ Huerfanos' # {} => Len(senales') # 1
    <2>1. CASE fase = "inicio"
      <3>1. Len(nodo') = 0
        BY <2>1 DEF Avance
      <3>2. DOMAIN nodo' = 1..0
        BY <3>1
      <3> QED  BY <3>2 DEF Huerfanos
    <2>2. CASE fase # "inicio"
      BY <1>1, <1>2, <2>2 DEF Avance, TypeOK, TrasSenal, Terminada, Activas
    <2> QED  BY <2>1, <2>2
  <1>7. CASE fase' = "avisa"
    BY <1>1, <1>2, <1>3, <1>4, <1>5, <1>7 DEF Avance
  <1>8. CASE fase' = "roto"
    BY <1>1, <1>2, <1>4, <1>5, <1>6, <1>8 DEF Avance
  <1> QED  BY <1>3, <1>7, <1>8

LEMMA SigTermAvance == ASSUME Avance, SigTerm PROVE Avance'
  <1>1. Interrumpir("TERM") /\ UNCHANGED nodo
    BY DEF SigTerm
  <1>2. nodo \in Seq(Estados)
    BY DEF Avance, TypeOK, Estados
  <1> HIDE DEF Interrumpir
  <1> QED  BY <1>1, <1>2, InterrumpirAvance

LEMMA CtrlCAvance == ASSUME Avance, CtrlC PROVE Avance'
  <1>1. Interrumpir("INT") /\ nodo' = [n \in DOMAIN nodo |-> TrasAviso(nodo[n])]
    BY DEF CtrlC
  <1>2. nodo \in Seq(Estados) /\ DOMAIN nodo = 1..Len(nodo) /\ Len(nodo) \in Nat
    BY DEF Avance, TypeOK, Estados
  <1>3. \A n \in 1..Len(nodo) : nodo[n] \in Estados /\ TrasAviso(nodo[n]) \in {"avisado", "ido"}
                                /\ (nodo[n] = "ido" => TrasAviso(nodo[n]) = "ido")
    BY <1>2 DEF TrasAviso, Estados
  <1>4. /\ nodo' \in Seq(Estados) /\ Len(nodo') = Len(nodo)
        /\ \A n \in 1..Len(nodo) : nodo'[n] = TrasAviso(nodo[n])
    BY <1>1, <1>2, <1>3 DEF Estados
  <1>5. Huerfanos' = {}
    BY <1>2, <1>3, <1>4 DEF Huerfanos
  <1>6. /\ \A n \in 1..Len(nodo) : nodo'[n] \in {"nace", "marcha"} => nodo[n] \in {"nace", "marcha"}
        /\ \A n \in 1..Len(nodo) : nodo[n] = "ido" => nodo'[n] = "ido"
    BY <1>3, <1>4
  <1> QED  BY <1>1, <1>4, <1>5, <1>6, InterrumpirAvance

LEMMA NodoAvance == ASSUME Avance, NEW n \in DOMAIN nodo, Instala(n) \/ Acaba(n) PROVE Avance'
  <1>1. /\ nodo \in Seq(Estados) /\ n \in 1..Len(nodo) /\ Len(nodo) \in Nat
        /\ UNCHANGED <<fase, cuenta, procesos, puesto, intentados, forzados, senales>>
    BY DEF Avance, TypeOK, Estados, Instala, Acaba
  <1>2. PICK e \in Estados : nodo' = [nodo EXCEPT ![n] = e]
                             /\ nodo[n] # "ido" /\ (e \in {"nace", "marcha"} => nodo[n] = "nace")
    BY DEF Instala, Acaba, Estados
  <1>3. /\ nodo' \in Seq(Estados) /\ Len(nodo') = Len(nodo) /\ nodo'[n] = e
        /\ \A k \in 1..Len(nodo) : k # n => nodo'[k] = nodo[k]
    BY <1>1, <1>2, Reemplazo
  <1>4. /\ \A k \in 1..Len(nodo) : nodo'[k] \in {"nace", "marcha"} => nodo[k] \in {"nace", "marcha"}
        /\ \A k \in 1..Len(nodo) : nodo[k] = "ido" => nodo'[k] = "ido"
        /\ \A k \in DOMAIN nodo' : k \in 1..Len(nodo)
    BY <1>1, <1>2, <1>3
  <1>5. Huerfanos = {} => Huerfanos' = {}
    BY <1>1, <1>3, <1>4, SinHuerfanosNuevos DEF Estados
  <1>6. /\ TypeOK' /\ Len(procesos) \in Nat /\ Len(procesos) <= Len(nodo) /\ puesto \in 1..Len(procesos) + 1
        /\ ConCtrlC' = ConCtrlC
    BY <1>1, <1>3, <1>4 DEF Avance, TypeOK, Estados, ConCtrlC
  <1>7. \A k \in 1..Len(procesos) : nodo[k] = "ido" => nodo'[k] = "ido"
    BY <1>4, <1>6, <1>1
  <1> QED  BY <1>1, <1>3, <1>5, <1>6, <1>7 DEF Avance

LEMMA PasoAvance == Avance /\ [Next]_vars => Avance'
  <1> SUFFICES ASSUME Avance, [Next]_vars PROVE Avance'
    OBVIOUS
  <1>1. CASE UNCHANGED vars
    BY <1>1 DEF vars, Avance, TypeOK, Huerfanos, ConCtrlC
  <1>2. CASE Lanzador
    BY <1>2, EmpezarAvance, PopenAvance, AnotarAvance, EnMarchaAvance, EsperarAvance,
       AvisarAvance, RecogerAvance, FinDeAvance DEF Lanzador
  <1>3. CASE SigTerm \/ CtrlC
    BY <1>3, SigTermAvance, CtrlCAvance
  <1>4. ASSUME NEW n \in DOMAIN nodo, Instala(n) \/ Acaba(n) PROVE Avance'
    BY <1>4, NodoAvance
  <1> QED  BY <1>1, <1>2, <1>3, <1>4 DEF Next

(* The stop is orderly, whenever it comes (main, the except).               *)
THEOREM LaParadaEsOrdenada == Spec => []ParadaOrdenada
  <1>1. Avance => ParadaOrdenada
    BY DEF Avance, TypeOK, ParadaOrdenada
  <1> QED  BY <1>1, InicioAvance, PasoAvance, PTL DEF Spec

(* Nobody is left behind but for the causes it lists (main).                *)
THEOREM HuerfanosSiempreExplicados == Spec => []HuerfanosExplicados
  <1>1. Avance => HuerfanosExplicados
    <2> SUFFICES ASSUME Avance, Terminada, Huerfanos # {}
                 PROVE  /\ ~ConCtrlC
                        /\ \/ fase = "fin" /\ Huerfanos = {Len(procesos) + 1} /\ senales # <<>>
                           \/ fase = "roto" /\ Len(senales) # 1
      BY DEF HuerfanosExplicados
    <2>1. ~ConCtrlC
      BY DEF Avance
    <2>2. CASE fase = "roto"
      BY <2>1, <2>2 DEF Avance
    <2>3. CASE fase = "fin"
      <3>1. Huerfanos \subseteq {Len(procesos) + 1}
        BY <2>3 DEF Avance, TypeOK, Huerfanos
      <3>2. Len(nodo) # Len(procesos)
        BY <3>1 DEF Avance, TypeOK, Huerfanos
      <3>3. senales # <<>>
        BY <2>3, <3>2 DEF Avance, TypeOK
      <3> QED  BY <2>1, <2>3, <3>1, <3>3
    <2>4. CASE fase = "rechazado"
      BY <2>4 DEF Avance, TypeOK, Huerfanos
    <2> QED  BY <2>2, <2>3, <2>4 DEF Terminada
  <1> QED  BY <1>1, InicioAvance, PasoAvance, PTL DEF Spec

=============================================================================
