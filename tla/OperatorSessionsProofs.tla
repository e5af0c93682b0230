----------------------- MODULE OperatorSessionsProofs -----------------------
(***************************************************************************)
(* For any numbers of connections, descriptors, slots and pieces: the slots *)
(* of g_operators belong to their sessions, answers stay whole, a push       *)
(* reaches every subscriber and nobody else.                                *)
(***************************************************************************)
EXTENDS OperatorSessions, TLAPS

(* g_op_mutex is held by the thread that is inside a writing section, and by *)
(* no other.                                                                *)
Cerrojo ==
    /\ \A h \in Hilos : paso[h] # 0 => mutex = h
    /\ \A c \in Conns : paso[c] # 0 => fase[c] \in {"responde", "difunde"}
    /\ \A d \in Difusores : paso[d] # 0 => pendiente[d]

(* What a connection keeps outside its session. *)
FueraDeSesion ==
    \A c \in Conns :
        /\ ~EnSesion(c) => slot[c] = 0
        /\ fase[c] = "nueva" => fd[c] = Nadie /\ ~viva[c]
        /\ fase[c] # "nueva" => fd[c] # Nadie
        /\ ~viva[c] => buffer[c] = <<>>

(* The subscription in the table is the one last asked for. *)
SuscripcionAlDia ==
    \A c \in Conns : EnSesion(c) => operators[slot[c]].suscrito = quiere[c]

(* An answer with its last piece missing is being written. *)
Entero(b) == \A i \in 1..(Len(b) - 1) : b[i] = "TROZO" => b[i + 1] \in {"TROZO", "FIN"}
AMedias(b) == b # <<>> /\ b[Len(b)] = "TROZO"
TrozosEnCurso ==
    \A c \in Conns :
        /\ Entero(buffer[c])
        /\ AMedias(buffer[c]) => fase[c] = "responde" /\ paso[c] \in 2..Trozos

(* The slots a push has passed were written to. *)
YaAvisados ==
    \A h \in Hilos : Difunde(h) => \A s \in Ranuras :
        s < paso[h] /\ operators[s].en_uso /\ operators[s].suscrito =>
            Receptor(operators[s].fd) \subseteq destinos

IInv ==
    /\ TypeOK /\ Cerrojo
    /\ RanuraEsDeSuSesion /\ FueraDeSesion /\ SuscripcionAlDia
    /\ TrozosEnCurso
    /\ YaAvisados

-----------------------------------------------------------------------------
(* Types.                                                                   *)

Datos == {"ERR503", "TROZO", "FIN", "ALERTA"}

LEMMA EnviarTipo ==
    ASSUME TypeOK, NEW f, NEW dato \in Datos, Enviar(f, dato)
    PROVE  buffer' \in [Conns -> Seq(Datos)]
  <1>1. \A c \in Conns : Append(buffer[c], dato) \in Seq(Datos) /\ buffer[c] \in Seq(Datos)
    BY DEF TypeOK, Datos
  <1>2. buffer' = [c \in Conns |-> IF c \in Receptor(f) THEN Append(buffer[c], dato)
                                                       ELSE buffer[c]]
    BY DEF Enviar
  <1> QED  BY <1>1, <1>2

LEMMA ColaTipo ==
    ASSUME TypeOK, NEW c \in Conns, buffer[c] # <<>>
    PROVE  Tail(buffer[c]) \in Seq(Datos)
  BY DEF TypeOK, Datos

LEMMA PasoTipos ==
    ASSUME TypeOK, [Next]_vars
    PROVE  TypeOK'
  <1> USE SessionsAssumption
  <1> USE DEF tableVars, sessionVars, kernelVars, lockVars
  <1>t. Datos = {"ERR503", "TROZO", "FIN", "ALERTA"}
    BY DEF Datos
  <1>1. ASSUME NEW c \in Conns, Accept(c) PROVE TypeOK'
    <2>1. PICK f \in Fds : fd' = [fd EXCEPT ![c] = f]
      BY <1>1 DEF Accept
    <2> QED  BY <1>1, <2>1 DEF Accept, Pasa, TypeOK, Fases
  <1>2. ASSUME NEW c \in Conns, ClientRead(c) PROVE TypeOK'
    <2>1. buffer' \in [Conns -> Seq(Datos)]
      BY <1>2, ColaTipo DEF ClientRead, TypeOK, Datos
    <2> QED  BY <1>2, <2>1, <1>t DEF ClientRead, TypeOK
  <1>3. ASSUME NEW c \in Conns, ClientClose(c) PROVE TypeOK'
    BY <1>3 DEF ClientClose, TypeOK
  <1>4. ASSUME NEW c \in Conns, ProcessLine(c) PROVE TypeOK'
    <2>1. CASE CmdHello(c)
      BY <2>1 DEF CmdHello, Rol, Pasa, TypeOK, Fases, Roles
    <2>2. ASSUME NEW volvio \in BOOLEAN, CmdRegister(c, volvio) PROVE TypeOK'
      BY <2>2 DEF CmdRegister, Pasa, TypeOK, Fases
    <2>3. ASSUME NEW activar \in BOOLEAN, CmdSubscribe(c, activar) PROVE TypeOK'
      BY <2>3 DEF CmdSubscribe, Rol, Pasa, TypeOK, Fases, Roles
    <2>4. CASE CmdConsulta(c)
      BY <2>4 DEF CmdConsulta, Pasa, TypeOK, Fases
    <2>5. CASE CmdBye(c)
      BY <2>5 DEF CmdBye, Pasa, TypeOK, Fases
    <2> QED  BY <1>4, <2>1, <2>2, <2>3, <2>4, <2>5 DEF ProcessLine
  <1>5. ASSUME NEW d \in Difusores, Alertar(d) PROVE TypeOK'
    BY <1>5 DEF Alertar, TypeOK
  <1>6. ASSUME NEW h \in Hilos, DifundirLock(h) PROVE TypeOK'
    BY <1>6 DEF DifundirLock, TypeOK, Hilos, Tope
  <1>7. ASSUME NEW c \in Conns, OperatorAdd(c) PROVE TypeOK'
    <2>1. PICK s \in Ranuras : /\ operators' = [operators EXCEPT ![s] =
                                     [RanuraVacia EXCEPT !.en_uso = TRUE, !.fd = fd[c]]]
                               /\ slot' = [slot EXCEPT ![c] = s]
      BY <1>7 DEF OperatorAdd
    <2>2. [RanuraVacia EXCEPT !.en_uso = TRUE, !.fd = fd[c]]
            \in [en_uso : BOOLEAN, fd : Fds \cup {Nadie}, suscrito : BOOLEAN, es_operador : BOOLEAN]
      BY DEF RanuraVacia, TypeOK
    <2>3. slot' \in [Conns -> 0..MaxOperators]
      BY <2>1 DEF TypeOK, Ranuras
    <2> QED  BY <1>7, <2>1, <2>2, <2>3 DEF OperatorAdd, Pasa, TypeOK, Fases, Roles
  <1>8. ASSUME NEW c \in Conns, SinRanura(c) PROVE TypeOK'
    BY <1>8 DEF SinRanura, Pasa, TypeOK, Fases
  <1>9. ASSUME NEW c \in Conns, SendLock(c) PROVE TypeOK'
    BY <1>9 DEF SendLock, SendHolder, TypeOK, Hilos, Tope
  <1>10. ASSUME NEW c \in Conns, OperatorRemove(c) PROVE TypeOK'
    <2>1. ASSUME NEW s \in Ranuras
          PROVE  RanuraTrasSesion(s) \in [en_uso : BOOLEAN, fd : Fds \cup {Nadie},
                                         suscrito : BOOLEAN, es_operador : BOOLEAN]
      <3>1. operators[s] \in [en_uso : BOOLEAN, fd : Fds \cup {Nadie},
                              suscrito : BOOLEAN, es_operador : BOOLEAN]
        BY DEF TypeOK
      <3> QED  BY <3>1 DEF RanuraTrasSesion
    <2>2. operators' \in [Ranuras -> [en_uso : BOOLEAN, fd : Fds \cup {Nadie},
                                     suscrito : BOOLEAN, es_operador : BOOLEAN]]
      BY <1>10, <2>1 DEF OperatorRemove, TypeOK
    <2> QED  BY <1>10, <2>2 DEF OperatorRemove, Pasa, TypeOK, Fases
  <1>11. ASSUME NEW c \in Conns, Registrada(c) PROVE TypeOK'
    BY <1>11 DEF Registrada, Rol, Pasa, TypeOK, Fases, Roles
  <1>12. ASSUME NEW c \in Conns, OperatorSubscribe(c) PROVE TypeOK'
    <2> DEFINE b == fase[c] = "suscribe"
    <2>1. b \in BOOLEAN
      OBVIOUS
    <2>2. /\ operators' = [operators EXCEPT ![slot[c]].suscrito = b]
          /\ quiere' = [quiere EXCEPT ![c] = b]
      BY <1>12 DEF OperatorSubscribe
    <2> HIDE DEF b
    <2>3. ASSUME NEW s \in Ranuras
          PROVE  [operators[s] EXCEPT !.suscrito = b]
                   \in [en_uso : BOOLEAN, fd : Fds \cup {Nadie},
                       suscrito : BOOLEAN, es_operador : BOOLEAN]
      <3>1. operators[s] \in [en_uso : BOOLEAN, fd : Fds \cup {Nadie},
                              suscrito : BOOLEAN, es_operador : BOOLEAN]
        BY DEF TypeOK
      <3> QED  BY <2>1, <3>1
    <2>4. operators' \in [Ranuras -> [en_uso : BOOLEAN, fd : Fds \cup {Nadie},
                                     suscrito : BOOLEAN, es_operador : BOOLEAN]]
      BY <2>2, <2>3 DEF TypeOK
    <2> QED  BY <1>12, <2>1, <2>2, <2>4 DEF OperatorSubscribe, TypeOK, Fases
  <1>13. ASSUME NEW h \in Hilos, DifundirTurno(h) PROVE TypeOK'
    <2>1. /\ buffer' \in [Conns -> Seq(Datos)]
          /\ destinos' \subseteq Conns
      <3>1. CASE Enviar(operators[paso[h]].fd, "ALERTA")
                 /\ destinos' = destinos \cup Receptor(operators[paso[h]].fd)
        BY <3>1, EnviarTipo DEF TypeOK, Receptor, Datos
      <3>2. CASE UNCHANGED <<buffer, destinos>>
        BY <3>2 DEF TypeOK, Datos
      <3> QED  BY <1>13, <3>1, <3>2 DEF DifundirTurno
    <2>2. paso' = [paso EXCEPT ![h] = paso[h] + 1] /\ paso[h] + 1 \in 0..Tope
      BY <1>13 DEF DifundirTurno, TrasSaltar, Ranuras, Tope
    <2> QED  BY <1>13, <2>1, <2>2, <1>t DEF DifundirTurno, TypeOK
  <1>14. ASSUME NEW h \in Hilos, DifundirUnlock(h) PROVE TypeOK'
    <2>1. /\ fase' \in [Conns -> Fases]
          /\ pendiente' \in [Difusores -> BOOLEAN]
      BY <1>14 DEF DifundirUnlock, TypeOK, Fases
    <2>2. paso' \in [Hilos -> 0..Tope] /\ mutex' \in Hilos \cup {Nadie} /\ destinos' = {}
      BY <1>14 DEF DifundirUnlock, Soltar, TypeOK, Tope
    <2> QED  BY <1>14, <2>1, <2>2 DEF DifundirUnlock, TypeOK
  <1>15. ASSUME NEW c \in Conns, SendPiece(c) PROVE TypeOK'
    <2>1. buffer' \in [Conns -> Seq(Datos)]
      BY <1>15, EnviarTipo DEF SendPiece, Datos
    <2>2. paso' = [paso EXCEPT ![c] = paso[c] + 1] /\ paso[c] + 1 \in 0..Tope
      BY <1>15 DEF SendPiece, Tope
    <2> QED  BY <1>15, <2>1, <2>2, <1>t DEF SendPiece, TypeOK, Hilos
  <1>16. ASSUME NEW c \in Conns, SendUnlock(c) PROVE TypeOK'
    BY <1>16 DEF SendUnlock, Soltar, TypeOK, Hilos, Fases, Tope
  <1>17. ASSUME NEW c \in Conns, SendFails(c) PROVE TypeOK'
    BY <1>17 DEF SendFails, Soltar, TypeOK, Hilos, Fases, Tope
  <1>18. ASSUME NEW c \in Conns, Rechazar(c) PROVE TypeOK'
    <2>1. Append(buffer[c], "ERR503") \in Seq(Datos) /\ buffer[c] \in Seq(Datos)
      BY DEF TypeOK, Datos
    <2>2. buffer' \in [Conns -> Seq(Datos)]
      BY <1>18, <2>1 DEF Rechazar, TypeOK, Datos
    <2> QED  BY <1>18, <2>2, <1>t DEF Rechazar, Pasa, TypeOK, Fases
  <1>19. ASSUME NEW c \in Conns, RecvFin(c) PROVE TypeOK'
    BY <1>19 DEF RecvFin, Pasa, TypeOK, Fases
  <1>20. ASSUME NEW c \in Conns, CloseFd(c) PROVE TypeOK'
    BY <1>20 DEF CloseFd, Pasa, TypeOK, Fases, Roles
  <1>21. CASE UNCHANGED vars
    BY <1>21 DEF vars, TypeOK
  <1> QED
    BY <1>1, <1>2, <1>3, <1>4, <1>5, <1>6, <1>7, <1>8, <1>9, <1>10, <1>11, <1>12, <1>13,
       <1>14, <1>15, <1>16, <1>17, <1>18, <1>19, <1>20, <1>21
    DEF Next, TomaMutex, Sigue

-----------------------------------------------------------------------------
(* The mutex.                                                               *)

LEMMA LibreTodosFuera ==
    ASSUME Cerrojo, MutexLibre
    PROVE  \A h \in Hilos : paso[h] = 0
  BY SessionsAssumption DEF Cerrojo, MutexLibre, Hilos

LEMMA SoloUnoDentro ==
    ASSUME Cerrojo, NEW h \in Hilos, paso[h] # 0
    PROVE  mutex = h /\ \A g \in Hilos : g # h => paso[g] = 0
  BY DEF Cerrojo

(* A step of a connection outside the writing sections. *)
LEMMA FueraDelCerrojo ==
    ASSUME Cerrojo, NEW c \in Conns, fase[c] \notin {"responde", "difunde"},
           \A e \in Conns : e # c => fase'[e] = fase[e],
           UNCHANGED <<lockVars, pendiente>>
    PROVE  Cerrojo'
  BY DEF Cerrojo, lockVars, Hilos

LEMMA PasoCerrojo ==
    ASSUME TypeOK, Cerrojo, [Next]_vars
    PROVE  Cerrojo'
  <1> USE SessionsAssumption
  <1> USE DEF tableVars, sessionVars, kernelVars, lockVars
  <1>0. /\ Conns \subseteq Hilos /\ Difusores \subseteq Hilos
        /\ fase \in [Conns -> Fases] /\ paso \in [Hilos -> 0..Tope]
        /\ pendiente \in [Difusores -> BOOLEAN]
    BY DEF Hilos, TypeOK
  <1>1. ASSUME NEW c \in Conns, Accept(c) PROVE Cerrojo'
    BY <1>1, <1>0, FueraDelCerrojo DEF Accept, Pasa
  <1>2. ASSUME NEW c \in Conns, ClientRead(c) PROVE Cerrojo'
    BY <1>2 DEF ClientRead, Cerrojo
  <1>3. ASSUME NEW c \in Conns, ClientClose(c) PROVE Cerrojo'
    BY <1>3 DEF ClientClose, Cerrojo
  <1>4. ASSUME NEW c \in Conns, ProcessLine(c) PROVE Cerrojo'
    <2>1. /\ fase[c] = "sesion" /\ \A e \in Conns : e # c => fase'[e] = fase[e]
          /\ UNCHANGED <<lockVars, pendiente>>
      BY <1>4, <1>0
      DEF ProcessLine, CmdHello, CmdRegister, CmdSubscribe, CmdConsulta, CmdBye, Pasa
    <2> QED  BY <2>1, FueraDelCerrojo
  <1>5. ASSUME NEW d \in Difusores, Alertar(d) PROVE Cerrojo'
    BY <1>5, <1>0 DEF Alertar, Cerrojo
  <1>6. ASSUME NEW h \in Hilos, DifundirLock(h) PROVE Cerrojo'
    <2>1. \A g \in Hilos : paso[g] = 0
      BY <1>6, LibreTodosFuera DEF DifundirLock
    <2>2. /\ paso' = [paso EXCEPT ![h] = 1] /\ mutex' = h /\ UNCHANGED <<fase, pendiente>>
          /\ Difunde(h)
      BY <1>6 DEF DifundirLock
    <2> QED  BY <2>1, <2>2, <1>0 DEF Cerrojo, Difunde, Hilos
  <1>7. ASSUME NEW c \in Conns, OperatorAdd(c) PROVE Cerrojo'
    BY <1>7, <1>0, FueraDelCerrojo DEF OperatorAdd, Pasa
  <1>8. ASSUME NEW c \in Conns, SinRanura(c) PROVE Cerrojo'
    BY <1>8, <1>0, FueraDelCerrojo DEF SinRanura, Pasa
  <1>9. ASSUME NEW c \in Conns, SendLock(c) PROVE Cerrojo'
    <2>1. \A g \in Hilos : paso[g] = 0
      BY <1>9, LibreTodosFuera DEF SendLock
    <2>2. /\ paso' = [paso EXCEPT ![c] = 1] /\ mutex' = c /\ UNCHANGED <<fase, pendiente>>
          /\ fase[c] = "responde"
      BY <1>9 DEF SendLock, SendHolder
    <2> QED  BY <2>1, <2>2, <1>0 DEF Cerrojo, Hilos
  <1>10. ASSUME NEW c \in Conns, OperatorRemove(c) PROVE Cerrojo'
    BY <1>10, <1>0, FueraDelCerrojo DEF OperatorRemove, Pasa
  <1>11. ASSUME NEW c \in Conns, Registrada(c) PROVE Cerrojo'
    BY <1>11, <1>0, FueraDelCerrojo DEF Registrada, Pasa
  <1>12. ASSUME NEW c \in Conns, OperatorSubscribe(c) PROVE Cerrojo'
    BY <1>12, <1>0, FueraDelCerrojo DEF OperatorSubscribe
  <1>13. ASSUME NEW h \in Hilos, DifundirTurno(h) PROVE Cerrojo'
    <2>1. /\ paso[h] \in Ranuras /\ paso' = [paso EXCEPT ![h] = paso[h] + 1]
          /\ UNCHANGED <<fase, mutex, pendiente>>
      BY <1>13 DEF DifundirTurno, TrasSaltar
    <2>2. paso[h] # 0 /\ \A g \in Hilos : paso'[g] # 0 => paso[g] # 0
      BY <2>1, <1>0 DEF Ranuras
    <2> QED  BY <2>1, <2>2, <1>0 DEF Cerrojo
  <1>14. ASSUME NEW h \in Hilos, DifundirUnlock(h) PROVE Cerrojo'
    <2>1. paso[h] # 0 /\ paso' = [paso EXCEPT ![h] = 0]
      BY <1>14, <1>0 DEF DifundirUnlock
    <2>2. \A g \in Hilos : paso'[g] = 0
      BY <2>1, <1>0, SoloUnoDentro
    <2> QED  BY <2>2, <1>0 DEF Cerrojo
  <1>15. ASSUME NEW c \in Conns, SendPiece(c) PROVE Cerrojo'
    <2>1. /\ paso[c] \in 1..Trozos /\ paso' = [paso EXCEPT ![c] = paso[c] + 1]
          /\ UNCHANGED <<fase, mutex, pendiente>>
      BY <1>15 DEF SendPiece
    <2>2. paso[c] # 0 /\ \A g \in Hilos : paso'[g] # 0 => paso[g] # 0
      BY <2>1, <1>0
    <2> QED  BY <2>1, <2>2, <1>0 DEF Cerrojo
  <1>16. ASSUME NEW c \in Conns, SendUnlock(c) PROVE Cerrojo'
    <2>1. paso[c] # 0 /\ paso' = [paso EXCEPT ![c] = 0]
      BY <1>16, <1>0 DEF SendUnlock
    <2>2. \A g \in Hilos : paso'[g] = 0
      BY <2>1, <1>0, SoloUnoDentro
    <2> QED  BY <2>2, <1>0 DEF Cerrojo
  <1>17. ASSUME NEW c \in Conns, SendFails(c) PROVE Cerrojo'
    <2>1. paso[c] # 0 /\ paso' = [paso EXCEPT ![c] = 0]
      BY <1>17, <1>0 DEF SendFails
    <2>2. \A g \in Hilos : paso'[g] = 0
      BY <2>1, <1>0, SoloUnoDentro
    <2> QED  BY <2>2, <1>0 DEF Cerrojo
  <1>18. ASSUME NEW c \in Conns, Rechazar(c) PROVE Cerrojo'
    BY <1>18, <1>0, FueraDelCerrojo DEF Rechazar, Pasa
  <1>19. ASSUME NEW c \in Conns, RecvFin(c) PROVE Cerrojo'
    BY <1>19, <1>0, FueraDelCerrojo DEF RecvFin, Pasa
  <1>20. ASSUME NEW c \in Conns, CloseFd(c) PROVE Cerrojo'
    BY <1>20, <1>0, FueraDelCerrojo DEF CloseFd, Pasa
  <1>21. CASE UNCHANGED vars
    BY <1>21 DEF vars, Cerrojo
  <1> QED
    BY <1>1, <1>2, <1>3, <1>4, <1>5, <1>6, <1>7, <1>8, <1>9, <1>10, <1>11, <1>12, <1>13,
       <1>14, <1>15, <1>16, <1>17, <1>18, <1>19, <1>20, <1>21
    DEF Next, TomaMutex, Sigue

-----------------------------------------------------------------------------
(* The table.                                                               *)

Tabla == RanuraEsDeSuSesion /\ FueraDeSesion /\ SuscripcionAlDia

(* A step that moves no session in or out and changes no slot. *)
LEMMA MismaTabla ==
    ASSUME TypeOK, Tabla, UNCHANGED <<slot, fd, quiere>>,
           \A s \in Ranuras : /\ operators'[s].en_uso = operators[s].en_uso
                              /\ operators'[s].fd = operators[s].fd
                              /\ operators'[s].suscrito = operators[s].suscrito,
           \A c \in Conns : /\ EnSesion(c)' = EnSesion(c)
                            /\ fase'[c] = "nueva" <=> fase[c] = "nueva"
                            /\ viva'[c] => viva[c]
                            /\ ~viva'[c] => buffer'[c] = <<>>
    PROVE  Tabla'
  <1>1. RanuraEsDeSuSesion'
    BY DEF Tabla, RanuraEsDeSuSesion
  <1>2. FueraDeSesion'
    BY DEF Tabla, FueraDeSesion
  <1>3. SuscripcionAlDia'
    BY DEF Tabla, RanuraEsDeSuSesion, SuscripcionAlDia
  <1> QED  BY <1>1, <1>2, <1>3 DEF Tabla

(* send() adds nothing to what a client that hung up has to read. *)
LEMMA EnviarAVivos ==
    ASSUME Tabla, UNCHANGED viva, NEW f, NEW dato, Enviar(f, dato)
    PROVE  \A c \in Conns : ~viva'[c] => buffer'[c] = <<>>
  BY DEF Tabla, FueraDeSesion, Enviar, Receptor

(* A step inside a session, at a line of the client's or at its answer. *)
LEMMA DentroDeSesion ==
    ASSUME TypeOK, Tabla, NEW c \in Conns, EnSesion(c), EnSesion(c)',
           \A e \in Conns : e # c => fase'[e] = fase[e],
           UNCHANGED <<slot, quiere, kernelVars>>,
           \/ UNCHANGED operators
           \/ \E b : operators' = [operators EXCEPT ![slot[c]].es_operador = b]
    PROVE  Tabla'
  <1>1. \A s \in Ranuras : /\ operators'[s].en_uso = operators[s].en_uso
                           /\ operators'[s].fd = operators[s].fd
                           /\ operators'[s].suscrito = operators[s].suscrito
    <2>1. CASE UNCHANGED operators
      BY <2>1
    <2>2. CASE \E b : operators' = [operators EXCEPT ![slot[c]].es_operador = b]
      <3>1. PICK b : operators' = [operators EXCEPT ![slot[c]].es_operador = b]
        BY <2>2
      <3> SUFFICES ASSUME NEW s \in Ranuras
                   PROVE  /\ operators'[s].en_uso = operators[s].en_uso
                          /\ operators'[s].fd = operators[s].fd
                          /\ operators'[s].suscrito = operators[s].suscrito
        OBVIOUS
      <3>2. /\ s \in DOMAIN operators
            /\ operators[s] \in [en_uso : BOOLEAN, fd : Fds \cup {Nadie},
                                 suscrito : BOOLEAN, es_operador : BOOLEAN]
        BY DEF TypeOK
      <3>3. \/ operators'[s] = operators[s]
            \/ operators'[s] = [operators[s] EXCEPT !.es_operador = b]
        BY <3>1, <3>2
      <3> QED  BY <3>2, <3>3
    <2> QED  BY <2>1, <2>2
  <1>2. \A e \in Conns : /\ EnSesion(e)' = EnSesion(e)
                         /\ fase'[e] = "nueva" <=> fase[e] = "nueva"
                         /\ viva'[e] => viva[e]
                         /\ ~viva'[e] => buffer'[e] = <<>>
    BY DEF EnSesion, kernelVars, Tabla, FueraDeSesion
  <1> QED  BY <1>1, <1>2, MismaTabla DEF kernelVars

LEMMA PasoTabla ==
    ASSUME TypeOK, TypeOK', Cerrojo, Tabla, [Next]_vars
    PROVE  Tabla'
  <1> USE SessionsAssumption
  <1> USE DEF tableVars, sessionVars, kernelVars, lockVars
  <1>0. /\ fase \in [Conns -> Fases] /\ viva \in [Conns -> BOOLEAN]
        /\ fd \in [Conns -> Fds \cup {Nadie}] /\ slot \in [Conns -> 0..MaxOperators]
        /\ quiere \in [Conns -> BOOLEAN]
        /\ DOMAIN buffer = Conns /\ DOMAIN operators = Ranuras
    BY DEF TypeOK
  <1>1. ASSUME NEW c \in Conns, Accept(c) PROVE Tabla'
    <2>1. PICK f \in Fds : f \notin Abiertos /\ fd' = [fd EXCEPT ![c] = f]
      BY <1>1 DEF Accept, EsPrimero
    <2>2. f # Nadie /\ \A e \in Conns : fd[e] # f
      BY <2>1 DEF Abiertos
    <2>3. \A e \in Conns : EnSesion(e)' <=> EnSesion(e)
      BY <1>1, <1>0 DEF Accept, Pasa, EnSesion
    <2>4. ~EnSesion(c)
      BY <1>1 DEF Accept, Pasa, EnSesion
    <2>5. RanuraEsDeSuSesion'
      BY <1>1, <1>0, <2>1, <2>2, <2>3, <2>4 DEF Accept, Tabla, RanuraEsDeSuSesion
    <2>6. FueraDeSesion'
      BY <1>1, <1>0, <2>1, <2>2, <2>3 DEF Accept, Pasa, Tabla, FueraDeSesion
    <2>7. SuscripcionAlDia'
      BY <1>1, <2>3 DEF Accept, Tabla, SuscripcionAlDia
    <2> QED  BY <2>5, <2>6, <2>7 DEF Tabla
  <1>2. ASSUME NEW c \in Conns, ClientRead(c) PROVE Tabla'
    <2>1. \A e \in Conns : ~viva'[e] => buffer'[e] = <<>>
      BY <1>2, <1>0 DEF ClientRead, Tabla, FueraDeSesion
    <2> QED  BY <1>2, <2>1, MismaTabla DEF ClientRead, EnSesion
  <1>3. ASSUME NEW c \in Conns, ClientClose(c) PROVE Tabla'
    <2>1. \A e \in Conns : (viva'[e] => viva[e]) /\ (~viva'[e] => buffer'[e] = <<>>)
      BY <1>3, <1>0 DEF ClientClose, Tabla, FueraDeSesion
    <2> QED  BY <1>3, <2>1, MismaTabla DEF ClientClose, EnSesion
  <1>4. ASSUME NEW c \in Conns, ProcessLine(c) PROVE Tabla'
    <2>1. /\ EnSesion(c) /\ EnSesion(c)'
          /\ \A e \in Conns : e # c => fase'[e] = fase[e]
          /\ UNCHANGED <<slot, quiere, kernelVars>>
      BY <1>4, <1>0
      DEF ProcessLine, CmdHello, CmdRegister, CmdSubscribe, CmdConsulta, CmdBye, Pasa, EnSesion
    <2>2. \/ UNCHANGED operators
          \/ \E b : operators' = [operators EXCEPT ![slot[c]].es_operador = b]
      BY <1>4
      DEF ProcessLine, CmdHello, CmdRegister, CmdSubscribe, CmdConsulta, CmdBye, Rol
    <2> QED  BY <2>1, <2>2, DentroDeSesion
  <1>5. ASSUME NEW d \in Difusores, Alertar(d) PROVE Tabla'
    BY <1>5, MismaTabla DEF Alertar, EnSesion, Tabla, FueraDeSesion
  <1>6. ASSUME NEW h \in Hilos, DifundirLock(h) PROVE Tabla'
    BY <1>6, MismaTabla DEF DifundirLock, EnSesion, Tabla, FueraDeSesion
  <1>7. ASSUME NEW c \in Conns, OperatorAdd(c) PROVE Tabla'
    <2>1. PICK s \in Ranuras : /\ ~operators[s].en_uso
                               /\ operators' = [operators EXCEPT ![s] =
                                     [RanuraVacia EXCEPT !.en_uso = TRUE, !.fd = fd[c]]]
                               /\ slot' = [slot EXCEPT ![c] = s]
      BY <1>7 DEF OperatorAdd, EsPrimero, RanurasLibres
    <2>2. /\ operators'[s].en_uso /\ operators'[s].fd = fd[c] /\ ~operators'[s].suscrito
          /\ operators'[s].suscrito = FALSE
          /\ \A r \in Ranuras : r # s => operators'[r] = operators[r]
          /\ slot'[c] = s /\ \A e \in Conns : e # c => slot'[e] = slot[e]
      BY <2>1, <1>0 DEF RanuraVacia
    <2>3. /\ ~EnSesion(c) /\ EnSesion(c)' /\ fase[c] = "aceptada" /\ fase'[c] = "sesion"
          /\ \A e \in Conns : e # c => fase'[e] = fase[e] /\ (EnSesion(e)' <=> EnSesion(e))
      BY <1>7, <1>0 DEF OperatorAdd, Pasa, EnSesion
    <2>4. /\ UNCHANGED kernelVars /\ quiere'[c] = FALSE
          /\ \A e \in Conns : e # c => quiere'[e] = quiere[e]
      BY <1>7, <1>0 DEF OperatorAdd
    <2>5. fd[c] # Nadie
      BY <2>3 DEF Tabla, FueraDeSesion
    <2>6. \A e \in Conns : e # c => slot[e] # s
      <3>1. \A e \in Conns : EnSesion(e) => slot[e] # s
        BY <2>1 DEF Tabla, RanuraEsDeSuSesion
      <3>2. \A e \in Conns : ~EnSesion(e) => slot[e] = 0
        BY DEF Tabla, FueraDeSesion
      <3> QED  BY <3>1, <3>2 DEF Ranuras
    <2>7. RanuraEsDeSuSesion'
      <3>1. \A e \in Conns : EnSesion(e)' => /\ slot'[e] \in Ranuras
                                             /\ operators'[slot'[e]].en_uso
                                             /\ operators'[slot'[e]].fd = fd'[e]
                                             /\ fd'[e] # Nadie
        BY <2>2, <2>3, <2>4, <2>5, <2>6 DEF Tabla, RanuraEsDeSuSesion
      <3>2. \A r \in Ranuras : operators'[r].en_uso =>
                \E e \in Conns : EnSesion(e)' /\ slot'[e] = r
        <4> SUFFICES ASSUME NEW r \in Ranuras, operators'[r].en_uso
                     PROVE  \E e \in Conns : EnSesion(e)' /\ slot'[e] = r
          OBVIOUS
        <4>1. CASE r = s
          BY <4>1, <2>2, <2>3
        <4>2. CASE r # s
          BY <4>2, <2>2, <2>3 DEF Tabla, RanuraEsDeSuSesion
        <4> QED  BY <4>1, <4>2
      <3>3. \A a, e \in Conns : a # e /\ fd'[a] # Nadie => fd'[a] # fd'[e]
        BY <2>4 DEF Tabla, RanuraEsDeSuSesion
      <3>4. \A a, e \in Conns : a # e /\ slot'[a] # 0 => slot'[a] # slot'[e]
        BY <2>2, <2>6 DEF Tabla, RanuraEsDeSuSesion, Ranuras
      <3> QED  BY <3>1, <3>2, <3>3, <3>4 DEF RanuraEsDeSuSesion
    <2>8. FueraDeSesion'
      BY <2>2, <2>3, <2>4 DEF Tabla, FueraDeSesion
    <2>9. SuscripcionAlDia'
      <3> SUFFICES ASSUME NEW e \in Conns, EnSesion(e)'
                   PROVE  operators'[slot'[e]].suscrito = quiere'[e]
        BY DEF SuscripcionAlDia
      <3>1. CASE e = c
        BY <3>1, <2>2, <2>4
      <3>2. CASE e # c
        <4>1. EnSesion(e) /\ slot[e] \in Ranuras /\ slot[e] # s
          BY <3>2, <2>3, <2>6 DEF Tabla, RanuraEsDeSuSesion
        <4> QED  BY <3>2, <4>1, <2>2, <2>4 DEF Tabla, SuscripcionAlDia
      <3> QED  BY <3>1, <3>2
    <2> QED  BY <2>7, <2>8, <2>9 DEF Tabla
  <1>8. ASSUME NEW c \in Conns, SinRanura(c) PROVE Tabla'
    <2>1. \A e \in Conns : /\ EnSesion(e)' = EnSesion(e)
                           /\ fase'[e] = "nueva" <=> fase[e] = "nueva"
      BY <1>8, <1>0 DEF SinRanura, Pasa, EnSesion
    <2> QED  BY <1>8, <2>1, MismaTabla DEF SinRanura, Tabla, FueraDeSesion
  <1>9. ASSUME NEW c \in Conns, SendLock(c) PROVE Tabla'
    BY <1>9, MismaTabla DEF SendLock, EnSesion, Tabla, FueraDeSesion
  <1>10. ASSUME NEW c \in Conns, OperatorRemove(c) PROVE Tabla'
    <2>1. /\ EnSesion(c) /\ ~EnSesion(c)' /\ fase[c] = "saliendo" /\ fase'[c] = "fin"
          /\ \A e \in Conns : e # c => fase'[e] = fase[e] /\ (EnSesion(e)' <=> EnSesion(e))
      BY <1>10, <1>0 DEF OperatorRemove, Pasa, EnSesion
    <2>2. slot[c] \in Ranuras
      BY <2>1 DEF Tabla, RanuraEsDeSuSesion
    <2>3. /\ ~operators'[slot[c]].en_uso
          /\ \A r \in Ranuras : r # slot[c] => operators'[r] = operators[r]
      <3>1. operators[slot[c]] \in [en_uso : BOOLEAN, fd : Fds \cup {Nadie},
                                    suscrito : BOOLEAN, es_operador : BOOLEAN]
        BY <2>2 DEF TypeOK
      <3> QED  BY <1>10, <1>0, <2>2, <3>1 DEF OperatorRemove, RanuraTrasSesion
    <2>4. /\ slot'[c] = 0 /\ \A e \in Conns : e # c => slot'[e] = slot[e]
          /\ UNCHANGED <<quiere, kernelVars>>
      BY <1>10, <1>0 DEF OperatorRemove
    <2>5. \A e \in Conns : e # c => slot[e] # slot[c]
      BY <2>2 DEF Tabla, RanuraEsDeSuSesion, Ranuras
    <2>6. RanuraEsDeSuSesion'
      <3>1. \A e \in Conns : EnSesion(e)' => /\ slot'[e] \in Ranuras
                                             /\ operators'[slot'[e]].en_uso
                                             /\ operators'[slot'[e]].fd = fd'[e]
                                             /\ fd'[e] # Nadie
        BY <2>1, <2>3, <2>4, <2>5 DEF Tabla, RanuraEsDeSuSesion
      <3>2. \A r \in Ranuras : operators'[r].en_uso =>
                \E e \in Conns : EnSesion(e)' /\ slot'[e] = r
        BY <2>1, <2>3, <2>4 DEF Tabla, RanuraEsDeSuSesion
      <3>3. \A a, e \in Conns : a # e /\ fd'[a] # Nadie => fd'[a] # fd'[e]
        BY <2>4 DEF Tabla, RanuraEsDeSuSesion
      <3>4. \A a, e \in Conns : a # e /\ slot'[a] # 0 => slot'[a] # slot'[e]
        BY <2>4 DEF Tabla, RanuraEsDeSuSesion
      <3> QED  BY <3>1, <3>2, <3>3, <3>4 DEF RanuraEsDeSuSesion
    <2>7. FueraDeSesion'
      BY <2>1, <2>4 DEF Tabla, FueraDeSesion
    <2>8. SuscripcionAlDia'
      BY <2>1, <2>3, <2>4, <2>5 DEF Tabla, RanuraEsDeSuSesion, SuscripcionAlDia
    <2> QED  BY <2>6, <2>7, <2>8 DEF Tabla
  <1>11. ASSUME NEW c \in Conns, Registrada(c) PROVE Tabla'
    <2>1. /\ EnSesion(c) /\ EnSesion(c)' /\ \A e \in Conns : e # c => fase'[e] = fase[e]
          /\ UNCHANGED <<slot, quiere, kernelVars>>
          /\ \E b : operators' = [operators EXCEPT ![slot[c]].es_operador = b]
      BY <1>11, <1>0 DEF Registrada, Rol, Pasa, EnSesion
    <2> QED  BY <2>1, DentroDeSesion
  <1>12. ASSUME NEW c \in Conns, OperatorSubscribe(c) PROVE Tabla'
    <2> DEFINE b == fase[c] = "suscribe"
    <2>1. /\ EnSesion(c) /\ fase[c] # "nueva" /\ fase'[c] # "nueva"
          /\ \A e \in Conns : (EnSesion(e)' <=> EnSesion(e)) /\ (e # c => fase'[e] = fase[e])
      BY <1>12, <1>0 DEF OperatorSubscribe, EnSesion
    <2>2. /\ operators' = [operators EXCEPT ![slot[c]].suscrito = b]
          /\ quiere' = [quiere EXCEPT ![c] = b]
          /\ UNCHANGED <<slot, kernelVars>>
      BY <1>12 DEF OperatorSubscribe
    <2> HIDE DEF b
    <2>3. slot[c] \in Ranuras /\ \A e \in Conns : e # c => slot[e] # slot[c]
      BY <2>1 DEF Tabla, RanuraEsDeSuSesion, Ranuras
    <2>4. /\ \A r \in Ranuras : /\ operators'[r].en_uso = operators[r].en_uso
                                 /\ operators'[r].fd = operators[r].fd
                                 /\ r # slot[c] => operators'[r] = operators[r]
          /\ operators'[slot[c]].suscrito = b
      BY <2>2, <2>3 DEF TypeOK
    <2>5. RanuraEsDeSuSesion'
      BY <2>1, <2>2, <2>4 DEF Tabla, RanuraEsDeSuSesion
    <2>6. FueraDeSesion'
      BY <2>1, <2>2 DEF Tabla, FueraDeSesion
    <2>7. SuscripcionAlDia'
      BY <1>0, <2>1, <2>2, <2>3, <2>4 DEF Tabla, RanuraEsDeSuSesion, SuscripcionAlDia
    <2> QED  BY <2>5, <2>6, <2>7 DEF Tabla
  <1>13. ASSUME NEW h \in Hilos, DifundirTurno(h) PROVE Tabla'
    <2>1. \A e \in Conns : ~viva'[e] => buffer'[e] = <<>>
      BY <1>13, EnviarAVivos DEF DifundirTurno, Tabla, FueraDeSesion
    <2> QED  BY <1>13, <2>1, MismaTabla DEF DifundirTurno, EnSesion
  <1>14. ASSUME NEW h \in Hilos, DifundirUnlock(h) PROVE Tabla'
    <2>1. /\ UNCHANGED <<tableVars, sessionVars, kernelVars>>
          /\ \/ UNCHANGED fase
             \/ h \in Conns /\ fase[h] = "difunde" /\ fase' = [fase EXCEPT ![h] = "registrada"]
      BY <1>14 DEF DifundirUnlock, Difunde
    <2>2. \A e \in Conns : /\ EnSesion(e)' = EnSesion(e)
                           /\ fase'[e] = "nueva" <=> fase[e] = "nueva"
      BY <2>1, <1>0 DEF EnSesion
    <2> QED  BY <2>1, <2>2, MismaTabla DEF Tabla, FueraDeSesion
  <1>15. ASSUME NEW c \in Conns, SendPiece(c) PROVE Tabla'
    <2>1. \A e \in Conns : ~viva'[e] => buffer'[e] = <<>>
      BY <1>15, EnviarAVivos DEF SendPiece
    <2> QED  BY <1>15, <2>1, MismaTabla DEF SendPiece, EnSesion
  <1>16. ASSUME NEW c \in Conns, SendUnlock(c) PROVE Tabla'
    BY <1>16, <1>0, DentroDeSesion DEF SendUnlock, EnSesion
  <1>17. ASSUME NEW c \in Conns, SendFails(c) PROVE Tabla'
    BY <1>17, <1>0, DentroDeSesion DEF SendFails, EnSesion
  <1>18. ASSUME NEW c \in Conns, Rechazar(c) PROVE Tabla'
    <2>1. \A e \in Conns : /\ EnSesion(e)' = EnSesion(e)
                           /\ fase'[e] = "nueva" <=> fase[e] = "nueva"
                           /\ ~viva'[e] => buffer'[e] = <<>>
      BY <1>18, <1>0 DEF Rechazar, Pasa, EnSesion, Tabla, FueraDeSesion
    <2> QED  BY <1>18, <2>1, MismaTabla DEF Rechazar
  <1>19. ASSUME NEW c \in Conns, RecvFin(c) PROVE Tabla'
    BY <1>19, <1>0, DentroDeSesion DEF RecvFin, Pasa, EnSesion
  <1>20. ASSUME NEW c \in Conns, CloseFd(c) PROVE Tabla'
    <2>1. /\ ~EnSesion(c) /\ fase'[c] = "nueva"
          /\ \A e \in Conns : (EnSesion(e)' <=> EnSesion(e)) /\ (e # c => fase'[e] = fase[e])
      BY <1>20, <1>0 DEF CloseFd, Pasa, EnSesion
    <2>2. /\ fd'[c] = Nadie /\ ~viva'[c] /\ buffer'[c] = <<>> /\ UNCHANGED tableVars
          /\ \A e \in Conns : e # c => /\ fd'[e] = fd[e] /\ viva'[e] = viva[e]
                                       /\ buffer'[e] = buffer[e] /\ quiere'[e] = quiere[e]
      BY <1>20, <1>0 DEF CloseFd
    <2>3. RanuraEsDeSuSesion'
      BY <2>1, <2>2 DEF Tabla, RanuraEsDeSuSesion
    <2>4. FueraDeSesion'
      BY <2>1, <2>2 DEF Tabla, FueraDeSesion
    <2>5. SuscripcionAlDia'
      BY <2>1, <2>2 DEF Tabla, SuscripcionAlDia
    <2> QED  BY <2>3, <2>4, <2>5 DEF Tabla
  <1>21. CASE UNCHANGED vars
    BY <1>21, MismaTabla DEF vars, EnSesion, Tabla, FueraDeSesion
  <1> QED
    BY <1>1, <1>2, <1>3, <1>4, <1>5, <1>6, <1>7, <1>8, <1>9, <1>10, <1>11, <1>12, <1>13,
       <1>14, <1>15, <1>16, <1>17, <1>18, <1>19, <1>20, <1>21
    DEF Next, TomaMutex, Sigue

-----------------------------------------------------------------------------
(* The pieces of an answer.                                                 *)

(* What one more datum does to a whole buffer. *)
LEMMA UnDatoMas ==
    ASSUME NEW b \in Seq(Datos), NEW d \in Datos, Entero(b),
           AMedias(b) => d \in {"TROZO", "FIN"}
    PROVE  Entero(Append(b, d)) /\ (AMedias(Append(b, d)) => d = "TROZO")
  <1>1. /\ Len(Append(b, d)) = Len(b) + 1 /\ Append(b, d)[Len(b) + 1] = d
        /\ \A i \in 1..Len(b) : Append(b, d)[i] = b[i]
        /\ Len(b) \in Nat
    OBVIOUS
  <1>2. ASSUME NEW i \in 1..Len(b), b[i] = "TROZO"
        PROVE  Append(b, d)[i + 1] \in {"TROZO", "FIN"}
    <2>1. CASE i = Len(b)
      BY <2>1, <1>1, <1>2 DEF AMedias
    <2>2. CASE i \in 1..(Len(b) - 1)
      BY <2>2, <1>1, <1>2 DEF Entero
    <2> QED  BY <2>1, <2>2, <1>1
  <1>3. Entero(Append(b, d))
    BY <1>1, <1>2 DEF Entero
  <1> QED  BY <1>1, <1>3 DEF AMedias

(* What reading one datum does to it. *)
LEMMA UnDatoMenos ==
    ASSUME NEW b \in Seq(Datos), b # <<>>, Entero(b)
    PROVE  Entero(Tail(b)) /\ (AMedias(Tail(b)) => AMedias(b))
  <1>1. /\ Len(b) \in Nat /\ Len(b) >= 1 /\ Len(Tail(b)) = Len(b) - 1
        /\ \A i \in 1..(Len(b) - 1) : Tail(b)[i] = b[i + 1]
    OBVIOUS
  <1>2. Entero(Tail(b))
    BY <1>1 DEF Entero
  <1>3. ASSUME AMedias(Tail(b)) PROVE AMedias(b)
    <2>1. Len(b) - 1 \in 1..(Len(b) - 1)
      BY <1>1, <1>3 DEF AMedias
    <2> QED  BY <1>1, <1>3, <2>1 DEF AMedias
  <1> QED  BY <1>2, <1>3

LEMMA Vacio == Entero(<<>>) /\ ~AMedias(<<>>)
  BY DEF Entero, AMedias

(* Nobody sends but the one whose answer is under way. *)
LEMMA MismosTrozos ==
    ASSUME TrozosEnCurso, UNCHANGED buffer,
           \A c \in Conns : AMedias(buffer[c]) => fase'[c] = fase[c] /\ paso'[c] = paso[c]
    PROVE  TrozosEnCurso'
  BY DEF TrozosEnCurso

(* A descriptor of the table leads to its session and to nobody else. *)
LEMMA ReceptorEsSuyo ==
    ASSUME Tabla, NEW s \in Ranuras, operators[s].en_uso
    PROVE  \E e \in Conns : /\ EnSesion(e) /\ slot[e] = s
                            /\ Receptor(operators[s].fd) \subseteq {e}
  BY DEF Tabla, RanuraEsDeSuSesion, Receptor

LEMMA PasoTrozos ==
    ASSUME TypeOK, Cerrojo, Tabla, TrozosEnCurso, [Next]_vars
    PROVE  TrozosEnCurso'
  <1> USE SessionsAssumption
  <1> USE DEF tableVars, sessionVars, kernelVars, lockVars
  <1>0. /\ Conns \subseteq Hilos /\ Difusores \subseteq Hilos
        /\ fase \in [Conns -> Fases] /\ paso \in [Hilos -> 0..Tope]
        /\ viva \in [Conns -> BOOLEAN] /\ Nadie \notin Hilos
        /\ DOMAIN buffer = Conns /\ \A c \in Conns : buffer[c] \in Seq(Datos)
    BY DEF Hilos, TypeOK, Datos
  <1>a. \A c \in Conns : AMedias(buffer[c]) =>
            /\ fase[c] = "responde" /\ paso[c] \in 2..Trozos /\ mutex = c /\ viva[c]
    BY <1>0, Vacio DEF TrozosEnCurso, Cerrojo, Tabla, FueraDeSesion
  <1>e. \A c \in Conns : Entero(buffer[c])
    BY DEF TrozosEnCurso
  <1>1. ASSUME NEW c \in Conns, Accept(c) PROVE TrozosEnCurso'
    <2>1. /\ buffer' = [buffer EXCEPT ![c] = <<>>] /\ UNCHANGED paso
          /\ \A e \in Conns : e # c => fase'[e] = fase[e]
      BY <1>1, <1>0 DEF Accept, Pasa
    <2> QED  BY <2>1, <1>0, Vacio DEF TrozosEnCurso
  <1>2. ASSUME NEW c \in Conns, ClientRead(c) PROVE TrozosEnCurso'
    <2>1. /\ buffer[c] # <<>> /\ buffer' = [buffer EXCEPT ![c] = Tail(buffer[c])]
          /\ UNCHANGED <<paso, fase>>
      BY <1>2 DEF ClientRead
    <2>2. Entero(Tail(buffer[c])) /\ (AMedias(Tail(buffer[c])) => AMedias(buffer[c]))
      BY <2>1, <1>0, <1>e, UnDatoMenos
    <2> QED  BY <2>1, <2>2, <1>0 DEF TrozosEnCurso
  <1>3. ASSUME NEW c \in Conns, ClientClose(c) PROVE TrozosEnCurso'
    BY <1>3, <1>0, Vacio DEF ClientClose, TrozosEnCurso
  <1>4. ASSUME NEW c \in Conns, ProcessLine(c) PROVE TrozosEnCurso'
    <2>1. /\ fase[c] = "sesion" /\ \A e \in Conns : e # c => fase'[e] = fase[e]
          /\ UNCHANGED <<paso, buffer>>
      BY <1>4, <1>0
      DEF ProcessLine, CmdHello, CmdRegister, CmdSubscribe, CmdConsulta, CmdBye, Pasa
    <2> QED  BY <2>1, <1>a, MismosTrozos
  <1>5. ASSUME NEW d \in Difusores, Alertar(d) PROVE TrozosEnCurso'
    BY <1>5, MismosTrozos DEF Alertar
  <1>6. ASSUME NEW h \in Hilos, DifundirLock(h) PROVE TrozosEnCurso'
    <2>1. \A c \in Conns : ~AMedias(buffer[c])
      BY <1>6, <1>a, <1>0 DEF DifundirLock, MutexLibre
    <2> QED  BY <1>6, <2>1, MismosTrozos DEF DifundirLock
  <1>7. ASSUME NEW c \in Conns, OperatorAdd(c) PROVE TrozosEnCurso'
    BY <1>7, <1>0, <1>a, MismosTrozos DEF OperatorAdd, Pasa
  <1>8. ASSUME NEW c \in Conns, SinRanura(c) PROVE TrozosEnCurso'
    BY <1>8, <1>0, <1>a, MismosTrozos DEF SinRanura, Pasa
  <1>9. ASSUME NEW c \in Conns, SendLock(c) PROVE TrozosEnCurso'
    <2>1. \A e \in Conns : ~AMedias(buffer[e])
      BY <1>9, <1>a, <1>0 DEF SendLock, MutexLibre
    <2> QED  BY <1>9, <2>1, MismosTrozos DEF SendLock
  <1>10. ASSUME NEW c \in Conns, OperatorRemove(c) PROVE TrozosEnCurso'
    BY <1>10, <1>0, <1>a, MismosTrozos DEF OperatorRemove, Pasa
  <1>11. ASSUME NEW c \in Conns, Registrada(c) PROVE TrozosEnCurso'
    BY <1>11, <1>0, <1>a, MismosTrozos DEF Registrada, Pasa
  <1>12. ASSUME NEW c \in Conns, OperatorSubscribe(c) PROVE TrozosEnCurso'
    BY <1>12, <1>0, <1>a, MismosTrozos DEF OperatorSubscribe
  <1>13. ASSUME NEW h \in Hilos, DifundirTurno(h) PROVE TrozosEnCurso'
    <2>1. /\ paso[h] # 0 /\ paso' = [paso EXCEPT ![h] = paso[h] + 1]
          /\ Difunde(h) /\ UNCHANGED fase
      BY <1>13 DEF DifundirTurno, TrasSaltar, Ranuras
    <2>2. mutex = h
      BY <2>1 DEF Cerrojo
    <2>3. \A e \in Conns : ~AMedias(buffer[e])
      BY <2>1, <2>2, <1>a DEF Difunde
    <2>4. \A e \in Conns : buffer'[e] = buffer[e] \/ buffer'[e] = Append(buffer[e], "ALERTA")
      BY <1>13 DEF DifundirTurno, Enviar
    <2>5. ASSUME NEW e \in Conns PROVE Entero(buffer'[e]) /\ ~AMedias(buffer'[e])
      <3>1. "ALERTA" \in Datos
        BY DEF Datos
      <3>2. Entero(Append(buffer[e], "ALERTA")) /\ ~AMedias(Append(buffer[e], "ALERTA"))
        BY <2>3, <3>1, <1>0, <1>e, UnDatoMas
      <3> QED  BY <2>3, <2>4, <3>2, <1>e
    <2> QED  BY <2>5 DEF TrozosEnCurso
  <1>14. ASSUME NEW h \in Hilos, DifundirUnlock(h) PROVE TrozosEnCurso'
    <2>1. /\ UNCHANGED buffer /\ paso[h] # 0 /\ Difunde(h)
          /\ \A e \in Conns : e # h => fase'[e] = fase[e] /\ paso'[e] = paso[e]
      BY <1>14, <1>0 DEF DifundirUnlock
    <2>2. \A e \in Conns : AMedias(buffer[e]) => e # h
      BY <2>1, <1>a DEF Difunde
    <2> QED  BY <2>1, <2>2, MismosTrozos
  <1>15. ASSUME NEW c \in Conns, SendPiece(c) PROVE TrozosEnCurso'
    <2> DEFINE d == IF paso[c] = Trozos THEN "FIN" ELSE "TROZO"
    <2>1. /\ fase[c] = "responde" /\ paso[c] \in 1..Trozos
          /\ paso' = [paso EXCEPT ![c] = paso[c] + 1] /\ UNCHANGED fase
          /\ Enviar(operators[slot[c]].fd, d)
      BY <1>15 DEF SendPiece
    <2>2. Receptor(operators[slot[c]].fd) \subseteq {c}
      BY <2>1 DEF Tabla, RanuraEsDeSuSesion, EnSesion, Receptor
    <2>3. \A e \in Conns : e # c => buffer'[e] = buffer[e]
      BY <2>1, <2>2 DEF Enviar
    <2>4. buffer'[c] = Append(buffer[c], d) \/ (buffer'[c] = buffer[c] /\ ~viva[c])
      <3>1. CASE c \in Receptor(operators[slot[c]].fd)
        BY <3>1, <2>1 DEF Enviar
      <3>2. CASE c \notin Receptor(operators[slot[c]].fd)
        <4>1. operators[slot[c]].fd = fd[c]
          BY <2>1 DEF Tabla, RanuraEsDeSuSesion, EnSesion
        <4> QED  BY <3>2, <4>1, <2>1 DEF Enviar, Receptor
      <3> QED  BY <3>1, <3>2
    <2>5. /\ Entero(buffer'[c])
          /\ AMedias(buffer'[c]) => d = "TROZO"
      <3>1. CASE buffer'[c] = Append(buffer[c], d)
        BY <3>1, <1>0, <1>e, UnDatoMas DEF Datos
      <3>2. CASE buffer'[c] = buffer[c] /\ ~viva[c]
        BY <3>2, <1>a, <1>e
      <3> QED  BY <2>4, <3>1, <3>2
    <2>6. d = "TROZO" => paso'[c] \in 2..Trozos
      BY <2>1, <1>0
    <2>7. \A e \in Conns : e # c => paso'[e] = paso[e]
      BY <2>1, <1>0
    <2> QED  BY <2>1, <2>3, <2>5, <2>6, <2>7 DEF TrozosEnCurso
  <1>16. ASSUME NEW c \in Conns, SendUnlock(c) PROVE TrozosEnCurso'
    <2>1. ~AMedias(buffer[c])
      BY <1>16, <1>a, <1>0 DEF SendUnlock
    <2> QED  BY <1>16, <2>1, <1>0, MismosTrozos DEF SendUnlock
  <1>17. ASSUME NEW c \in Conns, SendFails(c) PROVE TrozosEnCurso'
    <2>1. ~AMedias(buffer[c])
      BY <1>17, <1>a DEF SendFails
    <2> QED  BY <1>17, <2>1, <1>0, MismosTrozos DEF SendFails
  <1>18. ASSUME NEW c \in Conns, Rechazar(c) PROVE TrozosEnCurso'
    <2>1. /\ fase[c] = "rechazada" /\ UNCHANGED paso
          /\ \A e \in Conns : e # c => fase'[e] = fase[e] /\ buffer'[e] = buffer[e]
          /\ buffer'[c] = buffer[c] \/ buffer'[c] = Append(buffer[c], "ERR503")
      BY <1>18, <1>0 DEF Rechazar, Pasa
    <2>2. ~AMedias(buffer[c])
      BY <2>1, <1>a
    <2>3. Entero(buffer'[c]) /\ ~AMedias(buffer'[c])
      <3>1. "ERR503" \in Datos
        BY DEF Datos
      <3>2. Entero(Append(buffer[c], "ERR503")) /\ ~AMedias(Append(buffer[c], "ERR503"))
        BY <2>2, <3>1, <1>0, <1>e, UnDatoMas
      <3> QED  BY <2>1, <2>2, <3>2, <1>e
    <2> QED  BY <2>1, <2>3 DEF TrozosEnCurso
  <1>19. ASSUME NEW c \in Conns, RecvFin(c) PROVE TrozosEnCurso'
    BY <1>19, <1>0, <1>a, MismosTrozos DEF RecvFin, Pasa
  <1>20. ASSUME NEW c \in Conns, CloseFd(c) PROVE TrozosEnCurso'
    <2>1. /\ buffer' = [buffer EXCEPT ![c] = <<>>] /\ UNCHANGED paso
          /\ \A e \in Conns : e # c => fase'[e] = fase[e]
      BY <1>20, <1>0 DEF CloseFd, Pasa
    <2> QED  BY <2>1, <1>0, Vacio DEF TrozosEnCurso
  <1>21. CASE UNCHANGED vars
    BY <1>21, MismosTrozos DEF vars
  <1> QED
    BY <1>1, <1>2, <1>3, <1>4, <1>5, <1>6, <1>7, <1>8, <1>9, <1>10, <1>11, <1>12, <1>13,
       <1>14, <1>15, <1>16, <1>17, <1>18, <1>19, <1>20, <1>21
    DEF Next, TomaMutex, Sigue

-----------------------------------------------------------------------------
(* The push.                                                                *)

(* No thread is further than the first slot. *)
LEMMA NadieAvanzado ==
    ASSUME \A h \in Hilos : paso'[h] \in {0, 1}
    PROVE  YaAvisados'
  BY DEF YaAvisados, Ranuras

(* The pushes under way stay where they are, and no connection is added to  *)
(* the receivers of a slot.                                                 *)
LEMMA MismosAvisados ==
    ASSUME YaAvisados, UNCHANGED <<operators, destinos, paso>>,
           \A h \in Hilos : Difunde(h)' /\ paso[h] # 0 => Difunde(h),
           TypeOK,
           \A s \in Ranuras : \A c \in Conns :
               operators[s].en_uso /\ fd'[c] = operators[s].fd /\ viva'[c] =>
                   fd[c] = operators[s].fd /\ viva[c]
    PROVE  YaAvisados'
  <1> SUFFICES ASSUME NEW h \in Hilos, Difunde(h)', NEW s \in Ranuras, s < paso[h],
                      operators[s].en_uso, operators[s].suscrito,
                      NEW c \in Conns, fd'[c] = operators[s].fd, viva'[c]
               PROVE  c \in destinos
    BY DEF YaAvisados, Receptor
  <1>1. paso[h] # 0 /\ Difunde(h)
    BY DEF TypeOK, Ranuras
  <1>2. c \in Receptor(operators[s].fd)
    BY DEF Receptor
  <1> QED  BY <1>1, <1>2 DEF YaAvisados

LEMMA PasoAvisados ==
    ASSUME TypeOK, Cerrojo, Tabla, YaAvisados, [Next]_vars
    PROVE  YaAvisados'
  <1> USE SessionsAssumption
  <1> USE DEF tableVars, sessionVars, kernelVars, lockVars
  <1>0. /\ Conns \subseteq Hilos /\ Difusores \subseteq Hilos
        /\ Hilos = Conns \cup Difusores /\ Conns \cap Difusores = {}
        /\ fase \in [Conns -> Fases] /\ paso \in [Hilos -> 0..Tope]
        /\ viva \in [Conns -> BOOLEAN] /\ pendiente \in [Difusores -> BOOLEAN]
        /\ DOMAIN fd = Conns
    BY DEF Hilos, TypeOK
  <1>l. ASSUME MutexLibre PROVE \A h \in Hilos : paso[h] = 0
    BY <1>l, LibreTodosFuera
  <1>1. ASSUME NEW c \in Conns, Accept(c) PROVE YaAvisados'
    <2>1. PICK f \in Fds : f \notin Abiertos /\ fd' = [fd EXCEPT ![c] = f]
      BY <1>1 DEF Accept, EsPrimero
    <2>2. \A s \in Ranuras : operators[s].en_uso => operators[s].fd # f
      BY <2>1 DEF Tabla, RanuraEsDeSuSesion, Abiertos
    <2>3. \A h \in Hilos : Difunde(h)' => Difunde(h)
      BY <1>1, <1>0 DEF Accept, Pasa, Difunde
    <2>4. \A s \in Ranuras : \A e \in Conns :
             operators[s].en_uso /\ fd'[e] = operators[s].fd /\ viva'[e] =>
                 fd[e] = operators[s].fd /\ viva[e]
      BY <1>1, <1>0, <2>1, <2>2 DEF Accept
    <2> QED  BY <1>1, <2>3, <2>4, MismosAvisados DEF Accept
  <1>2. ASSUME NEW c \in Conns, ClientRead(c) PROVE YaAvisados'
    BY <1>2, MismosAvisados DEF ClientRead, Difunde
  <1>3. ASSUME NEW c \in Conns, ClientClose(c) PROVE YaAvisados'
    <2>1. \A e \in Conns : viva'[e] => viva[e]
      BY <1>3, <1>0 DEF ClientClose
    <2> QED  BY <1>3, <2>1, MismosAvisados DEF ClientClose, Difunde
  <1>4. ASSUME NEW c \in Conns, ProcessLine(c) PROVE YaAvisados'
    <2>1. /\ fase[c] = "sesion" /\ UNCHANGED <<paso, destinos, fd, viva, pendiente>>
          /\ \A e \in Conns : e # c => fase'[e] = fase[e]
          /\ MutexLibre \/ UNCHANGED operators
      BY <1>4, <1>0
      DEF ProcessLine, CmdHello, CmdRegister, CmdSubscribe, CmdConsulta, CmdBye, Pasa, Rol
    <2>2. CASE MutexLibre
      BY <2>1, <2>2, <1>l, NadieAvanzado
    <2>3. CASE UNCHANGED operators
      <3>1. paso[c] = 0
        BY <2>1 DEF Cerrojo
      <3>2. \A h \in Hilos : Difunde(h)' /\ paso[h] # 0 => Difunde(h)
        BY <2>1, <3>1 DEF Difunde
      <3> QED  BY <2>1, <2>3, <3>2, MismosAvisados
    <2> QED  BY <2>1, <2>2, <2>3
  <1>5. ASSUME NEW d \in Difusores, Alertar(d) PROVE YaAvisados'
    <2>1. paso[d] = 0
      BY <1>5 DEF Alertar, Cerrojo
    <2>2. \A h \in Hilos : Difunde(h)' /\ paso[h] # 0 => Difunde(h)
      BY <1>5, <1>0, <2>1 DEF Alertar, Difunde
    <2> QED  BY <1>5, <2>2, MismosAvisados DEF Alertar
  <1>6. ASSUME NEW h \in Hilos, DifundirLock(h) PROVE YaAvisados'
    BY <1>6, <1>0, <1>l, NadieAvanzado DEF DifundirLock
  <1>7. ASSUME NEW c \in Conns, OperatorAdd(c) PROVE YaAvisados'
    BY <1>7, <1>l, NadieAvanzado DEF OperatorAdd
  <1>8. ASSUME NEW c \in Conns, SinRanura(c) PROVE YaAvisados'
    BY <1>8, <1>l, NadieAvanzado DEF SinRanura
  <1>9. ASSUME NEW c \in Conns, SendLock(c) PROVE YaAvisados'
    BY <1>9, <1>0, <1>l, NadieAvanzado DEF SendLock
  <1>10. ASSUME NEW c \in Conns, OperatorRemove(c) PROVE YaAvisados'
    BY <1>10, <1>l, NadieAvanzado DEF OperatorRemove
  <1>11. ASSUME NEW c \in Conns, Registrada(c) PROVE YaAvisados'
    BY <1>11, <1>l, NadieAvanzado DEF Registrada, Rol
  <1>12. ASSUME NEW c \in Conns, OperatorSubscribe(c) PROVE YaAvisados'
    BY <1>12, <1>l, NadieAvanzado DEF OperatorSubscribe
  <1>13. ASSUME NEW h \in Hilos, DifundirTurno(h) PROVE YaAvisados'
    <2>1. /\ paso[h] \in Ranuras /\ paso' = [paso EXCEPT ![h] = paso[h] + 1]
          /\ Difunde(h) /\ UNCHANGED <<operators, fd, viva>>
      BY <1>13 DEF DifundirTurno, TrasSaltar
    <2>2. \A g \in Hilos : g # h => paso'[g] = 0
      BY <2>1, <1>0, SoloUnoDentro DEF Ranuras
    <2>3. /\ destinos \subseteq destinos'
          /\ operators[paso[h]].en_uso /\ operators[paso[h]].suscrito =>
                Receptor(operators[paso[h]].fd) \subseteq destinos'
      BY <1>13 DEF DifundirTurno
    <2>4. \A f : Receptor(f)' = Receptor(f)
      BY <2>1 DEF Receptor
    <2>5. ASSUME NEW s \in Ranuras, s < paso[h] + 1,
                 operators[s].en_uso, operators[s].suscrito
          PROVE  Receptor(operators[s].fd) \subseteq destinos'
      <3>1. CASE s = paso[h]
        BY <3>1, <2>3, <2>5
      <3>2. CASE s < paso[h]
        BY <3>2, <2>1, <2>3, <2>5 DEF YaAvisados
      <3> QED  BY <2>1, <2>5, <3>1, <3>2 DEF Ranuras
    <2>6. paso'[h] = paso[h] + 1
      BY <2>1, <1>0
    <2> SUFFICES ASSUME NEW g \in Hilos, NEW s \in Ranuras, s < paso'[g],
                        operators[s].en_uso, operators[s].suscrito
                 PROVE  Receptor(operators[s].fd)' \subseteq destinos'
      BY <2>1 DEF YaAvisados, Receptor
    <2>7. g = h
      BY <2>2 DEF Ranuras
    <2>8. Receptor(operators[s].fd) \subseteq destinos'
      BY <2>5, <2>6, <2>7
    <2> QED  BY <2>8, <2>1 DEF Receptor
  <1>14. ASSUME NEW h \in Hilos, DifundirUnlock(h) PROVE YaAvisados'
    <2>1. paso[h] # 0 /\ paso' = [paso EXCEPT ![h] = 0]
      BY <1>14, <1>0 DEF DifundirUnlock
    <2>2. \A g \in Hilos : paso'[g] = 0
      BY <2>1, <1>0, SoloUnoDentro
    <2> QED  BY <2>2, NadieAvanzado
  <1>15. ASSUME NEW c \in Conns, SendPiece(c) PROVE YaAvisados'
    <2>1. /\ fase[c] = "responde" /\ paso[c] # 0 /\ UNCHANGED fase
          /\ paso' = [paso EXCEPT ![c] = paso[c] + 1]
      BY <1>15 DEF SendPiece
    <2>2. \A g \in Hilos : g # c => paso'[g] = 0
      BY <2>1, <1>0, SoloUnoDentro
    <2>3. ~Difunde(c)'
      BY <2>1 DEF Difunde
    <2> QED  BY <2>2, <2>3 DEF YaAvisados, Ranuras
  <1>16. ASSUME NEW c \in Conns, SendUnlock(c) PROVE YaAvisados'
    <2>1. paso[c] # 0 /\ paso' = [paso EXCEPT ![c] = 0]
      BY <1>16, <1>0 DEF SendUnlock
    <2>2. \A g \in Hilos : paso'[g] = 0
      BY <2>1, <1>0, SoloUnoDentro
    <2> QED  BY <2>2, NadieAvanzado
  <1>17. ASSUME NEW c \in Conns, SendFails(c) PROVE YaAvisados'
    <2>1. paso[c] # 0 /\ paso' = [paso EXCEPT ![c] = 0]
      BY <1>17, <1>0 DEF SendFails
    <2>2. \A g \in Hilos : paso'[g] = 0
      BY <2>1, <1>0, SoloUnoDentro
    <2> QED  BY <2>2, NadieAvanzado
  <1>18. ASSUME NEW c \in Conns, Rechazar(c) PROVE YaAvisados'
    <2>1. \A h \in Hilos : Difunde(h)' => Difunde(h)
      BY <1>18, <1>0 DEF Rechazar, Pasa, Difunde
    <2> QED  BY <1>18, <2>1, MismosAvisados DEF Rechazar
  <1>19. ASSUME NEW c \in Conns, RecvFin(c) PROVE YaAvisados'
    <2>1. \A h \in Hilos : Difunde(h)' => Difunde(h)
      BY <1>19, <1>0 DEF RecvFin, Pasa, Difunde
    <2> QED  BY <1>19, <2>1, MismosAvisados DEF RecvFin
  <1>20. ASSUME NEW c \in Conns, CloseFd(c) PROVE YaAvisados'
    <2>1. \A h \in Hilos : Difunde(h)' => Difunde(h)
      BY <1>20, <1>0 DEF CloseFd, Pasa, Difunde
    <2>2. \A e \in Conns : viva'[e] => viva[e] /\ fd'[e] = fd[e]
      BY <1>20, <1>0 DEF CloseFd
    <2> QED  BY <1>20, <2>1, <2>2, MismosAvisados DEF CloseFd
  <1>21. CASE UNCHANGED vars
    BY <1>21, MismosAvisados DEF vars, Difunde
  <1> QED
    BY <1>1, <1>2, <1>3, <1>4, <1>5, <1>6, <1>7, <1>8, <1>9, <1>10, <1>11, <1>12, <1>13,
       <1>14, <1>15, <1>16, <1>17, <1>18, <1>19, <1>20, <1>21
    DEF Next, TomaMutex, Sigue

-----------------------------------------------------------------------------
(* The invariant, and what follows from it.                                 *)

LEMMA Inicio ==
    ASSUME Init
    PROVE  IInv
  <1> USE SessionsAssumption DEF Init
  <1>1. TypeOK
    BY DEF TypeOK, Fases, Roles, RanuraVacia, Ranuras, Tope, Hilos
  <1>2. Cerrojo /\ FueraDeSesion /\ SuscripcionAlDia
    BY DEF Cerrojo, FueraDeSesion, SuscripcionAlDia, EnSesion, Hilos
  <1>3. RanuraEsDeSuSesion
    BY DEF RanuraEsDeSuSesion, EnSesion, RanuraVacia
  <1>4. TrozosEnCurso
    BY Vacio DEF TrozosEnCurso
  <1>5. YaAvisados
    BY DEF YaAvisados, RanuraVacia
  <1> QED  BY <1>1, <1>2, <1>3, <1>4, <1>5 DEF IInv

LEMMA PasoInvariante ==
    ASSUME IInv, [Next]_vars
    PROVE  IInv'
  <1>1. TypeOK /\ Cerrojo /\ Tabla /\ TrozosEnCurso /\ YaAvisados
    BY DEF IInv, Tabla
  <1>2. TypeOK'
    BY <1>1, PasoTipos
  <1> QED
    BY <1>1, <1>2, PasoCerrojo, PasoTabla, PasoTrozos, PasoAvisados DEF IInv, Tabla

THEOREM Invariante == Spec => []IInv
  BY Inicio, PasoInvariante, PTL DEF Spec

(* A slot in use belongs to one live session and holds the descriptor the   *)
(* kernel still has open for it, whatever the order in which sessions end    *)
(* and descriptors are given out again.                                     *)
THEOREM LaRanuraEsDeSuSesion == Spec => []RanuraEsDeSuSesion
  <1>1. IInv => RanuraEsDeSuSesion
    BY DEF IInv
  <1> QED  BY Invariante, <1>1, PTL

(* Between the pieces of an answer a client reads nothing else.             *)
THEOREM LaRespuestaEsEntera == Spec => []RespuestaEntera
  <1>1. IInv => RespuestaEntera
    BY DEF IInv, TrozosEnCurso, Entero, RespuestaEntera
  <1> QED  BY Invariante, <1>1, PTL

(* At the end of a push every subscriber still connected was written to.    *)
THEOREM ElAvisoLlegaATodos == Spec => []TodosAvisados
  <1>1. ASSUME IInv PROVE TodosAvisados
    <2> SUFFICES ASSUME NEW h \in Hilos, Difunde(h), paso[h] > MaxOperators,
                        NEW s \in Ranuras, operators[s].en_uso, operators[s].suscrito
                 PROVE  Receptor(operators[s].fd) \subseteq destinos
      BY DEF TodosAvisados
    <2>1. s < paso[h]
      BY <1>1, SessionsAssumption DEF IInv, TypeOK, Ranuras, Tope
    <2> QED  BY <1>1, <2>1 DEF IInv, YaAvisados
  <1> QED  BY Invariante, <1>1, PTL

(* No step writes an alert to a connection whose SUBSCRIBE is not in force: *)
(* not before it, not after the UNSUBSCRIBE, not through a descriptor that   *)
(* was a subscriber's.                                                      *)
THEOREM ElAvisoEsSoloDeSuscriptores == Spec => AlertaSoloAQuienLaPidio
  <1>1. ASSUME IInv, [Next]_vars,
               NEW c \in Conns, Len(buffer'[c]) > Len(buffer[c]),
               buffer'[c][Len(buffer'[c])] = "ALERTA"
        PROVE  quiere[c]
    <2> USE DEF tableVars, sessionVars, kernelVars, lockVars
    <2>0. /\ Tabla /\ TypeOK /\ DOMAIN buffer = Conns
          /\ Len(buffer[c]) \in Nat /\ buffer[c] \in Seq(Datos)
      BY <1>1 DEF IInv, TypeOK, Tabla, Datos
    <2>1. buffer'[c] # buffer[c]
      BY <1>1, <2>0
    <2>2. ASSUME NEW d, buffer'[c] = Append(buffer[c], d)
          PROVE  d = "ALERTA"
      BY <1>1, <2>0, <2>2
    <2>3. buffer'[c] # <<>>
      BY <1>1, <2>0
    <2>4. ASSUME NEW h \in Hilos, DifundirTurno(h) PROVE quiere[c]
      <3>1. /\ paso[h] \in Ranuras /\ operators[paso[h]].en_uso /\ operators[paso[h]].suscrito
            /\ c \in Receptor(operators[paso[h]].fd)
        BY <2>1, <2>4 DEF DifundirTurno, Enviar
      <3>2. PICK e \in Conns : /\ EnSesion(e) /\ slot[e] = paso[h]
                              /\ Receptor(operators[paso[h]].fd) \subseteq {e}
        BY <3>1, <2>0, ReceptorEsSuyo
      <3> QED  BY <3>1, <3>2, <2>0 DEF Tabla, SuscripcionAlDia
    <2>5. ASSUME NEW e \in Conns, SendPiece(e) PROVE FALSE
      <3>1. \/ buffer'[c] = Append(buffer[c], "FIN")
            \/ buffer'[c] = Append(buffer[c], "TROZO")
        BY <2>1, <2>5 DEF SendPiece, Enviar
      <3> QED  BY <3>1, <2>2
    <2>6. ASSUME NEW e \in Conns, Rechazar(e) PROVE FALSE
      <3>1. buffer'[c] = Append(buffer[c], "ERR503")
        BY <2>0, <2>1, <2>6 DEF Rechazar
      <3> QED  BY <3>1, <2>2
    <2>7. ASSUME NEW e \in Conns, ClientRead(e) PROVE FALSE
      <3>1. c = e /\ buffer'[c] = Tail(buffer[c]) /\ buffer[c] # <<>>
        BY <2>0, <2>1, <2>7 DEF ClientRead
      <3> QED  BY <3>1, <1>1, <2>0
    <2>8. ASSUME NEW e \in Conns, Accept(e) \/ ClientClose(e) \/ CloseFd(e) PROVE FALSE
      BY <2>0, <2>1, <2>3, <2>8 DEF Accept, ClientClose, CloseFd
    <2>9. CASE UNCHANGED buffer
      BY <2>1, <2>9
    <2> QED
      BY <1>1, <2>4, <2>5, <2>6, <2>7, <2>8, <2>9
      DEF Next, TomaMutex, Sigue, vars, ProcessLine, Alertar, DifundirLock, OperatorAdd,
          SinRanura, SendLock, OperatorRemove, Registrada, OperatorSubscribe, DifundirUnlock,
          SendUnlock, SendFails, RecvFin, CmdHello, CmdRegister, CmdSubscribe, CmdConsulta,
          CmdBye
  <1>2. IInv /\ [Next]_vars =>
            [\A c \in Conns :
                (Len(buffer'[c]) > Len(buffer[c]) /\ buffer'[c][Len(buffer'[c])] = "ALERTA")
                    => quiere[c]]_vars
    BY <1>1
  <1> QED  BY Invariante, <1>2, PTL DEF Spec, AlertaSoloAQuienLaPidio
=============================================================================
