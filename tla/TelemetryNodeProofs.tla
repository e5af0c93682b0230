------------------------ MODULE TelemetryNodeProofs ------------------------
(***************************************************************************)
(* The counters of clients/telemetry_node.py agree and a node registers     *)
(* again only after a 406, for any number of measurements, restarts and     *)
(* datagrams lost, copied or late.                                          *)
(***************************************************************************)
EXTENDS TelemetryNode, FiniteSetTheorems, TLAPS

(* The 406 that are in the socket and not read yet. *)
Rechazadas(q) == {i \in 1..Len(q) : q[i].tipo = "406"}
PorLeer(q) == Cardinality(Rechazadas(q))

LEMMA RechazadasFinitas ==
    ASSUME NEW q \in Seq(Respuestas)
    PROVE  IsFiniteSet(Rechazadas(q)) /\ PorLeer(q) \in Nat
  <1>1. IsFiniteSet(1..Len(q))
    BY FS_Interval
  <1>2. IsFiniteSet(Rechazadas(q))
    BY <1>1, FS_Subset DEF Rechazadas
  <1> QED  BY <1>2, FS_CardinalityType DEF PorLeer

(* An answer that arrives. *)
LEMMA Llega ==
    ASSUME NEW q \in Seq(Respuestas), NEW r \in Respuestas
    PROVE  PorLeer(Append(q, r)) = PorLeer(q) + (IF r.tipo = "406" THEN 1 ELSE 0)
  <1> DEFINE n == Len(q) + 1
  <1>1. /\ Len(Append(q, r)) = n /\ Append(q, r)[n] = r
        /\ \A i \in 1..Len(q) : Append(q, r)[i] = q[i]
        /\ Len(q) \in Nat
    OBVIOUS
  <1>2. CASE r.tipo = "406"
    <2>1. Rechazadas(Append(q, r)) = Rechazadas(q) \cup {n}
      BY <1>1, <1>2 DEF Rechazadas
    <2>2. n \notin Rechazadas(q)
      BY <1>1 DEF Rechazadas
    <2> QED  BY <1>2, <2>1, <2>2, RechazadasFinitas, FS_AddElement DEF PorLeer
  <1>3. CASE r.tipo # "406"
    <2>1. Rechazadas(Append(q, r)) = Rechazadas(q)
      BY <1>1, <1>3 DEF Rechazadas
    <2> QED  BY <1>3, <2>1, RechazadasFinitas DEF PorLeer
  <1> QED  BY <1>2, <1>3

(* An answer that is read. *)
LEMMA SeLee ==
    ASSUME NEW q \in Seq(Respuestas), q # <<>>
    PROVE  PorLeer(q) = PorLeer(Tail(q)) + (IF Head(q).tipo = "406" THEN 1 ELSE 0)
  <1> DEFINE A == Rechazadas(Tail(q))
             B == Rechazadas(q) \ {1}
             f == [i \in A |-> i + 1]
  <1>1. /\ Tail(q) \in Seq(Respuestas) /\ Len(Tail(q)) = Len(q) - 1 /\ Len(q) \in Nat \ {0}
        /\ \A i \in 1..Len(q) - 1 : Tail(q)[i] = q[i + 1]
        /\ Head(q) = q[1]
    OBVIOUS
  <1>2. A \subseteq Nat /\ \A i \in A : i + 1 \in B
    BY <1>1 DEF Rechazadas
  <1>3. \A j \in B : j - 1 \in A /\ (j - 1) + 1 = j
    BY <1>1 DEF Rechazadas
  <1>4. f \in Bijection(A, B)
    <2> HIDE DEF A, B
    <2>1. f \in [A -> B]
      BY <1>2
    <2>2. f \in Injection(A, B)
      BY <2>1, <1>2 DEF Injection, IsInjective
    <2>3. f \in Surjection(A, B)
      BY <2>1, <1>3 DEF Surjection
    <2> QED  BY <2>2, <2>3 DEF Bijection
  <1>5. Cardinality(B) = PorLeer(Tail(q))
    <2>1. IsFiniteSet(A) /\ ExistsBijection(A, B)
      BY <1>1, <1>4, RechazadasFinitas DEF ExistsBijection
    <2> HIDE DEF A, B
    <2>2. Cardinality(B) = Cardinality(A)
      BY <2>1, FS_Bijection
    <2> QED  BY <2>2 DEF PorLeer, A
  <1>6. /\ IsFiniteSet(Rechazadas(q)) /\ Cardinality(Rechazadas(q)) \in Nat
        /\ 1 \in Rechazadas(q) <=> Head(q).tipo = "406"
    BY <1>1, RechazadasFinitas DEF PorLeer, Rechazadas
  <1>7. Cardinality(B) = IF 1 \in Rechazadas(q) THEN PorLeer(q) - 1 ELSE PorLeer(q)
    BY <1>6, FS_RemoveElement DEF PorLeer
  <1>8. PorLeer(q) \in Nat
    BY <1>6 DEF PorLeer
  <1> HIDE DEF B
  <1> QED  BY <1>5, <1>6, <1>7, <1>8

-----------------------------------------------------------------------------
(* A registration pays for itself: each is the first one or follows a 406    *)
(* that was read, so the 406 still unread count too, and so does a          *)
(* registration the node owes.                                              *)
Debe == IF registrado THEN 0 ELSE 1

Campos == [enviados : Nat, confirmados : Nat, sin_confirmar : Nat, errores_envio : Nat,
           registros : Nat]

IInv ==
    /\ TypeOK
    /\ cuentas \in Campos /\ rechazos \in Nat /\ buzon \in Seq(Respuestas)
    /\ fase = "registro" => ~registrado
    /\ cuentas.registros + PorLeer(buzon) + Debe <= 1 + rechazos

LEMMA InicioNodo == Init => IInv
  <1> SUFFICES ASSUME Init PROVE IInv
    OBVIOUS
  <1>1. PorLeer(<<>>) = 0
    <2>1. Rechazadas(<<>>) = {}
      BY DEF Rechazadas
    <2> QED  BY <2>1, FS_EmptySet DEF PorLeer
  <1>2. MaxSeq \in Nat
    BY NodeAssumption
  <1>3. /\ cuentas \in Campos /\ cuentas.registros = 0 /\ cuentas.enviados = 0
        /\ cuentas.errores_envio = 0 /\ cuentas.confirmados = 0 /\ cuentas.sin_confirmar = 0
    BY DEF Init, Campos
  <1>4. /\ fase = "ciclo" /\ registrado = FALSE /\ seq = 0 /\ rechazos = 0
        /\ conocido = FALSE /\ ida = {} /\ vuelta = {} /\ buzon = <<>>
    BY DEF Init
  <1>5. TypeOK
    <2>1. ida \subseteq 1..seq /\ vuelta \subseteq Respuestas /\ seq \in 0..MaxSeq
          /\ \A i \in DOMAIN buzon : buzon[i] \in Respuestas
      BY <1>2, <1>4
    <2>2. /\ seq = cuentas.enviados + cuentas.errores_envio
          /\ cuentas.confirmados + cuentas.sin_confirmar
               <= cuentas.enviados - (IF fase = "espera" THEN 1 ELSE 0)
      <3>1. fase # "espera" /\ 0 = 0 + 0 /\ 0 + 0 <= 0 - 0
        BY <1>4
      <3> QED  BY <1>3, <1>4, <3>1
    <2> QED  BY <1>4, <2>1, <2>2 DEF TypeOK
  <1>6. cuentas.registros + PorLeer(buzon) + Debe <= 1 + rechazos
    BY <1>1, <1>3, <1>4 DEF Debe
  <1>7. buzon \in Seq(Respuestas)
    BY <1>4
  <1> QED  BY <1>3, <1>4, <1>5, <1>6, <1>7 DEF IInv

LEMMA PasoNodo == IInv /\ [Next]_vars => IInv'
  <1> SUFFICES ASSUME IInv, [Next]_vars PROVE IInv'
    OBVIOUS
  <1> USE NodeAssumption
  <1>n. PorLeer(buzon) \in Nat
    BY RechazadasFinitas DEF IInv
  <1>1. CASE Ciclo
    BY <1>1 DEF Ciclo, red, IInv, TypeOK, Campos, Debe
  <1>2. CASE Registrar
    <2>1. CASE /\ fase' = "envio" /\ registrado' = TRUE /\ Cuenta("registros")
      <3>1. cuentas'.registros = cuentas.registros + 1 /\ cuentas' \in Campos
            /\ cuentas'.enviados = cuentas.enviados
            /\ cuentas'.errores_envio = cuentas.errores_envio
            /\ cuentas'.confirmados = cuentas.confirmados
            /\ cuentas'.sin_confirmar = cuentas.sin_confirmar
        BY <2>1 DEF Cuenta, IInv, Campos
      <3> QED  BY <1>2, <1>n, <2>1, <3>1 DEF Registrar, IInv, TypeOK, Debe, Campos
    <2>2. CASE UNCHANGED <<fase, registrado, cuentas>>
      BY <1>2, <2>2 DEF Registrar, IInv, TypeOK, Debe, Campos
    <2> QED  BY <1>2, <2>1, <2>2 DEF Registrar
  <1>3. CASE Enviar
    <2>0. registrado /\ seq + 1 \in 0..MaxSeq /\ seq \in Nat
          /\ UNCHANGED <<registrado, rechazos, conocido, vuelta, buzon>>
      BY <1>3 DEF Enviar, IInv, TypeOK
    <2>1. CASE seq' = seq + 1 /\ fase' = "espera" /\ ida' = ida \cup {seq'} /\ Cuenta("enviados")
      <3>1. cuentas'.enviados = cuentas.enviados + 1 /\ cuentas' \in Campos
            /\ cuentas'.registros = cuentas.registros
            /\ cuentas'.errores_envio = cuentas.errores_envio
            /\ cuentas'.confirmados = cuentas.confirmados
            /\ cuentas'.sin_confirmar = cuentas.sin_confirmar
        BY <2>1 DEF Cuenta, IInv, Campos
      <3>2. fase # "espera"
        BY <1>3 DEF Enviar
      <3>3. ida' \subseteq 1..seq'
        <4>1. \A s \in ida : s \in 1..seq
          BY DEF IInv, TypeOK
        <4>2. \A s \in 1..seq : s \in 1..seq + 1
          BY <2>0
        <4>3. seq' \in 1..seq' /\ seq' = seq + 1
          BY <2>0, <2>1
        <4> QED  BY <2>1, <4>1, <4>2, <4>3
      <3> QED  BY <2>0, <2>1, <3>1, <3>2, <3>3 DEF IInv, TypeOK, Debe, Campos
    <2>2. CASE /\ seq' = SeqTrasFallo(seq) /\ fase' = "ciclo"
               /\ Cuenta("errores_envio") /\ UNCHANGED ida
      <3>1. cuentas'.enviados = cuentas.enviados /\ cuentas' \in Campos
            /\ cuentas'.registros = cuentas.registros
            /\ cuentas'.errores_envio = cuentas.errores_envio + 1
            /\ cuentas'.confirmados = cuentas.confirmados
            /\ cuentas'.sin_confirmar = cuentas.sin_confirmar
        BY <2>2 DEF Cuenta, IInv, Campos
      <3>2. fase # "espera" /\ seq' = seq + 1
        BY <1>3, <2>2 DEF Enviar, SeqTrasFallo
      <3>3. ida' \subseteq 1..seq'
        BY <2>0, <2>2, <3>2 DEF IInv, TypeOK
      <3> QED  BY <2>0, <2>2, <3>1, <3>2, <3>3 DEF IInv, TypeOK, Debe, Campos
    <2> QED  BY <1>3, <2>1, <2>2 DEF Enviar
  <1>4. ASSUME NEW tipo \in {"ACK", "406", "nada"}, Tratar(tipo), fase = "espera"
        PROVE  /\ cuentas' \in Campos /\ cuentas'.registros = cuentas.registros
               /\ seq' = cuentas'.enviados + cuentas'.errores_envio
               /\ cuentas'.confirmados + cuentas'.sin_confirmar <= cuentas'.enviados
               /\ fase' = "ciclo" /\ registrado' = (tipo # "406") /\ registrado
               /\ UNCHANGED <<seq, rechazos, conocido, ida, vuelta>>
    <2>c. /\ cuentas \in Campos /\ seq = cuentas.enviados + cuentas.errores_envio
          /\ cuentas.confirmados + cuentas.sin_confirmar <= cuentas.enviados - 1
      BY <1>4 DEF IInv, TypeOK
    <2>0. /\ fase' = "ciclo" /\ registrado' = (tipo # "406") /\ registrado
          /\ UNCHANGED <<seq, rechazos, conocido, ida, vuelta>>
      BY <1>4 DEF Tratar, SigueRegistrado, IInv, TypeOK
    <2>1. CASE tipo = "ACK"
      <3>1. Cuenta("confirmados")
        BY <1>4, <2>1 DEF Tratar
      <3>2. /\ cuentas' \in Campos /\ cuentas'.confirmados = cuentas.confirmados + 1
            /\ cuentas'.sin_confirmar = cuentas.sin_confirmar
            /\ cuentas'.enviados = cuentas.enviados
            /\ cuentas'.errores_envio = cuentas.errores_envio
            /\ cuentas'.registros = cuentas.registros
        BY <2>c, <3>1 DEF Cuenta, Campos
      <3> QED  BY <2>0, <2>c, <3>2 DEF Campos
    <2>2. CASE tipo = "nada"
      <3>1. Cuenta("sin_confirmar")
        BY <1>4, <2>2 DEF Tratar
      <3>2. /\ cuentas' \in Campos /\ cuentas'.sin_confirmar = cuentas.sin_confirmar + 1
            /\ cuentas'.confirmados = cuentas.confirmados
            /\ cuentas'.enviados = cuentas.enviados
            /\ cuentas'.errores_envio = cuentas.errores_envio
            /\ cuentas'.registros = cuentas.registros
        BY <2>c, <3>1 DEF Cuenta, Campos
      <3> QED  BY <2>0, <2>c, <3>2 DEF Campos
    <2>3. CASE tipo = "406"
      <3>1. UNCHANGED cuentas
        BY <1>4, <2>3 DEF Tratar
      <3> QED  BY <2>0, <2>c, <3>1 DEF Campos
    <2> QED  BY <2>1, <2>2, <2>3
  <1>5. CASE Recibir
    <2>1. /\ Head(buzon) \in Respuestas /\ buzon' = Tail(buzon) /\ buzon' \in Seq(Respuestas)
          /\ fase = "espera" /\ Tratar(Head(buzon).tipo) /\ buzon # <<>>
      BY <1>5 DEF Recibir, IInv
    <2>2. Head(buzon).tipo \in {"ACK", "406"}
      BY <2>1 DEF Respuestas
    <2>3. PorLeer(buzon) = PorLeer(buzon') + (IF Head(buzon).tipo = "406" THEN 1 ELSE 0)
          /\ PorLeer(buzon') \in Nat
      BY <2>1, SeLee, RechazadasFinitas DEF IInv
    <2>4. /\ cuentas' \in Campos /\ cuentas'.registros = cuentas.registros
          /\ seq' = cuentas'.enviados + cuentas'.errores_envio
          /\ cuentas'.confirmados + cuentas'.sin_confirmar <= cuentas'.enviados
          /\ fase' = "ciclo" /\ registrado' = (Head(buzon).tipo # "406") /\ registrado
          /\ UNCHANGED <<seq, rechazos, conocido, ida, vuelta>>
      BY <1>4, <2>1, <2>2
    <2>r. /\ cuentas.registros \in Nat /\ rechazos \in Nat
          /\ cuentas.registros + PorLeer(buzon) <= 1 + rechazos
      BY <1>n, <2>4 DEF IInv, Debe, Campos
    <2>d. Debe' = IF Head(buzon).tipo = "406" THEN 1 ELSE 0
      BY <2>4 DEF Debe
    <2>5. cuentas'.registros + PorLeer(buzon') + Debe' <= 1 + rechazos'
      BY <1>n, <2>3, <2>4, <2>d, <2>r
    <2>6. TypeOK'
      <3>1. ida' \subseteq 1..seq' /\ vuelta' \subseteq Respuestas /\ seq' \in 0..MaxSeq
            /\ conocido' \in BOOLEAN /\ registrado' \in BOOLEAN
        BY <2>4 DEF IInv, TypeOK
      <3>2. \A i \in DOMAIN buzon' : buzon'[i] \in Respuestas
        BY <2>1
      <3>3. cuentas'.enviados \in Nat
        BY <2>4 DEF Campos
      <3> QED  BY <2>4, <3>1, <3>2, <3>3 DEF TypeOK
    <2> QED  BY <2>1, <2>4, <2>5, <2>6 DEF IInv
  <1>6. CASE SinRespuesta
    <2>1. /\ cuentas' \in Campos /\ cuentas'.registros = cuentas.registros
          /\ seq' = cuentas'.enviados + cuentas'.errores_envio
          /\ cuentas'.confirmados + cuentas'.sin_confirmar <= cuentas'.enviados
          /\ fase' = "ciclo" /\ registrado' = TRUE /\ registrado
          /\ UNCHANGED <<seq, rechazos, conocido, ida, vuelta, buzon>>
      BY <1>4, <1>6 DEF SinRespuesta
    <2>2. TypeOK'
      <3>1. ida' \subseteq 1..seq' /\ vuelta' \subseteq Respuestas /\ seq' \in 0..MaxSeq
            /\ conocido' \in BOOLEAN /\ \A i \in DOMAIN buzon' : buzon'[i] \in Respuestas
        BY <2>1 DEF IInv, TypeOK
      <3>2. cuentas'.enviados \in Nat
        BY <2>1 DEF Campos
      <3> QED  BY <2>1, <3>1, <3>2 DEF TypeOK
    <2>3. cuentas'.registros + PorLeer(buzon') + Debe' <= 1 + rechazos'
      BY <2>1 DEF IInv, Debe
    <2> QED  BY <2>1, <2>2, <2>3 DEF IInv
  <1>7. CASE Detener
    BY <1>7 DEF Detener, red, IInv, TypeOK, Debe, Campos
  <1>8. CASE LlegaAlServidor
    <2>1. PICK s \in ida : /\ vuelta' = vuelta \cup {Respuesta(s)}
                           /\ ida' = ida \ {s} \/ UNCHANGED ida
      BY <1>8 DEF LlegaAlServidor
    <2>2. Respuesta(s) \in Respuestas
      BY DEF Respuesta, Respuestas, IInv, TypeOK
    <2>3. vuelta' \subseteq Respuestas /\ ida' \subseteq 1..seq
      BY <2>1, <2>2 DEF IInv, TypeOK
    <2> QED  BY <1>8, <2>3 DEF LlegaAlServidor, nodo, IInv, TypeOK, Debe, Campos
  <1>9. CASE LlegaAlNodo
    <2>1. PICK r \in vuelta :
             /\ buzon' = Append(buzon, r)
             /\ rechazos' = rechazos + (IF r.tipo = "406" THEN 1 ELSE 0)
             /\ vuelta' = vuelta \ {r} \/ UNCHANGED vuelta
      BY <1>9 DEF LlegaAlNodo
    <2>2. r \in Respuestas /\ vuelta' \subseteq Respuestas
      BY <2>1 DEF IInv, TypeOK
    <2>3. /\ buzon' \in Seq(Respuestas)
          /\ PorLeer(buzon') = PorLeer(buzon) + (IF r.tipo = "406" THEN 1 ELSE 0)
      BY <2>1, <2>2, Llega DEF IInv
    <2>4. UNCHANGED <<fase, registrado, seq, cuentas, conocido, ida>>
      BY <1>9 DEF LlegaAlNodo, nodo
    <2>5. rechazos' \in Nat /\ cuentas'.registros + PorLeer(buzon') + Debe' <= 1 + rechazos'
      BY <1>n, <2>1, <2>3, <2>4 DEF IInv, Debe, Campos
    <2>6. TypeOK'
      BY <2>2, <2>3, <2>4 DEF IInv, TypeOK
    <2> QED  BY <2>3, <2>4, <2>5, <2>6 DEF IInv
  <1>10. CASE SePierde
    <2>1. ida' \subseteq ida /\ vuelta' \subseteq vuelta
      BY <1>10 DEF SePierde
    <2> QED  BY <1>10, <2>1 DEF SePierde, nodo, IInv, TypeOK, Debe, Campos
  <1>11. CASE Reiniciar
    BY <1>11 DEF Reiniciar, nodo, red, IInv, TypeOK, Debe, Campos
  <1>12. CASE UNCHANGED vars
    BY <1>12 DEF vars, IInv, TypeOK, Debe, Campos
  <1> QED  BY <1>1, <1>2, <1>3, <1>5, <1>6, <1>7, <1>8, <1>9, <1>10, <1>11, <1>12 DEF Next

(* Only a 406 makes the node register again, and each one once at most; the  *)
(* numbers spent and the answers counted agree (enviar_medicion, registrar). *)
THEOREM NodoSoloSeReRegistraPor406 == Spec => []SinRechazoNoHayRegistro
  <1>1. IInv => SinRechazoNoHayRegistro
    BY RechazadasFinitas DEF IInv, SinRechazoNoHayRegistro, Debe, Campos
  <1> QED  BY <1>1, InicioNodo, PasoNodo, PTL DEF Spec
=============================================================================
