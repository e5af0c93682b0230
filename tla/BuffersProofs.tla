--------------------------- MODULE BuffersProofs ----------------------------
(***************************************************************************)
(* Theorems about the two buffers of the server: LineBuffer, for any size   *)
(* of a message, of a recv() and of the stream, and HistoryRing, for any    *)
(* capacity.                                                                *)
(***************************************************************************)
EXTENDS LineBuffer, HistoryRing, FiniteSetTheorems, SequenceTheorems, WellFoundedInduction, TLAPS

(* The bytes that have left data[]: extracted or thrown away. *)
Base == leidos - Len(data)

(* data[] is a contiguous piece of the stream that ends at the last byte     *)
(* read and, unless a line is being thrown away, begins a line.             *)
DatosInv ==
    /\ Len(data) <= leidos
    /\ \A k \in DOMAIN data : data[k] = Base + k
    /\ ~discarding => (Base = 0 \/ recibido[Base] = "nl")
    /\ discarding => data = <<>> /\ Base # 0 /\ recibido[Base] # "nl"
    /\ fase # "push" => leidos = Len(recibido)
    /\ fase = "recv" => \A k \in DOMAIN data : recibido[data[k]] # "nl"

(* The lines handed over lie before data[], and in order. *)
LineasInv ==
    /\ \A k \in Atendidas :
         \E r \in Lineas(recibido) :
            respondidas[k].bytes = Contenido(recibido, r) /\ r[2] <= Base
    /\ \A j, k \in Atendidas :
         (j < k /\ respondidas[j].bytes # <<>> /\ respondidas[k].bytes # <<>>)
            => respondidas[j].bytes[1] < respondidas[k].bytes[1]

(* There is a 413, or this push is about to answer one. *)
Avisado ==
    \/ fase = "push" /\ problema # {}
    \/ \E k \in DOMAIN respondidas : respondidas[k].tipo = "413"

(* Every byte is spoken of at most once; a line whose first byte has left    *)
(* data[] is spoken of, by its answer or by the one this push will give; an *)
(* answer that hands over bytes hands over a whole line within R5, and a    *)
(* 413 has a breach to show.                                                *)
ProblemaInv ==
    /\ problema \subseteq 1..Base
    /\ fase # "push" => problema = {}
    /\ problema # {} => Excede(problema)

UnaVezInv ==
    /\ \A k \in DOMAIN respondidas :
          respondidas[k].de \subseteq 1..Base /\ respondidas[k].de \cap problema = {}
    /\ \A j, k \in DOMAIN respondidas :
          j # k => respondidas[j].de \cap respondidas[k].de = {}

Dicho(i) == i \in problema \/ \E k \in DOMAIN respondidas : i \in respondidas[k].de

DichasInv == \A i \in 1..Base : Inicio(recibido, i) => Dicho(i)

Fundada(a) ==
    IF a.tipo = "413" THEN Excede(a.de)
    ELSE \E r \in Lineas(recibido) :
            /\ a = Linea(Contenido(recibido, r), r[1]..r[2])
            /\ Len(Contenido(recibido, r)) < MaxMessage

FundadasInv == \A k \in DOMAIN respondidas : Fundada(respondidas[k])

(* What recv() brought last begins at most MaxMessage bytes before the end,  *)
(* and nothing before it in data[] is a terminator.                         *)
RecienteInv ==
    fase = "push" => \E n \in 0..Len(recibido) :
        Len(recibido) <= n + MaxMessage /\ \A p \in (Base + 1)..n : recibido[p] # "nl"

(* The first n bytes respect R5. *)
Respeta(n) ==
    \A p \in 1..n : p >= MaxMessage =>
        \E q \in (p - MaxMessage + 1)..p : recibido[q] = "nl"

Saltos(n) == {p \in 1..n : recibido[p] = "nl"}

(* While R5 is respected nothing is thrown away: what is left of this recv() *)
(* still fits behind the one unfinished line.                               *)
SinExcesosInv ==
    Respeta(leidos) =>
        /\ ~discarding /\ ~Avisado
        /\ Len(respondidas) = Cardinality(Saltos(Base))
        /\ fase = "push" => Len(data) + (Len(recibido) - leidos) <= 2 * MaxMessage - 1

IInv ==
    /\ TypeOK /\ DatosInv /\ LineasInv /\ ProblemaInv /\ UnaVezInv
    /\ DichasInv /\ FundadasInv /\ RecienteInv /\ SinExcesosInv

-----------------------------------------------------------------------------
(* A set of naturals has a least element. *)
LEMMA Minimo ==
    ASSUME NEW T, T \subseteq Nat, T # {}
    PROVE  \E x \in T : \A y \in T : x <= y
  <1>1. IsWellFoundedOn(OpToRel(<, Nat), Nat)
    BY NatLessThanWellFounded
  <1>2. PICK x \in T : \A y \in T : ~ (<<y, x>> \in OpToRel(<, Nat))
    BY <1>1, WFMin
  <1>3. \A y \in T : ~ (y < x)
    BY <1>2 DEF OpToRel
  <1> QED  BY <1>3

(* If data[] holds a terminator, it holds a first one. *)
LEMMA HayPrimerFin ==
    ASSUME TypeOK, NEW k \in DOMAIN data, recibido[data[k]] = "nl"
    PROVE  \E i \in DOMAIN data : EsFin(i)
  <1> DEFINE F == {j \in DOMAIN data : recibido[data[j]] = "nl"}
  <1>1. DOMAIN data \subseteq Nat /\ F \subseteq Nat /\ F # {}
    BY DEF TypeOK
  <1>2. PICK i \in F : \A j \in F : i <= j
    BY <1>1, Minimo
  <1>3. \A j \in 1..(i - 1) : j \in DOMAIN data /\ ~ (i <= j)
    BY <1>2 DEF TypeOK
  <1>4. \A j \in 1..(i - 1) : recibido[data[j]] # "nl"
    BY <1>2, <1>3
  <1> QED  BY <1>2, <1>4 DEF EsFin

(* What more bytes do to the stream. *)
LEMMA Prefijo ==
    ASSUME NEW s \in Seq(Bytes), NEW t \in Seq(Bytes)
    PROVE  /\ s \o t \in Seq(Bytes)
           /\ Len(s) \in Nat /\ Len(t) \in Nat /\ Len(s \o t) = Len(s) + Len(t)
           /\ \A p \in 1..Len(s) : (s \o t)[p] = s[p]
  OBVIOUS

(* The lines of a stream are lines of it when more bytes arrive. *)
LEMMA LineasCrecen ==
    ASSUME NEW s \in Seq(Bytes), NEW t \in Seq(Bytes), NEW r \in Lineas(s)
    PROVE  r \in Lineas(s \o t) /\ Contenido(s \o t, r) = Contenido(s, r)
  <1> DEFINE u == s \o t
  <1>1. /\ Len(s) \in Nat /\ Len(u) \in Nat /\ Len(s) <= Len(u)
        /\ \A p \in 1..Len(s) : u[p] = s[p]
    BY Prefijo
  <1>2. /\ r \in (1..Len(s)) \X (1..Len(s)) /\ r[1] <= r[2]
        /\ Inicio(s, r[1]) /\ s[r[2]] = "nl"
        /\ \A p \in r[1]..(r[2] - 1) : s[p] # "nl"
    BY DEF Lineas
  <1> HIDE DEF u
  <1>3. r[1] \in 1..Len(s) /\ r[2] \in 1..Len(s) /\ r \in (1..Len(u)) \X (1..Len(u))
    BY <1>1, <1>2
  <1>4. Inicio(u, r[1])
    BY <1>1, <1>2, <1>3 DEF Inicio
  <1>5. u[r[2]] = "nl" /\ \A p \in r[1]..(r[2] - 1) : u[p] # "nl"
    <2>1. u[r[2]] = s[r[2]] /\ \A p \in r[1]..(r[2] - 1) : u[p] = s[p]
      BY <1>1, <1>3
    <2> QED  BY <1>2, <2>1
  <1>6. r \in Lineas(u)
    BY <1>2, <1>3, <1>4, <1>5 DEF Lineas
  <1>7. r[2] > r[1] => u[r[2] - 1] = s[r[2] - 1]
    BY <1>1, <1>3
  <1>8. Contenido(u, r) = Contenido(s, r)
    BY <1>7 DEF Contenido
  <1> QED  BY <1>6, <1>8 DEF u

(* A line that ends before the new bytes was a line already. *)
LEMMA LineasDelPrincipio ==
    ASSUME NEW s \in Seq(Bytes), NEW t \in Seq(Bytes), NEW r \in Lineas(s \o t), r[2] <= Len(s)
    PROVE  r \in Lineas(s) /\ Contenido(s \o t, r) = Contenido(s, r)
  <1> DEFINE u == s \o t
  <1>1. /\ Len(s) \in Nat /\ Len(u) \in Nat /\ Len(s) <= Len(u)
        /\ \A p \in 1..Len(s) : u[p] = s[p]
    BY Prefijo
  <1>2. /\ r \in (1..Len(u)) \X (1..Len(u)) /\ r[1] <= r[2]
        /\ Inicio(u, r[1]) /\ u[r[2]] = "nl"
        /\ \A p \in r[1]..(r[2] - 1) : u[p] # "nl"
    BY DEF Lineas
  <1> HIDE DEF u
  <1>3. r[1] \in 1..Len(s) /\ r[2] \in 1..Len(s) /\ r \in (1..Len(s)) \X (1..Len(s))
    BY <1>1, <1>2
  <1>4. Inicio(s, r[1])
    BY <1>1, <1>2, <1>3 DEF Inicio
  <1>5. s[r[2]] = "nl" /\ \A p \in r[1]..(r[2] - 1) : s[p] # "nl"
    <2>1. u[r[2]] = s[r[2]] /\ \A p \in r[1]..(r[2] - 1) : u[p] = s[p]
      BY <1>1, <1>3
    <2> QED  BY <1>2, <2>1
  <1>6. r \in Lineas(s)
    BY <1>2, <1>3, <1>4, <1>5 DEF Lineas
  <1>7. r[2] > r[1] => u[r[2] - 1] = s[r[2] - 1]
    BY <1>1, <1>3
  <1>8. Contenido(u, r) = Contenido(s, r)
    BY <1>7 DEF Contenido
  <1> QED  BY <1>6, <1>8 DEF u

(* What Extraer takes out of data[] is the line of the stream that ends      *)
(* there, and no other line leaves data[] with it.                          *)
LEMMA LineaExtraida ==
    ASSUME TypeOK, DatosInv, NEW i \in DOMAIN data, EsFin(i)
    PROVE  /\ <<Base + 1, Base + i>> \in Lineas(recibido)
           /\ SinFinal(i) = Contenido(recibido, <<Base + 1, Base + i>>)
           /\ \A r \in Lineas(recibido) :
                 (Base < r[2] /\ r[2] <= Base + i) => r = <<Base + 1, Base + i>>
  <1> DEFINE b == Base
             r0 == <<b + 1, b + i>>
  <1>1. /\ b \in Nat /\ leidos = b + Len(data) /\ Len(data) \in Nat
        /\ leidos <= Len(recibido) /\ Len(recibido) \in Nat
        /\ i \in Nat /\ 1 <= i /\ i <= Len(data) /\ DOMAIN data = 1..Len(data)
        /\ \A k \in DOMAIN data : data[k] = b + k
    BY DEF TypeOK, DatosInv, Base
  <1>2. b = 0 \/ recibido[b] = "nl"
    BY <1>1 DEF DatosInv
  <1> HIDE DEF b
  <1>3. recibido[b + i] = "nl" /\ \A p \in (b + 1)..(b + i - 1) : recibido[p] # "nl"
    <2>1. recibido[b + i] = "nl" /\ \A j \in 1..(i - 1) : recibido[data[j]] # "nl"
      BY <1>1 DEF EsFin
    <2> SUFFICES ASSUME NEW p \in (b + 1)..(b + i - 1)
                 PROVE  recibido[p] # "nl"
      BY <2>1
    <2>2. p - b \in 1..(i - 1) /\ p - b \in DOMAIN data /\ b + (p - b) = p
      BY <1>1
    <2> QED  BY <1>1, <2>1, <2>2
  <1>4. r0 \in Lineas(recibido)
    <2>1. r0 \in (1..Len(recibido)) \X (1..Len(recibido)) /\ r0[1] = b + 1 /\ r0[2] = b + i
      BY <1>1
    <2>2. Inicio(recibido, b + 1)
      BY <1>1, <1>2 DEF Inicio
    <2> QED  BY <1>1, <1>3, <2>1, <2>2 DEF Lineas
  <1>5. SinFinal(i) = Contenido(recibido, r0)
    <2> DEFINE n == IF i > 1 /\ recibido[b + i - 1] = "cr" THEN i - 2 ELSE i - 1
    <2>1. Contenido(recibido, r0) = [k \in 1..n |-> b + k]
      <3>1. /\ (r0[2] > r0[1] /\ recibido[r0[2] - 1] = "cr")
                 <=> (i > 1 /\ recibido[b + i - 1] = "cr")
            /\ r0[2] - r0[1] = i - 1
        BY <1>1
      <3>2. \A k \in 1..n : r0[1] + k - 1 = b + k
        BY <1>1
      <3>3. n = IF r0[2] > r0[1] /\ recibido[r0[2] - 1] = "cr"
                  THEN r0[2] - r0[1] - 1 ELSE r0[2] - r0[1]
        BY <1>1, <3>1
      <3> HIDE DEF n
      <3> QED  BY <3>2, <3>3 DEF Contenido
    <2>2. SinFinal(i) = SubSeq(data, 1, n)
      <3>1. i > 1 => data[i - 1] = b + i - 1
        BY <1>1
      <3> QED  BY <3>1 DEF SinFinal
    <2>3. n \in Nat /\ n <= Len(data) /\ n < i
      BY <1>1
    <2> HIDE DEF n
    <2>4. SubSeq(data, 1, n) = [k \in 1..n |-> data[k]]
      BY <1>1, <2>3 DEF TypeOK
    <2>5. \A k \in 1..n : data[k] = b + k
      BY <1>1, <2>3
    <2> QED  BY <2>1, <2>2, <2>4, <2>5
  <1>6. ASSUME NEW r \in Lineas(recibido), b < r[2], r[2] <= b + i
        PROVE  r = r0
    <2>1. /\ r \in (1..Len(recibido)) \X (1..Len(recibido)) /\ r[1] <= r[2]
          /\ Inicio(recibido, r[1]) /\ recibido[r[2]] = "nl"
          /\ \A p \in r[1]..(r[2] - 1) : recibido[p] # "nl"
      BY DEF Lineas
    <2>2. r[1] \in 1..Len(recibido) /\ r[2] \in 1..Len(recibido) /\ r = <<r[1], r[2]>>
      BY <2>1
    <2>3. r[2] = b + i
      <3>1. r[2] \notin (b + 1)..(b + i - 1)
        BY <1>3, <2>1
      <3> QED  BY <1>1, <1>6, <2>2, <3>1
    <2>4. r[1] > b
      <3>1. b # 0 => b \notin r[1]..(r[2] - 1)
        BY <1>2, <2>1
      <3> QED  BY <1>1, <1>6, <2>2, <3>1
    <2>5. r[1] = b + 1
      <3>1. r[1] # 1 => (r[1] - 1) \notin (b + 1)..(b + i - 1)
        BY <1>3, <2>1 DEF Inicio
      <3> QED  BY <1>1, <2>1, <2>2, <2>3, <2>4, <3>1
    <2> QED  BY <2>2, <2>3, <2>5
  <1> QED  BY <1>4, <1>5, <1>6 DEF b

-----------------------------------------------------------------------------
(* Every variable stays in its range, and data[] never overflows. *)
Respondida(R) == [tipo : {"linea", "413"}, bytes : Seq(R), de : SUBSET R]

LEMMA TipoInicial == Init => TypeOK
  <1> SUFFICES ASSUME Init PROVE TypeOK
    OBVIOUS
  <1>1. /\ <<>> \in Seq(Bytes) /\ <<>> \in Seq(1..0) /\ Len(<<>>) = 0
        /\ <<>> \in Seq(Respondida(1..0))
    BY EmptySeq
  <1>2. 0 < 2 * MaxMessage
    BY LineBufferAssumption
  <1>3. /\ fase = "recv" /\ recibido = <<>> /\ Len(recibido) = 0 /\ leidos = 0
        /\ data = <<>> /\ Len(data) = 0 /\ discarding = FALSE /\ problema = {}
        /\ respondidas = <<>> /\ leidos \in 0..Len(recibido)
    BY <1>1 DEF Init
  <1>4. respondidas \in Seq(Respondida(1..Len(recibido))) /\ data \in Seq(1..Len(recibido))
    BY <1>1, <1>3
  <1> QED  BY <1>1, <1>2, <1>3, <1>4 DEF TypeOK, Respondida

(* The answers stay answers when the stream grows. *)
LEMMA RespuestasCrecen ==
    ASSUME NEW m \in Nat, NEW n \in Nat, m <= n, NEW a \in Seq(Respondida(1..m))
    PROVE  a \in Seq(Respondida(1..n))
  <1>1. 1..m \subseteq 1..n
    OBVIOUS
  <1>2. \A l \in Seq(1..m) : l \in Seq(1..n)
    BY <1>1, SeqMonotonic
  <1>3. Respondida(1..m) \subseteq Respondida(1..n)
    BY <1>1, <1>2 DEF Respondida
  <1> QED  BY <1>3, SeqMonotonic

LEMMA TipoPaso ==
    ASSUME TypeOK, [Next]_vars
    PROVE  TypeOK'
  <1> DEFINE R == 1..Len(recibido)
  <1>0. /\ fase \in {"recv", "push", "next", "fin"}
        /\ recibido \in Seq(Bytes) /\ Len(recibido) \in Nat
        /\ leidos \in 0..Len(recibido)
        /\ data \in Seq(R) /\ Len(data) < 2 * MaxMessage
        /\ discarding \in BOOLEAN /\ problema \subseteq R
        /\ respondidas \in Seq(Respondida(R))
    BY DEF TypeOK, Respondida
  <1>1. CASE Recv
    <2>1. PICK k \in 1..BufferSize : \E trozo \in [1..k -> Bytes] : recibido' = recibido \o trozo
      BY <1>1 DEF Recv
    <2>2. PICK trozo \in [1..k -> Bytes] : recibido' = recibido \o trozo
      BY <2>1
    <2>3. trozo \in Seq(Bytes)
      BY <2>1, LineBufferAssumption
    <2>4. recibido' \in Seq(Bytes) /\ Len(recibido') \in Nat
          /\ Len(recibido) <= Len(recibido')
      BY <1>0, <2>2, <2>3, Prefijo
    <2>5. R \subseteq 1..Len(recibido') /\ leidos \in 0..Len(recibido')
      BY <1>0, <2>4
    <2>6. data \in Seq(1..Len(recibido')) /\ problema' = {}
      BY <1>0, <1>1, <2>5, SeqMonotonic DEF Recv
    <2>7. respondidas \in Seq(Respondida(1..Len(recibido')))
      BY <1>0, <2>4, RespuestasCrecen
    <2> QED  BY <1>0, <1>1, <2>4, <2>5, <2>6, <2>7 DEF Recv, TypeOK, Respondida
  <1>2. CASE PushByte
    <2>1. leidos' = leidos + 1 /\ leidos' \in R
          /\ UNCHANGED <<fase, recibido, respondidas>>
      BY <1>0, <1>2 DEF PushByte
    <2>2. discarding' \in BOOLEAN /\ problema' \subseteq R
      <3>1. {data[j] : j \in DOMAIN data} \subseteq R
        BY <1>0
      <3> QED  BY <1>0, <1>2, <2>1, <3>1 DEF PushByte, TrasDesbordar, TrasTirar
    <2>3. data' \in Seq(R) /\ Len(data') < 2 * MaxMessage
      <3>1. CASE data' = data
        BY <1>0, <3>1
      <3>2. CASE data' = <<>>
        BY <3>2, LineBufferAssumption
      <3>3. CASE ~Lleno /\ data' = Append(data, leidos + 1)
        <4>1. Len(data') = Len(data) + 1 /\ data' \in Seq(R)
          BY <1>0, <2>1, <3>3, AppendProperties
        <4> QED  BY <1>0, <3>3, <4>1, LineBufferAssumption DEF Lleno
      <3> QED  BY <1>2, <3>1, <3>2, <3>3 DEF PushByte
    <2> QED  BY <1>0, <2>1, <2>2, <2>3 DEF TypeOK, Respondida
  <1>3. CASE PushFin
    <2>1. Err413(problema) \in Respondida(R)
      BY <1>0, EmptySeq DEF Err413, Respondida
    <2>2. respondidas' \in Seq(Respondida(R)) /\ problema' = {}
      BY <1>0, <1>3, <2>1, AppendProperties DEF PushFin
    <2> QED  BY <1>0, <1>3, <2>2 DEF PushFin, TypeOK, Respondida
  <1>4. ASSUME NEW i \in DOMAIN data, Extraer(i), fase' \in {"next", "fin"}
        PROVE  TypeOK'
    <2>1. data' \in Seq(R) /\ Len(data') < 2 * MaxMessage
      <3>1. data' = SubSeq(data, i + 1, Len(data)) /\ i \in 1..Len(data) /\ Len(data) \in Nat
        BY <1>0, <1>4 DEF Extraer
      <3>2. \A j \in (i + 1)..Len(data) : data[j] \in R
        <4> SUFFICES ASSUME NEW j \in (i + 1)..Len(data) PROVE data[j] \in R
          OBVIOUS
        <4>1. j \in 1..Len(data)
          BY <3>1
        <4> QED  BY <1>0, <4>1, ElementOfSeq
      <3>3. data' \in Seq(R) /\ Len(data') = IF i + 1 <= Len(data) THEN Len(data) - (i + 1) + 1 ELSE 0
        BY <3>1, <3>2, SubSeqProperties
      <3>4. Len(data') <= Len(data)
        BY <3>1, <3>3
      <3>5. Len(data') \in Nat /\ 2 * MaxMessage \in Nat
        BY <3>3, LineBufferAssumption
      <3>6. Len(data) < 2 * MaxMessage /\ Len(data) \in Nat
        BY <1>0, <3>1
      <3>7. Len(data') < 2 * MaxMessage
        BY <3>4, <3>5, <3>6
      <3> QED  BY <3>3, <3>7
    <2>2. SinFinal(i) \in Seq(R)
      <3>1. i \in 1..Len(data) /\ Len(data) \in Nat
        BY <1>0
      <3>2. PICK n \in Int : n <= i /\ SinFinal(i) = SubSeq(data, 1, n)
        BY <3>1 DEF SinFinal
      <3>3. \A j \in 1..n : data[j] \in R
        BY <1>0, <3>1, <3>2
      <3> QED  BY <3>2, <3>3, SubSeqProperties
    <2>3. ASSUME NEW de \in SUBSET R
          PROVE  Err413(de) \in Respondida(R) /\ Linea(SinFinal(i), de) \in Respondida(R)
      <3>1. <<>> \in Seq(R)
        BY EmptySeq
      <3>2. Err413(de) \in Respondida(R)
        BY <3>1 DEF Err413, Respondida
      <3>3. Linea(SinFinal(i), de) \in Respondida(R)
        BY <2>2 DEF Linea, Respondida
      <3> QED  BY <3>2, <3>3
    <2>4. respondidas' \in Seq(Respondida(R))
      <3>1. {data[j] : j \in 1..i} \in SUBSET R
        <4>1. \A j \in 1..i : j \in 1..Len(data)
          BY <1>0
        <4> QED  BY <1>0, <4>1, ElementOfSeq
      <3> QED  BY <1>0, <1>4, <2>3, <3>1, AppendProperties DEF Extraer
    <2> QED  BY <1>0, <1>4, <2>1, <2>4 DEF Extraer, TypeOK, Respondida
  <1>5. CASE LineaCompleta
    BY <1>0, <1>4, <1>5 DEF LineaCompleta
  <1>6. CASE LineaFinal
    BY <1>4, <1>6 DEF LineaFinal
  <1>7. CASE RecvFin \/ SinLinea \/ UNCHANGED vars
    BY <1>0, <1>7 DEF RecvFin, SinLinea, vars, TypeOK, Respondida
  <1> QED  BY <1>1, <1>2, <1>3, <1>5, <1>6, <1>7 DEF Next

-----------------------------------------------------------------------------
(* What each action does to the stream and to data[]. *)
LEMMA BytesDeData ==
    ASSUME TypeOK, DatosInv, NEW i \in 0..Len(data)
    PROVE  {data[j] : j \in 1..i} = (Base + 1)..(Base + i)
  <1>1. /\ Len(data) \in Nat /\ DOMAIN data = 1..Len(data) /\ leidos \in Nat
        /\ Base \in Nat /\ \A k \in DOMAIN data : data[k] = Base + k
    BY DEF TypeOK, DatosInv, Base
  <1>2. \A j \in 1..i : data[j] = Base + j
    BY <1>1
  <1>3. \A p \in (Base + 1)..(Base + i) : p - Base \in 1..i /\ Base + (p - Base) = p
    BY <1>1
  <1>4. \A j \in 1..i : Base + j \in (Base + 1)..(Base + i)
    BY <1>1
  <1> HIDE DEF Base
  <1> QED  BY <1>2, <1>3, <1>4

LEMMA RecvEfecto ==
    ASSUME TypeOK, Recv
    PROVE  /\ \E t \in Seq(Bytes) : recibido' = recibido \o t
           /\ Len(recibido') \in Nat /\ Len(recibido) \in Nat /\ Len(recibido) < Len(recibido')
           /\ Len(recibido') <= Len(recibido) + MaxMessage
           /\ \A p \in 1..Len(recibido) : recibido'[p] = recibido[p]
           /\ fase = "recv" /\ fase' = "push" /\ problema' = {}
           /\ Base' = Base /\ UNCHANGED <<leidos, data, discarding, respondidas>>
  <1>1. PICK k \in 1..BufferSize : \E trozo \in [1..k -> Bytes] : recibido' = recibido \o trozo
    BY DEF Recv
  <1>2. PICK t \in [1..k -> Bytes] : recibido' = recibido \o t
    BY <1>1
  <1>3. t \in Seq(Bytes) /\ Len(t) = k /\ k \in Nat /\ 1 <= k /\ k <= MaxMessage
    BY <1>1, LineBufferAssumption
  <1>4. recibido \in Seq(Bytes)
    BY DEF TypeOK
  <1>5. /\ Len(recibido') \in Nat /\ Len(recibido) \in Nat
        /\ Len(recibido') = Len(recibido) + k
        /\ \A p \in 1..Len(recibido) : recibido'[p] = recibido[p]
    BY <1>2, <1>3, <1>4, Prefijo
  <1>6. Base' = Base
    BY DEF Recv, Base
  <1> QED  BY <1>2, <1>3, <1>5, <1>6, LineBufferAssumption DEF Recv

LEMMA PushEfecto ==
    ASSUME TypeOK, DatosInv, PushByte
    PROVE  /\ leidos \in Nat /\ leidos' = leidos + 1 /\ leidos' <= Len(recibido)
           /\ Len(recibido) \in Nat /\ Base \in Nat /\ Base <= leidos
           /\ fase = "push" /\ UNCHANGED <<fase, recibido, respondidas>>
           /\ \/ /\ discarding /\ data = <<>> /\ data' = <<>> /\ Base' = leidos'
                 /\ discarding' = (recibido[leidos'] # "nl") /\ problema' = problema
              \/ /\ ~discarding /\ Lleno /\ data' = <<>> /\ Base' = leidos'
                 /\ discarding' = (recibido[leidos'] # "nl")
                 /\ problema' = problema \cup (Base + 1)..leidos'
                 /\ Len(data) = 2 * MaxMessage - 1 /\ leidos = Base + Len(data)
              \/ /\ ~discarding /\ ~Lleno /\ Base' = Base /\ ~discarding'
                 /\ data' = Append(data, leidos') /\ Len(data') = Len(data) + 1
                 /\ DOMAIN data' = 1..(Len(data) + 1) /\ data'[Len(data) + 1] = leidos'
                 /\ \A k \in DOMAIN data : data'[k] = data[k]
                 /\ problema' = problema
  <1>1. /\ leidos \in Nat /\ leidos' = leidos + 1 /\ leidos' <= Len(recibido)
        /\ Len(recibido) \in Nat /\ Len(data) \in Nat /\ Len(data) <= leidos
    BY DEF PushByte, TypeOK, DatosInv
  <1>2. Base \in Nat /\ Base <= leidos
    BY <1>1 DEF Base
  <1>3. CASE discarding
    <2>1. data = <<>> /\ data' = data /\ discarding' = TrasTirar(recibido[leidos + 1])
          /\ problema' = problema
      BY <1>3 DEF PushByte, DatosInv
    <2>2. Base' = leidos'
      BY <1>1, <2>1 DEF Base
    <2> QED  BY <1>1, <1>2, <1>3, <2>1, <2>2 DEF PushByte, TrasTirar
  <1>4. CASE ~discarding /\ Lleno
    <2>1. /\ data' = <<>> /\ discarding' = TrasDesbordar(recibido[leidos + 1])
          /\ problema' = problema \cup {data[j] : j \in DOMAIN data} \cup {leidos + 1}
      BY <1>4 DEF PushByte
    <2>2. Base' = leidos'
      BY <1>1, <2>1 DEF Base
    <2>3. Len(data) \in 0..Len(data) /\ DOMAIN data = 1..Len(data)
      BY <1>1 DEF TypeOK
    <2>4. {data[j] : j \in DOMAIN data} = (Base + 1)..(Base + Len(data))
      BY <2>3, BytesDeData
    <2>5. Base + Len(data) = leidos
      BY <1>1 DEF Base
    <2>6. problema' = problema \cup (Base + 1)..leidos'
      <3>1. (Base + 1)..leidos' = (Base + 1)..leidos \cup {leidos + 1}
        BY <1>1, <1>2
      <3> QED  BY <2>1, <2>4, <2>5, <3>1
    <2>7. Len(data) = 2 * MaxMessage - 1
      <3>1. Len(data) + 1 >= 2 * MaxMessage /\ Len(data) < 2 * MaxMessage
        BY <1>4 DEF Lleno, TypeOK
      <3> QED  BY <1>1, <3>1, LineBufferAssumption
    <2> QED  BY <1>1, <1>2, <1>4, <2>1, <2>2, <2>5, <2>6, <2>7 DEF PushByte, TrasDesbordar
  <1>5. CASE ~discarding /\ ~Lleno
    <2>1. data' = Append(data, leidos') /\ ~discarding' /\ problema' = problema
      BY <1>1, <1>5 DEF PushByte
    <2>2. data \in Seq(Nat)
      BY DEF TypeOK
    <2>3. /\ Len(data') = Len(data) + 1 /\ data' \in Seq(Nat)
          /\ \A k \in 1..Len(data) : data'[k] = data[k]
          /\ data'[Len(data) + 1] = leidos'
      BY <1>1, <2>1, <2>2, AppendProperties
    <2>4. Base' = Base
      BY <1>1, <2>3 DEF Base
    <2>5. DOMAIN data = 1..Len(data) /\ DOMAIN data' = 1..Len(data')
      BY <2>2, <2>3
    <2> QED  BY <1>1, <1>2, <1>5, <2>1, <2>3, <2>4, <2>5 DEF PushByte
  <1> QED  BY <1>3, <1>4, <1>5

LEMMA ExtraerEfecto ==
    ASSUME TypeOK, DatosInv, NEW i \in DOMAIN data, Extraer(i), fase = "next"
    PROVE  /\ leidos \in Nat /\ Base \in Nat /\ i \in Nat /\ Base' = Base + i
           /\ leidos = Base + Len(data) /\ 1 <= i /\ i <= Len(data) /\ Len(data) \in Nat
           /\ Len(data') = Len(data) - i /\ DOMAIN data' = 1..Len(data')
           /\ \A k \in DOMAIN data' : data'[k] = Base' + k
           /\ ~discarding /\ recibido[Base + i] = recibido[data[i]]
           /\ leidos = Len(recibido)
           /\ UNCHANGED <<recibido, leidos, discarding, problema>>
  <1>1. /\ leidos \in Nat /\ i \in 1..Len(data) /\ Len(data) \in Nat /\ Len(data) <= leidos
        /\ data \in Seq(Nat) /\ DOMAIN data = 1..Len(data)
        /\ \A k \in DOMAIN data : data[k] = Base + k
    BY DEF TypeOK, DatosInv
  <1>2. data' = SubSeq(data, i + 1, Len(data)) /\ UNCHANGED <<recibido, leidos, discarding, problema>>
    BY DEF Extraer
  <1>3. /\ data' \in Seq(Nat)
        /\ Len(data') = IF i + 1 <= Len(data) THEN Len(data) - (i + 1) + 1 ELSE 0
        /\ \A k \in 1..(Len(data) - (i + 1) + 1) : data'[k] = data[i + 1 + k - 1]
    <2>1. \A k \in (i + 1)..Len(data) : data[k] \in Nat
      BY <1>1
    <2>2. i + 1 \in Int /\ Len(data) \in Int
      BY <1>1
    <2> DEFINE m == i + 1
               n == Len(data)
    <2>3. m \in Int /\ n \in Int /\ (\A k \in m..n : data[k] \in Nat) /\ data' = SubSeq(data, m, n)
      BY <1>2, <2>1, <2>2
    <2> HIDE DEF m, n
    <2>4. /\ data' \in Seq(Nat) /\ Len(data') = IF m <= n THEN n - m + 1 ELSE 0
          /\ \A k \in 1..(n - m + 1) : data'[k] = data[m + k - 1]
      BY <2>3, SubSeqProperties
    <2> QED  BY <2>4 DEF m, n
  <1>4. Len(data') = Len(data) - i /\ Len(data') \in Nat /\ DOMAIN data' = 1..Len(data')
    BY <1>1, <1>3
  <1>5. Base \in Nat /\ leidos = Base + Len(data) /\ Base' = Base + i
    BY <1>1, <1>2, <1>4 DEF Base
  <1>6. \A k \in DOMAIN data' : data'[k] = Base' + k
    <2> SUFFICES ASSUME NEW k \in DOMAIN data' PROVE data'[k] = Base' + k
      OBVIOUS
    <2>0. k \in Nat /\ 1 <= k /\ k <= Len(data) - i /\ i \in Nat /\ Len(data) \in Nat
      BY <1>1, <1>4
    <2>1. k \in 1..(Len(data) - (i + 1) + 1) /\ i + 1 + k - 1 = i + k /\ i + k \in DOMAIN data
      BY <1>1, <2>0
    <2>2. data'[k] = data[i + k]
      BY <1>3, <2>1
    <2>3. data[i + k] = Base + (i + k)
      BY <1>1, <2>1
    <2> QED  BY <1>1, <1>5, <2>0, <2>1, <2>2, <2>3
  <1>7. data # <<>> /\ ~discarding
    BY <1>1 DEF DatosInv, TypeOK
  <1>8. leidos = Len(recibido) /\ recibido[Base + i] = recibido[data[i]]
    BY <1>1 DEF DatosInv
  <1>9. i \in Nat /\ 1 <= i /\ i <= Len(data)
    BY <1>1
  <1> QED  BY <1>1, <1>2, <1>4, <1>5, <1>6, <1>7, <1>8, <1>9

-----------------------------------------------------------------------------
LEMMA DatosPaso ==
    ASSUME TypeOK, DatosInv, [Next]_vars
    PROVE  DatosInv'
  <1>0. /\ Len(data) \in Nat /\ leidos \in Nat /\ leidos <= Len(recibido) /\ Len(recibido) \in Nat
        /\ DOMAIN data = 1..Len(data) /\ Base \in Nat /\ leidos = Base + Len(data)
        /\ \A k \in DOMAIN data : data[k] \in 1..Len(recibido)
    BY DEF TypeOK, DatosInv, Base
  <1>1. CASE Recv
    <2>1. /\ Base' = Base /\ UNCHANGED <<leidos, data, discarding>> /\ fase' = "push"
          /\ \A p \in 1..Len(recibido) : recibido'[p] = recibido[p]
      BY <1>1, RecvEfecto
    <2>2. Base # 0 => Base \in 1..Len(recibido)
      BY <1>0
    <2>3. /\ ~discarding => (Base = 0 \/ recibido'[Base] = "nl")
          /\ discarding => data = <<>> /\ Base # 0 /\ recibido'[Base] # "nl"
      BY <2>1, <2>2 DEF DatosInv
    <2> QED  BY <2>1, <2>3 DEF DatosInv
  <1>2. CASE PushByte
    <2>1. /\ leidos' = leidos + 1 /\ fase' = "push" /\ recibido' = recibido
          /\ \/ data' = <<>> /\ Base' = leidos' /\ discarding' = (recibido[leidos'] # "nl")
             \/ /\ ~discarding /\ Base' = Base /\ ~discarding'
                /\ Len(data') = Len(data) + 1
                /\ DOMAIN data' = 1..(Len(data) + 1) /\ data'[Len(data) + 1] = leidos'
                /\ \A k \in DOMAIN data : data'[k] = data[k]
      BY <1>2, PushEfecto
    <2>2. CASE data' = <<>> /\ Base' = leidos' /\ discarding' = (recibido[leidos'] # "nl")
      <3>1. Len(data') = 0 /\ DOMAIN data' = {}
        BY <2>2
      <3>2. Len(data') <= leidos'
        BY <1>0, <2>1, <3>1
      <3>3. /\ ~discarding' => recibido'[Base'] = "nl"
            /\ discarding' => Base' # 0 /\ recibido'[Base'] # "nl"
        <4>1. leidos' # 0 /\ recibido'[Base'] = recibido[leidos']
          BY <1>0, <2>1, <2>2
        <4> QED  BY <2>2, <4>1
      <3>4. \A k \in DOMAIN data' : data'[k] = Base' + k
        BY <3>1
      <3> QED  BY <2>1, <2>2, <3>2, <3>3, <3>4 DEF DatosInv
    <2>3. CASE /\ ~discarding /\ Base' = Base /\ ~discarding'
               /\ Len(data') = Len(data) + 1
               /\ DOMAIN data' = 1..(Len(data) + 1) /\ data'[Len(data) + 1] = leidos'
               /\ \A k \in DOMAIN data : data'[k] = data[k]
      <3>1. \A k \in DOMAIN data' : data'[k] = Base' + k
        <4> SUFFICES ASSUME NEW k \in DOMAIN data' PROVE data'[k] = Base' + k
          OBVIOUS
        <4>1. CASE k \in DOMAIN data
          BY <2>3, <4>1 DEF DatosInv
        <4>2. CASE k = Len(data) + 1
          BY <1>0, <2>1, <2>3, <4>2
        <4> QED  BY <1>0, <2>3, <4>1, <4>2
      <3>2. Len(data') <= leidos'
        BY <1>0, <2>1, <2>3
      <3>3. Base' = 0 \/ recibido'[Base'] = "nl"
        BY <2>1, <2>3 DEF DatosInv
      <3> QED  BY <2>1, <2>3, <3>1, <3>2, <3>3 DEF DatosInv
    <2> QED  BY <2>1, <2>2, <2>3
  <1>3. CASE PushFin
    <2>1. UNCHANGED <<recibido, leidos, data, discarding>> /\ fase' = "next" /\ leidos = Len(recibido)
      BY <1>3 DEF PushFin
    <2> QED  BY <2>1 DEF DatosInv, Base
  <1>4. ASSUME NEW i \in DOMAIN data, EsFin(i), Extraer(i), fase = "next", fase' \in {"next", "fin"}
        PROVE  DatosInv'
    <2>1. /\ Base' = Base + i /\ i \in Nat /\ 1 <= i /\ i <= Len(data)
          /\ Len(data') = Len(data) - i
          /\ \A k \in DOMAIN data' : data'[k] = Base' + k
          /\ ~discarding /\ recibido[Base + i] = recibido[data[i]]
          /\ leidos = Len(recibido) /\ UNCHANGED <<recibido, leidos, discarding>>
      BY <1>4, ExtraerEfecto
    <2>2. recibido'[Base'] = "nl"
      BY <1>4, <2>1 DEF EsFin
    <2>3. Len(data') <= leidos'
      BY <1>0, <2>1
    <2> QED  BY <1>4, <2>1, <2>2, <2>3 DEF DatosInv
  <1>5. CASE LineaCompleta \/ LineaFinal
    BY <1>4, <1>5 DEF LineaCompleta, LineaFinal
  <1>6. CASE SinLinea
    <2>1. \A k \in DOMAIN data : recibido[data[k]] # "nl"
      BY <1>6, HayPrimerFin DEF SinLinea
    <2>2. UNCHANGED <<recibido, leidos, data, discarding>> /\ fase = "next"
      BY <1>6 DEF SinLinea
    <2> QED  BY <2>1, <2>2 DEF DatosInv, Base
  <1>7. CASE RecvFin \/ UNCHANGED vars
    BY <1>7 DEF RecvFin, vars, DatosInv, Base
  <1> QED  BY <1>1, <1>2, <1>3, <1>5, <1>6, <1>7 DEF Next

(* A line that has left data[] stays a line before it. *)
LEMMA LineasPaso ==
    ASSUME TypeOK, DatosInv, LineasInv, [Next]_vars
    PROVE  LineasInv'
  <1>0. Base \in Nat /\ respondidas \in Seq(Respondida(1..Len(recibido)))
    BY DEF TypeOK, DatosInv, Base, Respondida
  <1>1. CASE Recv
    <2>1. PICK t \in Seq(Bytes) : recibido' = recibido \o t
      BY <1>1, RecvEfecto
    <2>2. Base' = Base /\ respondidas' = respondidas
      BY <1>1, RecvEfecto
    <2>3. \A r \in Lineas(recibido) :
             r \in Lineas(recibido') /\ Contenido(recibido', r) = Contenido(recibido, r)
      BY <2>1, LineasCrecen DEF TypeOK
    <2> QED  BY <2>2, <2>3 DEF LineasInv, Atendidas
  <1>2. CASE PushByte
    <2>1. Base' >= Base /\ Base' \in Nat /\ respondidas' = respondidas /\ recibido' = recibido
      BY <1>0, <1>2, PushEfecto
    <2>2. \A r \in Lineas(recibido) : r[2] <= Base => r[2] <= Base'
      BY <1>0, <2>1 DEF Lineas
    <2> QED  BY <2>1, <2>2 DEF LineasInv, Atendidas
  <1>3. ASSUME UNCHANGED <<recibido, leidos, data>>,
               respondidas' = respondidas \/ \E de : respondidas' = Append(respondidas, Err413(de))
        PROVE  LineasInv'
    <2>1. Atendidas' = Atendidas /\ \A k \in Atendidas : respondidas'[k] = respondidas[k]
      <3>1. CASE respondidas' = respondidas
        BY <3>1 DEF Atendidas
      <3>2. ASSUME NEW de, respondidas' = Append(respondidas, Err413(de))
            PROVE  Atendidas' = Atendidas /\ \A k \in Atendidas : respondidas'[k] = respondidas[k]
        <4>1. /\ DOMAIN respondidas' = 1..(Len(respondidas) + 1)
              /\ DOMAIN respondidas = 1..Len(respondidas) /\ Len(respondidas) \in Nat
              /\ \A k \in DOMAIN respondidas : respondidas'[k] = respondidas[k]
              /\ respondidas'[Len(respondidas) + 1] = Err413(de)
          BY <1>0, <3>2
        <4>2. Err413(de).tipo # "linea"
          BY DEF Err413
        <4> QED  BY <4>1, <4>2 DEF Atendidas
      <3> QED  BY <1>3, <3>1, <3>2
    <2>2. Base' = Base
      BY <1>3 DEF Base
    <2> QED  BY <1>3, <2>1, <2>2 DEF LineasInv
  <1>4. ASSUME NEW i \in DOMAIN data, EsFin(i), Extraer(i), fase = "next"
        PROVE  LineasInv'
    <2> DEFINE b == Base
               l == SinFinal(i)
               de == {data[j] : j \in 1..i}
               n == Len(respondidas) + 1
    <2>1. b \in Nat /\ i \in Nat /\ 1 <= i /\ Base' = b + i /\ recibido' = recibido
      BY <1>4, ExtraerEfecto
    <2>2. CASE DemasiadoLarga(l)
      <3>1. UNCHANGED <<recibido, leidos>> /\ respondidas' = Append(respondidas, Err413(de))
        BY <1>4, <2>2 DEF Extraer
      <3>2. /\ DOMAIN respondidas' = 1..n
            /\ DOMAIN respondidas = 1..Len(respondidas) /\ Len(respondidas) \in Nat
            /\ \A k \in DOMAIN respondidas : respondidas'[k] = respondidas[k]
            /\ respondidas'[n] = Err413(de)
        BY <1>0, <3>1
      <3>3. Err413(de).tipo # "linea"
        BY DEF Err413
      <3>4. Atendidas' = Atendidas /\ \A k \in Atendidas : respondidas'[k] = respondidas[k]
        BY <3>2, <3>3 DEF Atendidas
      <3>5. \A r \in Lineas(recibido) : r[2] <= b => r[2] <= b + i
        BY <2>1 DEF Lineas
      <3> QED  BY <2>1, <3>4, <3>5 DEF LineasInv
    <2>3. CASE ~DemasiadoLarga(l)
      <3>1. respondidas' = Append(respondidas, Linea(l, de))
        BY <1>4, <2>3 DEF Extraer
      <3>2. /\ DOMAIN respondidas' = 1..n /\ n \in Nat
            /\ DOMAIN respondidas = 1..Len(respondidas) /\ Len(respondidas) \in Nat
            /\ \A k \in DOMAIN respondidas : respondidas'[k] = respondidas[k]
            /\ respondidas'[n] = Linea(l, de)
        BY <1>0, <3>1
      <3>3. Linea(l, de).tipo = "linea" /\ Linea(l, de).bytes = l
        BY DEF Linea
      <3>4. /\ Atendidas' = Atendidas \cup {n} /\ n \notin Atendidas
            /\ \A k \in Atendidas : respondidas'[k] = respondidas[k] /\ k < n
            /\ \A k \in Atendidas : k \in Nat
        BY <3>2, <3>3 DEF Atendidas
      <3>5. <<b + 1, b + i>> \in Lineas(recibido) /\ l = Contenido(recibido, <<b + 1, b + i>>)
        BY <1>4, LineaExtraida
      <3>6. l # <<>> => l[1] = b + 1
        <4>1. PICK m : Contenido(recibido, <<b + 1, b + i>>) = [k \in 1..m |-> b + 1 + k - 1]
                         /\ m \in Int
          <5> DEFINE r0 == <<b + 1, b + i>>
          <5>1. r0[1] = b + 1 /\ r0[2] = b + i
            OBVIOUS
          <5>2. r0[2] - r0[1] - 1 \in Int /\ r0[2] - r0[1] \in Int
            BY <2>1, <5>1
          <5> HIDE DEF r0
          <5>3. \E m \in Int : Contenido(recibido, r0) = [k \in 1..m |-> b + 1 + k - 1]
            BY <5>1, <5>2 DEF Contenido
          <5> QED  BY <5>3 DEF r0
        <4>2. CASE m >= 1
          BY <2>1, <3>5, <4>1, <4>2
        <4>3. CASE m < 1
          <5>1. 1..m = {}
            BY <4>1, <4>3
          <5>2. l = <<>>
            BY <3>5, <4>1, <5>1
          <5> QED  BY <5>2
        <4> QED  BY <4>1, <4>2, <4>3
      <3>7. \A k \in Atendidas' : \E r \in Lineas(recibido) :
               respondidas'[k].bytes = Contenido(recibido, r) /\ r[2] <= b + i
        <4>1. \A r \in Lineas(recibido) : r[2] <= b => r[2] <= b + i
          BY <2>1 DEF Lineas
        <4>2. \A k \in Atendidas : \E r \in Lineas(recibido) :
                 respondidas[k].bytes = Contenido(recibido, r) /\ r[2] <= b
          BY DEF LineasInv
        <4>3. <<b + 1, b + i>>[2] <= b + i
          BY <2>1
        <4> QED  BY <3>2, <3>3, <3>4, <3>5, <4>1, <4>2, <4>3
      <3>8. ASSUME NEW j \in Atendidas, respondidas[j].bytes # <<>>
            PROVE  respondidas[j].bytes[1] < b + 1
        <4>1. PICK r \in Lineas(recibido) :
                 respondidas[j].bytes = Contenido(recibido, r) /\ r[2] <= b
          BY <3>8 DEF LineasInv
        <4>2. r[1] \in Nat /\ r[2] \in Nat /\ r[1] <= r[2]
          BY DEF Lineas
        <4>3. PICK m \in Int : Contenido(recibido, r) = [k \in 1..m |-> r[1] + k - 1]
          <5>1. r[2] - r[1] - 1 \in Int /\ r[2] - r[1] \in Int
            BY <4>2
          <5> QED  BY <5>1 DEF Contenido
        <4>4. CASE m >= 1
          BY <2>1, <4>1, <4>2, <4>3, <4>4
        <4>5. CASE m < 1
          <5>1. 1..m = {}
            BY <4>5
          <5> QED  BY <3>8, <4>1, <4>3, <5>1
        <4> QED  BY <4>4, <4>5
      <3>9. \A j, k \in Atendidas' :
               (j < k /\ respondidas'[j].bytes # <<>> /\ respondidas'[k].bytes # <<>>)
                  => respondidas'[j].bytes[1] < respondidas'[k].bytes[1]
        <4> SUFFICES ASSUME NEW j \in Atendidas', NEW k \in Atendidas', j < k,
                            respondidas'[j].bytes # <<>>, respondidas'[k].bytes # <<>>
                     PROVE  respondidas'[j].bytes[1] < respondidas'[k].bytes[1]
          OBVIOUS
        <4>1. j \in Atendidas
          BY <3>2, <3>4
        <4>2. CASE k = n
          <5>1. respondidas'[k].bytes[1] = b + 1
            BY <3>2, <3>3, <3>6, <4>2
          <5>2. respondidas[j].bytes[1] < b + 1
            BY <3>4, <3>8, <4>1
          <5> QED  BY <3>4, <4>1, <5>1, <5>2
        <4>3. CASE k \in Atendidas
          BY <3>4, <4>1, <4>3 DEF LineasInv
        <4> QED  BY <3>4, <4>2, <4>3
      <3> QED  BY <2>1, <3>7, <3>9 DEF LineasInv
    <2> QED  BY <2>2, <2>3
  <1>5. CASE LineaCompleta \/ LineaFinal
    BY <1>4, <1>5 DEF LineaCompleta, LineaFinal
  <1>6. CASE PushFin \/ RecvFin \/ SinLinea \/ UNCHANGED vars
    BY <1>3, <1>6 DEF PushFin, RecvFin, SinLinea, vars
  <1> QED  BY <1>1, <1>2, <1>5, <1>6 DEF Next

-----------------------------------------------------------------------------
(* What an answer appended to the log leaves of the ones before it. *)
LEMMA RespuestaNueva ==
    ASSUME TypeOK, NEW a, respondidas' = Append(respondidas, a)
    PROVE  /\ Len(respondidas) \in Nat /\ Len(respondidas') = Len(respondidas) + 1
           /\ DOMAIN respondidas' = 1..(Len(respondidas) + 1)
           /\ DOMAIN respondidas = 1..Len(respondidas)
           /\ \A k \in DOMAIN respondidas : k \in DOMAIN respondidas' /\ respondidas'[k] = respondidas[k]
           /\ respondidas'[Len(respondidas) + 1] = a
  BY DEF TypeOK

-----------------------------------------------------------------------------
(* What has been read of the stream stays when more of it arrives. *)
LEMMA ExcedeCrece ==
    ASSUME NEW S, S \subseteq 1..Len(recibido), Len(recibido) \in Nat, Excede(S),
           \A p \in 1..Len(recibido) : recibido'[p] = recibido[p]
    PROVE  Excede(S)'
  <1>1. PICK p \in S : \A q \in p..(p + MaxMessage - 1) : q \in S /\ recibido[q] # "nl"
    BY DEF Excede
  <1>2. \A q \in p..(p + MaxMessage - 1) : q \in S /\ recibido'[q] # "nl"
    BY <1>1
  <1> QED  BY <1>2 DEF Excede

(* A stretch of MaxMessage bytes without a terminator is a breach. *)
LEMMA ExcedeTramo ==
    ASSUME NEW a \in Nat, NEW z \in Nat, NEW S, (a + 1)..z \subseteq S, z - a >= MaxMessage,
           \A p \in (a + 1)..z : recibido[p] # "nl"
    PROVE  Excede(S)
  <1>1. a + 1 \in (a + 1)..z
    BY LineBufferAssumption
  <1>2. \A q \in (a + 1)..(a + 1 + MaxMessage - 1) : q \in (a + 1)..z
    BY LineBufferAssumption
  <1> QED  BY <1>1, <1>2 DEF Excede

(* What a step with the stream at rest does to the answers. *)
LEMMA MismasRespuestas ==
    ASSUME RecvFin \/ SinLinea \/ UNCHANGED vars
    PROVE  /\ UNCHANGED <<recibido, leidos, data, discarding, problema, respondidas>>
           /\ Base' = Base /\ (fase' = "push" <=> fase = "push")
  BY DEF RecvFin, SinLinea, vars, Base

LEMMA PushFinEfecto ==
    ASSUME PushFin
    PROVE  /\ fase = "push" /\ fase' = "next" /\ problema' = {} /\ Base' = Base
           /\ UNCHANGED <<recibido, leidos, data, discarding>>
           /\ \/ problema = {} /\ respondidas' = respondidas
              \/ problema # {} /\ respondidas' = Append(respondidas, Err413(problema))
           /\ Err413(problema).de = problema /\ Err413(problema).tipo = "413"
  BY DEF PushFin, Base, Err413

(* The answer to the line that ends at i speaks of the bytes that leave      *)
(* data[] with it, and it is a well founded one.                            *)
LEMMA RespuestaALinea ==
    ASSUME TypeOK, DatosInv, NEW i \in DOMAIN data, EsFin(i), Extraer(i), fase = "next"
    PROVE  \E a : /\ respondidas' = Append(respondidas, a)
                  /\ a.de = (Base + 1)..(Base + i)
                  /\ Fundada(a)
  <1> DEFINE b == Base
             de == {data[j] : j \in 1..i}
             r0 == <<b + 1, b + i>>
             l == SinFinal(i)
  <1>1. /\ b \in Nat /\ i \in Nat /\ 1 <= i /\ i <= Len(data) /\ Len(data) \in Nat
        /\ DOMAIN data = 1..Len(data)
    BY ExtraerEfecto DEF TypeOK
  <1>2. de = (b + 1)..(b + i)
    <2>1. i \in 0..Len(data)
      BY <1>1
    <2> QED  BY <2>1, BytesDeData
  <1>3. r0 \in Lineas(recibido) /\ l = Contenido(recibido, r0)
    BY LineaExtraida
  <1> HIDE DEF b, de
  <1>4. r0[1] = b + 1 /\ r0[2] = b + i
    OBVIOUS
  <1>5. Len(l) \in Nat /\ Len(l) <= i - 1
    <2>1. PICK n \in Int : n <= i - 1 /\ n >= 0 /\ Contenido(recibido, r0) = [k \in 1..n |-> r0[1] + k - 1]
      <3>1. r0[2] - r0[1] - 1 \in Int /\ r0[2] - r0[1] \in Int /\ r0[2] - r0[1] = i - 1
        BY <1>1, <1>4
      <3>2. r0[2] > r0[1] => r0[2] - r0[1] - 1 >= 0
        BY <1>1, <1>4
      <3> HIDE DEF r0
      <3> QED  BY <1>1, <3>1, <3>2 DEF Contenido
    <2>2. l = [k \in 1..n |-> r0[1] + k - 1]
      BY <1>3, <2>1
    <2>3. Len(l) = n
      BY <2>1, <2>2
    <2> QED  BY <1>1, <2>1, <2>3
  <1>6. CASE DemasiadoLarga(l)
    <2>1. respondidas' = Append(respondidas, Err413(de))
      BY <1>6 DEF Extraer, de
    <2>2. \A p \in (b + 1)..(b + i - 1) : recibido[p] # "nl"
      <3> HIDE DEF r0
      <3>1. \A p \in r0[1]..(r0[2] - 1) : recibido[p] # "nl"
        BY <1>3 DEF Lineas
      <3> QED  BY <1>1, <1>4, <3>1
    <2>3. b + i - 1 \in Nat /\ (b + i - 1) - b >= MaxMessage /\ (b + 1)..(b + i - 1) \subseteq de
      BY <1>1, <1>2, <1>5, <1>6, LineBufferAssumption DEF DemasiadoLarga
    <2>4. Excede(de)
      BY <1>1, <2>2, <2>3, ExcedeTramo
    <2>5. Err413(de).de = de /\ Fundada(Err413(de))
      BY <2>4 DEF Err413, Fundada
    <2> QED  BY <1>2, <2>1, <2>5 DEF b
  <1>7. CASE ~DemasiadoLarga(l)
    <2>1. respondidas' = Append(respondidas, Linea(l, de))
      BY <1>7 DEF Extraer, de
    <2>2. Len(l) < MaxMessage
      BY <1>5, <1>7, LineBufferAssumption DEF DemasiadoLarga
    <2>3. Linea(l, de) = Linea(Contenido(recibido, r0), r0[1]..r0[2])
      BY <1>2, <1>3, <1>4
    <2>4. Linea(l, de).de = de /\ Linea(l, de).tipo # "413"
      BY DEF Linea
    <2>5. Fundada(Linea(l, de))
      BY <1>3, <2>2, <2>3, <2>4 DEF Fundada
    <2> QED  BY <1>2, <2>1, <2>4, <2>5 DEF b
  <1> QED  BY <1>6, <1>7

-----------------------------------------------------------------------------
(* Between two recv() every terminator read has left data[]. *)
LEMMA TodoFuera ==
    ASSUME TypeOK, DatosInv, fase = "recv"
    PROVE  /\ leidos = Len(recibido) /\ Base \in Nat /\ Base <= leidos
           /\ \A p \in (Base + 1)..leidos : recibido[p] # "nl"
  <1>1. /\ Len(data) \in Nat /\ leidos \in Nat /\ leidos = Len(recibido)
        /\ DOMAIN data = 1..Len(data) /\ Base \in Nat /\ leidos = Base + Len(data)
    BY DEF TypeOK, DatosInv, Base
  <1>2. ASSUME NEW p \in (Base + 1)..leidos
        PROVE  recibido[p] # "nl"
    <2>1. p - Base \in DOMAIN data /\ Base + (p - Base) = p
      BY <1>1
    <2>2. data[p - Base] = p
      BY <2>1 DEF DatosInv
    <2> QED  BY <2>1, <2>2 DEF DatosInv
  <1> QED  BY <1>1, <1>2

LEMMA RecientePaso ==
    ASSUME TypeOK, DatosInv, RecienteInv, [Next]_vars
    PROVE  RecienteInv'
  <1>0. Base \in Nat /\ Len(recibido) \in Nat
    BY DEF TypeOK, DatosInv, Base
  <1>1. CASE Recv
    <2>1. /\ Len(recibido') \in Nat /\ Len(recibido) < Len(recibido')
          /\ Len(recibido') <= Len(recibido) + MaxMessage /\ Base' = Base
          /\ \A p \in 1..Len(recibido) : recibido'[p] = recibido[p]
      BY <1>1, RecvEfecto
    <2>2. \A p \in (Base + 1)..Len(recibido) : recibido[p] # "nl"
      BY <1>1, TodoFuera DEF Recv
    <2>3. \A p \in (Base' + 1)..Len(recibido) : recibido'[p] # "nl"
      BY <1>0, <2>1, <2>2
    <2>4. Len(recibido) \in 0..Len(recibido')
      BY <1>0, <2>1
    <2> QED  BY <2>1, <2>3, <2>4 DEF RecienteInv
  <1>2. CASE PushByte
    <2>1. fase = "push" /\ recibido' = recibido /\ Base' \in Nat /\ Base' >= Base
      BY <1>0, <1>2, PushEfecto
    <2>2. PICK n \in 0..Len(recibido) : /\ Len(recibido) <= n + MaxMessage
                                         /\ \A p \in (Base + 1)..n : recibido[p] # "nl"
      BY <2>1 DEF RecienteInv
    <2>3. \A p \in (Base' + 1)..n : p \in (Base + 1)..n
      <3> DEFINE c == Base
                 d == Base'
      <3>1. c \in Nat /\ d \in Nat /\ d >= c /\ n \in Nat
        BY <1>0, <2>1
      <3> HIDE DEF c, d
      <3>2. \A p \in (d + 1)..n : p \in (c + 1)..n
        BY <3>1
      <3> QED  BY <3>2 DEF c, d
    <2> QED  BY <2>1, <2>2, <2>3 DEF RecienteInv
  <1>3. CASE PushFin \/ LineaCompleta \/ LineaFinal
    BY <1>3 DEF PushFin, LineaCompleta, LineaFinal, RecienteInv
  <1>4. CASE RecvFin \/ SinLinea \/ UNCHANGED vars
    BY <1>4, MismasRespuestas DEF RecienteInv
  <1> QED  BY <1>1, <1>2, <1>3, <1>4 DEF Next

LEMMA ProblemaPaso ==
    ASSUME TypeOK, DatosInv, RecienteInv, ProblemaInv, [Next]_vars
    PROVE  ProblemaInv'
  <1>0. Base \in Nat /\ Len(recibido) \in Nat /\ MaxMessage \in Nat
    BY LineBufferAssumption DEF TypeOK, DatosInv, Base
  <1>1. CASE Recv
    <2>1. problema' = {} /\ fase' = "push"
      BY <1>1, RecvEfecto
    <2> QED  BY <2>1 DEF ProblemaInv
  <1>2. CASE PushByte
    <2>1. /\ fase = "push" /\ fase' = "push" /\ recibido' = recibido
          /\ leidos' = leidos + 1 /\ leidos' <= Len(recibido) /\ leidos \in Nat /\ Base <= leidos
          /\ \/ Base' >= Base /\ Base' \in Nat /\ problema' = problema
             \/ /\ Base' = leidos' /\ problema' = problema \cup (Base + 1)..leidos'
                /\ Len(data) = 2 * MaxMessage - 1 /\ leidos = Base + Len(data)
      BY <1>0, <1>2, PushEfecto
    <2>2. CASE Base' >= Base /\ Base' \in Nat /\ problema' = problema
      <3>1. problema' \subseteq 1..Base'
        BY <1>0, <2>2 DEF ProblemaInv
      <3>2. problema' # {} => Excede(problema)'
        BY <2>1, <2>2 DEF ProblemaInv, Excede
      <3> QED  BY <2>1, <3>1, <3>2 DEF ProblemaInv
    <2>3. CASE /\ Base' = leidos' /\ problema' = problema \cup (Base + 1)..leidos'
               /\ Len(data) = 2 * MaxMessage - 1 /\ leidos = Base + Len(data)
      <3>1. problema' \subseteq 1..Base'
        BY <1>0, <2>1, <2>3 DEF ProblemaInv
      <3>2. PICK n \in 0..Len(recibido) : /\ Len(recibido) <= n + MaxMessage
                                           /\ \A p \in (Base + 1)..n : recibido[p] # "nl"
        BY <2>1 DEF RecienteInv
      <3> DEFINE z == Base + MaxMessage
      <3>3. z \in Nat /\ z <= n /\ z <= leidos' /\ z - Base >= MaxMessage
        BY <1>0, <2>1, <2>3, <3>2, LineBufferAssumption
      <3>4. (Base + 1)..z \subseteq problema' /\ \A p \in (Base + 1)..z : recibido[p] # "nl"
        BY <1>0, <2>1, <2>3, <3>2, <3>3
      <3>5. \A S : ((Base + 1)..z \subseteq S) => Excede(S)
        <4> HIDE DEF z
        <4> QED  BY <1>0, <3>3, <3>4, ExcedeTramo
      <3>6. Excede(problema')
        BY <3>4, <3>5
      <3>7. Excede(problema)'
        BY <2>1, <3>6 DEF Excede
      <3> QED  BY <2>1, <3>1, <3>7 DEF ProblemaInv
    <2> QED  BY <2>1, <2>2, <2>3
  <1>3. CASE PushFin
    <2>1. problema' = {}
      BY <1>3, PushFinEfecto
    <2> QED  BY <2>1 DEF ProblemaInv
  <1>4. ASSUME fase = "next", NEW i \in DOMAIN data, Extraer(i)
        PROVE  ProblemaInv'
    <2>1. problema' = {}
      BY <1>4 DEF Extraer, ProblemaInv
    <2> QED  BY <2>1 DEF ProblemaInv
  <1>5. CASE LineaCompleta \/ LineaFinal
    BY <1>4, <1>5 DEF LineaCompleta, LineaFinal
  <1>6. CASE RecvFin \/ SinLinea \/ UNCHANGED vars
    BY <1>6, MismasRespuestas DEF ProblemaInv, Excede
  <1> QED  BY <1>1, <1>2, <1>3, <1>5, <1>6 DEF Next

(* A new answer that speaks of bytes no other one speaks of. *)
LEMMA UnaVezAnade ==
    ASSUME TypeOK, UnaVezInv, NEW a, respondidas' = Append(respondidas, a), problema' = {},
           Base \in Nat, Base' \in Nat, Base <= Base', a.de \subseteq 1..Base',
           \A k \in DOMAIN respondidas : respondidas[k].de \cap a.de = {}
    PROVE  UnaVezInv'
  <1> DEFINE n == Len(respondidas) + 1
  <1>1. /\ DOMAIN respondidas' = 1..n /\ DOMAIN respondidas = 1..Len(respondidas)
        /\ Len(respondidas) \in Nat /\ respondidas'[n] = a
        /\ \A k \in DOMAIN respondidas : respondidas'[k] = respondidas[k]
    BY RespuestaNueva
  <1>2. \A k \in DOMAIN respondidas' : k \in DOMAIN respondidas \/ k = n
    BY <1>1
  <1>3. 1..Base \subseteq 1..Base'
    OBVIOUS
  <1>4. \A k \in DOMAIN respondidas' :
           respondidas'[k].de \subseteq 1..Base' /\ respondidas'[k].de \cap problema' = {}
    BY <1>1, <1>2, <1>3 DEF UnaVezInv
  <1> HIDE DEF n
  <1>5. \A j, k \in DOMAIN respondidas' :
           j # k => respondidas'[j].de \cap respondidas'[k].de = {}
    <2> TAKE j, k \in DOMAIN respondidas'
    <2>1. CASE j \in DOMAIN respondidas /\ k \in DOMAIN respondidas
      BY <1>1, <2>1 DEF UnaVezInv
    <2>2. CASE j = n /\ k \in DOMAIN respondidas
      BY <1>1, <2>2
    <2>3. CASE j \in DOMAIN respondidas /\ k = n
      BY <1>1, <2>3
    <2> QED  BY <1>2, <2>1, <2>2, <2>3
  <1> QED  BY <1>4, <1>5 DEF UnaVezInv

LEMMA UnaVezPaso ==
    ASSUME TypeOK, DatosInv, ProblemaInv, UnaVezInv, [Next]_vars
    PROVE  UnaVezInv'
  <1>0. Base \in Nat
    BY DEF TypeOK, DatosInv, Base
  <1>1. CASE Recv
    <2>1. Base' = Base /\ respondidas' = respondidas /\ problema' = {}
      BY <1>1, RecvEfecto
    <2> QED  BY <2>1 DEF UnaVezInv
  <1>2. CASE PushByte
    <2>1. /\ respondidas' = respondidas /\ Base' \in Nat /\ Base' >= Base
          /\ problema' \subseteq problema \cup (Base + 1)..Base'
      BY <1>0, <1>2, PushEfecto
    <2>2. 1..Base \subseteq 1..Base' /\ 1..Base \cap (Base + 1)..Base' = {}
      BY <1>0, <2>1
    <2> QED  BY <2>1, <2>2 DEF UnaVezInv
  <1>3. CASE PushFin
    <2>1. CASE respondidas' = respondidas
      BY <1>3, <2>1, PushFinEfecto DEF UnaVezInv
    <2>2. CASE respondidas' = Append(respondidas, Err413(problema))
      <3>1. Base' = Base /\ problema' = {} /\ Err413(problema).de = problema
        BY <1>3, PushFinEfecto
      <3>2. \A k \in DOMAIN respondidas : respondidas[k].de \cap Err413(problema).de = {}
        BY <3>1 DEF UnaVezInv
      <3>3. Err413(problema).de \subseteq 1..Base' /\ Base <= Base'
        BY <1>0, <3>1 DEF ProblemaInv
      <3> QED  BY <1>0, <2>2, <3>1, <3>2, <3>3, UnaVezAnade
    <2> QED  BY <1>3, <2>1, <2>2, PushFinEfecto
  <1>4. ASSUME NEW i \in DOMAIN data, EsFin(i), Extraer(i), fase = "next"
        PROVE  UnaVezInv'
    <2>1. Base' = Base + i /\ i \in Nat /\ problema' = problema
      BY <1>4, ExtraerEfecto
    <2>2. problema' = {}
      BY <1>4, <2>1 DEF ProblemaInv
    <2>3. PICK a : respondidas' = Append(respondidas, a) /\ a.de = (Base + 1)..(Base + i)
      BY <1>4, RespuestaALinea
    <2>4. 1..Base \cap (Base + 1)..(Base + i) = {} /\ a.de \subseteq 1..Base'
          /\ Base' \in Nat /\ Base <= Base'
      BY <1>0, <2>1, <2>3
    <2>5. \A k \in DOMAIN respondidas : respondidas[k].de \cap a.de = {}
      BY <2>3, <2>4 DEF UnaVezInv
    <2> QED  BY <1>0, <2>2, <2>3, <2>4, <2>5, UnaVezAnade
  <1>5. CASE LineaCompleta \/ LineaFinal
    BY <1>4, <1>5 DEF LineaCompleta, LineaFinal
  <1>6. CASE RecvFin \/ SinLinea \/ UNCHANGED vars
    BY <1>6, MismasRespuestas DEF UnaVezInv
  <1> QED  BY <1>1, <1>2, <1>3, <1>5, <1>6 DEF Next

LEMMA DichasPaso ==
    ASSUME TypeOK, DatosInv, ProblemaInv, DichasInv, [Next]_vars
    PROVE  DichasInv'
  <1>0. Base \in Nat /\ Len(recibido) \in Nat /\ Base <= Len(recibido)
    BY DEF TypeOK, DatosInv, Base
  <1>1. CASE Recv
    <2>1. /\ Base' = Base /\ respondidas' = respondidas /\ fase = "recv" /\ problema' = {}
          /\ \A p \in 1..Len(recibido) : recibido'[p] = recibido[p]
      BY <1>1, RecvEfecto
    <2>2. problema' = problema
      BY <2>1 DEF ProblemaInv
    <2>3. \A i \in 1..Base : Inicio(recibido', i) => Inicio(recibido, i)
      <3> SUFFICES ASSUME NEW i \in 1..Base, Inicio(recibido', i) PROVE Inicio(recibido, i)
        OBVIOUS
      <3>1. i # 1 => i - 1 \in 1..Len(recibido)
        BY <1>0
      <3> QED  BY <2>1, <3>1 DEF Inicio
    <2> QED  BY <2>1, <2>2, <2>3 DEF DichasInv, Dicho
  <1>2. CASE PushByte
    <2>1. /\ recibido' = recibido /\ respondidas' = respondidas /\ problema \subseteq problema'
          /\ leidos' = leidos + 1 /\ leidos \in Nat
          /\ \/ Base' = Base
             \/ discarding /\ data = <<>> /\ Base' = leidos'
             \/ Base' = leidos' /\ (Base + 1)..leidos' \subseteq problema'
      BY <1>2, PushEfecto
    <2> SUFFICES ASSUME NEW i \in 1..Base', Inicio(recibido, i)
                 PROVE  Dicho(i)'
      BY <2>1 DEF DichasInv
    <2>2. CASE i \in 1..Base
      BY <2>1, <2>2 DEF DichasInv, Dicho
    <2>3. CASE i \notin 1..Base /\ discarding /\ data = <<>> /\ Base' = leidos'
      <3>1. Base = leidos
        <4>1. Len(data) = 0
          BY <2>3
        <4> QED  BY <2>1, <4>1 DEF Base
      <3>2. i = Base + 1
        BY <1>0, <2>1, <2>3, <3>1
      <3>3. Base # 0 /\ recibido[Base] # "nl" /\ i - 1 = Base
        BY <1>0, <2>3, <3>2 DEF DatosInv
      <3> QED  BY <1>0, <3>2, <3>3 DEF Inicio
    <2>4. CASE i \notin 1..Base /\ Base' = leidos' /\ (Base + 1)..leidos' \subseteq problema'
      <3>1. i \in (Base + 1)..leidos'
        BY <1>0, <2>1, <2>4
      <3> QED  BY <2>4, <3>1 DEF Dicho
    <2> QED  BY <2>1, <2>2, <2>3, <2>4
  <1>3. ASSUME NEW a, respondidas' = Append(respondidas, a), recibido' = recibido,
               \A i \in 1..Base' : i \in 1..Base \/ i \in a.de, problema \subseteq a.de
        PROVE  DichasInv'
    <2>1. /\ \A k \in DOMAIN respondidas : k \in DOMAIN respondidas' /\ respondidas'[k] = respondidas[k]
          /\ Len(respondidas) + 1 \in DOMAIN respondidas'
          /\ respondidas'[Len(respondidas) + 1] = a
      BY <1>3, RespuestaNueva
    <2> SUFFICES ASSUME NEW i \in 1..Base', Inicio(recibido, i)
                 PROVE  Dicho(i)'
      BY <1>3 DEF DichasInv
    <2>2. i \in a.de \/ \E k \in DOMAIN respondidas : i \in respondidas[k].de
      BY <1>3 DEF DichasInv, Dicho
    <2> QED  BY <2>1, <2>2 DEF Dicho
  <1>4. CASE PushFin
    <2>1. CASE problema = {} /\ respondidas' = respondidas
      BY <1>4, <2>1, PushFinEfecto DEF DichasInv, Dicho
    <2>2. CASE respondidas' = Append(respondidas, Err413(problema))
      BY <1>3, <1>4, <2>2, PushFinEfecto
    <2> QED  BY <1>4, <2>1, <2>2, PushFinEfecto
  <1>5. ASSUME NEW i \in DOMAIN data, EsFin(i), Extraer(i), fase = "next"
        PROVE  DichasInv'
    <2>1. Base' = Base + i /\ i \in Nat /\ recibido' = recibido
      BY <1>5, ExtraerEfecto
    <2>2. problema = {}
      BY <1>5 DEF ProblemaInv
    <2>3. PICK a : respondidas' = Append(respondidas, a) /\ a.de = (Base + 1)..(Base + i)
      BY <1>5, RespuestaALinea
    <2>4. \A m \in 1..Base' : m \in 1..Base \/ m \in a.de
      BY <1>0, <2>1, <2>3
    <2> QED  BY <1>3, <2>1, <2>2, <2>3, <2>4
  <1>6. CASE LineaCompleta \/ LineaFinal
    BY <1>5, <1>6 DEF LineaCompleta, LineaFinal
  <1>7. CASE RecvFin \/ SinLinea \/ UNCHANGED vars
    BY <1>7, MismasRespuestas DEF DichasInv, Dicho
  <1> QED  BY <1>1, <1>2, <1>4, <1>6, <1>7 DEF Next

LEMMA FundadasPaso ==
    ASSUME TypeOK, DatosInv, ProblemaInv, FundadasInv, [Next]_vars
    PROVE  FundadasInv'
  <1>0. Len(recibido) \in Nat /\ recibido \in Seq(Bytes)
        /\ \A k \in DOMAIN respondidas : respondidas[k].de \subseteq 1..Len(recibido)
    <2>1. respondidas \in Seq(Respondida(1..Len(recibido)))
      BY DEF TypeOK, Respondida
    <2>2. \A k \in DOMAIN respondidas : respondidas[k] \in Respondida(1..Len(recibido))
      BY <2>1
    <2> QED  BY <2>2 DEF TypeOK, Respondida
  <1>1. CASE Recv
    <2>1. PICK t \in Seq(Bytes) : recibido' = recibido \o t
      BY <1>1, RecvEfecto
    <2>2. respondidas' = respondidas /\ \A p \in 1..Len(recibido) : recibido'[p] = recibido[p]
      BY <1>1, RecvEfecto
    <2>3. ASSUME NEW k \in DOMAIN respondidas
          PROVE  Fundada(respondidas[k])'
      <3>1. Fundada(respondidas[k])
        BY DEF FundadasInv
      <3> DEFINE a == respondidas[k]
      <3>2. a' = a /\ Fundada(a) /\ a.de \subseteq 1..Len(recibido)
        BY <1>0, <2>2, <3>1
      <3>3. CASE a.tipo = "413"
        <4>1. Excede(a.de)
          BY <3>2, <3>3 DEF Fundada
        <4>2. \A S : (S \subseteq 1..Len(recibido) /\ Excede(S)) =>
                 \E p \in S : \A q \in p..(p + MaxMessage - 1) : q \in S /\ recibido'[q] # "nl"
          BY <1>0, <2>2, ExcedeCrece DEF Excede
        <4>3. Excede(a.de)'
          BY <3>2, <4>1, <4>2 DEF Excede
        <4> QED  BY <3>2, <3>3, <4>3 DEF Fundada
      <3>4. CASE a.tipo # "413"
        <4>1. PICK r \in Lineas(recibido) : /\ a = Linea(Contenido(recibido, r), r[1]..r[2])
                                             /\ Len(Contenido(recibido, r)) < MaxMessage
          BY <3>2, <3>4 DEF Fundada
        <4>2. r \in Lineas(recibido') /\ Contenido(recibido', r) = Contenido(recibido, r)
          BY <1>0, <2>1, LineasCrecen
        <4> QED  BY <3>2, <3>4, <4>1, <4>2 DEF Fundada
      <3> QED  BY <3>3, <3>4
    <2> QED  BY <2>2, <2>3 DEF FundadasInv
  <1>2. ASSUME recibido' = recibido, respondidas' = respondidas
        PROVE  FundadasInv'
    BY <1>2 DEF FundadasInv, Fundada, Excede
  <1>3. ASSUME recibido' = recibido, NEW a, respondidas' = Append(respondidas, a), Fundada(a)
        PROVE  FundadasInv'
    <2>1. /\ DOMAIN respondidas' = 1..(Len(respondidas) + 1)
          /\ DOMAIN respondidas = 1..Len(respondidas) /\ Len(respondidas) \in Nat
          /\ \A k \in DOMAIN respondidas : respondidas'[k] = respondidas[k]
          /\ respondidas'[Len(respondidas) + 1] = a
      BY <1>3, RespuestaNueva
    <2>2. \A k \in DOMAIN respondidas' : k \in DOMAIN respondidas \/ k = Len(respondidas) + 1
      BY <2>1
    <2>3. \A k \in DOMAIN respondidas' : Fundada(respondidas'[k])
      BY <1>3, <2>1, <2>2 DEF FundadasInv
    <2> QED  BY <1>3, <2>3 DEF FundadasInv, Fundada, Excede
  <1>4. CASE PushByte
    BY <1>2, <1>4, PushEfecto
  <1>5. CASE PushFin
    <2>1. CASE respondidas' = respondidas
      BY <1>2, <1>5, <2>1, PushFinEfecto
    <2>2. CASE problema # {} /\ respondidas' = Append(respondidas, Err413(problema))
      <3>1. Fundada(Err413(problema))
        BY <1>5, <2>2, PushFinEfecto DEF ProblemaInv, Fundada
      <3> QED  BY <1>3, <1>5, <2>2, <3>1, PushFinEfecto
    <2> QED  BY <1>5, <2>1, <2>2, PushFinEfecto
  <1>6. ASSUME NEW i \in DOMAIN data, EsFin(i), Extraer(i), fase = "next"
        PROVE  FundadasInv'
    <2>1. recibido' = recibido
      BY <1>6, ExtraerEfecto
    <2>2. PICK a : respondidas' = Append(respondidas, a) /\ Fundada(a)
      BY <1>6, RespuestaALinea
    <2> QED  BY <1>3, <2>1, <2>2
  <1>7. CASE LineaCompleta \/ LineaFinal
    BY <1>6, <1>7 DEF LineaCompleta, LineaFinal
  <1>8. CASE RecvFin \/ SinLinea \/ UNCHANGED vars
    BY <1>2, <1>8, MismasRespuestas
  <1> QED  BY <1>1, <1>4, <1>5, <1>7, <1>8 DEF Next

-----------------------------------------------------------------------------
(* The terminators of the first n bytes, one more of them counted. *)
LEMMA SaltosContados ==
    ASSUME NEW n \in Nat, NEW m \in Nat, n < m,
           recibido[m] = "nl", \A p \in (n + 1)..(m - 1) : recibido[p] # "nl"
    PROVE  /\ Cardinality(Saltos(n)) \in Nat
           /\ Cardinality(Saltos(m)) = Cardinality(Saltos(n)) + 1
  <1>1. Saltos(n) \in SUBSET (1..n) /\ IsFiniteSet(1..n)
    BY FS_Interval DEF Saltos
  <1>2. IsFiniteSet(Saltos(n)) /\ Cardinality(Saltos(n)) \in Nat
    BY <1>1, FS_Subset, FS_CardinalityType
  <1>3. Saltos(m) = Saltos(n) \cup {m} /\ m \notin Saltos(n)
    <2>1. ASSUME NEW p PROVE p \in Saltos(m) <=> p \in Saltos(n) \/ p = m
      <3>1. p \in 1..m => p \in 1..n \/ p \in (n + 1)..(m - 1) \/ p = m
        OBVIOUS
      <3>2. p \in 1..n => p \in 1..m
        OBVIOUS
      <3>3. m \in 1..m
        OBVIOUS
      <3> QED  BY <3>1, <3>2, <3>3 DEF Saltos
    <2>2. m \notin 1..n
      OBVIOUS
    <2> QED  BY <2>1, <2>2 DEF Saltos
  <1> QED  BY <1>2, <1>3, FS_AddElement

LEMMA RespetaBaja ==
    ASSUME NEW n \in Nat, Respeta(n + 1)
    PROVE  Respeta(n)
  BY DEF Respeta

(* A stretch of the stream without a terminator is shorter than a message. *)
LEMMA TramoCorto ==
    ASSUME NEW a \in Nat, NEW z \in Nat, NEW n \in Nat, z <= n, Respeta(n),
           \A p \in (a + 1)..z : recibido[p] # "nl"
    PROVE  z - a < MaxMessage
  <1> SUFFICES ASSUME z - a >= MaxMessage PROVE FALSE
    BY LineBufferAssumption
  <1>1. z \in 1..n /\ z >= MaxMessage
    BY LineBufferAssumption
  <1>2. PICK q \in (z - MaxMessage + 1)..z : recibido[q] = "nl"
    BY <1>1 DEF Respeta
  <1>3. q \in (a + 1)..z
    BY <1>2, LineBufferAssumption
  <1> QED  BY <1>2, <1>3

LEMMA SinExcesosPaso ==
    ASSUME TypeOK, DatosInv, SinExcesosInv, [Next]_vars
    PROVE  SinExcesosInv'
  <1>0. /\ Len(data) \in Nat /\ leidos \in Nat /\ leidos <= Len(recibido) /\ Len(recibido) \in Nat
        /\ DOMAIN data = 1..Len(data) /\ Base \in Nat /\ leidos = Base + Len(data)
        /\ MaxMessage \in Nat /\ MaxMessage >= 2
    BY LineBufferAssumption DEF TypeOK, DatosInv, Base
  <1>1. CASE Recv
    <2>1. /\ Len(recibido') \in Nat /\ Len(recibido') <= Len(recibido) + MaxMessage
          /\ \A p \in 1..Len(recibido) : recibido'[p] = recibido[p]
          /\ fase = "recv" /\ fase' = "push" /\ problema' = {}
          /\ Base' = Base /\ UNCHANGED <<leidos, data, discarding, respondidas>>
      BY <1>1, RecvEfecto
    <2> SUFFICES ASSUME Respeta(leidos)'
                 PROVE  /\ ~discarding' /\ ~Avisado'
                        /\ Len(respondidas') = Cardinality(Saltos(Base)')
                        /\ Len(data') + (Len(recibido') - leidos') <= 2 * MaxMessage - 1
      BY DEF SinExcesosInv
    <2>2. Respeta(leidos)
      <3> SUFFICES ASSUME NEW p \in 1..leidos, p >= MaxMessage
                   PROVE  \E q \in (p - MaxMessage + 1)..p : recibido[q] = "nl"
        BY DEF Respeta
      <3>1. PICK q \in (p - MaxMessage + 1)..p : recibido'[q] = "nl"
        BY <2>1 DEF Respeta
      <3>2. q \in 1..Len(recibido)
        BY <1>0
      <3> QED  BY <2>1, <3>1, <3>2
    <2>3. /\ ~discarding /\ ~Avisado /\ Len(respondidas) = Cardinality(Saltos(Base))
      BY <2>2 DEF SinExcesosInv
    <2>4. Saltos(Base)' = Saltos(Base)
      <3>1. \A p \in 1..Base : recibido'[p] = recibido[p]
        BY <1>0, <2>1
      <3> QED  BY <2>1, <3>1 DEF Saltos
    <2>5. leidos - Base < MaxMessage
      <3>1. \A p \in (Base + 1)..leidos : recibido[p] # "nl"
        <4> SUFFICES ASSUME NEW p \in (Base + 1)..leidos PROVE recibido[p] # "nl"
          OBVIOUS
        <4>1. p - Base \in DOMAIN data /\ Base + (p - Base) = p
          BY <1>0
        <4>2. data[p - Base] = p
          BY <4>1 DEF DatosInv
        <4> QED  BY <2>1, <4>1, <4>2 DEF DatosInv
      <3>2. leidos <= leidos
        BY <1>0
      <3> QED  BY <1>0, <2>2, <3>1, <3>2, TramoCorto
    <2>6. Len(data) + (Len(recibido') - leidos) <= 2 * MaxMessage - 1
      <3>1. leidos = Len(recibido)
        BY <2>1 DEF DatosInv
      <3> QED  BY <1>0, <2>1, <2>5, <3>1
    <2>7. ~Avisado'
      BY <2>1, <2>3 DEF Avisado
    <2> QED  BY <2>1, <2>3, <2>4, <2>6, <2>7
  <1>2. CASE PushByte
    <2> SUFFICES ASSUME Respeta(leidos)'
                 PROVE  /\ ~discarding' /\ ~Avisado'
                        /\ Len(respondidas') = Cardinality(Saltos(Base)')
                        /\ Len(data') + (Len(recibido') - leidos') <= 2 * MaxMessage - 1
      BY DEF SinExcesosInv
    <2>1. /\ leidos' = leidos + 1 /\ leidos' <= Len(recibido)
          /\ fase = "push" /\ UNCHANGED <<fase, recibido, respondidas>>
      BY <1>2, PushEfecto
    <2>2. Respeta(leidos)
      BY <1>0, <2>1, RespetaBaja DEF Respeta
    <2>3. /\ ~discarding /\ ~Avisado /\ Len(respondidas) = Cardinality(Saltos(Base))
          /\ Len(data) + (Len(recibido) - leidos) <= 2 * MaxMessage - 1
      BY <2>1, <2>2 DEF SinExcesosInv
    <2>4. ~Lleno
      BY <1>0, <2>1, <2>3 DEF Lleno
    <2>5. Base' = Base /\ ~discarding' /\ Len(data') = Len(data) + 1 /\ problema' = problema
      BY <1>2, <2>3, <2>4, PushEfecto
    <2>6. Saltos(Base)' = Saltos(Base)
      BY <2>1, <2>5 DEF Saltos
    <2>7. ~Avisado'
      BY <2>1, <2>3, <2>5 DEF Avisado
    <2>8. Len(data') + (Len(recibido') - leidos') <= 2 * MaxMessage - 1
      BY <1>0, <2>1, <2>3, <2>5
    <2> QED  BY <2>1, <2>3, <2>5, <2>6, <2>7, <2>8
  <1>3. ASSUME UNCHANGED <<recibido, leidos, data, discarding>>,
               Respeta(leidos) => ~Avisado' /\ respondidas' = respondidas,
               fase' # "push" \/ fase' = fase
        PROVE  SinExcesosInv'
    <2>1. Base' = Base /\ Saltos(Base)' = Saltos(Base) /\ (Respeta(leidos)' <=> Respeta(leidos))
      BY <1>3 DEF Base, Saltos, Respeta
    <2> QED  BY <1>3, <2>1 DEF SinExcesosInv
  <1>4. CASE PushFin
    <2>1. Respeta(leidos) => ~Avisado' /\ respondidas' = respondidas
      BY <1>4 DEF PushFin, SinExcesosInv, Avisado
    <2> QED  BY <1>3, <1>4, <2>1 DEF PushFin
  <1>5. CASE RecvFin \/ SinLinea \/ UNCHANGED vars
    <2>1. Respeta(leidos) => ~Avisado' /\ respondidas' = respondidas
      BY <1>5 DEF RecvFin, SinLinea, vars, SinExcesosInv, Avisado
    <2> QED  BY <1>3, <1>5, <2>1 DEF RecvFin, SinLinea, vars
  <1>6. ASSUME NEW i \in DOMAIN data, EsFin(i), Extraer(i), fase = "next", fase' \in {"next", "fin"}
        PROVE  SinExcesosInv'
    <2>1. /\ Base' = Base + i /\ i \in Nat /\ 1 <= i /\ i <= Len(data)
          /\ ~discarding /\ recibido[Base + i] = recibido[data[i]]
          /\ UNCHANGED <<recibido, leidos, discarding, problema>>
      BY <1>6, ExtraerEfecto
    <2> SUFFICES ASSUME Respeta(leidos)
                 PROVE  ~Avisado' /\ Len(respondidas') = Cardinality(Saltos(Base + i))
      <3>1. (Respeta(leidos)' <=> Respeta(leidos)) /\ Saltos(Base)' = Saltos(Base + i)
        BY <2>1 DEF Respeta, Saltos
      <3> QED  BY <1>6, <2>1, <3>1 DEF SinExcesosInv
    <2>2. ~Avisado /\ Len(respondidas) = Cardinality(Saltos(Base))
      BY DEF SinExcesosInv
    <2>3. recibido[Base + i] = "nl" /\ \A p \in (Base + 1)..(Base + i - 1) : recibido[p] # "nl"
      <3>1. recibido[Base + i] = "nl" /\ \A j \in 1..(i - 1) : recibido[data[j]] # "nl"
        BY <1>6, <2>1 DEF EsFin
      <3> SUFFICES ASSUME NEW p \in (Base + 1)..(Base + i - 1)
                   PROVE  recibido[p] # "nl"
        BY <3>1
      <3>2. p - Base \in 1..(i - 1) /\ p - Base \in DOMAIN data /\ Base + (p - Base) = p
        BY <1>0, <2>1
      <3>3. data[p - Base] = p
        BY <3>2 DEF DatosInv
      <3> QED  BY <3>1, <3>2, <3>3
    <2>4. ~DemasiadoLarga(SinFinal(i))
      <3>1. (Base + i - 1) - Base < MaxMessage
        <4>1. Base + i - 1 \in Nat /\ Base + i - 1 <= leidos
          BY <1>0, <2>1
        <4> QED  BY <1>0, <2>3, <4>1, TramoCorto
      <3>2. Len(SinFinal(i)) \in Int /\ Len(SinFinal(i)) <= i - 1
        <4> DEFINE n == IF i > 1 /\ recibido[data[i - 1]] = "cr" THEN i - 2 ELSE i - 1
        <4>1. n \in Nat /\ n <= i - 1
          BY <2>1
        <4>2. SinFinal(i) = SubSeq(data, 1, n)
          BY DEF SinFinal
        <4> HIDE DEF n
        <4>3. \A k \in 1..n : data[k] \in Nat
          <5>1. data \in Seq(Nat)
            BY DEF TypeOK
          <5>2. \A k \in 1..n : k \in 1..Len(data)
            BY <1>0, <2>1, <4>1
          <5> QED  BY <5>1, <5>2, ElementOfSeq
        <4>4. Len(SinFinal(i)) = IF 1 <= n THEN n - 1 + 1 ELSE 0
          BY <4>1, <4>2, <4>3, SubSeqProperties
        <4> QED  BY <2>1, <4>1, <4>4
      <3>3. Len(SinFinal(i)) < MaxMessage
        <4> DEFINE m == Len(SinFinal(i))
        <4>1. m \in Int /\ m <= i - 1
          BY <3>2
        <4> HIDE DEF m
        <4>2. m < MaxMessage
          BY <1>0, <2>1, <3>1, <4>1
        <4> QED  BY <4>2 DEF m
      <3> QED  BY <1>0, <3>3 DEF DemasiadoLarga
    <2> DEFINE a == Linea(SinFinal(i), {data[j] : j \in 1..i})
    <2>5. respondidas' = Append(respondidas, a)
      BY <1>6, <2>4 DEF Extraer
    <2>6. Len(respondidas') = Len(respondidas) + 1
      BY <2>5, RespuestaNueva
    <2>7. Cardinality(Saltos(Base + i)) = Cardinality(Saltos(Base)) + 1
      BY <1>0, <2>1, <2>3, SaltosContados
    <2>8. ~Avisado'
      <3>1. a.tipo = "linea"
        BY DEF Linea
      <3>2. \A k \in DOMAIN respondidas' : respondidas'[k].tipo # "413"
        <4>1. \A k \in DOMAIN respondidas : respondidas[k].tipo # "413"
          BY <2>2 DEF Avisado
        <4> QED  BY <2>5, <3>1, <4>1, RespuestaNueva
      <3> QED  BY <1>6, <3>2 DEF Avisado
    <2> QED  BY <2>2, <2>6, <2>7, <2>8
  <1>7. CASE LineaCompleta \/ LineaFinal
    BY <1>6, <1>7 DEF LineaCompleta, LineaFinal
  <1> QED  BY <1>1, <1>2, <1>4, <1>5, <1>7 DEF Next

-----------------------------------------------------------------------------
(* The invariant, of every reachable state. *)
LEMMA InvarianteSiempre == Spec => []IInv
  <1>1. Init => IInv
    <2> SUFFICES ASSUME Init PROVE IInv
      OBVIOUS
    <2>1. /\ fase = "recv" /\ recibido = <<>> /\ Len(recibido) = 0 /\ leidos = 0
          /\ data = <<>> /\ Len(data) = 0 /\ discarding = FALSE /\ problema = {}
          /\ respondidas = <<>> /\ Len(respondidas) = 0 /\ DOMAIN respondidas = {} /\ DOMAIN data = {}
      BY DEF Init
    <2>2. Base = 0 /\ Saltos(0) = {} /\ Atendidas = {} /\ Lineas(recibido) = {}
      <3>1. Base = 0
        <4>1. leidos = 0 /\ Len(data) = 0
          BY <2>1
        <4> QED  BY <4>1 DEF Base
      <3>2. 1..0 = {}
        OBVIOUS
      <3>3. Saltos(0) = {}
        BY <3>2 DEF Saltos
      <3>4. Atendidas = {}
        BY <2>1 DEF Atendidas
      <3>5. Lineas(recibido) = {}
        BY <2>1, <3>2 DEF Lineas
      <3> QED  BY <3>1, <3>3, <3>4, <3>5
    <2>3. DatosInv /\ LineasInv
      BY <2>1, <2>2 DEF DatosInv, LineasInv
    <2>4. ~Avisado
      BY <2>1, <2>2 DEF Avisado
    <2>5. SinExcesosInv
      BY <2>1, <2>2, <2>4, FS_EmptySet DEF SinExcesosInv
    <2>6. ProblemaInv /\ UnaVezInv /\ DichasInv /\ FundadasInv /\ RecienteInv
      BY <2>1, <2>2 DEF ProblemaInv, UnaVezInv, DichasInv, FundadasInv, RecienteInv
    <2> QED  BY <2>3, <2>5, <2>6, TipoInicial DEF IInv
  <1>2. IInv /\ [Next]_vars => IInv'
    BY TipoPaso, DatosPaso, LineasPaso, ProblemaPaso, UnaVezPaso, DichasPaso, FundadasPaso,
       RecientePaso, SinExcesosPaso DEF IInv
  <1> QED  BY <1>1, <1>2, PTL DEF Spec

(* What reaches the dispatcher is whole lines of the stream, each once and   *)
(* in order, for any way recv() cuts it: tsp_linebuf_push and _next never   *)
(* take the rest of a line they threw away for a command.                   *)
THEOREM SiempreLineasEnteras == Spec => []SoloLineasEnteras
  <1>1. IInv => SoloLineasEnteras
    BY DEF IInv, LineasInv, SoloLineasEnteras
  <1> QED  BY <1>1, InvarianteSiempre, PTL

(* A line whose terminator has been read has one answer: itself, whole and   *)
(* within R5, or a 413.                                                     *)
LEMMA LineaRespondida ==
    ASSUME IInv, fase = "recv", NEW r \in Lineas(recibido)
    PROVE  \E k \in DOMAIN respondidas :
              /\ r[1] \in respondidas[k].de
              /\ \/ respondidas[k].tipo = "413"
                 \/ /\ respondidas[k] = Linea(Contenido(recibido, r), r[1]..r[2])
                    /\ Len(Contenido(recibido, r)) < MaxMessage
  <1>1. /\ leidos = Len(recibido) /\ Base \in Nat /\ Len(recibido) \in Nat
        /\ \A p \in (Base + 1)..leidos : recibido[p] # "nl"
    BY TodoFuera DEF IInv, TypeOK
  <1>2. /\ r \in (1..Len(recibido)) \X (1..Len(recibido)) /\ r[1] <= r[2]
        /\ Inicio(recibido, r[1]) /\ recibido[r[2]] = "nl"
        /\ \A p \in r[1]..(r[2] - 1) : recibido[p] # "nl"
    BY DEF Lineas
  <1>3. r[1] \in 1..Len(recibido) /\ r[2] \in 1..Len(recibido) /\ r = <<r[1], r[2]>>
    BY <1>2
  <1>4. r[1] \in 1..Base
    <2>1. r[2] \notin (Base + 1)..leidos
      BY <1>1, <1>2
    <2> QED  BY <1>1, <1>2, <1>3, <2>1
  <1>5. problema = {}
    BY DEF IInv, ProblemaInv
  <1>6. PICK k \in DOMAIN respondidas : r[1] \in respondidas[k].de
    BY <1>2, <1>4, <1>5 DEF IInv, DichasInv, Dicho
  <1>7. CASE respondidas[k].tipo # "413"
    <2>1. PICK s \in Lineas(recibido) :
             /\ respondidas[k] = Linea(Contenido(recibido, s), s[1]..s[2])
             /\ Len(Contenido(recibido, s)) < MaxMessage
      BY <1>7 DEF IInv, FundadasInv, Fundada
    <2>2. /\ s \in (1..Len(recibido)) \X (1..Len(recibido)) /\ s[1] <= s[2]
          /\ Inicio(recibido, s[1]) /\ recibido[s[2]] = "nl"
          /\ \A p \in s[1]..(s[2] - 1) : recibido[p] # "nl"
      BY DEF Lineas
    <2>3. s[1] \in 1..Len(recibido) /\ s[2] \in 1..Len(recibido) /\ s = <<s[1], s[2]>>
      BY <2>2
    <2>4. r[1] \in s[1]..s[2]
      BY <1>6, <2>1 DEF Linea
    <2>5. r[1] = s[1]
      <3>1. r[1] # 1 => r[1] - 1 \notin s[1]..(s[2] - 1)
        BY <1>2, <2>2 DEF Inicio
      <3> QED  BY <1>3, <2>3, <2>4, <3>1
    <2>6. r[2] = s[2]
      <3>1. s[2] \notin r[1]..(r[2] - 1)
        BY <1>2, <2>2
      <3>2. r[2] \notin s[1]..(s[2] - 1)
        BY <1>2, <2>2
      <3> QED  BY <1>2, <1>3, <2>2, <2>3, <2>5, <3>1, <3>2
    <2>7. r = s
      BY <1>3, <2>3, <2>5, <2>6
    <2> QED  BY <1>6, <2>1, <2>7
  <1> QED  BY <1>6, <1>7

(* While the client keeps its lines within R5, the buffer of two messages    *)
(* loses nothing, for every size of message and of recv(): no line is        *)
(* refused, each is handed over with its content, there are as many answers *)
(* as lines, and the bytes of the unfinished line are in data[].            *)
THEOREM SiempreNadaSePierde == Spec => []SinExcesosNadaSePierde
  <1>1. ASSUME IInv, fase = "recv",
               \A p \in 1..Len(recibido) : p >= MaxMessage =>
                   \E q \in (p - MaxMessage + 1)..p : recibido[q] = "nl"
        PROVE  /\ \A k \in DOMAIN respondidas : respondidas[k].tipo = "linea"
               /\ Len(respondidas) = Cardinality({p \in DOMAIN recibido : recibido[p] = "nl"})
               /\ \A r \in Lineas(recibido) : \E k \in DOMAIN respondidas :
                     respondidas[k] = Linea(Contenido(recibido, r), r[1]..r[2])
               /\ \A p \in DOMAIN recibido :
                     (\A q \in p..Len(recibido) : recibido[q] # "nl")
                         => \E i \in DOMAIN data : data[i] = p
    <2>1. /\ leidos = Len(recibido) /\ Base \in Nat /\ Base <= leidos
          /\ \A p \in (Base + 1)..leidos : recibido[p] # "nl"
      BY <1>1, TodoFuera DEF IInv
    <2>2. ~discarding /\ ~Avisado /\ Len(respondidas) = Cardinality(Saltos(Base))
      BY <1>1, <2>1 DEF IInv, SinExcesosInv, Respeta
    <2>3. \A k \in DOMAIN respondidas : respondidas[k].tipo \in {"linea", "413"}
      <3>1. respondidas \in Seq(Respondida(1..Len(recibido)))
        BY <1>1 DEF IInv, TypeOK, Respondida
      <3>2. \A k \in DOMAIN respondidas : respondidas[k] \in Respondida(1..Len(recibido))
        BY <3>1
      <3> QED  BY <3>2 DEF Respondida
    <2>4. DOMAIN recibido = 1..Len(recibido) /\ Len(recibido) \in Nat
      BY <1>1 DEF IInv, TypeOK
    <2>5. Saltos(Base) = {p \in DOMAIN recibido : recibido[p] = "nl"}
      <3>1. \A p \in 1..Len(recibido) : p \in 1..Base \/ p \in (Base + 1)..leidos
        BY <2>1, <2>4
      <3>2. \A p \in 1..Base : p \in 1..Len(recibido)
        BY <2>1, <2>4
      <3> QED  BY <2>1, <2>4, <3>1, <3>2 DEF Saltos
    <2>6. \A k \in DOMAIN respondidas : respondidas[k].tipo = "linea"
      BY <2>2, <2>3 DEF Avisado
    <2>7. \A r \in Lineas(recibido) : \E k \in DOMAIN respondidas :
             respondidas[k] = Linea(Contenido(recibido, r), r[1]..r[2])
      BY <1>1, <2>6, LineaRespondida
    <2>8. ASSUME NEW p \in DOMAIN recibido, \A q \in p..Len(recibido) : recibido[q] # "nl"
          PROVE  \E i \in DOMAIN data : data[i] = p
      <3>1. Base = 0 \/ recibido[Base] = "nl"
        BY <1>1, <2>2 DEF IInv, DatosInv
      <3>2. p > Base
        <4>1. Base \notin p..Len(recibido) \/ Base = 0
          BY <2>8, <3>1
        <4> QED  BY <2>1, <2>4, <4>1
      <3>3. Len(data) \in Nat /\ DOMAIN data = 1..Len(data) /\ leidos = Base + Len(data)
        BY <1>1, <2>1, <2>4 DEF IInv, TypeOK, Base
      <3>4. p - Base \in DOMAIN data /\ Base + (p - Base) = p
        BY <2>1, <2>4, <3>2, <3>3
      <3>5. data[p - Base] = p
        BY <1>1, <3>4 DEF IInv, DatosInv
      <3> QED  BY <3>4, <3>5
    <2> QED  BY <2>2, <2>5, <2>6, <2>7, <2>8
  <1>2. IInv => SinExcesosNadaSePierde
    BY <1>1 DEF SinExcesosNadaSePierde
  <1> QED  BY <1>2, InvarianteSiempre, PTL

(* For any client, any cut of its stream and any sizes, once the thread is    *)
(* back at recv() each line whose terminator was read has exactly one        *)
(* answer: it was handed over whole and within R5, or a 413 speaks of it.    *)
(* Lines one push threw away share that push's 413, and there is no 413     *)
(* without MaxMessage bytes on end that hold no terminator.                 *)
THEOREM SiempreCadaLineaSuRespuesta == Spec => []CadaLineaSuRespuesta
  <1>1. IInv => CadaLineaSuRespuesta
    <2> SUFFICES ASSUME IInv PROVE CadaLineaSuRespuesta
      OBVIOUS
    <2>1. fase = "recv" => \A r \in Lineas(recibido) : \E k \in DOMAIN respondidas :
             /\ r[1] \in respondidas[k].de
             /\ \/ respondidas[k].tipo = "413"
                \/ /\ respondidas[k] = Linea(Contenido(recibido, r), r[1]..r[2])
                   /\ Len(Contenido(recibido, r)) < MaxMessage
      BY LineaRespondida
    <2>2. \A k \in DOMAIN respondidas :
             respondidas[k].tipo = "413" => Excede(respondidas[k].de)
      BY DEF IInv, FundadasInv, Fundada
    <2> QED  BY <2>1, <2>2 DEF CadaLineaSuRespuesta, IInv, UnaVezInv
  <1> QED  BY <1>1, InvarianteSiempre, PTL

-----------------------------------------------------------------------------
(* HistoryRing implements HistoryLog. *)

LEMMA Resto ==
    ASSUME NEW m \in Nat \ {0}, NEW x \in Int
    PROVE  /\ x % m \in 0..(m - 1)
           /\ 0 <= x /\ x < m => x % m = x
           /\ m <= x /\ x < 2 * m => x % m = x - m
           /\ 2 * m <= x /\ x < 3 * m => x % m = x - 2 * m
  <1>1. x % m \in 0..(m - 1)
    OBVIOUS
  <1>2. 0 <= x /\ x < m => x % m = x
    OBVIOUS
  <1>3. m <= x /\ x < 2 * m => x % m = x - m
    OBVIOUS
  <1>4. 2 * m <= x /\ x < 3 * m => x % m = x - 2 * m
    OBVIOUS
  <1> QED  BY <1>1, <1>2, <1>3, <1>4

(* Where the k-th newest entry is, with the remainder and without it. *)
Lugar(h, k) == (h - 1 - k + MaxEntradas * 2) % MaxEntradas
Atras(h, k) == IF k < h THEN h - 1 - k ELSE h - 1 - k + MaxEntradas

LEMMA LugarEs ==
    ASSUME NEW h \in Indices, NEW k \in Indices
    PROVE  /\ Lugar(h, k) = Atras(h, k)
           /\ Lugar(h, k) \in Indices
  <1> DEFINE x == h - 1 - k + MaxEntradas * 2
  <1>0. MaxEntradas \in Nat \ {0} /\ h \in Nat /\ k \in Nat /\ h < MaxEntradas /\ k < MaxEntradas
    BY RingAssumption DEF Indices
  <1>1. x \in Int /\ MaxEntradas <= x /\ x < 3 * MaxEntradas
    BY <1>0
  <1>2. CASE k < h
    <2>1. 2 * MaxEntradas <= x
      BY <1>0, <1>2
    <2>2. x % MaxEntradas = x - 2 * MaxEntradas
      BY <1>0, <1>1, <2>1, Resto
    <2>3. x - 2 * MaxEntradas = h - 1 - k /\ h - 1 - k \in 0..(MaxEntradas - 1)
      BY <1>0, <1>2
    <2> QED  BY <1>2, <2>2, <2>3 DEF Lugar, Atras, Indices
  <1>3. CASE ~(k < h)
    <2>1. x < 2 * MaxEntradas
      BY <1>0, <1>3
    <2>2. x % MaxEntradas = x - MaxEntradas
      BY <1>0, <1>1, <2>1, Resto
    <2>3. x - MaxEntradas = h - 1 - k + MaxEntradas
          /\ h - 1 - k + MaxEntradas \in 0..(MaxEntradas - 1)
      BY <1>0, <1>3
    <2> QED  BY <1>3, <2>2, <2>3 DEF Lugar, Atras, Indices
  <1> QED  BY <1>2, <1>3

(* After a write the entries are one place further back. *)
LEMMA SiguienteEs ==
    ASSUME NEW h \in Indices, NEW h2, h2 = Siguiente(h)
    PROVE  /\ h2 \in Indices
           /\ Atras(h2, 0) = h
           /\ \A k \in Indices : k >= 1 => Atras(h2, k) = Atras(h, k - 1)
                                           /\ Atras(h, k - 1) # h
  <1>0. MaxEntradas \in Nat \ {0} /\ h \in Nat /\ h < MaxEntradas
        /\ \A k \in Indices : k \in Nat /\ k < MaxEntradas
    BY RingAssumption DEF Indices
  <1>1. CASE h + 1 < MaxEntradas
    <2>1. h2 = h + 1
      <3>1. h + 1 \in Int /\ 0 <= h + 1
        BY <1>0
      <3>2. (h + 1) % MaxEntradas = h + 1
        BY <1>0, <1>1, <3>1, Resto
      <3> QED  BY <3>2 DEF Siguiente
    <2>2. h2 \in Indices
      BY <1>0, <1>1, <2>1 DEF Indices
    <2> QED  BY <1>0, <1>1, <2>1, <2>2 DEF Atras
  <1>2. CASE h + 1 = MaxEntradas
    <2>1. h2 = 0
      <3>1. h + 1 \in Int /\ MaxEntradas <= h + 1 /\ h + 1 < 2 * MaxEntradas
        BY <1>0, <1>2
      <3>2. (h + 1) % MaxEntradas = (h + 1) - MaxEntradas
        BY <1>0, <3>1, Resto
      <3> QED  BY <1>0, <1>2, <3>2 DEF Siguiente
    <2>2. h2 \in Indices
      BY <1>0, <2>1 DEF Indices
    <2> QED  BY <1>0, <1>2, <2>1, <2>2 DEF Atras
  <1> QED  BY <1>0, <1>1, <1>2

(* The sequence the array stands for. *)
Tramo(r, h, c) == [k \in 1..c |-> r[Lugar(h, c - k)]]

LEMMA UltimasSon ==
    /\ ultimas = Tramo(ring, head, count)
    /\ ultimas' = Tramo(ring', head', count')
  BY DEF ultimas, Tramo, Indice, Lugar

LEMMA TramoEs ==
    ASSUME NEW r \in [Indices -> Entradas \cup {Vacia}], NEW h \in Indices, NEW c \in 0..MaxEntradas
    PROVE  /\ Tramo(r, h, c) \in Seq(Entradas \cup {Vacia})
           /\ Len(Tramo(r, h, c)) = c /\ DOMAIN Tramo(r, h, c) = 1..c
           /\ \A k \in 1..c : /\ Tramo(r, h, c)[k] = r[Atras(h, c - k)]
                              /\ c - k \in Indices /\ Atras(h, c - k) \in Indices
  <1>0. MaxEntradas \in Nat \ {0} /\ c \in Nat /\ c <= MaxEntradas
    BY RingAssumption
  <1>1. \A k \in 1..c : c - k \in Indices
    BY <1>0 DEF Indices
  <1>2. \A k \in 1..c : Lugar(h, c - k) = Atras(h, c - k) /\ Lugar(h, c - k) \in Indices
    BY <1>1, LugarEs
  <1>3. \A k \in 1..c : r[Lugar(h, c - k)] \in Entradas \cup {Vacia}
    BY <1>2
  <1>5. Tramo(r, h, c) \in [1..c -> Entradas \cup {Vacia}]
    BY <1>3 DEF Tramo
  <1>6. Tramo(r, h, c) \in Seq(Entradas \cup {Vacia}) /\ Len(Tramo(r, h, c)) = c
    BY <1>0, <1>5
  <1>7. DOMAIN Tramo(r, h, c) = 1..c
    BY <1>5
  <1>8. \A k \in 1..c : Tramo(r, h, c)[k] = r[Atras(h, c - k)]
    BY <1>2 DEF Tramo
  <1> QED  BY <1>1, <1>2, <1>6, <1>7, <1>8

(* What a write does to it. *)
LEMMA TramoCrece ==
    ASSUME RingTypeOK, NEW e \in Entradas, Guardar(e)
    PROVE  /\ ring' \in [Indices -> Entradas \cup {Vacia}]
           /\ head' \in Indices /\ count' \in 0..MaxEntradas
           /\ Tramo(ring', head', count') =
                Append(IF Len(Tramo(ring, head, count)) = MaxEntradas
                       THEN Tail(Tramo(ring, head, count)) ELSE Tramo(ring, head, count), e)
  <1>1. ring \in [Indices -> Entradas \cup {Vacia}] /\ head \in Indices /\ count \in 0..MaxEntradas
    BY DEF RingTypeOK
  <1>2. MaxEntradas \in Nat \ {0} /\ count \in Nat /\ count <= MaxEntradas
    BY <1>1, RingAssumption
  <1>3. /\ ring' = [ring EXCEPT ![head] = e] /\ head' = Siguiente(head)
        /\ count' = IF count < MaxEntradas THEN count + 1 ELSE count
    BY DEF Guardar
  <1>4. /\ head' \in Indices /\ Atras(head', 0) = head
        /\ \A k \in Indices : k >= 1 => Atras(head', k) = Atras(head, k - 1) /\ Atras(head, k - 1) # head
    BY <1>1, <1>3, SiguienteEs
  <1>5. ring' \in [Indices -> Entradas \cup {Vacia}] /\ count' \in 0..MaxEntradas
    BY <1>2, <1>1, <1>3
  <1>6. PICK c2 \in Nat : c2 = count'
    BY <1>2, <1>3
  <1> DEFINE antes == Tramo(ring, head, count)
             luego == Tramo(ring', head', c2)
             S == Entradas \cup {Vacia}
  <1>7. /\ antes \in Seq(S) /\ Len(antes) = count /\ DOMAIN antes = 1..count
        /\ \A k \in 1..count : /\ antes[k] = ring[Atras(head, count - k)]
                           /\ count - k \in Indices /\ Atras(head, count - k) \in Indices
    BY <1>1, TramoEs
  <1>8. /\ luego \in Seq(S) /\ Len(luego) = c2 /\ DOMAIN luego = 1..c2
        /\ \A k \in 1..c2 : /\ luego[k] = ring'[Atras(head', c2 - k)]
                            /\ c2 - k \in Indices /\ Atras(head', c2 - k) \in Indices
    <2>1. head' \in Indices
      BY <1>4
    <2>2. \A q \in [Indices -> Entradas \cup {Vacia}], i \in Indices, m \in 0..MaxEntradas :
             /\ Tramo(q, i, m) \in Seq(S) /\ Len(Tramo(q, i, m)) = m
             /\ DOMAIN Tramo(q, i, m) = 1..m
             /\ \A k \in 1..m : /\ Tramo(q, i, m)[k] = q[Atras(i, m - k)]
                               /\ m - k \in Indices /\ Atras(i, m - k) \in Indices
      <3> TAKE q \in [Indices -> Entradas \cup {Vacia}], i \in Indices, m \in 0..MaxEntradas
      <3> QED  BY TramoEs
    <2> QED  BY ONLY <1>5, <1>6, <2>1, <2>2
  <1>9. c2 \in Nat /\ c2 >= 1 /\ c2 <= MaxEntradas
    BY <1>2, <1>3, <1>6
  <1>10. PICK d \in Nat : /\ d + c2 = count + 1
                        /\ (count = MaxEntradas => d = 1) /\ (count # MaxEntradas => d = 0)
    <2>1. CASE count = MaxEntradas
      <3>1. 1 + c2 = count + 1
        BY <1>2, <1>3, <1>6, <2>1
      <3> QED  BY <2>1, <3>1
    <2>2. CASE count # MaxEntradas
      <3>1. 0 + c2 = count + 1
        BY <1>2, <1>3, <1>6, <2>2
      <3> QED  BY <2>2, <3>1
    <2> QED  BY <2>1, <2>2
  <1> HIDE DEF antes, luego, S
  <1>11. luego[c2] = e
    <2>1. c2 \in 1..c2 /\ c2 - c2 = 0
      BY <1>9
    <2>2. luego[c2] = ring'[Atras(head', 0)]
      BY <1>8, <2>1
    <2>3. ring'[head] = e
      BY <1>1, <1>3
    <2> QED  BY <1>4, <2>2, <2>3
  <1>12. ASSUME NEW k \in 1..(c2 - 1)
        PROVE  luego[k] = antes[k + d] /\ k + d \in 1..count
    <2> DEFINE j == c2 - k
    <2>1. k \in 1..c2 /\ j >= 1 /\ k + d \in 1..count /\ count - (k + d) = j - 1
      BY <1>2, <1>10, <1>9
    <2>2. luego[k] = ring'[Atras(head', j)] /\ j \in Indices
      BY <1>8, <2>1
    <2>3. antes[k + d] = ring[Atras(head, j - 1)] /\ Atras(head, j - 1) \in Indices
      BY <1>7, <2>1
    <2>4. Atras(head', j) = Atras(head, j - 1) /\ Atras(head, j - 1) # head
      BY <1>4, <2>1, <2>2
    <2>5. ring'[Atras(head, j - 1)] = ring[Atras(head, j - 1)]
      BY <1>1, <1>3, <2>3, <2>4
    <2> QED  BY <2>1, <2>2, <2>3, <2>4, <2>5
  <1> DEFINE base == IF Len(antes) = MaxEntradas THEN Tail(antes) ELSE antes
  <1>13. luego = Append(base, e)
    <2>0. e \in S
      BY DEF S
    <2>1. base \in Seq(S) /\ Len(base) = c2 - 1 /\ \A k \in 1..(c2 - 1) : base[k] = antes[k + d]
      <3>1. CASE count = MaxEntradas
        <4>1. antes # <<>> /\ c2 = count /\ d = 1
          BY <1>2, <1>7, <1>10, <1>9, <3>1
        <4>2. /\ Tail(antes) \in Seq(S) /\ Len(Tail(antes)) = count - 1
              /\ \A k \in 1..(count - 1) : Tail(antes)[k] = antes[k + 1]
          BY <1>2, <1>7, <4>1
        <4> QED  BY <1>7, <3>1, <4>1, <4>2
      <3>2. CASE count # MaxEntradas
        <4>1. c2 - 1 = count /\ d = 0
          BY <1>2, <1>10, <1>9, <3>2
        <4> QED  BY <1>2, <1>7, <3>2, <4>1
      <3> QED  BY <3>1, <3>2
    <2> HIDE DEF base
    <2>2. /\ Append(base, e) \in Seq(S) /\ Len(Append(base, e)) = c2
          /\ \A k \in 1..(c2 - 1) : Append(base, e)[k] = base[k]
          /\ Append(base, e)[c2] = e
      BY <1>10, <1>9, <2>0, <2>1
    <2>3. \A k \in 1..c2 : Append(base, e)[k] = luego[k]
      <3>1. TAKE k \in 1..c2
      <3>2. k = c2 \/ k \in 1..(c2 - 1)
        BY <1>10, <1>9
      <3> QED  BY <1>11, <1>12, <2>1, <2>2, <3>2
    <2> QED  BY <1>8, <1>10, <1>9, <2>2, <2>3
  <1> QED  BY <1>4, <1>5, <1>13, <1>6 DEF antes, luego

(* A write is a step of the log. *)
LEMMA GuardarEsDelLog ==
    ASSUME RingTypeOK, NEW e \in Entradas, Guardar(e)
    PROVE  RingTypeOK' /\ Log!Guardar(e)
  <1>1. ring \in [Indices -> Entradas \cup {Vacia}] /\ head \in Indices /\ count \in 0..MaxEntradas
    BY DEF RingTypeOK
  <1>2. /\ ring' = [ring EXCEPT ![head] = e] /\ head' = Siguiente(head)
        /\ count' = IF count < MaxEntradas THEN count + 1 ELSE count
        /\ respuesta' = respuesta
    BY DEF Guardar
  <1>3. /\ ring' \in [Indices -> Entradas \cup {Vacia}] /\ head' \in Indices /\ count' \in 0..MaxEntradas
        /\ Tramo(ring', head', count') =
             Append(IF Len(Tramo(ring, head, count)) = MaxEntradas
                    THEN Tail(Tramo(ring, head, count)) ELSE Tramo(ring, head, count), e)
    BY TramoCrece
  <1>4. Tramo(ring', head', count') \in Seq(Entradas \cup {Vacia})
    BY <1>3, TramoEs
  <1>5. RingTypeOK'
    BY <1>2, <1>3, <1>4, UltimasSon DEF RingTypeOK
  <1> QED  BY <1>2, <1>3, <1>5, UltimasSon DEF Log!Guardar

(* A query is one too. *)
LEMMA ConstruirDelLog ==
    ASSUME RingTypeOK, NEW n \in Nat \ {0}
    PROVE  /\ Construir(n) = Log!Recientes(n)
           /\ Construir(n) \in Seq(Entradas \cup {Vacia})
  <1>0. /\ ring \in [Indices -> Entradas \cup {Vacia}] /\ head \in Indices /\ count \in 0..MaxEntradas
        /\ MaxEntradas \in Nat \ {0} /\ count \in Nat /\ count <= MaxEntradas
    BY RingAssumption DEF RingTypeOK
  <1> DEFINE dadas == IF n > count THEN count ELSE n
             antes == Tramo(ring, head, count)
  <1>1. dadas \in Nat /\ dadas <= count
    BY <1>0
  <1>2. Construir(n) = [k \in 1..dadas |-> ring[Lugar(head, k - 1)]]
    BY <1>0 DEF Construir, Indice, Lugar
  <1>3. /\ Len(antes) = count /\ DOMAIN antes = 1..count
        /\ \A k \in 1..count : antes[k] = ring[Atras(head, count - k)]
    BY <1>0, TramoEs
  <1>4. ultimas = antes
    BY UltimasSon
  <1> HIDE DEF antes
  <1>5. Log!Recientes(n) = [k \in 1..dadas |-> antes[count + 1 - k]]
    BY <1>0, <1>3, <1>4 DEF Log!Recientes
  <1> HIDE DEF dadas
  <1>6. ASSUME NEW k \in 1..dadas
        PROVE  /\ ring[Lugar(head, k - 1)] = antes[count + 1 - k]
               /\ ring[Lugar(head, k - 1)] \in Entradas \cup {Vacia}
    <2>1. k - 1 \in Indices /\ count + 1 - k \in 1..count /\ count - (count + 1 - k) = k - 1
      BY <1>0, <1>1 DEF Indices
    <2>2. Lugar(head, k - 1) = Atras(head, k - 1) /\ Lugar(head, k - 1) \in Indices
      BY <1>0, <2>1, LugarEs
    <2>3. antes[count + 1 - k] = ring[Atras(head, k - 1)]
      BY <1>3, <2>1
    <2> QED  BY <1>0, <2>2, <2>3
  <1>7. Construir(n) \in [1..dadas -> Entradas \cup {Vacia}]
    BY <1>2, <1>6
  <1> QED  BY <1>1, <1>2, <1>5, <1>6, <1>7

(* What becomes of a count: itself if it fits in an int, and some int if not. *)
LEMMA AIntEs ==
    ASSUME NEW n \in Nat \ {0}
    PROVE  /\ AInt(n) \in (-(IntMax + 1))..IntMax
           /\ n <= IntMax => AInt(n) = n
  <1> DEFINE v == 2 * (IntMax + 1)
  <1>1. IntMax \in Nat /\ v \in Nat \ {0} /\ v = 2 * IntMax + 2
    BY RingAssumption
  <1>2. AInt(n) = IF n % v > IntMax THEN (n % v) - v ELSE n % v
    BY DEF AInt
  <1> HIDE DEF v
  <1>3. n % v \in 0..(v - 1) /\ (n < v => n % v = n)
    BY <1>1, Resto
  <1>4. n % v \in Int /\ 0 <= n % v /\ n % v <= v - 1
    BY <1>1, <1>3
  <1>5. AInt(n) \in (-(IntMax + 1))..IntMax
    BY <1>1, <1>2, <1>4
  <1>6. n <= IntMax => AInt(n) = n
    BY <1>1, <1>2, <1>3
  <1> QED  BY <1>5, <1>6

(* registry_build_last and registry_build_alerts take 0 for the default. *)
LEMMA ConstruirSinCantidad == Construir(0) = Construir(PorDefecto)
  <1>1. PorDefecto \in Nat /\ ~(PorDefecto <= 0)
    BY RingAssumption
  <1> QED  BY <1>1 DEF Construir

LEMMA ConsultarEsDelLog ==
    ASSUME RingTypeOK, (\E n \in Peticiones : Consultar(n)) \/ ConsultarSinCantidad
    PROVE  RingTypeOK' /\ Log!Next
  <1>0. IntMax \in Nat /\ PorDefecto \in 1..IntMax /\ Peticiones \subseteq Nat \ {0}
    BY RingAssumption
  <1>1. UNCHANGED <<ring, head, count>>
    BY DEF Consultar, ConsultarSinCantidad
  <1>2. ultimas' = ultimas
    BY <1>1, UltimasSon
  <1>3. ASSUME NEW n \in Nat \ {0}, respuesta'.n = n, Log!Consultar(n),
               respuesta'.entradas \in Seq(Entradas \cup {Vacia})
        PROVE  RingTypeOK' /\ Log!Next
    <2>1. RingTypeOK'
      BY <1>1, <1>2, <1>3 DEF RingTypeOK
    <2> QED  BY <1>3, <2>1 DEF Log!Next
  <1>4. ASSUME NEW n \in Nat \ {0}, NEW m \in 1..IntMax, n <= IntMax => m = n,
               respuesta' = Respuesta(n, FALSE, Construir(m))
        PROVE  RingTypeOK' /\ Log!Next
    <2>1. m \in Nat \ {0}
      BY <1>0
    <2>2. Construir(m) = Log!Recientes(m) /\ Construir(m) \in Seq(Entradas \cup {Vacia})
      BY <2>1, ConstruirDelLog
    <2>3. respuesta' = Log!Respuesta(n, FALSE, Log!Recientes(m))
      BY <1>4, <2>2 DEF Respuesta, Log!Respuesta
    <2>4. respuesta'.n = n /\ respuesta'.entradas = Construir(m)
      BY <1>4 DEF Respuesta
    <2>5. n <= IntMax \/ n > IntMax
      BY <1>0
    <2>6. Log!Consultar(n)
      BY <1>2, <1>4, <2>3, <2>5 DEF Log!Consultar
    <2> QED  BY <1>3, <2>2, <2>4, <2>6
  <1>5. CASE ConsultarSinCantidad
    <2>1. PorDefecto \in Nat \ {0} /\ respuesta' = Respuesta(PorDefecto, FALSE, Construir(PorDefecto))
      BY <1>0, <1>5 DEF ConsultarSinCantidad
    <2> QED  BY <1>0, <1>4, <2>1
  <1>6. ASSUME NEW n \in Peticiones, Consultar(n)
        PROVE  RingTypeOK' /\ Log!Next
    <2>1. n \in Nat \ {0} /\ AInt(n) \in (-(IntMax + 1))..IntMax /\ (n <= IntMax => AInt(n) = n)
      BY <1>0, AIntEs
    <2>2. CASE AInt(n) < 0
      <3>1. respuesta' = Respuesta(n, TRUE, <<>>)
        BY <1>6, <2>2 DEF Consultar
      <3>2. n > IntMax
        BY <1>0, <2>1, <2>2
      <3>3. respuesta' = Log!Respuesta(n, TRUE, <<>>)
        BY <3>1 DEF Respuesta, Log!Respuesta
      <3>4. respuesta'.n = n /\ respuesta'.entradas = <<>>
        BY <3>1 DEF Respuesta
      <3>5. <<>> \in Seq(Entradas \cup {Vacia})
        OBVIOUS
      <3>6. Log!Consultar(n)
        BY <1>2, <3>2, <3>3 DEF Log!Consultar
      <3> QED  BY <1>3, <2>1, <3>4, <3>5, <3>6
    <2>3. CASE AInt(n) = 0
      <3>1. respuesta' = Respuesta(n, FALSE, Construir(PorDefecto))
        <4>1. ~(AInt(n) < 0) /\ Construir(AInt(n)) = Construir(PorDefecto)
          BY <2>3, ConstruirSinCantidad
        <4> QED  BY <1>6, <4>1 DEF Consultar
      <3>2. ~(n <= IntMax)
        BY <2>1, <2>3
      <3> QED  BY <1>0, <1>4, <2>1, <3>1, <3>2
    <2>4. CASE AInt(n) > 0
      <3>1. respuesta' = Respuesta(n, FALSE, Construir(AInt(n)))
        <4>1. ~(AInt(n) < 0)
          BY <1>0, <2>1, <2>4
        <4> QED  BY <1>6, <4>1 DEF Consultar
      <3>2. AInt(n) \in 1..IntMax
        BY <1>0, <2>1, <2>4
      <3> QED  BY <1>4, <2>1, <3>1, <3>2
    <2> QED  BY <1>0, <2>1, <2>2, <2>3, <2>4
  <1> QED  BY <1>5, <1>6

(* The circular array of the alerts, or of the measurements, with its index  *)
(* and its count, is a history that keeps the newest entries: guardar_alerta *)
(* and guardar_medicion are its writes, registry_build_alerts and           *)
(* registry_build_last its answers, for any capacity and any number of      *)
(* rounds.  A count that does not fit in an int is refused or answered as   *)
(* some count that does, with the newest entries all the same.              *)
THEOREM ElAnilloEsElLog == RingSpec => ImplementaElLog
  <1>1. RingInit => RingTypeOK /\ Log!Init
    <2> SUFFICES ASSUME RingInit PROVE RingTypeOK /\ Log!Init
      OBVIOUS
    <2>1. MaxEntradas \in Nat \ {0} /\ 0 \in Indices /\ 0 \in 0..MaxEntradas
      BY RingAssumption DEF Indices
    <2>2. ring \in [Indices -> Entradas \cup {Vacia}] /\ head \in Indices /\ count = 0
      BY <2>1 DEF RingInit
    <2>3. ultimas \in Seq(Entradas \cup {Vacia}) /\ Len(ultimas) = 0
      BY <2>1, <2>2, UltimasSon, TramoEs
    <2>4. ultimas = <<>>
      BY <2>3
    <2>5. respuesta = Respuesta(0, FALSE, <<>>) /\ respuesta.entradas = <<>>
      BY DEF RingInit, Respuesta
    <2>6. <<>> \in Seq(Entradas \cup {Vacia})
      OBVIOUS
    <2> QED  BY <2>1, <2>2, <2>3, <2>4, <2>5, <2>6 DEF RingTypeOK, Log!Init, Log!Respuesta, Respuesta
  <1>2. RingTypeOK /\ [RingNext]_ringVars => RingTypeOK' /\ [Log!Next]_(Log!logVars)
    <2> SUFFICES ASSUME RingTypeOK, [RingNext]_ringVars
                 PROVE  RingTypeOK' /\ [Log!Next]_(Log!logVars)
      OBVIOUS
    <2>1. CASE \E e \in Entradas : Guardar(e)
      <3>1. PICK e \in Entradas : Guardar(e)
        BY <2>1
      <3>2. RingTypeOK' /\ Log!Guardar(e)
        BY <3>1, GuardarEsDelLog
      <3> QED  BY <3>2 DEF Log!Next
    <2>2. CASE (\E n \in Peticiones : Consultar(n)) \/ ConsultarSinCantidad
      BY <2>2, ConsultarEsDelLog
    <2>3. CASE UNCHANGED ringVars
      <3>1. UNCHANGED <<ring, head, count, respuesta>>
        BY <2>3 DEF ringVars
      <3>2. ultimas' = ultimas
        BY <3>1, UltimasSon
      <3> QED  BY <3>1, <3>2 DEF RingTypeOK, Log!logVars
    <2> QED  BY <2>1, <2>2, <2>3 DEF RingNext
  <1> QED  BY <1>1, <1>2, PTL DEF RingSpec, ImplementaElLog, Log!Spec
=============================================================================
