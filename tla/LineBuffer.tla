----------------------------- MODULE LineBuffer -----------------------------
(***************************************************************************)
(* How a session thread cuts the TCP stream into TSP messages: the          *)
(* tsp_linebuf_t of server/protocol.c and the receive loop of               *)
(* handle_tcp_client (server_concurrent.c) around it.                       *)
(*                                                                          *)
(* A byte is its position in `recibido`, the stream received so far, so     *)
(* that a line handed to the dispatcher can be compared with the lines the  *)
(* client wrote.  Of a byte's value only what the code looks at is kept:    *)
(* the terminator "nl", the carriage return "cr", and any other "x".  Each   *)
(* answer remembers in `de` the bytes it speaks of: the line extracted, or  *)
(* all that one push threw away.                                            *)
(***************************************************************************)
EXTENDS Naturals, Sequences, FiniteSets

CONSTANTS
    MaxMessage,  \* TSP_MAX_MESSAGE
    BufferSize,  \* BUFFER_SIZE: what one recv() may return
    MaxBytes     \* bound: bytes the client sends

ASSUME LineBufferAssumption ==
    /\ MaxMessage \in Nat /\ MaxMessage >= 2
    /\ BufferSize \in 1..MaxMessage
    /\ MaxBytes \in Nat

VARIABLES
    fase,        \* the thread: "recv", "push", "next" or "fin"
    recibido,    \* history: the bytes recv() returned, in order
    leidos,      \* bytes of them push has taken
    data,        \* linebuf.data[0 .. len-1]
    discarding,  \* linebuf.discarding
    problema,    \* the bytes this push has thrown away: it returns 413 if there are any
    respondidas  \* history: the answers, in order

vars == <<fase, recibido, leidos, data, discarding, problema, respondidas>>

Bytes == {"nl", "cr", "x"}
Linea(l, de) == [tipo |-> "linea", bytes |-> l, de |-> de]
Err413(de) == [tipo |-> "413", bytes |-> <<>>, de |-> de]

Init ==
    /\ fase = "recv"
    /\ recibido = <<>> /\ leidos = 0
    /\ data = <<>> /\ discarding = FALSE /\ problema = {}
    /\ respondidas = <<>>

-----------------------------------------------------------------------------
(* recv(): some of the bytes the client has sent. *)
Recv ==
    /\ fase = "recv"
    /\ \E k \in 1..BufferSize : \E trozo \in [1..k -> Bytes] :
        /\ Len(recibido) + k <= MaxBytes
        /\ recibido' = recibido \o trozo
    /\ fase' = "push" /\ problema' = {}
    /\ UNCHANGED <<leidos, data, discarding, respondidas>>

(* recv() returns 0 or fails. *)
RecvFin ==
    /\ fase = "recv"
    /\ fase' = "fin"
    /\ UNCHANGED <<recibido, leidos, data, discarding, problema, respondidas>>

-----------------------------------------------------------------------------
(* tsp_linebuf_push, one byte a step. *)

(* Mutants: data[] holds one message instead of two; nothing limits it. *)
LlenoConUnMensaje == Len(data) + 1 >= MaxMessage
LlenoNunca == FALSE

(* len + 1 >= sizeof(data) *)
Lleno == Len(data) + 1 >= 2 * MaxMessage

(* Mutants: the tail of the line thrown away is taken for a new line; a      *)
(* terminator that does not fit does not end it.                            *)
TrasDesbordarSigue(c) == FALSE
TrasDesbordarSiempre(c) == TRUE

(* The value of `discarding` after a byte that did not fit. *)
TrasDesbordar(c) == c # "nl"

(* `discarding` after one more byte of the line being thrown away. *)
TrasTirar(c) == c # "nl"

PushByte ==
    /\ fase = "push" /\ leidos < Len(recibido)
    /\ leidos' = leidos + 1
    /\ LET c == recibido[leidos + 1] IN
        \/ /\ discarding
           /\ discarding' = TrasTirar(c)
           /\ UNCHANGED <<data, problema>>
        \/ /\ ~discarding /\ Lleno
           /\ data' = <<>>
           /\ discarding' = TrasDesbordar(c)
           /\ problema' = problema \cup {data[j] : j \in DOMAIN data} \cup {leidos + 1}
        \/ /\ ~discarding /\ ~Lleno
           /\ data' = Append(data, leidos + 1)
           /\ UNCHANGED <<discarding, problema>>
    /\ UNCHANGED <<fase, recibido, respondidas>>

(* push returns: the thread answers 413 at once if it had to throw away. *)
PushFin ==
    /\ fase = "push" /\ leidos = Len(recibido)
    /\ fase' = "next" /\ problema' = {}
    /\ respondidas' = IF problema = {} THEN respondidas
                      ELSE Append(respondidas, Err413(problema))
    /\ UNCHANGED <<recibido, leidos, data, discarding>>

-----------------------------------------------------------------------------
(* tsp_linebuf_next and the answer to the line it extracts. *)
EsFin(i) == i \in DOMAIN data /\ recibido[data[i]] = "nl"
               /\ \A j \in 1..(i - 1) : recibido[data[j]] # "nl"

(* The bytes of the line that ends at i, without "\r\n". *)
SinFinal(i) ==
    SubSeq(data, 1, IF i > 1 /\ recibido[data[i - 1]] = "cr" THEN i - 2 ELSE i - 1)

DemasiadoLarga(l) == Len(l) >= MaxMessage

Extraer(i) ==
    /\ data' = SubSeq(data, i + 1, Len(data))
    /\ LET de == {data[j] : j \in 1..i} IN
        respondidas' = Append(respondidas, IF DemasiadoLarga(SinFinal(i)) THEN Err413(de)
                                           ELSE Linea(SinFinal(i), de))
    /\ UNCHANGED <<recibido, leidos, discarding, problema>>

LineaCompleta ==
    /\ fase = "next"
    /\ \E i \in DOMAIN data : EsFin(i) /\ Extraer(i)
    /\ UNCHANGED fase

(* The line was BYE, or its answer could not be sent: the session ends. *)
LineaFinal ==
    /\ fase = "next"
    /\ \E i \in DOMAIN data : EsFin(i) /\ Extraer(i)
    /\ fase' = "fin"

SinLinea ==
    /\ fase = "next"
    /\ \A i \in DOMAIN data : ~EsFin(i)
    /\ fase' = "recv"
    /\ UNCHANGED <<recibido, leidos, data, discarding, problema, respondidas>>

Next == Recv \/ RecvFin \/ PushByte \/ PushFin \/ LineaCompleta \/ LineaFinal \/ SinLinea

Spec == Init /\ [][Next]_vars

-----------------------------------------------------------------------------
(* The reference: the lines a stream s consists of.  Line <<i, j>> has its  *)
(* first byte at i and its terminator at j.                                 *)
Inicio(s, i) == i = 1 \/ s[i - 1] = "nl"
Lineas(s) ==
    {r \in (1..Len(s)) \X (1..Len(s)) :
        /\ r[1] <= r[2] /\ Inicio(s, r[1]) /\ s[r[2]] = "nl"
        /\ \A p \in r[1]..(r[2] - 1) : s[p] # "nl"}

(* What the dispatcher should get for line r. *)
Contenido(s, r) ==
    LET n == IF r[2] > r[1] /\ s[r[2] - 1] = "cr" THEN r[2] - r[1] - 1 ELSE r[2] - r[1]
    IN  [k \in 1..n |-> r[1] + k - 1]

Atendidas == {k \in DOMAIN respondidas : respondidas[k].tipo = "linea"}

(* Every variable stays in its range; data[] never overflows. *)
TypeOK ==
    /\ fase \in {"recv", "push", "next", "fin"}
    /\ recibido \in Seq(Bytes)
    /\ leidos \in 0..Len(recibido)
    /\ data \in Seq(1..Len(recibido)) /\ Len(data) < 2 * MaxMessage
    /\ discarding \in BOOLEAN /\ problema \subseteq 1..Len(recibido)
    /\ respondidas \in Seq([tipo : {"linea", "413"}, bytes : Seq(1..Len(recibido)),
                            de : SUBSET (1..Len(recibido))])

(* The dispatcher only ever sees whole lines of the stream, each once and in *)
(* order: no piece of a line that was too long is taken for a command,      *)
(* however recv() cut the stream.                                           *)
SoloLineasEnteras ==
    /\ TypeOK
    /\ \A k \in Atendidas :
         \E r \in Lineas(recibido) : respondidas[k].bytes = Contenido(recibido, r)
    /\ \A j, k \in Atendidas :
         (j < k /\ respondidas[j].bytes # <<>> /\ respondidas[k].bytes # <<>>)
            => respondidas[j].bytes[1] < respondidas[k].bytes[1]

(* While the client respects R5, none of its lines is refused and each is    *)
(* handed over with all its bytes, and what has no terminator yet is all in *)
(* data[]: the buffer is large enough for any way recv() cuts them.         *)
SinExcesosNadaSePierde ==
    (fase = "recv" /\ \A p \in 1..Len(recibido) : p >= MaxMessage =>
                         \E q \in (p - MaxMessage + 1)..p : recibido[q] = "nl")
        => /\ \A k \in DOMAIN respondidas : respondidas[k].tipo = "linea"
           /\ Len(respondidas) = Cardinality({p \in DOMAIN recibido : recibido[p] = "nl"})
           /\ \A r \in Lineas(recibido) : \E k \in DOMAIN respondidas :
                 respondidas[k] = Linea(Contenido(recibido, r), r[1]..r[2])
           /\ \A p \in DOMAIN recibido :
                 (\A q \in p..Len(recibido) : recibido[q] # "nl")
                     => \E i \in DOMAIN data : data[i] = p

(* MaxMessage bytes on end of S without a terminator: no line within R5 has  *)
(* them.                                                                    *)
Excede(S) ==
    \E p \in S : \A q \in p..(p + MaxMessage - 1) : q \in S /\ recibido[q] # "nl"

(* No line goes unnoticed and none is answered twice.  Once the stream is    *)
(* read past a line there is one answer that speaks of its first byte: the  *)
(* line was handed over whole, and then it is within R5, or there is a 413  *)
(* for it.  Lines thrown away by the same push, too long or behind one that *)
(* is, share that push's 413, and no 413 is given where no line breaks R5   *)
(* (tsp_linebuf_push, tsp_linebuf_next and the loop of handle_tcp_client).  *)
CadaLineaSuRespuesta ==
    /\ fase = "recv" => \A r \in Lineas(recibido) : \E k \in DOMAIN respondidas :
          /\ r[1] \in respondidas[k].de
          /\ \/ respondidas[k].tipo = "413"
             \/ /\ respondidas[k] = Linea(Contenido(recibido, r), r[1]..r[2])
                /\ Len(Contenido(recibido, r)) < MaxMessage
    /\ \A j, k \in DOMAIN respondidas :
          j # k => respondidas[j].de \cap respondidas[k].de = {}
    /\ \A k \in DOMAIN respondidas :
          respondidas[k].tipo = "413" => Excede(respondidas[k].de)
=============================================================================
